----------------------------- MODULE WriterTabs -----------------------------
(***************************************************************************)
(* The card-writing agent's tabs: the column of the editor page            *)
(* (packages/ui/src/client/WriterColumn.tsx) keeps the sessions of one     *)
(* workspace in runtime/.writer-sessions.json, and the engine's boot       *)
(* collects the logs of those that were closed (writerLogGC in             *)
(* packages/engine/src/index.ts).  The file lives in runtime/, so whatever *)
(* replaces runtime/ replaces it too.  One tab of the browser; the         *)
(* column mounts again whenever the page does.  sessions.create is the     *)
(* kernel's, external.                                                     *)
(***************************************************************************)
EXTENDS Naturals, Sequences, FiniteSetsExt, SequencesExt

CONSTANTS MaxWriters, (* bound: writer sessions created or on their way       *)
          MaxMounts,  (* bound: mounts of the column                          *)
          MaxMishaps  \* bound: calls that fail, swaps of runtime/, restarts

ASSUME WriterAssumption ==
  MaxWriters \in Nat /\ MaxMounts \in Nat /\ MaxMishaps \in Nat

Writers == 1..MaxWriters
Columns == 1..MaxMounts
NoColumn == 0

VARIABLES
  registry,  \* the file: live sessions, their order left out; closed ones; absent is empty
  savedCopy, \* its copy in a save
  logs,      \* sessions with a durable log, written lazily
  writers,   \* sessions created so far
  mounts,    \* mounts of the column so far
  shown,     \* the mounted column, or NoColumn
  loaded,    \* columns whose read of the registry was answered
  tabs,      \* per column: tabsRef
  tombs,     \* per column: deletedRef
  creating,  \* creates on their way, in click order, with what they captured
  sending,   \* registry reads and writes on their way
  stale,     \* columns up to this one belong to a session no longer bound
  opened,    \* history: sessions a column registered
  closed,    \* history: sessions the user closed or cleared
  unsent,    \* history: a call failed that should have been answered
  swapped,   \* history: runtime/ was replaced by a tree with another registry
  outrun,    \* history: a create was answered after the strip it builds on had changed
  mishaps    \* a counter for the bound

writerVars == <<registry, savedCopy, logs, writers, mounts, shown, loaded, tabs, tombs,
                creating, sending, stale, opened, closed, unsent, swapped, outrun,
                mishaps>>

Registry(sessions, deleted) == [sessions |-> sessions, deleted |-> deleted]
Empty == Registry({}, {})

Registries == [sessions : SUBSET Writers, deleted : SUBSET Writers]
Requests == [column : Columns, base : Registries, old : Writers \cup {0}]
WriterCalls == [column : Columns, text : {<<>>} \cup {<<reg>> : reg \in Registries}]

WritersTypeOK ==
  /\ registry \in Registries /\ savedCopy \in Registries
  /\ logs \subseteq Writers /\ writers \in 0..MaxWriters
  /\ mounts \in 0..MaxMounts /\ shown \in Columns \cup {NoColumn} /\ loaded \subseteq Columns
  /\ tabs \in [Columns -> SUBSET Writers] /\ tombs \in [Columns -> SUBSET Writers]
  /\ creating \in Seq(Requests) /\ sending \in Seq(WriterCalls) /\ stale \in 0..MaxMounts
  /\ opened \subseteq Writers /\ closed \subseteq Writers
  /\ unsent \in BOOLEAN /\ swapped \in BOOLEAN /\ outrun \in BOOLEAN /\ mishaps \in 0..MaxMishaps

WritersInit ==
  /\ registry = Empty /\ savedCopy = Empty /\ logs = {} /\ writers = 0
  /\ mounts = 0 /\ shown = NoColumn /\ loaded = {}
  /\ tabs = [c \in Columns |-> {}] /\ tombs = [c \in Columns |-> {}]
  /\ creating = <<>> /\ sending = <<>> /\ stale = 0
  /\ opened = {} /\ closed = {} /\ unsent = FALSE /\ swapped = FALSE
  /\ outrun = FALSE /\ mishaps = 0

diskVars == <<registry, savedCopy, logs>>
columnVars == <<mounts, shown, loaded>>
stripVars == <<tabs, tombs>>

NewTab(c, base) == [column |-> c, base |-> base, old |-> 0]
Replacement(c, old) == [column |-> c, base |-> Empty, old |-> old]
Read(c) == [column |-> c, text |-> <<>>]
Write(c, reg) == [column |-> c, text |-> <<reg>>]
Writes == {k \in DOMAIN sending : sending[k].text # <<>>}

\* The registry once the calls on their way are served.
Latest == IF Writes = {} THEN registry ELSE sending[Max(Writes)].text[1]

\* A strip that is up to date; what the boot collected it may still bury.
Covers(reg) == reg.sessions = Latest.sessions /\ Latest.deleted \subseteq reg.deleted

Mishap == mishaps < MaxMishaps /\ mishaps' = mishaps + 1

\* writeRegistry: the column's refs follow, the call may still be refused: the
\* session it names is unbound after a rebind.
writeRegistry(c, sessions, deleted) ==
  /\ tabs' = [tabs EXCEPT ![c] = sessions] /\ tombs' = [tombs EXCEPT ![c] = deleted]
  /\ IF c > stale
       THEN sending' = Append(sending, Write(c, Registry(sessions, deleted))) /\ UNCHANGED unsent
       ELSE unsent' = TRUE /\ UNCHANGED sending

(***************************************************************************)
(* The column                                                              *)
(***************************************************************************)
\* The page opens: the registry is read.
Mount ==
  /\ shown = NoColumn /\ mounts < MaxMounts
  /\ mounts' = mounts + 1 /\ shown' = mounts + 1
  /\ sending' = Append(sending, Read(mounts + 1))
  /\ UNCHANGED <<diskVars, writers, loaded, stripVars, creating, stale, opened, closed,
                 unsent, swapped, mishaps, outrun>>

\* The page is left; what is on its way goes on without it.
Unmount ==
  /\ shown # NoColumn /\ shown' = NoColumn
  /\ UNCHANGED <<diskVars, writers, mounts, loaded, stripVars, creating, sending, stale,
                 opened, closed, unsent, swapped, mishaps, outrun>>

\* The read is answered: the strip shows the tabs, or creates the first one; an
\* absent file is a failed read, and the strip waits for that create.
Loads(c, reg) ==
  IF shown # c THEN UNCHANGED <<loaded, stripVars, creating>>
  ELSE /\ loaded' = IF reg = Empty THEN loaded ELSE loaded \cup {c}
       /\ tabs' = [tabs EXCEPT ![c] = reg.sessions] /\ tombs' = [tombs EXCEPT ![c] = reg.deleted]
       /\ creating' = IF reg.sessions = {} THEN Append(creating, NewTab(c, reg)) ELSE creating

\* The engine serves the next call of the page.
Served ==
  /\ sending # <<>> /\ sending' = Tail(sending)
  /\ LET call == Head(sending) IN
       IF call.text = <<>>
         THEN Loads(call.column, registry) /\ UNCHANGED registry
         ELSE registry' = call.text[1] /\ UNCHANGED <<loaded, stripVars, creating>>
  /\ UNCHANGED <<savedCopy, logs, writers, mounts, shown, stale, opened, closed, unsent,
                 swapped, mishaps, outrun>>

\* The call fails: a write is dropped in silence, a failed read passes for an
\* empty registry.
CallFails ==
  /\ sending # <<>> /\ Mishap /\ sending' = Tail(sending) /\ unsent' = TRUE
  /\ LET call == Head(sending) IN
       IF call.text = <<>> THEN Loads(call.column, Empty)
                           ELSE UNCHANGED <<loaded, stripVars, creating>>
  /\ UNCHANGED <<diskVars, writers, mounts, shown, stale, opened, closed, swapped, outrun>>

\* The plus button: the registry of the moment is captured.  The clear button
\* captures the tab only.
CreateTab(request) ==
  /\ writers + Len(creating) < MaxWriters
  /\ creating' = Append(creating, request)
  /\ UNCHANGED <<diskVars, writers, columnVars, stripVars, sending, stale, opened, closed,
                 unsent, swapped, mishaps, outrun>>

clickNew ==
  /\ shown \in loaded
  /\ CreateTab(NewTab(shown, Registry(tabs[shown], tombs[shown])))

clearActive ==
  /\ shown \in loaded
  /\ \E s \in tabs[shown] : CreateTab(Replacement(shown, s))

Replaced(sessions, old, fresh) == {IF s = old THEN fresh ELSE s : s \in sessions}

\* Mutant: clearing a tab forgets to bury its session.
CreatedUnburied(request, fresh) ==
  IF request.old = 0
    THEN writeRegistry(request.column, request.base.sessions \cup {fresh}, request.base.deleted)
    ELSE writeRegistry(request.column, Replaced(tabs[request.column], request.old, fresh),
                       tombs[request.column])

\* Mutant: a new tab is registered without the tabs it was captured with.
CreatedAlone(request, fresh) ==
  IF request.old = 0
    THEN writeRegistry(request.column, {fresh}, request.base.deleted)
    ELSE writeRegistry(request.column, Replaced(tabs[request.column], request.old, fresh),
                       tombs[request.column] \cup {request.old})

\* What a resolved create registers: the captured strip and the new tab, or the
\* strip of now with the cleared tab's session replaced and buried.
Created(request, fresh) ==
  IF request.old = 0
    THEN writeRegistry(request.column, request.base.sessions \cup {fresh}, request.base.deleted)
    ELSE writeRegistry(request.column, Replaced(tabs[request.column], request.old, fresh),
                       tombs[request.column] \cup {request.old})

\* The strip the answer builds on is out of date, the tab to be replaced is gone,
\* or the page has been left and opened again: another column has read the file.
Outruns(request) ==
  \/ ~Covers(IF request.old = 0 THEN request.base
              ELSE Registry(tabs[request.column], tombs[request.column]))
  \/ request.old \notin tabs[request.column] \cup {0}
  \/ shown \notin {request.column, NoColumn}

CreateResolves(k) ==
  /\ k \in DOMAIN creating /\ writers < MaxWriters
  /\ LET request == creating[k]
         fresh == writers + 1 IN
       /\ Created(request, fresh)
       /\ writers' = fresh /\ opened' = opened \cup {fresh}
       /\ closed' = closed \cup ({request.old} \cap Writers)
       /\ loaded' = loaded \cup {request.column}
       /\ outrun' = (outrun \/ Outruns(request))
  /\ creating' = RemoveAt(creating, k)
  /\ UNCHANGED <<diskVars, mounts, shown, stale, swapped, mishaps>>

\* A rejected plus puts the captured strip back, a rejected clear keeps the tab.
CreateRejects(k) ==
  /\ k \in DOMAIN creating /\ Mishap
  /\ LET request == creating[k] IN
       /\ tabs' = IF request.old = 0
                    THEN [tabs EXCEPT ![request.column] = request.base.sessions] ELSE tabs
       /\ loaded' = loaded \cup {request.column}
       /\ outrun' = (outrun \/ /\ request.old = 0 /\ shown = request.column
                                 /\ ~Covers(Registry(request.base.sessions, tombs[shown])))
  /\ creating' = RemoveAt(creating, k)
  /\ UNCHANGED <<diskVars, writers, mounts, shown, tombs, sending, stale, opened, closed,
                 unsent, swapped>>

\* The close button, confirmed: out of the strip, into the tombstones.
Buries(s) == writeRegistry(shown, tabs[shown] \ {s}, tombs[shown] \cup {s})

closeActive ==
  /\ shown \in loaded
  /\ \E s \in tabs[shown] : Buries(s) /\ closed' = closed \cup {s}
  /\ UNCHANGED <<diskVars, writers, columnVars, creating, stale, opened, swapped, mishaps, outrun>>

\* The first prompt in a tab makes its session durable.
FirstPrompt ==
  /\ shown \in loaded
  /\ \E s \in tabs[shown] \ logs : logs' = logs \cup {s}
  /\ UNCHANGED <<registry, savedCopy, writers, columnVars, stripVars, creating, sending,
                 stale, opened, closed, unsent, swapped, mishaps, outrun>>

(***************************************************************************)
(* The workspace and the engine                                            *)
(***************************************************************************)
\* A save copies runtime/, this file with it.
SaveCopies ==
  /\ savedCopy # registry /\ savedCopy' = registry
  /\ UNCHANGED <<registry, logs, writers, columnVars, stripVars, creating, sending, stale,
                 opened, closed, unsent, swapped, mishaps, outrun>>

Swaps(reg) ==
  /\ Mishap
  /\ registry' = reg /\ swapped' = (swapped \/ reg # registry)
  /\ UNCHANGED <<savedCopy, logs, writers, columnVars, stripVars, creating, opened, closed,
                 outrun>>

\* load and reset also bind another session: calls in the old one's name fail.
Rebinds ==
  /\ \E reg \in {savedCopy, Empty} : Swaps(reg)
  /\ stale' = mounts /\ sending' = <<>>
  /\ unsent' = (unsent \/ Writes # {})

\* Importing, editing or giving up a card re-seeds or wipes runtime/ under the
\* same session.
Reseeds == Swaps(Empty) /\ UNCHANGED <<sending, stale, unsent>>

\* writerLogGC: the logs of closed sessions no tab names.
Collects(reg) == reg.deleted \ reg.sessions

\* A restart, once the calls of the page have failed; existence of the log, not
\* success of its removal, keeps a tombstone.
writerLogGC ==
  /\ sending = <<>> /\ creating = <<>> /\ Mishap
  /\ logs' = logs \ Collects(registry)
  /\ registry' = [registry EXCEPT !.deleted = @ \cap (logs \ Collects(registry))]
  /\ UNCHANGED <<savedCopy, writers, columnVars, stripVars, creating, sending, stale,
                 opened, closed, unsent, swapped, outrun>>

WritersNext ==
  \/ Mount \/ Unmount \/ Served \/ CallFails \/ clickNew \/ clearActive \/ closeActive
  \/ FirstPrompt \/ SaveCopies \/ Rebinds \/ Reseeds \/ writerLogGC
  \/ \E k \in DOMAIN creating : CreateResolves(k) \/ CreateRejects(k)

WritersSpec == WritersInit /\ [][WritersNext]_writerVars

(***************************************************************************)
(* Properties                                                              *)
(***************************************************************************)
Buried == /\ closed \cap Latest.sessions = {}
          /\ closed \cap logs \subseteq Latest.deleted

\* Nothing has happened yet that the properties excuse; a bound of the runs, which
\* do not follow a behaviour beyond it.
StillClaimed == ~unsent /\ ~swapped /\ ~outrun

\* A session the user closed or cleared is no tab any more and stays buried until
\* its log is collected: across remounts, restarts, creates that fail, and clears
\* and closes that overlap, as long as no write is lost, runtime/ is not replaced
\* and no create is answered after the strip it builds on has changed.
ClosedStaysClosed == StillClaimed => Buried

\* A session the column created and the user did not close stays a tab, under the
\* same conditions: a clear that is answered after other tabs were closed, cleared
\* or opened puts its session into the strip of now.
OpenTabsStay == StillClaimed => opened \ closed \subseteq Latest.sessions

\* What the column's own description says of the close button, whenever the
\* creates on their way are answered.
ClosedForGood == ~unsent /\ ~swapped => Buried
=============================================================================
