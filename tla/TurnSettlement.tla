--------------------------- MODULE TurnSettlement ---------------------------
(***************************************************************************)
(* The settlement of a narrative turn in the engine of the tavern profile  *)
(* (packages/engine/src/index.ts): what happens, for ONE session, between  *)
(* the kernel's turn/end and the tavern-tail-done signal.  The actors are  *)
(* the kernel's loop of the main agent, the settlement chain               *)
(* main -> main.after -> tail -> tail.after, the forked tail child, the    *)
(* card's hook scripts, the player (submit, stop, cancel, load, reset) and *)
(* a crash of the process.  What JavaScript runs between two awaits is one *)
(* action.  The kernel and the model provider are external: modelled from  *)
(* how the engine uses them.                                               *)
(***************************************************************************)
EXTENDS Integers, Sequences

CONSTANTS MaxTurns,    (* bound: turns the kernel starts                     *)
          MaxQueued,   (* bound: submissions waiting in the inbox            *)
          MaxStops,    (* bound: presses of the stop key                     *)
          MaxCrashes,  (* bound: crashes of the engine's process             *)
          MaxHooks,    (* bound: scripts one phase of preset/hooks.json lists *)
          DiskFaults,  (* may reading or writing the card's files throw?     *)
          Rebinds      (* the player's ways to rebind: "load", "reset"       *)

ASSUME BoundsAssumption ==
  /\ MaxTurns \in Nat /\ MaxQueued \in Nat /\ MaxStops \in Nat
  /\ MaxCrashes \in Nat /\ MaxHooks \in Nat
  /\ DiskFaults \in BOOLEAN /\ Rebinds \subseteq {"load", "reset"}

Phases == {"main.after", "tail.after"}
Reasons == {"completed", "error", "aborted"}   \* event.data.reason.kind of a turn/end
Unread == -1     \* a phase that has not read the hook registry yet
NoGate == 0      \* a gate, a run, a file head are named by a turnSeq, from 1

VARIABLES
  log,             \* durable events: "turn/start", a turn/end's reason, "command/done"
  bound,           \* the session is a key of the engine's `workspaces`
  queued,          \* messages in the main agent's inbox
  main,            \* the kernel's loop of the main agent
  awaiting,        \* the gate the pre-step listener read, NoGate if none
  cancelled,       \* the active turn was cancelled
  turns,           \* turns started, a counter for the bound
  stopped,         \* the session is in the engine's `stopped` set
  pressed,         \* history: stop was pressed while this turn was open
  stops,           \* presses of stop, a counter for the bound
  gate,            \* the entry of `gates`
  run,             \* the entry of `tailRuns`
  aborted,         \* the run's AbortController has fired
  barOpen,         \* the run's mainAfterDone has been released
  chain,           \* the settlement chain's program counter
  tail,            \* the tail phase's program counter
  childKnown,      \* the run records the child's id
  child,           \* the tail child's agent loop
  childCancelled,  \* the child was cancelled
  hooks,           \* per phase: scripts left to run, or Unread
  hookRunning,     \* per phase: one of its scripts is running
  tailFile,        \* turnSeq in the head of runtime/.chat.tail.jsonl
  notifyDue,       \* a microtask that calls notifyTailSettled is pending
  rebind,          \* the rebinding call's program counter
  fenced,          \* the gate that call awaits
  crashes          \* crashes, a counter for the bound

kernelVars == <<queued, main, awaiting, cancelled, turns>>
playerVars == <<stopped, pressed, stops>>
runVars    == <<run, aborted, barOpen>>
tailVars   == <<tail, childKnown, child, childCancelled>>
hookVars   == <<hooks, hookRunning>>
rebindVars == <<rebind, fenced>>
vars == <<log, bound, kernelVars, playerVars, gate, runVars, chain, tailVars,
          hookVars, tailFile, notifyDue, rebindVars, crashes>>

ControlTypes ==
  /\ main \in {"idle", "pre-step", "waiting", "step"}
  /\ chain \in {"off", "main.after", "join"}
  /\ tail \in {"off", "start", "result", "write", "tail.after", "done", "failed"}
  /\ child \in {"none", "pre-step", "barred", "step", "ok", "failed"}
  /\ rebind \in {"none", "fence", "create"}

FlagTypes ==
  /\ bound \in BOOLEAN /\ cancelled \in BOOLEAN
  /\ stopped \in BOOLEAN /\ pressed \in BOOLEAN
  /\ aborted \in BOOLEAN /\ barOpen \in BOOLEAN
  /\ childKnown \in BOOLEAN /\ childCancelled \in BOOLEAN
  /\ notifyDue \in BOOLEAN

NumberTypes ==
  /\ log \in Seq({"turn/start", "command/done"} \cup Reasons)
  /\ gate \in Nat /\ run \in Nat /\ awaiting \in Nat /\ fenced \in Nat /\ tailFile \in Nat
  /\ queued \in 0..MaxQueued /\ turns \in 0..MaxTurns
  /\ stops \in 0..MaxStops /\ crashes \in 0..MaxCrashes

HookTypes ==
  /\ hooks \in [Phases -> Unread..MaxHooks]
  /\ hookRunning \in [Phases -> BOOLEAN]

TypeOK == ControlTypes /\ FlagTypes /\ NumberTypes /\ HookTypes

Init ==
  /\ log = <<>> /\ bound = TRUE
  /\ queued = 0 /\ main = "idle" /\ awaiting = NoGate /\ cancelled = FALSE /\ turns = 0
  /\ stopped = FALSE /\ pressed = FALSE /\ stops = 0
  /\ gate = NoGate /\ run = NoGate /\ aborted = FALSE /\ barOpen = FALSE /\ chain = "off"
  /\ tail = "off" /\ childKnown = FALSE /\ child = "none" /\ childCancelled = FALSE
  /\ hooks = [p \in Phases |-> 0] /\ hookRunning = [p \in Phases |-> FALSE]
  /\ tailFile = NoGate /\ notifyDue = FALSE
  /\ rebind = "none" /\ fenced = NoGate /\ crashes = 0

-----------------------------------------------------------------------------
(* The settlement signal and the scan of the durable log.                   *)

TurnEnds == {e \in 1..Len(log) : log[e] \in Reasons}

\* notifyTailSettled; the command/run that precedes it says nothing more.
Signed == Append(log, "command/done")

\* Mutant: the scan looks for a later turn/start only.
ScanIgnoresSignals ==
  \E e \in TurnEnds : \A i \in e+1..Len(log) : log[i] \notin Reasons \cup {"turn/start"}

\* The last turn/end exists, with no turn/start and no signal behind it.
settlementUnsigned ==
  \E e \in TurnEnds :
    \A i \in e+1..Len(log) : log[i] \notin Reasons \cup {"turn/start", "command/done"}

\* A closed turn that no later signal covers: the client's lock waits for it.
Owed == \E e \in TurnEnds : \A i \in e+1..Len(log) : log[i] # "command/done"

\* Mutant: the next turn waits for main.after only.
GateWithoutTail(g) == g = NoGate \/ chain # "main.after" \/ gate # g

\* A chain's promise is settled once the chain has ended, in the map or not.
GateSettled(g) == g = NoGate \/ chain = "off" \/ gate # g

\* A pending microtask runs before the next call from outside the process.
Macrotask == ~notifyDue

-----------------------------------------------------------------------------
(* The kernel's loop of the main agent (external) and the engine's          *)
(* listeners on it.                                                         *)

Submit ==
  /\ Macrotask /\ queued < MaxQueued
  /\ queued' = queued + 1
  /\ UNCHANGED <<log, bound, main, awaiting, cancelled, turns, playerVars, gate, runVars, chain,
                 tailVars, hookVars, tailFile, notifyDue, rebindVars, crashes>>

\* Mutant: turn/start leaves the marker of an earlier stop alone.
KeepStopMark == UNCHANGED stopped

\* onSessionEvent on turn/start: a bound session's stop marker goes.
DropStopMark == stopped' = (stopped /\ ~bound)

\* An idle loop claims what it finds in the inbox.
TurnStart ==
  /\ main = "idle" /\ queued > 0 /\ turns < MaxTurns
  /\ log' = Append(log, "turn/start")
  /\ \E left \in 0..queued-1 : queued' = left
  /\ main' = "pre-step" /\ cancelled' = FALSE /\ turns' = turns + 1
  /\ DropStopMark /\ pressed' = FALSE
  /\ UNCHANGED <<bound, awaiting, stops, gate, runVars, chain, tailVars, hookVars,
                 tailFile, notifyDue, rebindVars, crashes>>

\* gate(): the listener reads the gate once ...
PreStep ==
  /\ main = "pre-step"
  /\ main' = "waiting" /\ awaiting' = gate
  /\ UNCHANGED <<log, bound, queued, cancelled, turns, playerVars, gate, runVars, chain,
                 tailVars, hookVars, tailFile, notifyDue, rebindVars, crashes>>

\* ... and lets the step in when that promise has settled.
EnterStep ==
  /\ main = "waiting" /\ ~cancelled /\ GateSettled(awaiting)
  /\ main' = "step" /\ awaiting' = NoGate
  /\ UNCHANGED <<log, bound, queued, cancelled, turns, playerVars, gate, runVars, chain,
                 tailVars, hookVars, tailFile, notifyDue, rebindVars, crashes>>

\* A step that called tools is followed by the next step of the turn.
NextStep ==
  /\ main = "step" /\ main' = "pre-step"
  /\ UNCHANGED <<log, bound, queued, awaiting, cancelled, turns, playerVars, gate, runVars, chain,
                 tailVars, hookVars, tailFile, notifyDue, rebindVars, crashes>>

\* Where a turn may end, and how: a completion may still race the cancel.
TurnCloses(reason) ==
  /\ Macrotask
  /\ \/ reason \in {"completed", "error"} /\ main = "step"
     \/ reason = "aborted" /\ cancelled /\ main # "idle"
  /\ log' = Append(log, reason) /\ main' = "idle" /\ awaiting' = NoGate
  /\ UNCHANGED <<bound, queued, cancelled, turns, pressed, stops, tailFile, rebindVars, crashes>>

\* Mutant: the chain starts with the bar already released.
BeginWithBarOpen ==
  /\ run' = Len(log') /\ gate' = Len(log') /\ chain' = "main.after"
  /\ aborted' = FALSE /\ barOpen' = TRUE
  /\ tail' \in {"off", "start"}
  /\ childKnown' = FALSE /\ child' = "none" /\ childCancelled' = FALSE
  /\ hooks' = [p \in Phases |-> Unread] /\ hookRunning' = [p \in Phases |-> FALSE]

\* beginTurnSettlement, up to the chain's first await. A maintenance prompt
\* forks the tail; without one the tail phase does not exist.
beginTurnSettlement ==
  LET turnSeq == Len(log') IN
  /\ run' = turnSeq /\ gate' = turnSeq /\ chain' = "main.after"
  /\ aborted' = FALSE /\ barOpen' = FALSE
  /\ tail' \in {"off", "start"}
  /\ childKnown' = FALSE /\ child' = "none" /\ childCancelled' = FALSE
  /\ hooks' = [p \in Phases |-> Unread] /\ hookRunning' = [p \in Phases |-> FALSE]

\* The synchronous part of beginTurnSettlement throws. Reading the maintenance
\* prompt fails: the run stays behind. writeToolsSnapshot fails: the chain's
\* finally runs inside the turn/end dispatch, where the kernel refuses the
\* signal's append, and only then is the gate stored.
FailTurnSettlement ==
  /\ DiskFaults
  /\ \/ run' = Len(log') /\ tail' = "off" /\ UNCHANGED gate
     \/ run' = NoGate /\ gate' = Len(log') /\ tail' \in {"off", "start"}
  /\ chain' = "off" /\ aborted' = FALSE /\ barOpen' = FALSE
  /\ childKnown' = FALSE /\ child' = "none" /\ childCancelled' = FALSE
  /\ hooks' = [p \in Phases |-> Unread] /\ hookRunning' = [p \in Phases |-> FALSE]

\* onSessionEvent on turn/end.
TurnEnd(reason) ==
  /\ TurnCloses(reason)
  /\ \/ /\ ~bound \/ gate # NoGate
        /\ UNCHANGED <<stopped, gate, runVars, chain, tailVars, hookVars, notifyDue>>
     \/ /\ bound /\ gate = NoGate
        /\ reason = "completed" /\ ~stopped
        /\ beginTurnSettlement \/ FailTurnSettlement
        /\ UNCHANGED <<stopped, notifyDue>>
     \/ /\ bound /\ gate = NoGate
        /\ reason # "completed" \/ stopped
        /\ stopped' = FALSE /\ notifyDue' = TRUE
        /\ UNCHANGED <<gate, runVars, chain, tailVars, hookVars>>

\* The queued microtask.
NotifyTailSettled ==
  /\ notifyDue
  /\ notifyDue' = FALSE /\ log' = Signed
  /\ UNCHANGED <<bound, kernelVars, playerVars, gate, runVars, chain, tailVars, hookVars,
                 tailFile, rebindVars, crashes>>

-----------------------------------------------------------------------------
(* runHookPhase: quiesce, read the registry, run its scripts in list order. *)

\* Which phase a continuation belongs to.
InPhase(p) == IF p = "main.after" THEN chain = "main.after" ELSE tail = "tail.after"

ReadHooks(p) ==
  /\ InPhase(p) /\ hooks[p] = Unread
  /\ \E n \in 0..MaxHooks : hooks' = [hooks EXCEPT ![p] = n]
  /\ UNCHANGED <<log, bound, kernelVars, playerVars, gate, runVars, chain, tailVars, hookRunning,
                 tailFile, notifyDue, rebindVars, crashes>>

\* Mutant: the loop over the entries does not look at the abort signal.
NextScriptAnyway(p) == InPhase(p) /\ hooks[p] > 0 /\ ~hookRunning[p]

\* A fired abort signal skips everything still pending.
NextScript(p) == InPhase(p) /\ hooks[p] > 0 /\ ~hookRunning[p] /\ ~aborted

StartHook(p) ==
  /\ NextScript(p)
  /\ hookRunning' = [hookRunning EXCEPT ![p] = TRUE]
  /\ UNCHANGED <<log, bound, kernelVars, playerVars, gate, runVars, chain, tailVars, hooks,
                 tailFile, notifyDue, rebindVars, crashes>>

\* A script ends by itself, by its timeout or by the abort: the phase goes on.
EndHook(p) ==
  /\ hookRunning[p]
  /\ hookRunning' = [hookRunning EXCEPT ![p] = FALSE]
  /\ hooks' = [hooks EXCEPT ![p] = hooks[p] - 1]
  /\ UNCHANGED <<log, bound, kernelVars, playerVars, gate, runVars, chain, tailVars,
                 tailFile, notifyDue, rebindVars, crashes>>

\* Mutant: an abort does not cut the phase short.
PhaseRunsOut(p) == InPhase(p) /\ ~hookRunning[p] /\ hooks[p] = 0

PhaseOver(p) ==
  /\ InPhase(p) /\ ~hookRunning[p] /\ hooks[p] # Unread
  /\ hooks[p] = 0 \/ aborted

-----------------------------------------------------------------------------
(* The settlement chain.                                                    *)

\* Mutants: the finally forgets tailRuns; it forgets the signal.
SettleLeavesRun ==
  /\ gate' = NoGate /\ chain' = "off" /\ log' = Signed /\ UNCHANGED run
SettleSilently ==
  /\ run' = NoGate /\ gate' = NoGate /\ chain' = "off" /\ UNCHANGED log

\* The chain's finally: both table entries go and the signal is appended.
SettleChain ==
  /\ run' = NoGate /\ gate' = NoGate /\ chain' = "off" /\ log' = Signed

\* main.after settled: the bar is released, a tail phase is joined if any.
MainAfterDone ==
  /\ chain = "main.after" /\ PhaseOver("main.after")
  /\ barOpen' = TRUE
  /\ \/ tail = "off" /\ SettleChain
     \/ tail # "off" /\ chain' = "join" /\ UNCHANGED <<log, run, gate>>
  /\ UNCHANGED <<bound, kernelVars, playerVars, aborted, tailVars, hookVars,
                 tailFile, notifyDue, rebindVars, crashes>>

\* Mutant: a rejected tail phase is never joined.
JoinFulfilledOnly ==
  /\ chain = "join" /\ tail = "done"
  /\ SettleChain
  /\ UNCHANGED <<bound, kernelVars, playerVars, aborted, barOpen, tailVars, hookVars,
                 tailFile, notifyDue, rebindVars, crashes>>

\* The tail phase fulfilled or rejected; a rejection is only logged.
TailJoined ==
  /\ chain = "join" /\ tail \in {"done", "failed"}
  /\ SettleChain
  /\ UNCHANGED <<bound, kernelVars, playerVars, aborted, barOpen, tailVars, hookVars,
                 tailFile, notifyDue, rebindVars, crashes>>

-----------------------------------------------------------------------------
(* The tail phase and the tail child (the child's loop is external).        *)

\* The fork publishes the child before start() resolves.
ChildHatches ==
  /\ tail = "start" /\ child = "none"
  /\ child' = "pre-step"
  /\ UNCHANGED <<log, bound, kernelVars, playerVars, gate, runVars, chain, tail, childKnown,
                 childCancelled, hookVars, tailFile, notifyDue, rebindVars, crashes>>

\* Mutant: what is recorded after a stop is not cancelled.
StartIgnoresAbort ==
  /\ tail = "start" /\ child # "none"
  /\ tail' = "result" /\ childKnown' = TRUE
  /\ UNCHANGED <<log, bound, kernelVars, playerVars, gate, runVars, chain, child, childCancelled,
                 hookVars, tailFile, notifyDue, rebindVars, crashes>>

\* start() resolved: record the child, cancel it if a stop came first.
StartResolved ==
  /\ tail = "start" /\ child # "none"
  /\ tail' = "result" /\ childKnown' = TRUE
  /\ childCancelled' = (childCancelled \/ aborted)
  /\ UNCHANGED <<log, bound, kernelVars, playerVars, gate, runVars, chain, child, hookVars,
                 tailFile, notifyDue, rebindVars, crashes>>

StartRejected ==
  /\ tail = "start" /\ child = "none"
  /\ tail' = "failed"
  /\ UNCHANGED <<log, bound, kernelVars, playerVars, gate, runVars, chain, childKnown, child,
                 childCancelled, hookVars, tailFile, notifyDue, rebindVars, crashes>>

\* gate() for the child: the bar holds while its parent is bound and has a run.
ChildPreStep ==
  /\ child = "pre-step" /\ ~childCancelled
  /\ child' = IF bound /\ run # NoGate THEN "barred" ELSE "step"
  /\ UNCHANGED <<log, bound, kernelVars, playerVars, gate, runVars, chain, tail, childKnown,
                 childCancelled, hookVars, tailFile, notifyDue, rebindVars, crashes>>

ChildPassesBar ==
  /\ child = "barred" /\ barOpen /\ ~childCancelled
  /\ child' = "step"
  /\ UNCHANGED <<log, bound, kernelVars, playerVars, gate, runVars, chain, tail, childKnown,
                 childCancelled, hookVars, tailFile, notifyDue, rebindVars, crashes>>

\* The child's one-shot play ends well, or it fails, or its cancel lands.
ChildEnds(outcome) ==
  /\ \/ outcome = "ok" /\ child = "step"
     \/ outcome = "failed" /\ child \in {"pre-step", "barred"} /\ childCancelled
     \/ outcome = "failed" /\ child = "step"
  /\ child' = outcome
  /\ UNCHANGED <<log, bound, kernelVars, playerVars, gate, runVars, chain, tail, childKnown,
                 childCancelled, hookVars, tailFile, notifyDue, rebindVars, crashes>>

\* Mutants: a rejected play counts as played; the outcome is kept as the phase.
ResultIgnored ==
  /\ tail = "result" /\ child \in {"ok", "failed"} /\ tail' = "write"
  /\ UNCHANGED <<log, bound, kernelVars, playerVars, gate, runVars, chain, childKnown, child,
                 childCancelled, hookVars, tailFile, notifyDue, rebindVars, crashes>>
ResultAsPhase ==
  /\ tail = "result" /\ child \in {"ok", "failed"} /\ tail' = child
  /\ UNCHANGED <<log, bound, kernelVars, playerVars, gate, runVars, chain, childKnown, child,
                 childCancelled, hookVars, tailFile, notifyDue, rebindVars, crashes>>

\* started.result: a rejection skips the narration file and tail.after.
ResultSettled ==
  /\ tail = "result" /\ child \in {"ok", "failed"}
  /\ tail' = IF child = "ok" THEN "write" ELSE "failed"
  /\ UNCHANGED <<log, bound, kernelVars, playerVars, gate, runVars, chain, childKnown, child,
                 childCancelled, hookVars, tailFile, notifyDue, rebindVars, crashes>>

WriteTailSnapshot ==
  /\ tail = "write"
  /\ \/ tail' = "tail.after" /\ tailFile' = gate   \* the run's turnSeq: its gate is in place
     \/ DiskFaults /\ tail' = "failed" /\ UNCHANGED tailFile
  /\ UNCHANGED <<log, bound, kernelVars, playerVars, gate, runVars, chain, childKnown, child,
                 childCancelled, hookVars, notifyDue, rebindVars, crashes>>

TailAfterDone ==
  /\ tail = "tail.after" /\ PhaseOver("tail.after")
  /\ tail' = "done"
  /\ UNCHANGED <<log, bound, kernelVars, playerVars, gate, runVars, chain, childKnown, child,
                 childCancelled, hookVars, tailFile, notifyDue, rebindVars, crashes>>

-----------------------------------------------------------------------------
(* The player.                                                              *)

\* What stop() and load() both do to an in-flight run.
AbortRun ==
  /\ aborted' = TRUE
  /\ childCancelled' = (childCancelled \/ childKnown)
  /\ UNCHANGED <<run, barOpen, tail, childKnown, child>>

\* The web client cancels the turn through the kernel as well.
Cancel ==
  /\ Macrotask /\ main # "idle" /\ ~cancelled
  /\ cancelled' = TRUE
  /\ UNCHANGED <<log, bound, queued, main, awaiting, turns, playerVars, gate, runVars, chain,
                 tailVars, hookVars, tailFile, notifyDue, rebindVars, crashes>>

\* stop(): mark, cancel the turn, then abort the run or heal the log.
Stop ==
  /\ Macrotask /\ stops < MaxStops
  /\ stops' = stops + 1 /\ stopped' = TRUE
  /\ pressed' = (pressed \/ main # "idle")
  /\ cancelled' = (cancelled \/ main # "idle")
  /\ \/ /\ run # NoGate /\ AbortRun /\ UNCHANGED log
     \/ /\ run = NoGate
        /\ log' = IF settlementUnsigned THEN Signed ELSE log
        /\ UNCHANGED <<runVars, tailVars>>
  /\ UNCHANGED <<bound, queued, main, awaiting, turns, gate, chain, hookVars,
                 tailFile, notifyDue, rebindVars, crashes>>

\* load(): abort the run behind a gate and await that gate, once.
LoadFence ==
  /\ Macrotask /\ "load" \in Rebinds /\ bound /\ rebind = "none"
  /\ rebind' = "fence" /\ fenced' = gate
  /\ \/ gate # NoGate /\ run # NoGate /\ AbortRun
     \/ (gate = NoGate \/ run = NoGate) /\ UNCHANGED <<runVars, tailVars>>
  /\ UNCHANGED <<log, bound, kernelVars, playerVars, gate, chain, hookVars,
                 tailFile, notifyDue, crashes>>

LoadCreates ==
  /\ rebind = "fence" /\ GateSettled(fenced)
  /\ rebind' = "create" /\ fenced' = NoGate
  /\ UNCHANGED <<log, bound, kernelVars, playerVars, gate, runVars, chain, tailVars, hookVars,
                 tailFile, notifyDue, crashes>>

\* reset() goes straight to creating the fresh session.
ResetCreates ==
  /\ Macrotask /\ "reset" \in Rebinds /\ bound /\ rebind = "none"
  /\ rebind' = "create"
  /\ UNCHANGED <<log, bound, kernelVars, playerVars, gate, runVars, chain, tailVars, hookVars,
                 tailFile, notifyDue, fenced, crashes>>

\* The fresh session exists: runtime/ is replaced and this one unbound.
RebindLands ==
  /\ rebind = "create"
  /\ rebind' = "none" /\ bound' = FALSE
  /\ UNCHANGED <<log, kernelVars, playerVars, gate, runVars, chain, tailVars, hookVars,
                 tailFile, notifyDue, fenced, crashes>>

-----------------------------------------------------------------------------
(* The process dies and comes back: tables are empty, the log, the inbox,   *)
(* the files and the binding survive. The kernel may close an open turn.    *)
Crash ==
  /\ crashes < MaxCrashes /\ crashes' = crashes + 1
  /\ \/ log' = log
     \/ main # "idle" /\ log' = Append(log, "error")
  /\ main' = "idle" /\ awaiting' = NoGate /\ cancelled' = FALSE
  /\ stopped' = FALSE /\ pressed' = FALSE
  /\ gate' = NoGate /\ run' = NoGate /\ aborted' = FALSE /\ barOpen' = FALSE /\ chain' = "off"
  /\ tail' = "off" /\ childKnown' = FALSE /\ child' = "none" /\ childCancelled' = FALSE
  /\ hooks' = [p \in Phases |-> 0] /\ hookRunning' = [p \in Phases |-> FALSE]
  /\ notifyDue' = FALSE /\ rebind' = "none" /\ fenced' = NoGate
  /\ \/ bound' = bound
     \/ rebind = "create" /\ bound' = FALSE   \* the marker named the fresh session
  /\ UNCHANGED <<queued, turns, stops, tailFile>>

-----------------------------------------------------------------------------
Kernel == PreStep \/ EnterStep \/ NextStep \/ TurnStart \/ \E r \in Reasons : TurnEnd(r)
HookPhase == \E p \in Phases : ReadHooks(p) \/ StartHook(p) \/ EndHook(p)
Chain == MainAfterDone \/ TailJoined
TailPhase == \/ ChildHatches \/ StartResolved \/ StartRejected
             \/ ChildPreStep \/ ChildPassesBar \/ \E o \in {"ok", "failed"} : ChildEnds(o)
             \/ ResultSettled \/ WriteTailSnapshot \/ TailAfterDone
Player == Submit \/ Cancel \/ Stop
Rebind == LoadFence \/ LoadCreates \/ ResetCreates \/ RebindLands

Next == \/ Kernel \/ NotifyTailSettled \/ HookPhase \/ Chain \/ TailPhase
        \/ Player \/ Rebind \/ Crash

Spec == Init /\ [][Next]_vars

(* What keeps running once it is due. A hook script dies by its timeout, a  *)
(* tail child plays one prompt and ends, continuations are scheduled by the *)
(* event loop, and the kernel's loop keeps stepping an open turn.           *)
Fairness ==
  /\ WF_vars(NotifyTailSettled) /\ WF_vars(HookPhase) /\ WF_vars(Chain)
  /\ WF_vars(TailPhase) /\ WF_vars(Kernel)
  /\ WF_vars(LoadCreates) /\ WF_vars(RebindLands)

FairSpec == Spec /\ Fairness

-----------------------------------------------------------------------------
(* Properties.                                                              *)

\* Between two settlement signals a turn has ended: no signal is sent twice
\* for one boundary, whichever of chain, microtask and stop's repair sends it
\* (the early return of onSessionEvent, settlementUnsigned).
NoDoubleSignal ==
  \A i, j \in 1..Len(log) :
    i < j /\ log[i] = "command/done" /\ log[j] = "command/done"
      => \E k \in i+1..j-1 : log[k] \in Reasons

\* The world of a card has one writer at a time: the main agent's step, a
\* main.after script, the tail child's step and a tail.after script exclude
\* one another (the pre-step gate and the mainAfterDone bar).
Writers ==
  {w \in {"main", "main.after", "tail", "tail.after"} :
     \/ w = "main" /\ main = "step"
     \/ w = "tail" /\ child = "step"
     \/ w \in Phases /\ hookRunning[w]}
OneWriter == \A v, w \in Writers : v = w

\* state().tailRunning, which reads `gates`, is true exactly while a chain runs,
\* and stop() finds that chain's run: no table entry outlives the chain.
TablesMatchChain == IF chain = "off" THEN gate = NoGate /\ run = NoGate
                                     ELSE gate # NoGate /\ run = gate

\* A tail.after script sees the narration file of its own turn on disk, and
\* only after the tail played to its end.
TailAfterFollowsTail == hookRunning["tail.after"] => tailFile = gate /\ child = "ok"

\* A bound session's completed turn gets its bookkeeping unless stop was
\* pressed during it, and no other turn does: no stop pressed at rest, under a
\* gate or in an earlier turn leaks into this one.
ArchivedUnlessStopped ==
  [][bound /\ main # "idle" /\ main' = "idle" /\ crashes' = crashes
       => (chain = "off" /\ chain' # "off")
            = (log'[Len(log')] = "completed" /\ ~pressed)]_vars

\* Once stop was pressed no further hook script starts for the aborted run.
NoHookAfterAbort ==
  [][aborted => \A p \in Phases : hookRunning'[p] => hookRunning[p]]_vars

\* A stop or a load reaches the tail child, on whichever side of start() it
\* lands: behind start() no child of an aborted run goes on uncancelled.
AbortReachesChild ==
  aborted /\ tail \notin {"off", "start"} /\ child \in {"pre-step", "barred", "step"}
    => childCancelled

\* The player's rebind never replaces runtime/ under a running chain.
SwapBehindFence == [][bound /\ ~bound' /\ crashes' = crashes => chain = "off"]_vars

\* Every turn boundary of a session that stays bound is followed by a
\* settlement signal, so the lock the client took for the turn is released.
BoundaryEventuallySigned == Owed /\ bound ~> ~(Owed /\ bound)

\* A table entry without a chain: beginTurnSettlement threw half way.
Leaked == chain = "off" /\ (gate # NoGate \/ run # NoGate)

\* Every boundary gets its signal, also when the tail's narration file cannot
\* be written, the player stops, loads or resets: only a settlement that threw
\* inside the turn/end dispatch, and left its table entry, keeps one back.
SignedUnlessLeaked == Owed /\ bound ~> ~(Owed /\ bound) \/ Leaked

\* The pre-step listener always returns: no turn is held behind a gate forever.
GateEventuallyOpens == main = "waiting" ~> main # "waiting"

\* A load's fence ends: the aborted chain it waits for settles.
FenceEventuallyPasses == rebind = "fence" ~> rebind # "fence"
=============================================================================
