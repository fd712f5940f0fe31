----------------------------- MODULE FileEvents -----------------------------
(***************************************************************************)
(* The channel that tells a page that files of its session changed:        *)
(* fs.watch, debounced batches and the event stream of                     *)
(* packages/engine/src/file-events.ts, the page's EventSource in           *)
(* packages/ui/src/client/file-events.ts.  One page.  A session is named   *)
(* by its workspace directory, directories sort by number; frames carry no *)
(* data, every hint makes the subscriber pull what is on the disk then.    *)
(* The operating system's watch and the browser's reconnect are external.  *)
(***************************************************************************)
EXTENDS Naturals, Sequences, FiniteSets, SequencesExt

CONSTANTS Directories,   (* workspace directories, numbers in sorting order     *)
          Orphans,       (* directories no session answers for                  *)
          PathsPerDir,   (* bound: paths of one directory that change           *)
          PathsCap,      (* FILES_PATHS_CAP                                     *)
          MaxChanges,    (* bound: changes on the disk                          *)
          MaxOutages     \* bound: watcher errors, and breaks of the stream

ASSUME EventsAssumption ==
  /\ Directories \subseteq Nat /\ Orphans \subseteq Directories
  /\ PathsPerDir \in Nat /\ PathsCap \in Nat
  /\ MaxChanges \in Nat /\ MaxOutages \in Nat

Sessions == Directories \ Orphans
Paths == Directories \X (1..PathsPerDir)
Unnamed == <<>>    \* a raw event without a filename

VARIABLES
  rev,        \* per directory: changes on the disk
  raw,        \* events the operating system has not delivered to onRaw yet
  watcher,    \* "open", or "closed" with the retry timer armed
  pending,    \* paths of the batch being collected
  hintUnknown,\* an event without a filename arrived in this batch
  armed,      \* the debounce timer is armed
  wire,       \* frames on their way to the page
  connected,  \* the hub has the page's connection
  subs,       \* sessions the page subscribes to
  sawHello,   \* the page's stream has said hello before
  degraded,   \* the page's slow pull is running
  pulled,     \* per directory: the revision the subscriber pulled last
  excused,    \* history, per directory: a change fell into a known gap
  changes, outages  \* counters for the bounds

eventVars == <<rev, raw, watcher, pending, hintUnknown, armed, wire, connected, subs,
               sawHello, degraded, pulled, excused, changes, outages>>

Hello == [type |-> "hello"]
Health(ok) == [type |-> "watch", ok |-> ok]
Files(d) == [type |-> "files", session |-> d]
Resync == [type |-> "files"]     \* sessionId null and no paths

Frames == {Hello, Resync} \cup {Health(ok) : ok \in BOOLEAN} \cup {Files(d) : d \in Sessions}

EventsTypeOK ==
  /\ rev \in [Directories -> 0..MaxChanges]
  /\ raw \subseteq Paths \cup {Unnamed}
  /\ watcher \in {"open", "closed"}
  /\ pending \subseteq Paths /\ hintUnknown \in BOOLEAN /\ armed \in BOOLEAN
  /\ wire \in Seq(Frames) /\ connected \in BOOLEAN
  /\ subs \subseteq Sessions /\ sawHello \in BOOLEAN /\ degraded \in BOOLEAN
  /\ pulled \in [Directories -> 0..MaxChanges]
  /\ excused \in [Directories -> BOOLEAN]
  /\ changes \in 0..MaxChanges /\ outages \in 0..MaxOutages

EventsInit ==
  /\ rev = [d \in Directories |-> 0] /\ raw = {} /\ watcher = "open"
  /\ pending = {} /\ hintUnknown = FALSE /\ armed = FALSE
  /\ wire = <<>> /\ connected = FALSE /\ subs = {} /\ sawHello = FALSE /\ degraded = FALSE
  /\ pulled = [d \in Directories |-> 0] /\ excused = [d \in Directories |-> FALSE]
  /\ changes = 0 /\ outages = 0

batchVars == <<pending, hintUnknown, armed>>
pageVars == <<subs, sawHello, degraded, pulled>>

\* The hub writes to the connections it has.
Broadcast(frames) == wire' = IF connected THEN wire \o frames ELSE wire

\* The subscribers of these sessions pull.
Pull(ds) ==
  /\ pulled' = [d \in Directories |-> IF d \in ds THEN rev[d] ELSE pulled[d]]
  /\ excused' = [d \in Directories |-> excused[d] /\ d \notin ds]

Excuse(ds) == excused' = [d \in Directories |-> excused[d] \/ d \in ds]

(***************************************************************************)
(* The watcher                                                             *)
(***************************************************************************)
\* Anybody writes a file; a change nobody watches is a known gap.
Change(p) ==
  /\ changes < MaxChanges /\ changes' = changes + 1
  /\ rev' = [rev EXCEPT ![p[1]] = @ + 1]
  /\ \/ watcher = "open" /\ raw' \in {raw \cup {p}, raw \cup {Unnamed}} /\ UNCHANGED excused
     \/ watcher = "closed" /\ Excuse({p[1]}) /\ UNCHANGED raw
  /\ UNCHANGED <<watcher, batchVars, wire, connected, pageVars, outages>>

\* onRaw: collect the path, or the hint; every event rearms the timer.
onRaw(e) ==
  /\ e \in raw /\ raw' = raw \ {e}
  /\ pending' = pending \cup ({e} \cap Paths)
  /\ hintUnknown' = (hintUnknown \/ e = Unnamed)
  /\ armed' = TRUE
  /\ UNCHANGED <<rev, watcher, wire, connected, pageVars, excused, changes, outages>>

\* flush: the first PathsCap paths in sorting order, grouped into one frame per
\* directory, where an empty batch is a hint already; a hint is a frame of its own.
\* Timers do not care for the watcher.
Precedes(p, q) == p[1] < q[1] \/ (p[1] = q[1] /\ p[2] < q[2])

Batch == {p \in pending : Cardinality({q \in pending : Precedes(q, p)}) < PathsCap}

Sorted(ds) == CHOOSE s \in SetToSeqs(ds) : \A i, j \in DOMAIN s : i < j => s[i] < s[j]

Groups ==
  LET told == Sorted({p[1] : p \in Batch} \cap Sessions)
  IN [k \in DOMAIN told |-> Files(told[k])]

\* Directories whose changes the cap cut off; a hint behind the batch covers them.
CutOff == IF hintUnknown THEN {} ELSE {p[1] : p \in pending} \ {p[1] : p \in Batch}

flush ==
  /\ armed /\ armed' = FALSE /\ pending' = {} /\ hintUnknown' = FALSE
  /\ Broadcast(Groups \o (IF pending = {} THEN <<Resync>> ELSE <<>>)
                      \o (IF hintUnknown THEN <<Resync>> ELSE <<>>))
  /\ \/ connected /\ Excuse(CutOff)
     \/ ~connected /\ sawHello /\ UNCHANGED excused
     \/ ~connected /\ ~sawHello /\ Excuse(Directories)
  /\ UNCHANGED <<rev, raw, watcher, connected, pageVars, changes, outages>>

\* The watcher reports an error: health frame, close, back off.  Events it has
\* not delivered are gone with it; what is pending is not.
WatchError ==
  /\ watcher = "open" /\ outages < MaxOutages /\ outages' = outages + 1
  /\ watcher' = "closed" /\ raw' = {}
  /\ Excuse(IF Unnamed \in raw THEN Directories ELSE {p[1] : p \in raw})
  /\ Broadcast(<<Health(FALSE)>>)
  /\ UNCHANGED <<rev, batchVars, connected, pageVars, changes>>

\* The retry timer: the watch opens again, or fails and backs off once more.
Reopen ==
  /\ watcher = "closed" /\ watcher' = "open"
  /\ Broadcast(<<Health(TRUE)>>)
  /\ UNCHANGED <<rev, raw, batchVars, connected, pageVars, excused, changes, outages>>

ReopenFails ==
  /\ watcher = "closed" /\ outages < MaxOutages /\ outages' = outages + 1
  /\ Broadcast(<<Health(FALSE)>>)
  /\ UNCHANGED <<rev, raw, watcher, batchVars, connected, pageVars, excused, changes>>

(***************************************************************************)
(* The stream and the page                                                 *)
(***************************************************************************)
\* A card mounts: it pulls once by itself and subscribes; the first
\* subscription opens the stream.
Subscribe(d) ==
  /\ d \notin subs /\ subs' = subs \cup {d}
  /\ Pull({d})
  /\ UNCHANGED <<rev, raw, watcher, batchVars, wire, connected, sawHello, degraded, changes, outages>>

\* The last one to leave closes the stream and forgets it ever said hello.
Unsubscribe(d) ==
  /\ d \in subs /\ subs' = subs \ {d}
  /\ IF subs' = {}
       THEN connected' = FALSE /\ wire' = <<>> /\ sawHello' = FALSE /\ degraded' = FALSE
       ELSE UNCHANGED <<connected, wire, sawHello, degraded>>
  /\ UNCHANGED <<rev, raw, watcher, batchVars, pulled, excused, changes, outages>>

\* The browser connects and reconnects by itself; the hub says hello first.
Connect ==
  /\ subs # {} /\ ~connected
  /\ connected' = TRUE /\ wire' = <<Hello>>
  /\ UNCHANGED <<rev, raw, watcher, batchVars, pageVars, excused, changes, outages>>

\* The stream breaks, with every frame on it.
Break ==
  /\ connected /\ outages < MaxOutages /\ outages' = outages + 1
  /\ connected' = FALSE /\ wire' = <<>>
  /\ IF sawHello THEN UNCHANGED excused ELSE Excuse(Directories)
  /\ UNCHANGED <<rev, raw, watcher, batchVars, pageVars, changes>>

\* Mutant: a stream that comes back says hello and nothing more.
HintedByFilesOnly(frame) ==
  IF frame = Resync THEN subs ELSE {d \in subs : frame = Files(d)}

\* The second hello and a frame without session resync everybody.
Hinted(frame) ==
  IF frame = Resync \/ (frame = Hello /\ sawHello) THEN subs
  ELSE {d \in subs : frame = Files(d)}

\* onmessage.
Receive ==
  /\ wire # <<>> /\ wire' = Tail(wire)
  /\ LET frame == Head(wire) IN
     /\ sawHello' = (sawHello \/ frame = Hello)
     /\ degraded' = IF frame = Health(FALSE) THEN TRUE
                    ELSE IF frame = Health(TRUE) THEN FALSE ELSE degraded
     /\ Pull(Hinted(frame))
  /\ UNCHANGED <<rev, raw, watcher, batchVars, connected, subs, changes, outages>>

\* The slow pull of a degraded page.
DegradedTick ==
  /\ degraded /\ Pull(subs)
  /\ UNCHANGED <<rev, raw, watcher, batchVars, wire, connected, subs, sawHello, degraded,
                 changes, outages>>

EventsNext ==
  \/ \E p \in Paths : Change(p) \/ onRaw(p)
  \/ onRaw(Unnamed) \/ flush \/ WatchError \/ Reopen \/ ReopenFails
  \/ \E d \in Sessions : Subscribe(d) \/ Unsubscribe(d)
  \/ Connect \/ Break \/ Receive \/ DegradedTick

\* Delivery, timers and reconnects happen; nobody has to write, mount or fail.
EventsFairness ==
  /\ \A e \in Paths \cup {Unnamed} : WF_eventVars(onRaw(e))
  /\ WF_eventVars(flush) /\ WF_eventVars(Reopen)
  /\ WF_eventVars(Connect) /\ WF_eventVars(Receive) /\ WF_eventVars(DegradedTick)

EventsSpec == EventsInit /\ [][EventsNext]_eventVars /\ EventsFairness

(***************************************************************************)
(* Properties                                                              *)
(***************************************************************************)
\* A change reaches every subscriber of its session: watcher errors that strike
\* while a batch is collected, streams that break with frames on them, hints behind
\* a cut batch and mounts at any time included.  Known gaps, each set where it
\* opens: nobody watched, the undelivered events of a watcher that died, what was
\* flushed or broke off before the stream's first hello, which replays nothing, and
\* a directory that the cap cut out of its batch.
Stale(d) == d \in subs /\ pulled[d] < rev[d] /\ ~excused[d]

ChangesArePulled == \A d \in Sessions : Stale(d) ~> ~Stale(d)

\* What the channel's design says: a batch tells the page of every session one of
\* whose files it collected and the page has not pulled, for one frame is one
\* session times one debounce window and the cap is on the paths within a group.
EverySessionIsTold ==
  [][flush => \A d \in Sessions :
        Stale(d) /\ connected /\ (\E p \in pending : p[1] = d) =>
          \E k \in DOMAIN wire' : wire'[k] = Files(d)]_eventVars
=============================================================================
