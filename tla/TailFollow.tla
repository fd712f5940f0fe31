----------------------------- MODULE TailFollow -----------------------------
(***************************************************************************)
(* The chat page's live view of a tail child: useTailLiveFolds of          *)
(* packages/ui/src/client/tail-live.ts retains the newest child while the  *)
(* gate is up, retries until the child's descriptor is on file, and lets   *)
(* go of it.  One parent session; the folding of frames into rows is left  *)
(* out.  sessions.retain and the answer of ready are the kernel's client,  *)
(* external; React runs the effect some time after what it depends on.     *)
(***************************************************************************)
EXTENDS Naturals

CONSTANTS MaxMoves,  (* bound: gates raised, children listed, returns to the page *)
          MaxBreaks  \* bound: answers no retry follows, calls of retain that throw

ASSUME FollowAssumption == MaxMoves \in Nat /\ MaxBreaks \in Nat

Children == 1..MaxMoves
Effects == 1..MaxMoves     \* a run of the effect needs a move before it
None == 0

VARIABLES
  viewing,  \* the page is open on the parent session
  running,  \* options.running: the gate as the page knows it
  listed,   \* options.children: how many are catalogued
  filed,    \* per child: nothing, its directory, its descriptor is on file
  follows,  \* per run of the effect: its child and how far it is
  mounted,  \* the run whose cleanup is still to come, or None
  begun,    \* runs so far
  retained,     \* runs whose reference the kernel's client counts
  broken,   \* history: runs that met what is not retried
  moves, breaks  \* counters for the bounds

followVars == <<viewing, running, listed, filed, follows, mounted, begun, retained, broken,
                moves, breaks>>
pageOptions == <<viewing, running, listed, filed, moves>>

States == {"idle", "opening", "waiting", "following", "over"}

FollowTypeOK ==
  /\ viewing \in BOOLEAN /\ running \in BOOLEAN /\ listed \in Children \cup {None}
  /\ filed \in [Children -> {"nothing", "directory", "descriptor"}]
  /\ follows \in [Effects -> [child : Children \cup {None}, state : States]]
  /\ mounted \in Effects \cup {None} /\ begun \in 0..MaxMoves
  /\ retained \subseteq Effects /\ broken \subseteq Effects
  /\ moves \in 0..MaxMoves /\ breaks \in 0..MaxBreaks

FollowInit ==
  /\ viewing = TRUE /\ running = FALSE /\ listed = 0
  /\ filed = [c \in Children |-> "nothing"]
  /\ follows = [k \in Effects |-> [child |-> None, state |-> "idle"]]
  /\ mounted = None /\ begun = 0 /\ retained = {} /\ broken = {}
  /\ moves = 0 /\ breaks = 0

Moves == moves < MaxMoves /\ moves' = moves + 1
Breaks == breaks < MaxBreaks /\ breaks' = breaks + 1

(***************************************************************************)
(* What the page is told                                                   *)
(***************************************************************************)
GateRises == /\ ~running /\ running' = TRUE /\ Moves
             /\ UNCHANGED <<viewing, listed, filed, follows, mounted, begun, retained, broken, breaks>>

GateFalls == /\ running /\ running' = FALSE
             /\ UNCHANGED <<viewing, listed, filed, moves, follows, mounted, begun, retained,
                            broken, breaks>>

\* The catalogue row of a new child arrives; its files may be behind.
ChildListed == /\ Moves /\ listed' = listed + 1
               /\ UNCHANGED <<viewing, running, filed, follows, mounted, begun, retained, broken, breaks>>

ChildFiled(c) ==
  /\ c <= listed
  /\ filed' = [filed EXCEPT ![c] = IF @ = "nothing" THEN "directory" ELSE "descriptor"]
  /\ filed' # filed
  /\ UNCHANGED <<viewing, running, listed, moves, follows, mounted, begun, retained, broken, breaks>>

PageLeft == /\ viewing /\ viewing' = FALSE
            /\ UNCHANGED <<running, listed, filed, moves, follows, mounted, begun, retained,
                           broken, breaks>>

PageOpened == /\ ~viewing /\ viewing' = TRUE /\ Moves
              /\ UNCHANGED <<running, listed, filed, follows, mounted, begun, retained, broken, breaks>>

(***************************************************************************)
(* The effect                                                              *)
(***************************************************************************)
activeChild == IF viewing /\ running THEN listed ELSE None
MountedChild == IF mounted = None THEN None ELSE follows[mounted].child

\* Mutant: the reference of an open that is not answered yet is left to the answer.
ReleasesFollowed(k) == IF follows[k].state = "following" THEN {k} ELSE {}

\* The cleanup gives the reference back, answered or not.
Releases(k) == {k}

\* Cleanup: timer cleared, subscription gone, only an answer on its way is left.
Left(k) == [follows EXCEPT ![k].state = IF @ = "opening" THEN @ ELSE "over"]

\* Mutant: the descriptor that is not on file yet counts as a hard failure.
retryableOnceListed(answer) == answer = "subagent/not-found"

retryableFollowError(answer) == answer \in {"subagent/not-found", "subagent/catalog-diagnostic"}

Answer(c) == [nothing |-> "subagent/not-found", directory |-> "subagent/catalog-diagnostic",
              descriptor |-> "ready"][filed[c]]

scheduleRetry(k, answer, now) ==
  /\ follows' = [now EXCEPT ![k].state = IF retryableFollowError(answer) THEN "waiting" ELSE "over"]
  /\ broken' = IF answer = "session/closed" THEN broken \cup {k} ELSE broken

\* A reference is retained, or retain throws.
acquire(k, now, kept) ==
  \/ /\ follows' = [now EXCEPT ![k].state = "opening"] /\ retained' = kept \cup {k}
     /\ UNCHANGED <<broken, breaks>>
  \/ /\ Breaks /\ retained' = kept
     /\ \E answer \in {"subagent/not-found", "session/closed"} : scheduleRetry(k, answer, now)

\* React runs the cleanup of the last run and, with a child, a new one, which
\* acquires at once.
EffectRuns ==
  /\ activeChild # MountedChild
  /\ LET left == IF mounted = None THEN follows ELSE Left(mounted)
         kept == retained \ (IF mounted = None THEN {} ELSE Releases(mounted))
         k == begun + 1 IN
       IF activeChild = None
         THEN /\ follows' = left /\ retained' = kept /\ mounted' = None
              /\ UNCHANGED <<begun, broken, breaks>>
         ELSE /\ acquire(k, [left EXCEPT ![k].child = activeChild], kept)
              /\ mounted' = k /\ begun' = k
  /\ UNCHANGED pageOptions

\* The timer of the back-off.
RetryFires(k) ==
  /\ follows[k].state = "waiting"
  /\ acquire(k, follows, retained)
  /\ UNCHANGED <<pageOptions, mounted, begun>>

\* The open is answered; a run that was cleaned up gives the reference back again
\* (a second release of one reference is none) or has nothing left to do.
OpenAnswered(k, answer) ==
  /\ follows[k].state = "opening"
  /\ IF k # mounted
       THEN /\ retained' = IF answer = "ready" THEN retained \ {k} ELSE retained
            /\ follows' = [follows EXCEPT ![k].state = "over"] /\ UNCHANGED broken
       ELSE IF answer = "ready"
         THEN follows' = [follows EXCEPT ![k].state = "following"] /\ UNCHANGED <<retained, broken>>
         ELSE retained' = retained \ {k} /\ scheduleRetry(k, answer, follows)
  /\ UNCHANGED <<pageOptions, mounted, begun>>

ReadySettles(k) == OpenAnswered(k, Answer(follows[k].child)) /\ UNCHANGED breaks
ReadyBreaks(k) == OpenAnswered(k, "session/closed") /\ Breaks

FollowNext ==
  \/ GateRises \/ GateFalls \/ ChildListed \/ PageLeft \/ PageOpened \/ EffectRuns
  \/ \E c \in Children : ChildFiled(c)
  \/ \E k \in Effects : ReadySettles(k) \/ ReadyBreaks(k) \/ RetryFires(k)

\* React commits, the kernel answers, timers fire; neither the gate nor the
\* child's files owe anything.
FollowFairness ==
  /\ WF_followVars(EffectRuns)
  /\ WF_followVars(\E k \in Effects : ReadySettles(k))
  /\ WF_followVars(\E k \in Effects : RetryFires(k))

FollowSpec == FollowInit /\ [][FollowNext]_followVars /\ FollowFairness

(***************************************************************************)
(* Properties                                                              *)
(***************************************************************************)
\* Only the run that is mounted holds a reference or listens: whatever order
\* cleanups, retries and late answers come in, no child's window stays open.
OnlyMountedFollows ==
  /\ retained \subseteq {mounted}
  /\ \A k \in Effects : follows[k].state \in {"waiting", "following"} => k = mounted

\* A running tail whose descriptor is on file is followed in the end, however
\* often the page came too early, unless the gate falls, another child comes or
\* an answer came that is not retried.
Unfollowed(c) ==
  /\ activeChild = c /\ filed[c] = "descriptor"
  /\ \A k \in Effects : follows[k].child = c => k \notin broken /\ follows[k].state # "following"

TailIsFollowed == \A c \in Children : Unfollowed(c) ~> ~Unfollowed(c)
=============================================================================
