------------------------------ MODULE PostRide ------------------------------
(***************************************************************************)
(* The dynamic post of the tavern engine (packages/engine/src/index.ts):   *)
(* prompt() renders a post for every submission and stashes it in memory,  *)
(* the message itself goes into the kernel's durable inbox, and the        *)
(* pre-step listener pairs claimed messages with stashed posts by          *)
(* position, while it queues the posts of earlier turns for shadowing.     *)
(* One session; a post is named by its submission.                         *)
(***************************************************************************)
EXTENDS Naturals, Sequences

CONSTANTS MaxSubmissions, (* bound: calls of prompt()                          *)
          MaxSlips,       (* bound: restarts, rebinds and declined pre-steps   *)
          MaxFailedShadows \* bound: shadow appends that throw

ASSUME RideAssumption ==
  MaxSubmissions \in Nat /\ MaxSlips \in Nat /\ MaxFailedShadows \in Nat

Submissions == 1..MaxSubmissions
NoPost == 0

VARIABLES
  sent,       \* calls of prompt() so far
  rendering,  \* calls whose post is being rendered
  calls,      \* calls that wait for the controller's admission, in call order
  stash,      \* the entry of `postStash`; absent is empty
  blank,      \* submissions whose post rendered to ''
  inbox,      \* the kernel's durable queue of this session
  step,       \* the kernel's loop: "idle", "claimed", "entered", "open", "asking"
  batch,      \* messages the loop claimed for the coming step
  riding,     \* posts appended to the admitted batch
  live,       \* posts on the session's surface that still reach the model
  shadows,    \* the entry of `pendingShadows`
  draining,   \* the posts a queued microtask will shadow
  paired,     \* history, per submission: the post it was given
  lastClaim,  \* history: messages of the last entered batch
  slipped,    \* history: entries and claims no longer correspond
  shadowLost, \* history: a shadow append threw since the last claim
  slips, failedShadows  \* counters for the bounds

rideVars == <<sent, rendering, calls, stash, blank, inbox, step, batch, riding, live,
              shadows, draining, paired, lastClaim, slipped, shadowLost, slips,
              failedShadows>>

RideTypeOK ==
  /\ sent \in 0..MaxSubmissions
  /\ rendering \subseteq Submissions /\ blank \subseteq Submissions
  /\ calls \in Seq(Submissions) /\ stash \in Seq(Submissions)
  /\ inbox \in Seq(Submissions) /\ batch \in Seq(Submissions)
  /\ step \in {"idle", "claimed", "entered", "open", "asking"}
  /\ riding \subseteq Submissions /\ live \subseteq Submissions
  /\ shadows \subseteq Submissions /\ draining \subseteq Submissions
  /\ paired \in [Submissions -> 0..MaxSubmissions]
  /\ lastClaim \subseteq Submissions
  /\ slipped \in BOOLEAN /\ shadowLost \in BOOLEAN
  /\ slips \in 0..MaxSlips /\ failedShadows \in 0..MaxFailedShadows

RideInit ==
  /\ sent = 0 /\ rendering = {} /\ calls = <<>> /\ stash = <<>> /\ blank = {}
  /\ inbox = <<>> /\ step = "idle" /\ batch = <<>> /\ riding = {}
  /\ live = {} /\ shadows = {} /\ draining = {}
  /\ paired = [i \in Submissions |-> NoPost] /\ lastClaim = {}
  /\ slipped = FALSE /\ shadowLost = FALSE /\ slips = 0 /\ failedShadows = 0

loopVars == <<step, batch, riding, lastClaim>>
surfaceVars == <<live, shadows, draining, shadowLost, failedShadows>>

Elements(s) == {s[k] : k \in DOMAIN s}
Drop(s, k) == SubSeq(s, k + 1, Len(s))
Position(s, i) == CHOOSE k \in DOMAIN s : s[k] = i
Cut(s, k) == SubSeq(s, 1, k - 1) \o SubSeq(s, k + 1, Len(s))
Without(s, i) == IF i \in Elements(s) THEN Cut(s, Position(s, i)) ELSE s
Lesser(a, b) == IF a < b THEN a ELSE b

(***************************************************************************)
(* prompt()                                                                *)
(***************************************************************************)
\* Past the gate and the autosave: the post starts rendering.  Calls overlap: a
\* card page submits past the composer's lock.
StartRender ==
  /\ sent < MaxSubmissions
  /\ sent' = sent + 1 /\ rendering' = rendering \cup {sent + 1}
  /\ UNCHANGED <<calls, stash, blank, inbox, paired, slipped, slips, loopVars, surfaceVars>>

\* A rejected or aborted render: nothing was pushed.
RenderFails(i) ==
  /\ i \in rendering /\ rendering' = rendering \ {i}
  /\ UNCHANGED <<sent, calls, stash, blank, inbox, paired, slipped, slips, loopVars, surfaceVars>>

\* Rendered: the post is pushed and, before any await, the controller is called.
Push(i) ==
  /\ i \in rendering /\ rendering' = rendering \ {i}
  /\ stash' = Append(stash, i) /\ calls' = Append(calls, i)
  /\ blank' \in {blank, blank \cup {i}}
  /\ UNCHANGED <<sent, inbox, paired, slipped, slips, loopVars, surfaceVars>>

\* The controller admits in call order and writes the inbox.
Admit ==
  /\ calls # <<>>
  /\ inbox' = Append(inbox, Head(calls)) /\ calls' = Tail(calls)
  /\ UNCHANGED <<sent, rendering, stash, blank, paired, slipped, slips, loopVars, surfaceVars>>

\* Mutant: a refused submission leaves its post in the stash.
RefuseKeepsPost(i) ==
  /\ i \in Elements(calls) /\ calls' = Without(calls, i)
  /\ UNCHANGED <<sent, rendering, stash, blank, inbox, paired, slipped, slips, loopVars, surfaceVars>>

\* The admission is refused or aborted: its entry leaves the stash by identity.
Refuse(i) ==
  /\ i \in Elements(calls)
  /\ calls' = Without(calls, i) /\ stash' = Without(stash, i)
  /\ UNCHANGED <<sent, rendering, blank, inbox, paired, slipped, slips, loopVars, surfaceVars>>

(***************************************************************************)
(* The kernel's loop and the pre-step listener                             *)
(***************************************************************************)
\* The loop starts a turn with some of the waiting messages.
Claim(k) ==
  /\ step = "idle" /\ k \in 1..Len(inbox)
  /\ step' = "claimed" /\ batch' = SubSeq(inbox, 1, k) /\ inbox' = Drop(inbox, k)
  /\ UNCHANGED <<sent, rendering, calls, stash, blank, riding, lastClaim, paired,
                 slipped, slips, surfaceVars>>

\* Another listener declines the step, or the turn dies in the gate: the batch is
\* gone and the stash still holds its posts.
Decline ==
  /\ step = "claimed" /\ slips < MaxSlips
  /\ step' = "idle" /\ batch' = <<>> /\ slipped' = TRUE /\ slips' = slips + 1
  /\ UNCHANGED <<sent, rendering, calls, stash, blank, inbox, riding, lastClaim, paired, surfaceVars>>

\* Mutant: only the posts of the last batch are taken for outdated.
OutdatedOfLastBatch == live \cap {paired[i] : i \in lastClaim}

\* The injector walks the whole surface.
Outdated == live

\* injectPosts: every post on the surface is queued for shadowing, and one entry
\* is shifted per claimed message as long as the stash lasts.
Shifted == Lesser(Len(stash), Len(batch))

Inject ==
  /\ step = "claimed"
  /\ shadows' = shadows \cup Outdated
  /\ paired' = [i \in Submissions |->
       IF \E k \in 1..Shifted : batch[k] = i /\ stash[k] \notin blank
         THEN stash[CHOOSE k \in 1..Shifted : batch[k] = i]
         ELSE paired[i]]
  /\ riding' = {stash[k] : k \in 1..Shifted} \ blank
  /\ stash' = Drop(stash, Shifted)
  /\ step' = "entered" /\ batch' = <<>> /\ lastClaim' = Elements(batch)
  /\ shadowLost' = FALSE
  /\ UNCHANGED <<sent, rendering, calls, blank, inbox, live, draining, slipped, slips, failedShadows>>

\* A step without claims rides nothing: the posts of the turn stay live.
NextStep ==
  /\ step = "asking" /\ step' = "entered"
  /\ UNCHANGED <<sent, rendering, calls, stash, blank, inbox, batch, riding, lastClaim,
                 paired, slipped, slips, surfaceVars>>

\* step/start: the batch is on the surface, a microtask takes the queue.
StepStart ==
  /\ step = "entered" /\ step' = "open"
  /\ live' = live \cup riding /\ riding' = {}
  /\ draining' = shadows /\ shadows' = {}
  /\ UNCHANGED <<sent, rendering, calls, stash, blank, inbox, batch, lastClaim, paired,
                 slipped, slips, shadowLost, failedShadows>>

\* The microtask appends the shadows before the request's view is derived, or
\* throws half way and leaves the posts it had not reached live.
Shadow ==
  /\ step = "open" /\ step' = "asking" /\ draining' = {}
  /\ \/ live' = live \ draining /\ UNCHANGED <<shadowLost, failedShadows>>
     \/ /\ draining # {} /\ failedShadows < MaxFailedShadows
        /\ failedShadows' = failedShadows + 1 /\ shadowLost' = TRUE
        /\ \E done \in SUBSET draining : done # draining /\ live' = live \ done
  /\ UNCHANGED <<sent, rendering, calls, stash, blank, inbox, batch, riding, lastClaim,
                 paired, slipped, slips, shadows>>

\* The turn ends after a request, or dies between pre-step and step/start with
\* its batch on the surface or not.
EndTurn ==
  /\ step \in {"entered", "asking"} /\ step' = "idle" /\ riding' = {}
  /\ live' \in {live, live \cup riding}
  /\ UNCHANGED <<sent, rendering, calls, stash, blank, inbox, batch, lastClaim, paired,
                 slipped, slips, shadows, draining, shadowLost, failedShadows>>

\* What is in memory only is gone: the stash, the calls, the shadow queue.
Forgets ==
  /\ slips < MaxSlips /\ slips' = slips + 1
  /\ rendering' = {} /\ calls' = <<>> /\ stash' = <<>>
  /\ step' = "idle" /\ batch' = <<>> /\ riding' = {} /\ shadows' = {} /\ draining' = {}
  /\ slipped' = (inbox' # <<>>)
  /\ lastClaim' = {}
  /\ UNCHANGED <<sent, blank, paired, shadowLost, failedShadows>>

\* A new process replays inbox and surface from the log; so does the fork that
\* load binds, which inherits what is still pending.
RestartOrLoad == UNCHANGED <<inbox, live>> /\ Forgets

\* reset binds an empty session.
ResetRide == inbox' = <<>> /\ live' = {} /\ Forgets

RideNext ==
  \/ StartRender \/ Admit \/ Decline \/ Inject \/ NextStep \/ StepStart \/ Shadow
  \/ EndTurn \/ RestartOrLoad \/ ResetRide
  \/ \E i \in Submissions : RenderFails(i) \/ Push(i) \/ Refuse(i) \/ Claim(i)

RideSpec == RideInit /\ [][RideNext]_rideVars

(***************************************************************************)
(* Properties                                                              *)
(***************************************************************************)
\* A message enters its step with the post rendered for it, or with none when
\* that post is blank, whatever was submitted, refused or aborted meanwhile: the
\* pairing by position is right as long as no pre-step is declined and no queued
\* message outlives the stash.
OwnPostRides ==
  ~slipped => \A i \in lastClaim : paired[i] = IF i \in blank THEN NoPost ELSE i

\* A request shows the model the posts of the batch it answers and no older one,
\* also after restarts and turns that died between pre-step and step/start; only
\* a shadow append that threw leaves an older one, until the next claim.
OldPostsAreShadowed ==
  step = "asking" /\ ~shadowLost => live \subseteq {paired[i] : i \in lastClaim}
=============================================================================
