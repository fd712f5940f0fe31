----------------------------- MODULE PathChain ------------------------------
(***************************************************************************)
(* The agent's mutations of world documents (packages/engine/src/          *)
(* tools.ts): runtimeWrite and runtimeEdit run concurrently and queue on a *)
(* promise chain per path, runtimeDelete waits until the kernel's pool is  *)
(* empty.  The user's editor writes and removes the same files at any time *)
(* (packages/engine/src/workspace.ts).  One registration of the tools; a   *)
(* call is named by its place in the model's order.  A document is the set *)
(* of calls whose text it holds.                                           *)
(***************************************************************************)
EXTENDS Naturals

CONSTANTS Documents,  (* paths under runtime/                                 *)
          Seeded,     (* those that exist at the start                        *)
          MaxCalls,   (* bound: calls of the write pair                       *)
          MaxStrikes  \* bound: deletes, and writes and removals by the user

ASSUME ChainAssumption ==
  Documents # {} /\ Seeded \subseteq Documents /\ MaxCalls \in Nat /\ MaxStrikes \in Nat

Calls == 1..MaxCalls
NoCall == 0
Tools == {"runtimeWrite", "runtimeEdit"}

VARIABLES
  issued,   \* calls so far
  tool,     \* per call: which of the pair
  target,   \* per call: its document
  after,    \* per call: the call whose promise it chained on, or NoCall
  stage,    \* per call: "none", "queued", "running", "settled", "dropped"
  applied,  \* per call: it wrote its result
  held,     \* per call: what its running body read
  tails,    \* the chain's map: the last call per document, NoCall if absent
  exists,   \* per document: the file is there
  text,     \* per document: the calls whose text it holds
  wiped,    \* history, per document: calls over when it was last struck
  crossed,  \* history, per document: it was struck under a running edit
  strikes   \* a counter for the bound

chainVars == <<issued, tool, target, after, stage, applied, held, tails, exists, text,
               wiped, crossed, strikes>>

ChainTypeOK ==
  /\ issued \in 0..MaxCalls /\ strikes \in 0..MaxStrikes
  /\ tool \in [Calls -> Tools] /\ target \in [Calls -> Documents]
  /\ after \in [Calls -> Calls \cup {NoCall}]
  /\ stage \in [Calls -> {"none", "queued", "running", "settled", "dropped"}]
  /\ applied \in [Calls -> BOOLEAN] /\ held \in [Calls -> SUBSET Calls]
  /\ tails \in [Documents -> Calls \cup {NoCall}]
  /\ exists \in [Documents -> BOOLEAN] /\ text \in [Documents -> SUBSET Calls]
  /\ wiped \in [Documents -> SUBSET Calls] /\ crossed \in [Documents -> BOOLEAN]

ChainInit ==
  /\ issued = 0 /\ strikes = 0
  /\ tool = [c \in Calls |-> "runtimeWrite"]
  /\ target = [c \in Calls |-> CHOOSE d \in Documents : TRUE]
  /\ after = [c \in Calls |-> NoCall] /\ stage = [c \in Calls |-> "none"]
  /\ applied = [c \in Calls |-> FALSE] /\ held = [c \in Calls |-> {}]
  /\ tails = [d \in Documents |-> NoCall]
  /\ exists = [d \in Documents |-> d \in Seeded] /\ text = [d \in Documents |-> {}]
  /\ wiped = [d \in Documents |-> {}] /\ crossed = [d \in Documents |-> FALSE]

Over(c) == stage[c] \in {"settled", "dropped"}
\* Mutant: a call waits for a call that threw forever.
FreeIfApplied(c) ==
  stage[c] = "queued" /\ after[c] \in {NoCall} \cup {b \in Calls : Over(b) /\ applied[b]}

Free(c) == stage[c] = "queued" /\ after[c] \in {NoCall} \cup {b \in Calls : Over(b)}
Reaches(c, where) == stage' = [stage EXCEPT ![c] = where]
docVars == <<exists, text, wiped, crossed, strikes>>

\* pathChain: chain on the tail of this document and become it.
pathChain(c, d) ==
  /\ after' = [after EXCEPT ![c] = tails[d]]
  /\ tails' = [tails EXCEPT ![d] = c]
  /\ Reaches(c, "queued")

\* execute of the pair.  An edit looks for the file before it queues, so it is
\* refused, and changes nothing, if a call still queued would have made it.
Execute(t, d) ==
  LET c == issued + 1 IN
  /\ issued < MaxCalls /\ issued' = c
  /\ t = "runtimeEdit" => exists[d]
  /\ tool' = [tool EXCEPT ![c] = t] /\ target' = [target EXCEPT ![c] = d]
  /\ pathChain(c, d)
  /\ UNCHANGED <<applied, held, docVars>>

\* The body starts once the promise before it has settled either way.  An edit
\* reads; the guards of writeMutation then await the card's status keys.
BodyStarts(c) ==
  /\ Free(c)
  /\ tool[c] = "runtimeEdit" => exists[target[c]]
  /\ Reaches(c, "running")
  /\ held' = [held EXCEPT ![c] = IF tool[c] = "runtimeEdit" THEN text[target[c]] ELSE {}]
  /\ UNCHANGED <<issued, tool, target, after, applied, tails, docVars>>

\* It throws: the file is gone, its directory cannot be made, old_str has no or
\* several matches, or the result does not pass the guards.
BodyThrows(c) ==
  /\ Free(c) \/ stage[c] = "running"
  /\ Reaches(c, "settled") /\ held' = [held EXCEPT ![c] = {}]
  /\ UNCHANGED <<issued, tool, target, after, applied, tails, docVars>>

\* writeFileSync.
BodyWrites(c) ==
  /\ stage[c] = "running" /\ Reaches(c, "settled")
  /\ applied' = [applied EXCEPT ![c] = TRUE]
  /\ exists' = [exists EXCEPT ![target[c]] = TRUE]
  /\ text' = [text EXCEPT ![target[c]] = held[c] \cup {c}] /\ held' = [held EXCEPT ![c] = {}]
  /\ UNCHANGED <<issued, tool, target, after, tails, wiped, crossed, strikes>>

\* Mutant: ... whoever the tail is.
dropAnyway(c) ==
  /\ stage[c] = "settled" /\ Reaches(c, "dropped")
  /\ tails' = [tails EXCEPT ![target[c]] = NoCall]
  /\ UNCHANGED <<issued, tool, target, after, applied, held, docVars>>

\* A settled call takes its entry out of the map if it still is the tail.
drop(c) ==
  /\ stage[c] = "settled" /\ Reaches(c, "dropped")
  /\ tails' = [tails EXCEPT ![target[c]] = IF @ = c THEN NoCall ELSE @]
  /\ UNCHANGED <<issued, tool, target, after, applied, held, docVars>>

\* The document is removed or replaced as a whole.
Struck(d, there) ==
  /\ strikes < MaxStrikes /\ strikes' = strikes + 1
  /\ exists' = [exists EXCEPT ![d] = there] /\ text' = [text EXCEPT ![d] = {}]
  /\ wiped' = [wiped EXCEPT ![d] = {c \in Calls : Over(c) /\ target[c] = d}]
  /\ crossed' = [crossed EXCEPT ![d] =
       \E c \in Calls : stage[c] = "running" /\ target[c] = d /\ tool[c] = "runtimeEdit"]
  /\ UNCHANGED <<issued, tool, target, after, stage, applied, held, tails>>

\* runtimeDelete is exclusive: the calls before it are over, none starts meanwhile.
runtimeDelete(d) ==
  /\ exists[d] /\ \A c \in 1..issued : Over(c)
  /\ Struck(d, FALSE)

\* The user's editor: a write or a removal, whatever the agent is doing.
UserStrikes(d) == \E there \in BOOLEAN : (there \/ exists[d]) /\ Struck(d, there)

ChainNext ==
  \/ \E d \in Documents : \E t \in Tools : Execute(t, d)
  \/ \E c \in Calls : BodyStarts(c) \/ BodyThrows(c) \/ BodyWrites(c) \/ drop(c)
  \/ \E d \in Documents : runtimeDelete(d) \/ UserStrikes(d)

\* Promises run their reactions; a body ends one way or the other.
ChainFairness ==
  \A c \in Calls : WF_chainVars(BodyStarts(c) \/ BodyThrows(c) \/ BodyWrites(c))

ChainSpec == ChainInit /\ [][ChainNext]_chainVars /\ ChainFairness

(***************************************************************************)
(* Properties                                                              *)
(***************************************************************************)
\* The calls of a document that wrote since it was struck, and of those the
\* last full write and the edits behind it.
Applied(d) == {c \in Calls : applied[c] /\ target[c] = d} \ wiped[d]
Visible(d) ==
  {c \in Applied(d) : \A w \in Applied(d) : tool[w] = "runtimeWrite" => w <= c}

\* A document holds what its calls would have left one by one in the model's
\* order: overlapping edits lose nothing, nothing overtakes, a failed call is as
\* if never made, a delete stands where the model put it.  Only the user's editor,
\* which does not queue, breaks this: what it does between the read and the write
\* of an edit is lost.
OneByOne == \A d \in Documents : ~crossed[d] => text[d] = Visible(d)

\* A call behind a failed or long gone one still runs and settles.
EveryCallSettles == \A c \in Calls : stage[c] = "queued" ~> Over(c)
=============================================================================
