----------------------------- MODULE SeedRepair -----------------------------
(***************************************************************************)
(* The reconciliation of a fork's inbox (packages/engine/src/              *)
(* inbox-repair.ts).  The kernel keeps a session's pending messages as a   *)
(* ledger of splices in its log; a fork starts from a prefix of the        *)
(* source's log, so a message may be inserted before the cut and removed   *)
(* after it.  The engine appends removals to the child before its first    *)
(* claim: for load it keeps what the source still owes, for a tail child   *)
(* nothing.  The kernel's writing of the ledger is external.               *)
(***************************************************************************)
EXTENDS Naturals, Sequences, SequencesExt, FiniteSetsExt

CONSTANTS MaxMessages, (* bound: messages delivered to either session        *)
          MaxEvents    \* bound: ledger events the source writes

ASSUME RepairAssumption == MaxMessages \in Nat /\ MaxEvents \in Nat

Lists == {"next-turn", "next-step"}
Messages == 1..MaxMessages

VARIABLES
  source,    \* the source's ledger, a sequence of splices
  child,     \* the fork's ledger: the seed, then its own splices
  inherited, \* inheritedEventCount of the fork
  purpose,   \* "none" before the fork, then "load" or "tail"
  repaired,  \* the engine has repaired the fork
  minted,    \* messages delivered so far
  own,       \* history: messages delivered to the child itself
  owed,      \* history: seed messages the child must keep
  answered   \* history: messages the child claimed

repairVars == <<source, child, inherited, purpose, repaired, minted, own, owed, answered>>

Splice(list, start, removed, inserted) ==
  [target |-> list, start |-> start, removed |-> removed, inserted |-> inserted]

Removal(list, index) == Splice(list, index, 1, <<>>)

Splices == [target : Lists, start : Nat, removed : Nat, inserted : Seq(Messages)]

RepairTypeOK ==
  /\ source \in Seq(Splices) /\ child \in Seq(Splices)
  /\ inherited \in 0..MaxEvents
  /\ purpose \in {"none", "load", "tail"} /\ repaired \in BOOLEAN
  /\ minted \in 0..MaxMessages
  /\ own \subseteq Messages /\ owed \subseteq Messages /\ answered \subseteq Messages

RepairInit ==
  /\ source = <<>> /\ child = <<>> /\ inherited = 0 /\ purpose = "none"
  /\ repaired = FALSE /\ minted = 0 /\ own = {} /\ owed = {} /\ answered = {}

(***************************************************************************)
(* Replaying a ledger                                                      *)
(***************************************************************************)
emptyLedger == [list \in Lists |-> <<>>]

\* The coordinates the projection accepts; it refuses the log otherwise.
Accepts(state, e) == e.start + e.removed <= Len(state[e.target])

foldSplice(state, e) ==
  [state EXCEPT ![e.target] =
     SubSeq(@, 1, e.start) \o e.inserted \o SubSeq(@, e.start + e.removed + 1, Len(@))]

Replay(log) ==
  LET state[k \in 0..Len(log)] ==
        IF k = 0 THEN emptyLedger ELSE foldSplice(state[k - 1], log[k])
  IN state[Len(log)]
Pending(log) == UNION {ToSet(Replay(log)[list]) : list \in Lists}

\* seedPendingInbox: list, zero-based index and id of what the seed still holds.
seedPendingInbox ==
  LET state == Replay(SubSeq(child, 1, inherited)) IN
  UNION {{[target |-> list, index |-> k - 1, id |-> state[list][k]] :
            k \in DOMAIN state[list]} : list \in Lists}

\* livePendingIds: the whole ledger of the source is the authority.
livePendingIds == Pending(source)

(***************************************************************************)
(* The source's ledger                                                     *)
(***************************************************************************)
SourceWrites(e) ==
  /\ Len(source) < MaxEvents /\ source' = Append(source, e)
  /\ UNCHANGED <<child, inherited, purpose, repaired, own, owed, answered>>

Deliver(list) ==
  /\ minted < MaxMessages /\ minted' = minted + 1
  /\ SourceWrites(Splice(list, Len(Replay(source)[list]), 0, <<minted + 1>>))

\* The loop claims from the front; the player takes one queued message back.
ClaimFront(list, k) ==
  /\ k \in 1..Len(Replay(source)[list])
  /\ SourceWrites(Splice(list, 0, k, <<>>)) /\ UNCHANGED minted

TakeBack(list, k) ==
  /\ k \in 1..Len(Replay(source)[list])
  /\ SourceWrites(Removal(list, k - 1)) /\ UNCHANGED minted

(***************************************************************************)
(* The fork                                                                *)
(***************************************************************************)
Fork(why, cut) ==
  /\ purpose = "none"
  /\ purpose' = why /\ child' = SubSeq(source, 1, cut) /\ inherited' = cut
  /\ UNCHANGED <<source, repaired, minted, own, owed, answered>>

\* A delivery of its own, such as the tail's maintenance prompt.
ChildReceives(list) ==
  /\ purpose # "none" /\ minted < MaxMessages
  /\ minted' = minted + 1 /\ own' = own \cup {minted + 1}
  /\ child' = Append(child, Splice(list, Len(Replay(child)[list]), 0, <<minted + 1>>))
  /\ UNCHANGED <<source, inherited, purpose, repaired, owed, answered>>

Indexes(list, drops) == {e.index : e \in {f \in drops : f.target = list}}

Descending(places) ==
  CHOOSE s \in SetToSeqs(places) : \A i, j \in DOMAIN s : i < j => s[i] > s[j]

\* Mutant: the removals of a list go from the front.
RemovalsFromFront(list, drops) ==
  LET indexes == Reverse(Descending(Indexes(list, drops)))
  IN [k \in DOMAIN indexes |-> Removal(list, indexes[k])]

\* repairSeedInbox: one removal per entry to drop, per list from the back.
Removals(list, drops) ==
  LET indexes == Descending(Indexes(list, drops))
  IN [k \in DOMAIN indexes |-> Removal(list, indexes[k])]

Drops(keep) == {e \in seedPendingInbox : e.id \notin keep}

\* load passes what its source still owes; without a source session in memory,
\* and for a tail child, everything goes.
Keeps == IF purpose = "load" THEN {livePendingIds, {}} ELSE {{}}

repairSeedInbox ==
  /\ purpose # "none" /\ ~repaired
  /\ repaired' = TRUE
  /\ \E keep \in Keeps :
       /\ child' = child \o Removals("next-turn", Drops(keep)) \o Removals("next-step", Drops(keep))
       /\ owed' = Pending(SubSeq(child, 1, inherited)) \cap keep
  /\ UNCHANGED <<source, inherited, purpose, minted, own, answered>>

\* The child's first claim comes after the repair.
ChildClaims(list, k) ==
  /\ repaired /\ k \in 1..Len(Replay(child)[list])
  /\ answered' = answered \cup ToSet(SubSeq(Replay(child)[list], 1, k))
  /\ child' = Append(child, Splice(list, 0, k, <<>>))
  /\ UNCHANGED <<source, inherited, purpose, repaired, minted, own, owed>>

RepairNext ==
  \/ \E list \in Lists :
       \/ Deliver(list) \/ ChildReceives(list)
       \/ \E k \in Messages : ClaimFront(list, k) \/ TakeBack(list, k) \/ ChildClaims(list, k)
  \/ \E why \in {"load", "tail"} : \E cut \in 0..Len(source) : Fork(why, cut)
  \/ repairSeedInbox

RepairSpec == RepairInit /\ [][RepairNext]_repairVars

(***************************************************************************)
(* Properties                                                              *)
(***************************************************************************)
\* A repaired fork still owes, or has answered, exactly the messages it received
\* itself and those of its seed its source had neither claimed nor taken back
\* when it was repaired; nothing is dropped or answered twice, and no removal
\* addresses a place that has moved.  A tail child thus answers no message of its
\* parent.
ForkOwesWhatIsPending ==
  repaired => /\ Pending(child) \cup answered = own \cup owed
              /\ Pending(child) \cap answered = {}
              /\ \A k \in DOMAIN child : Accepts(Replay(SubSeq(child, 1, k - 1)), child[k])
=============================================================================
