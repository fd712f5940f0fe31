--------------------------- MODULE ClientProofs ---------------------------
(***************************************************************************)
(* Theorems about what the engine tells its client and what the client     *)
(* makes of it: FileEvents, for any directories, WriterTabs, for any number *)
(* of writers, and TailFollow, for any number of moves and breaks.         *)
(***************************************************************************)
EXTENDS FileEvents, WriterTabs, TailFollow, SeedRepairProofs

(***************************************************************************)
(* The file event channel.                                                 *)
(***************************************************************************)
LEMMA SortedIs ==
  ASSUME NEW S \in SUBSET Nat, IsFiniteSet(S)
  PROVE  /\ Sorted(S) \in Seq(S)
         /\ \A x \in S : \E i \in DOMAIN Sorted(S) : Sorted(S)[i] = x
  <1> DEFINE n == Cardinality(S)
  <1>1. PICK f : Enumerates(f, S)
    BY SortedExists
  <1>2. n \in Nat
    BY FS_CardinalityType
  <1>3. \A i, j \in 1..n : i # j => f[i] # f[j]
    <2> SUFFICES ASSUME NEW i \in 1..n, NEW j \in 1..n, i < j \/ j < i PROVE f[i] # f[j]
      BY <1>2
    <2>1. f[i] \in Nat /\ f[j] \in Nat
      BY <1>1 DEF Enumerates
    <2> QED
      BY <1>1, <2>1 DEF Enumerates
  <1>4. f \in SetToSeqs(S) /\ \A i, j \in DOMAIN f : i < j => f[i] < f[j]
    BY <1>1, <1>3 DEF Enumerates, SetToSeqs
  <1>5. Sorted(S) \in SetToSeqs(S)
    BY <1>4 DEF Sorted
  <1>6. PICK s : s = Sorted(S)
    OBVIOUS
  <1>7. s \in [1..n -> S] /\ \A i, j \in 1..n : i # j => s[i] # s[j]
    BY <1>5, <1>6 DEF SetToSeqs
  <1>8. s \in Seq(S)
    BY <1>2, <1>7
  <1>9. s \in Injection(1..n, S)
    BY <1>7 DEF Injection, IsInjective
  <1>10. 1..n \in SUBSET Int /\ IsFiniteSet(1..n) /\ Cardinality(1..n) = n
    BY <1>2, FS_Interval
  <1>11. s \in Surjection(1..n, S)
    BY <1>9, <1>10, FS_Injection
  <1>12. \A x \in S : \E i \in 1..n : s[i] = x
    BY <1>11 DEF Surjection
  <1> QED
    BY <1>6, <1>7, <1>8, <1>12

\* The batch being collected is finite, and no file changed more often than files did.
EventsInv ==
  /\ EventsTypeOK /\ IsFiniteSet(pending)
  /\ \A d \in Directories : rev[d] <= changes

LEMMA ToldSet ==
  ASSUME EventsInv
  PROVE  LET told == {p[1] : p \in Batch} \cap Sessions
         IN told \in SUBSET Nat /\ IsFiniteSet(told)
  <1>1. Batch \subseteq pending
    BY DEF Batch
  <1>2. IsFiniteSet(Batch)
    BY <1>1, FS_Subset DEF EventsInv
  <1>3. IsFiniteSet({p[1] : p \in Batch})
    <2>1. [p \in Batch |-> p[1]] \in Surjection(Batch, {p[1] : p \in Batch})
      BY DEF Surjection
    <2> QED
      BY <1>2, <2>1, FS_Surjection
  <1>4. IsFiniteSet({p[1] : p \in Batch} \cap Sessions)
    BY <1>3, FS_Intersection
  <1>5. Sessions \subseteq Nat
    BY EventsAssumption DEF Sessions
  <1> QED
    BY <1>4, <1>5

\* One frame for each session of the batch.
LEMMA GroupsAre ==
  ASSUME EventsInv
  PROVE  /\ Groups \in Seq(Frames)
         /\ \A p \in Batch : p[1] \in Sessions =>
              \E k \in DOMAIN Groups : Groups[k] = Files(p[1])
  <1> DEFINE told == {p[1] : p \in Batch} \cap Sessions
  <1>1. PICK s : s = Sorted(told)
    OBVIOUS
  <1>2. s \in Seq(told) /\ \A x \in told : \E i \in DOMAIN s : s[i] = x
    BY <1>1, ToldSet, SortedIs
  <1>3. Groups = [k \in DOMAIN s |-> Files(s[k])]
    BY <1>1 DEF Groups
  <1>4. \A k \in DOMAIN s : s[k] \in Sessions
    BY <1>2
  <1>5. \A d \in Sessions : Files(d) \in Frames
    BY DEF Frames
  <1>6. Groups \in Seq(Frames)
    <2>1. DOMAIN s = 1..Len(s) /\ Len(s) \in Nat
      BY <1>2
    <2> HIDE DEF told
    <2> QED
      BY <1>3, <1>4, <1>5, <2>1
  <1>7. ASSUME NEW p \in Batch, p[1] \in Sessions
        PROVE  \E k \in DOMAIN Groups : Groups[k] = Files(p[1])
    BY <1>2, <1>3, <1>7
  <1> QED
    BY <1>6, <1>7

LEMMA FramesAre ==
  /\ Hello \in Frames /\ Resync \in Frames
  /\ \A ok \in BOOLEAN : <<Health(ok)>> \in Seq(Frames)
  <1>1. \A ok \in BOOLEAN : Health(ok) \in Frames
    BY DEF Frames
  <1>2. \A frame \in Frames : <<frame>> \in Seq(Frames)
    OBVIOUS
  <1>3. \A ok \in BOOLEAN : <<Health(ok)>> \in Seq(Frames)
    BY <1>1, <1>2, Zenon
  <1> QED
    BY <1>3 DEF Frames

LEMMA Broadcasts ==
  ASSUME EventsTypeOK, NEW frames \in Seq(Frames), Broadcast(frames)
  PROVE  wire' \in Seq(Frames)
  BY DEF EventsTypeOK, Broadcast

LEMMA Pulls ==
  ASSUME EventsTypeOK, NEW ds, Pull(ds)
  PROVE  pulled' \in [Directories -> 0..MaxChanges] /\ excused' \in [Directories -> BOOLEAN]
  BY DEF EventsTypeOK, Pull

LEMMA Excuses ==
  ASSUME EventsTypeOK, NEW ds, Excuse(ds)
  PROVE  excused' \in [Directories -> BOOLEAN]
  BY DEF EventsTypeOK, Excuse

LEMMA EventsStep ==
  ASSUME EventsInv, [EventsNext]_eventVars
  PROVE  EventsInv'
  <1> USE EventsAssumption DEF EventsInv, batchVars, pageVars
  <1>0. EventsTypeOK
    OBVIOUS
  <1>1. ASSUME NEW p \in Paths, Change(p) PROVE EventsInv'
    <2>1. p[1] \in Directories
      BY DEF Paths
    <2>2. /\ changes' \in 0..MaxChanges /\ rev' \in [Directories -> 0..MaxChanges]
          /\ \A d \in Directories : rev'[d] <= changes'
      <3>1. /\ changes \in Nat /\ changes < MaxChanges /\ changes' = changes + 1
            /\ rev' = [rev EXCEPT ![p[1]] = rev[p[1]] + 1]
            /\ rev \in [Directories -> 0..MaxChanges]
        BY <1>1 DEF Change, EventsTypeOK
      <3>2. \A d \in Directories : rev'[d] = rev[d] \/ rev'[d] = rev[d] + 1
        BY <2>1, <3>1
      <3>3. \A d \in Directories : rev'[d] \in 0..MaxChanges /\ rev'[d] <= changes'
        BY <3>1, <3>2
      <3>4. changes' \in 0..MaxChanges
        BY <3>1
      <3>5. rev' \in [Directories -> 0..MaxChanges]
        <4>1. DOMAIN rev' = Directories /\ rev' = [d \in Directories |-> rev'[d]]
          BY <3>1
        <4> QED
          BY <3>3, <4>1
      <3> QED
        BY <3>3, <3>4, <3>5
    <2>3. excused' \in [Directories -> BOOLEAN]
      <3>1. excused' = excused \/ Excuse({p[1]})
        BY <1>1 DEF Change
      <3> QED
        BY <1>0, <3>1, Excuses DEF EventsTypeOK
    <2>4. raw' \subseteq Paths \cup {Unnamed}
      BY <1>1 DEF Change, EventsTypeOK
    <2> QED
      BY <1>1, <2>2, <2>3, <2>4 DEF Change, EventsTypeOK
  <1>2. ASSUME NEW e \in Paths \cup {Unnamed}, onRaw(e) PROVE EventsInv'
    <2>1. IsFiniteSet(pending')
      <3>1. IsFiniteSet({e} \cap Paths)
        BY FS_Singleton, FS_Subset
      <3> QED
        BY <1>2, <3>1, FS_Union DEF onRaw
    <2> QED
      BY <1>2, <2>1 DEF onRaw, EventsTypeOK
  <1>3. CASE flush
    <2> DEFINE more == (IF pending = {} THEN <<Resync>> ELSE <<>>)
               hint == (IF hintUnknown THEN <<Resync>> ELSE <<>>)
    <2>1. more \in Seq(Frames) /\ hint \in Seq(Frames)
      BY FramesAre
    <2>2. Groups \o more \o hint \in Seq(Frames)
      BY <2>1, GroupsAre
    <2>3. wire' \in Seq(Frames)
      BY <1>3, <2>2, Broadcasts DEF flush
    <2>4. excused' \in [Directories -> BOOLEAN]
      <3>1. Excuse(CutOff) \/ Excuse(Directories) \/ excused' = excused
        BY <1>3 DEF flush
      <3> QED
        BY <1>0, <3>1, Excuses DEF EventsTypeOK
    <2>5. IsFiniteSet(pending')
      BY <1>3, FS_EmptySet DEF flush
    <2> QED
      BY <1>3, <2>3, <2>4, <2>5 DEF flush, EventsTypeOK
  <1>4. CASE WatchError
    <2>1. <<Health(FALSE)>> \in Seq(Frames)
      BY FramesAre, Zenon
    <2>2. wire' \in Seq(Frames)
      <3>1. Broadcast(<<Health(FALSE)>>)
        BY <1>4 DEF WatchError
      <3> QED
        BY <1>0, <2>1, <3>1, Broadcasts
    <2>3. excused' \in [Directories -> BOOLEAN]
      BY <1>4, Excuses DEF WatchError
    <2> QED
      BY <1>4, <2>2, <2>3 DEF WatchError, EventsTypeOK
  <1>5. CASE Reopen \/ ReopenFails
    <2>1. <<Health(TRUE)>> \in Seq(Frames) /\ <<Health(FALSE)>> \in Seq(Frames)
      BY FramesAre, Zenon
    <2>2. wire' \in Seq(Frames)
      <3>1. Broadcast(<<Health(TRUE)>>) \/ Broadcast(<<Health(FALSE)>>)
        BY <1>5 DEF Reopen, ReopenFails
      <3> QED
        BY <1>0, <2>1, <3>1, Broadcasts
    <2> QED
      BY <1>5, <2>2 DEF Reopen, ReopenFails, EventsTypeOK
  <1>6. ASSUME NEW d \in Sessions, Subscribe(d) PROVE EventsInv'
    BY <1>6, Pulls DEF Subscribe, EventsTypeOK
  <1>7. ASSUME NEW d \in Sessions, Unsubscribe(d) PROVE EventsInv'
    <2>1. CASE subs' = {}
      <3>1. /\ connected' = FALSE /\ wire' = <<>> /\ sawHello' = FALSE /\ degraded' = FALSE
            /\ UNCHANGED <<rev, raw, watcher, batchVars, pulled, excused, changes, outages>>
        BY <1>7, <2>1 DEF Unsubscribe
      <3>2. /\ connected' \in BOOLEAN /\ sawHello' \in BOOLEAN /\ degraded' \in BOOLEAN
        BY <3>1, Zenon
      <3> QED
        BY <2>1, <3>1, <3>2 DEF EventsTypeOK
    <2>2. CASE subs' # {}
      BY <1>7, <2>2 DEF Unsubscribe, EventsTypeOK
    <2> QED
      BY <2>1, <2>2
  <1>8. CASE Connect
    BY <1>8, FramesAre DEF Connect, EventsTypeOK
  <1>9. CASE Break
    <2>1. excused' \in [Directories -> BOOLEAN]
      BY <1>9, Excuses DEF Break, EventsTypeOK
    <2>2. wire' = <<>> /\ outages' \in 0..MaxOutages
      BY <1>9 DEF Break, EventsTypeOK
    <2>3. connected' \in BOOLEAN
      BY <1>9, Zenon DEF Break
    <2> QED
      BY <1>9, <2>1, <2>2, <2>3 DEF Break, EventsTypeOK
  <1>10. CASE Receive
    <2>1. pulled' \in [Directories -> 0..MaxChanges] /\ excused' \in [Directories -> BOOLEAN]
      BY <1>10, Pulls DEF Receive
    <2>2. sawHello' \in BOOLEAN /\ degraded' \in BOOLEAN
      BY <1>10 DEF Receive, EventsTypeOK
    <2>3. wire' \in Seq(Frames)
      BY <1>10 DEF Receive, EventsTypeOK
    <2> QED
      BY <1>10, <2>1, <2>2, <2>3 DEF Receive, EventsTypeOK
  <1>11. CASE DegradedTick
    BY <1>11, Pulls DEF DegradedTick, EventsTypeOK
  <1>12. CASE UNCHANGED eventVars
    BY <1>12 DEF eventVars, EventsTypeOK
  <1> QED
    BY <1>1, <1>2, <1>3, <1>4, <1>5, <1>6, <1>7, <1>8, <1>9, <1>10, <1>11, <1>12 DEF EventsNext

LEMMA EventsStart == EventsInit => EventsInv
  <1> SUFFICES ASSUME EventsInit PROVE EventsInv
    OBVIOUS
  <1> USE EventsAssumption DEF EventsInit
  <1>1. IsFiniteSet(pending)
    BY FS_EmptySet
  <1>2. /\ rev \in [Directories -> 0..MaxChanges] /\ pulled \in [Directories -> 0..MaxChanges]
        /\ changes \in 0..MaxChanges /\ outages \in 0..MaxOutages
        /\ raw \subseteq Paths \cup {Unnamed} /\ watcher \in {"open", "closed"}
        /\ pending \subseteq Paths /\ wire \in Seq(Frames) /\ subs \subseteq Sessions
    OBVIOUS
  <1>3. /\ hintUnknown \in BOOLEAN /\ armed \in BOOLEAN /\ connected \in BOOLEAN
        /\ sawHello \in BOOLEAN /\ degraded \in BOOLEAN
    BY Zenon
  <1>4. excused \in [Directories -> BOOLEAN]
    BY Zenon
  <1>5. EventsTypeOK
    BY <1>2, <1>3, <1>4 DEF EventsTypeOK
  <1> QED
    BY <1>1, <1>5 DEF EventsInv

\* Every variable of the channel keeps to its type, the frames on the wire included.
THEOREM EventsTypeCorrect == EventsSpec => []EventsTypeOK
  <1>1. EventsInv => EventsTypeOK
    BY DEF EventsInv
  <1>2. EventsInv /\ [EventsNext]_eventVars => EventsInv'
    BY EventsStep
  <1> QED
    BY <1>1, <1>2, EventsStart, PTL DEF EventsSpec

\* A batch within the cap is told whole.
LEMMA FlushTells ==
  ASSUME EventsInv, flush, connected,
         NEW p \in Batch, p[1] \in Sessions
  PROVE  \E k \in DOMAIN wire' : wire'[k] = Files(p[1])
  <1> DEFINE more == (IF pending = {} THEN <<Resync>> ELSE <<>>)
             hint == (IF hintUnknown THEN <<Resync>> ELSE <<>>)
             frames == Groups \o more \o hint
  <1>1. PICK k \in DOMAIN Groups : Groups[k] = Files(p[1])
    BY GroupsAre
  <1>2. PICK g \in Seq(Frames) : g = Groups
    BY GroupsAre
  <1>10. <<Resync>> \in Seq(Frames) /\ <<>> \in Seq(Frames)
    BY FramesAre
  <1>3. PICK m \in Seq(Frames) : m = more
    BY <1>10, Zenon
  <1>4. PICK h \in Seq(Frames) : h = hint
    BY <1>10, Zenon
  <1>5. PICK w \in Seq(Frames) : w = wire
    BY DEF EventsInv, EventsTypeOK
  <1>6. wire' = w \o (g \o m \o h)
    BY <1>2, <1>3, <1>4, <1>5 DEF flush, Broadcast
  <1> HIDE DEF more, hint, frames
  <1>7. Len(w) + k \in DOMAIN wire' /\ wire'[Len(w) + k] = g[k]
    <2>1. k \in 1..Len(g) /\ Len(g) \in Nat /\ Len(m) \in Nat /\ Len(h) \in Nat /\ Len(w) \in Nat
      BY <1>2
    <2>2. g \o m \o h \in Seq(Frames) /\ (g \o m \o h)[k] = g[k]
          /\ Len(g \o m \o h) = Len(g) + Len(m) + Len(h)
      BY <2>1
    <2> QED
      BY <1>6, <2>1, <2>2
  <1> QED
    BY <1>1, <1>2, <1>7

LEMMA WholeBatch ==
  ASSUME EventsInv, Cardinality(pending) <= PathsCap
  PROVE  Batch = pending
  <1> SUFFICES ASSUME NEW p \in pending
               PROVE  Cardinality({q \in pending : Precedes(q, p)}) < PathsCap
    BY DEF Batch
  <1> DEFINE before == {q \in pending : Precedes(q, p)}
             others == pending \ {p}
  <1>1. p[1] \in Nat /\ p[2] \in Nat
    <2>1. p \in Directories \X (1..PathsPerDir)
      BY DEF EventsInv, EventsTypeOK, Paths
    <2>2. PICK d \in Directories, m \in 1..PathsPerDir : p = <<d, m>>
      BY <2>1
    <2>3. d \in Nat /\ m \in Nat
      BY EventsAssumption
    <2> QED
      BY <2>2, <2>3
  <1>2. before \subseteq others
    <2>1. ~Precedes(p, p)
      BY <1>1 DEF Precedes
    <2> QED
      BY <2>1
  <1>3. IsFiniteSet(others) /\ Cardinality(others) = Cardinality(pending) - 1
    BY FS_RemoveElement DEF EventsInv
  <1>4. Cardinality(before) <= Cardinality(others)
    BY <1>2, <1>3, FS_Subset
  <1>5. /\ Cardinality(before) \in Nat /\ Cardinality(others) \in Nat
        /\ Cardinality(pending) \in Nat /\ PathsCap \in Nat
    BY <1>2, <1>3, FS_Subset, FS_CardinalityType, EventsAssumption DEF EventsInv
  <1> QED
    BY <1>3, <1>4, <1>5

\* A batch that fits the cap tells the page of every session one of whose files it
\* collected, whatever is on the wire and in whatever order the changes came.
THEOREM FittingBatchIsTold ==
  EventsSpec =>
    [][flush /\ connected /\ Cardinality(pending) <= PathsCap =>
         \A p \in pending : p[1] \in Sessions =>
           \E k \in DOMAIN wire' : wire'[k] = Files(p[1])]_eventVars
  <1>1. ASSUME EventsInv, [EventsNext]_eventVars
        PROVE  [flush /\ connected /\ Cardinality(pending) <= PathsCap =>
                  \A p \in pending : p[1] \in Sessions =>
                    \E k \in DOMAIN wire' : wire'[k] = Files(p[1])]_eventVars
    BY <1>1, WholeBatch, FlushTells
  <1>2. EventsInv /\ [EventsNext]_eventVars => EventsInv'
    BY EventsStep
  <1> QED
    BY <1>1, <1>2, EventsStart, PTL DEF EventsSpec

(***************************************************************************)
(* The tabs of the card-writing agent.                                     *)
(***************************************************************************)
\* A bounded set of positions has a last one, and it is unique.
LEMMA LastPosition ==
  ASSUME NEW n \in Nat, NEW S \in SUBSET (1..n), S # {}
  PROVE  /\ Max(S) \in S /\ \A x \in S : x <= Max(S)
         /\ \A k \in S : (\A x \in S : x <= k) => Max(S) = k
  <1> DEFINE Above == {m \in Nat : \A x \in S : x <= m}
  <1>1. n \in Above /\ Above \subseteq Nat
    OBVIOUS
  <1>2. Above \in SUBSET Nat /\ Above # {}
    BY <1>1
  <1>3. PICK m \in Above : \A k \in Above : m <= k
    <2> HIDE DEF Above
    <2> QED
      BY <1>2, Smallest
  <1>4. m \in Nat /\ \A x \in S : x <= m
    OBVIOUS
  <1>5. m \in S
    <2> SUFFICES ASSUME m \notin S PROVE FALSE
      OBVIOUS
    <2>1. \A x \in S : x <= m - 1
      BY <1>4
    <2>2. m - 1 \in Nat
      <3>1. PICK x \in S : x \in 1..n
        OBVIOUS
      <3> QED
        BY <1>4, <3>1
    <2>3. m - 1 \in Above /\ ~(m <= m - 1)
      BY <2>1, <2>2
    <2> HIDE DEF Above
    <2> QED
      BY <1>3, <2>3
  <1> HIDE DEF Above
  <1>6. \E x \in S : \A y \in S : x >= y
    BY <1>4, <1>5
  <1>7. Max(S) \in S /\ \A y \in S : Max(S) >= y
    BY <1>6, Zenon DEF Max
  <1>8. PICK last \in S : last = Max(S) /\ \A y \in S : last >= y
    BY <1>7
  <1>9. S \subseteq Nat
    OBVIOUS
  <1> QED
    BY <1>8, <1>9

LEMMA LastWrite ==
  ASSUME WritersTypeOK, Writes # {}
  PROVE  Max(Writes) \in Writes /\ \A k \in Writes : k <= Max(Writes)
  <1>1. Len(sending) \in Nat /\ Writes \in SUBSET (1..Len(sending))
    BY DEF WritersTypeOK, Writes
  <1> QED
    BY <1>1, LastPosition

LEMMA LatestTyped ==
  ASSUME WritersTypeOK PROVE Latest \in Registries
  <1>1. CASE Writes = {}
    BY <1>1 DEF WritersTypeOK, Latest
  <1>2. CASE Writes # {}
    <2>1. Max(Writes) \in DOMAIN sending /\ sending[Max(Writes)].text # <<>>
      BY <1>2, LastWrite DEF Writes
    <2>2. sending[Max(Writes)] \in WriterCalls
      BY <2>1 DEF WritersTypeOK
    <2> QED
      BY <1>2, <2>1, <2>2 DEF Latest, WriterCalls
  <1> QED
    BY <1>1, <1>2

\* A read on its way changes nothing that is to be served.
LEMMA ReadAppended ==
  ASSUME WritersTypeOK, NEW c, sending' = Append(sending, Read(c)), UNCHANGED registry
  PROVE  Latest' = Latest /\ Writes' = Writes
  <1>1. Writes' = Writes
    BY DEF WritersTypeOK, Writes, Read
  <1>2. \A k \in Writes : sending'[k] = sending[k]
    BY DEF WritersTypeOK, Writes
  <1> QED
    BY <1>1, <1>2, LastWrite DEF Latest

\* A write sent last is what will have been served.
LEMMA WriteAppended ==
  ASSUME WritersTypeOK, NEW c, NEW reg, sending' = Append(sending, Write(c, reg))
  PROVE  Latest' = reg
  <1> DEFINE n == Len(sending) + 1
  <1>1. n \in Nat /\ n \in Writes' /\ Writes' \in SUBSET (1..n)
    BY DEF WritersTypeOK, Writes, Write
  <1>2. \A x \in Writes' : x <= n
    BY <1>1
  <1>3. Max(Writes') = n
    BY <1>1, <1>2, LastPosition
  <1>4. sending'[n] = Write(c, reg)
    BY DEF WritersTypeOK
  <1> QED
    BY <1>1, <1>3, <1>4 DEF Latest, Write

\* Serving the calls in order does not change what will have been served.
LEMMA HeadServed ==
  ASSUME WritersTypeOK, sending # <<>>, sending' = Tail(sending),
         registry' = IF Head(sending).text = <<>> THEN registry ELSE Head(sending).text[1]
  PROVE  Latest' = Latest
  <1>1. /\ Head(sending) = sending[1] /\ Len(sending) \in Nat /\ Len(sending) > 0
        /\ DOMAIN sending' = 1..(Len(sending) - 1) /\ DOMAIN sending = 1..Len(sending)
        /\ \A k \in DOMAIN sending' : sending'[k] = sending[k + 1]
    BY DEF WritersTypeOK
  <1>2. \A k \in Nat : k \in Writes' <=> k + 1 \in Writes /\ k > 0
    BY <1>1 DEF Writes
  <1>3. Writes \in SUBSET (1..Len(sending)) /\ Writes' \in SUBSET (1..Len(sending))
    BY <1>1 DEF Writes
  <1>4. CASE Writes' # {}
    <2>1. PICK m \in Writes' : m = Max(Writes') /\ \A x \in Writes' : x <= m
      BY <1>1, <1>3, <1>4, LastPosition
    <2>2. m \in Nat /\ m + 1 \in Writes
      BY <1>2, <1>3
    <2>3. \A x \in Writes : x <= m + 1
      <3> SUFFICES ASSUME NEW x \in Writes, x # 1 PROVE x <= m + 1
        BY <2>2
      <3>1. x \in Nat /\ x - 1 \in Nat /\ x - 1 > 0
        BY <1>3
      <3>2. x - 1 \in Writes'
        BY <1>2, <3>1
      <3> QED
        BY <2>1, <2>2, <3>1, <3>2
    <2>4. Max(Writes) = m + 1
      BY <1>1, <1>3, <2>2, <2>3, LastPosition
    <2>5. sending'[m] = sending[m + 1]
      BY <1>1 DEF Writes
    <2> QED
      BY <1>4, <2>1, <2>2, <2>4, <2>5 DEF Latest
  <1>5. CASE Writes' = {}
    <2>1. \A k \in Writes : k = 1
      BY <1>2, <1>3, <1>5
    <2>2. CASE Head(sending).text = <<>>
      <3>1. Writes = {}
        BY <1>1, <2>1, <2>2 DEF Writes
      <3> QED
        BY <1>5, <2>2, <3>1 DEF Latest
    <2>3. CASE Head(sending).text # <<>>
      <3>1. 1 \in Writes
        BY <1>1, <2>3 DEF Writes
      <3>2. Max(Writes) = 1
        BY <2>1, <3>1, LastWrite
      <3> QED
        BY <1>1, <1>5, <2>3, <3>1, <3>2 DEF Latest
    <2> QED
      BY <2>2, <2>3
  <1> QED
    BY <1>4, <1>5
\* What a step leaves has the types of the state.
LEMMA Removed ==
  ASSUME NEW T, NEW s \in Seq(T), NEW i \in DOMAIN s
  PROVE  /\ RemoveAt(s, i) \in Seq(T)
         /\ \A k \in DOMAIN RemoveAt(s, i) : \E j \in DOMAIN s : RemoveAt(s, i)[k] = s[j]
  <1> DEFINE before == SubSeq(s, 1, i - 1)
             behind == SubSeq(s, i + 1, Len(s))
  <1>1. /\ Len(s) \in Nat /\ DOMAIN s = 1..Len(s) /\ \A k \in 1..Len(s) : s[k] \in T
    BY LenProperties
  <1>2. before \in Seq(T) /\ behind \in Seq(T)
    BY <1>1
  <1>3. /\ Len(before) = i - 1 /\ \A k \in 1..Len(before) : before[k] = s[k]
        /\ Len(behind) = Len(s) - i /\ \A k \in 1..Len(behind) : behind[k] = s[k + i]
    <2>1. i \in 1..Len(s)
      BY <1>1
    <2>2. Len(before) = i - 1 /\ \A k \in 1..(i - 1) : before[k] = s[k]
      BY <1>1, <2>1, SubSeqProperties
    <2>3. Len(behind) = Len(s) - i /\ \A k \in 1..(Len(s) - i) : behind[k] = s[k + i]
      BY <1>1, <2>1, SubSeqProperties
    <2> QED
      BY <2>2, <2>3
  <1>4. RemoveAt(s, i) = before \o behind
    BY DEF RemoveAt
  <1> HIDE DEF before, behind
  <1>5. ASSUME NEW k \in DOMAIN (before \o behind)
        PROVE  \E j \in DOMAIN s : (before \o behind)[k] = s[j]
    <2>1. /\ k \in 1..(Len(before) + Len(behind))
          /\ (before \o behind)[k] = IF k <= Len(before) THEN before[k]
                                    ELSE behind[k - Len(before)]
      BY <1>2
    <2>2. CASE k <= Len(before)
      BY <1>1, <1>3, <2>1, <2>2
    <2>3. CASE ~(k <= Len(before))
      <3>1. k - Len(before) \in 1..Len(behind) /\ k + 1 \in DOMAIN s
        BY <1>1, <1>3, <2>1, <2>3
      <3>2. (before \o behind)[k] = s[(k - Len(before)) + i]
        BY <1>3, <2>1, <2>3, <3>1
      <3>3. (k - Len(before)) + i = k + 1
        BY <1>1, <1>3, <2>1
      <3> QED
        BY <3>1, <3>2, <3>3
    <2> QED
      BY <2>2, <2>3
  <1>6. before \o behind \in Seq(T)
    BY <1>2
  <1> QED
    BY <1>4, <1>5, <1>6

LEMMA Sent ==
  ASSUME WritersTypeOK, NEW c \in Columns, NEW sessions \in SUBSET Writers,
         NEW deleted \in SUBSET Writers, writeRegistry(c, sessions, deleted)
  PROVE  /\ sending' \in Seq(WriterCalls) /\ unsent' \in BOOLEAN
         /\ tabs' \in [Columns -> SUBSET Writers] /\ tombs' \in [Columns -> SUBSET Writers]
  <1>1. Write(c, Registry(sessions, deleted)) \in WriterCalls
    BY DEF Write, Registry, Registries, WriterCalls
  <1>2. tabs' \in [Columns -> SUBSET Writers] /\ tombs' \in [Columns -> SUBSET Writers]
    BY DEF writeRegistry, WritersTypeOK
  <1> DEFINE call == Write(c, Registry(sessions, deleted))
  <1>3. Append(sending, call) \in Seq(WriterCalls)
    BY <1>1 DEF WritersTypeOK
  <1> HIDE DEF call
  <1>4. \/ sending' = Append(sending, call) /\ unsent' = unsent
        \/ sending' = sending /\ unsent' = TRUE
    BY DEF writeRegistry, call
  <1>5. sending' \in Seq(WriterCalls)
    BY <1>3, <1>4 DEF WritersTypeOK
  <1>6. unsent' \in BOOLEAN
    BY <1>4, Zenon DEF WritersTypeOK
  <1> QED
    BY <1>2, <1>5, <1>6

LEMMA Loaded ==
  ASSUME WritersTypeOK, NEW c \in Columns, NEW reg \in Registries, Loads(c, reg)
  PROVE  /\ creating' \in Seq(Requests) /\ loaded' \subseteq Columns
         /\ tabs' \in [Columns -> SUBSET Writers] /\ tombs' \in [Columns -> SUBSET Writers]
  <1>1. NewTab(c, reg) \in Requests
    BY DEF NewTab, Requests
  <1>2. CASE shown # c
    BY <1>2 DEF Loads, WritersTypeOK, stripVars
  <1>3. CASE shown = c
    <2>1. tabs' \in [Columns -> SUBSET Writers] /\ tombs' \in [Columns -> SUBSET Writers]
      BY <1>3 DEF Loads, WritersTypeOK, Registries
    <2> DEFINE request == NewTab(c, reg)
    <2>2. Append(creating, request) \in Seq(Requests) /\ creating \in Seq(Requests)
      BY <1>1 DEF WritersTypeOK
    <2>3. creating' = Append(creating, request) \/ creating' = creating
      BY <1>3 DEF Loads
    <2>4. creating' \in Seq(Requests)
      BY <2>2, <2>3
    <2> QED
      BY <1>3, <2>1, <2>4 DEF Loads, WritersTypeOK
  <1> QED
    BY <1>2, <1>3

LEMMA WritersTyped ==
  ASSUME WritersTypeOK, [WritersNext]_writerVars
  PROVE  WritersTypeOK'
  <1> USE WriterAssumption DEF WritersTypeOK, diskVars, columnVars, stripVars
  <1>0. Empty \in Registries
    BY DEF Empty, Registry, Registries
  <1>1. CASE Mount
    <2>1. mounts + 1 \in Columns /\ Read(mounts + 1) \in WriterCalls
      BY <1>1 DEF Mount, Columns, Read, WriterCalls
    <2> QED
      BY <1>1, <2>1 DEF Mount, Columns
  <1>2. CASE Unmount
    BY <1>2 DEF Unmount
  <1>3. ASSUME sending # <<>>, sending' = Tail(sending)
        PROVE  /\ sending' \in Seq(WriterCalls) /\ Head(sending).column \in Columns
               /\ Head(sending).text # <<>> => Head(sending).text[1] \in Registries
    <2>1. sending' \in Seq(WriterCalls) /\ Head(sending) \in WriterCalls
      BY <1>3
    <2> QED
      BY <2>1 DEF WriterCalls
  <1>4. CASE Served
    <2>1. CASE Head(sending).text = <<>>
      BY <1>3, <1>4, <2>1, Loaded DEF Served
    <2>2. CASE Head(sending).text # <<>>
      BY <1>3, <1>4, <2>2 DEF Served
    <2> QED
      BY <2>1, <2>2
  <1>5. CASE CallFails
    <2>1. CASE Head(sending).text = <<>>
      BY <1>0, <1>3, <1>5, <2>1, Loaded DEF CallFails, Mishap
    <2>2. CASE Head(sending).text # <<>>
      BY <1>3, <1>5, <2>2 DEF CallFails, Mishap
    <2> QED
      BY <2>1, <2>2
  <1>6. CASE clickNew
    <2>1. NewTab(shown, Registry(tabs[shown], tombs[shown])) \in Requests
      BY <1>6 DEF clickNew, NewTab, Registry, Registries, Requests
    <2> QED
      BY <1>6, <2>1 DEF clickNew, CreateTab
  <1>7. CASE clearActive
    <2>1. PICK s \in tabs[shown] : CreateTab(Replacement(shown, s))
      BY <1>7 DEF clearActive
    <2>2. Replacement(shown, s) \in Requests
      BY <1>0, <1>7 DEF clearActive, Replacement, Requests
    <2> QED
      BY <2>1, <2>2 DEF CreateTab
  <1>8. CASE closeActive
    <2>1. PICK s \in tabs[shown] : Buries(s) /\ closed' = closed \cup {s}
      BY <1>8 DEF closeActive
    <2>2. /\ shown \in Columns /\ s \in Writers
          /\ tabs[shown] \ {s} \subseteq Writers /\ tombs[shown] \cup {s} \subseteq Writers
      BY <1>8 DEF closeActive
    <2>3. writeRegistry(shown, tabs[shown] \ {s}, tombs[shown] \cup {s})
      BY <2>1 DEF Buries
    <2> QED
      BY <1>8, <2>1, <2>2, <2>3, Sent DEF closeActive
  <1>9. CASE FirstPrompt
    BY <1>9 DEF FirstPrompt
  <1>10. CASE SaveCopies
    BY <1>10 DEF SaveCopies
  <1>11. CASE Rebinds
    <2>1. registry' \in Registries /\ swapped' \in BOOLEAN
      BY <1>0, <1>11 DEF Rebinds, Swaps
    <2> QED
      BY <1>11, <2>1 DEF Rebinds, Swaps, Mishap
  <1>12. CASE Reseeds
    BY <1>0, <1>12 DEF Reseeds, Swaps, Mishap
  <1>13. CASE writerLogGC
    <2>1. registry' \in Registries
      BY <1>13 DEF writerLogGC, Registries
    <2> QED
      BY <1>13, <2>1 DEF writerLogGC, Mishap
  <1>14. ASSUME NEW k \in DOMAIN creating, CreateResolves(k) PROVE WritersTypeOK'
    <2> DEFINE request == creating[k]
               fresh == writers + 1
    <2>1. request \in Requests /\ fresh \in Writers /\ fresh \in 0..MaxWriters
      BY <1>14 DEF CreateResolves, Writers
    <2>2. /\ request.column \in Columns /\ request.base.sessions \cup {fresh} \subseteq Writers
          /\ request.base.deleted \subseteq Writers
      BY <2>1 DEF Requests, Registries
    <2>3. /\ Replaced(tabs[request.column], request.old, fresh) \subseteq Writers
          /\ request.old # 0 => tombs[request.column] \cup {request.old} \subseteq Writers
      BY <2>1, <2>2 DEF Requests, Replaced
    <2>4. Created(request, fresh)
      BY <1>14 DEF CreateResolves
    <2>5. /\ sending' \in Seq(WriterCalls) /\ unsent' \in BOOLEAN
          /\ tabs' \in [Columns -> SUBSET Writers] /\ tombs' \in [Columns -> SUBSET Writers]
      BY <2>2, <2>3, <2>4, Sent DEF Created
    <2>6. creating' \in Seq(Requests)
      BY <1>14, Removed DEF CreateResolves
    <2>7. outrun' \in BOOLEAN
      <3>1. outrun' = (outrun \/ Outruns(request))
        BY <1>14 DEF CreateResolves
      <3> QED
        BY <3>1, Zenon
    <2> QED
      BY <1>14, <2>1, <2>2, <2>5, <2>6, <2>7 DEF CreateResolves
  <1>15. ASSUME NEW k \in DOMAIN creating, CreateRejects(k) PROVE WritersTypeOK'
    <2>1. creating[k] \in Requests
      OBVIOUS
    <2>2. creating[k].column \in Columns /\ creating[k].base.sessions \subseteq Writers
      BY <2>1 DEF Requests, Registries
    <2>3. creating' \in Seq(Requests)
      BY <1>15, Removed DEF CreateRejects
    <2>4. outrun' \in BOOLEAN
      BY <1>15, Zenon DEF CreateRejects
    <2> QED
      BY <1>15, <2>2, <2>3, <2>4 DEF CreateRejects, Mishap
  <1>16. CASE UNCHANGED writerVars
    BY <1>16 DEF writerVars
  <1> QED
    BY <1>1, <1>2, <1>4, <1>5, <1>6, <1>7, <1>8, <1>9, <1>10, <1>11, <1>12, <1>13, <1>14,
       <1>15, <1>16 DEF WritersNext

\* Reads of this column on their way.
Reads(c) == {k \in DOMAIN sending : sending[k].column = c /\ sending[k].text = <<>>}

Mounted ==
  /\ shown <= mounts /\ loaded \subseteq 1..mounts
  /\ \A k \in DOMAIN sending : sending[k].column <= mounts
  /\ \A k \in DOMAIN creating : /\ creating[k].column <= mounts
                                /\ creating[k].old # 0 => creating[k].column \in loaded

\* The shown column waits for its one read, which no write is behind; a write of an
\* older column that was is one the history tells of.
ReadFirst ==
  \A k \in Reads(shown) :
     /\ shown \notin loaded /\ \A j \in DOMAIN creating : creating[j].column # shown
     /\ \A j \in Reads(shown) : j = k
     /\ StillClaimed => \A j \in Writes : j < k

\* The registry that will have been served buries what the user closed and names
\* what is open, and a strip that is shown is up to date with it.
Synced ==
  StillClaimed =>
    /\ closed \cap Latest.sessions = {} /\ closed \cap logs \subseteq Latest.deleted
    /\ opened \ closed \subseteq Latest.sessions
    /\ closed \cup Latest.sessions \subseteq 1..writers
    /\ shown \in loaded => Covers(Registry(tabs[shown], tombs[shown]))

StripInv == WritersTypeOK /\ Mounted /\ ReadFirst /\ Synced

LEMMA SameCalls ==
  ASSUME UNCHANGED <<sending, registry>>
  PROVE  /\ Latest' = Latest /\ Writes' = Writes
         /\ UNCHANGED shown => Reads(shown)' = Reads(shown)
  BY DEF Latest, Writes, Reads

LEMMA CallTyped ==
  ASSUME WritersTypeOK, NEW k \in DOMAIN sending
  PROVE  /\ sending[k].column \in Columns
         /\ sending[k].text # <<>> => sending[k].text[1] \in Registries
  <1>1. sending[k] \in WriterCalls
    BY DEF WritersTypeOK
  <1> QED
    BY <1>1 DEF WriterCalls

LEMMA RequestTyped ==
  ASSUME WritersTypeOK, NEW k \in DOMAIN creating
  PROVE  creating[k] \in Requests /\ creating[k].column \in Columns
  <1>1. creating[k] \in Requests
    BY DEF WritersTypeOK
  <1> QED
    BY <1>1 DEF Requests

\* What a column writes: its strip is what will have been registered, unless the
\* write was lost.
LEMMA Handed ==
  ASSUME StripInv, NEW c \in Columns, c <= mounts,
         NEW sessions \in SUBSET Writers, NEW deleted \in SUBSET Writers,
         writeRegistry(c, sessions, deleted), UNCHANGED <<shown, mounts>>
  PROVE  /\ Reads(shown)' = Reads(shown)
         /\ \A k \in DOMAIN sending' : sending'[k].column <= mounts
         /\ tabs'[c] = sessions /\ tombs'[c] = deleted
         /\ \A d \in Columns \ {c} : tabs'[d] = tabs[d] /\ tombs'[d] = tombs[d]
         /\ ~unsent' => ~unsent /\ Latest' = Registry(sessions, deleted)
  <1> DEFINE call == Write(c, Registry(sessions, deleted))
  <1>2. /\ tabs'[c] = sessions /\ tombs'[c] = deleted
        /\ \A d \in Columns \ {c} : tabs'[d] = tabs[d] /\ tombs'[d] = tombs[d]
    BY DEF StripInv, WritersTypeOK, writeRegistry
  <1>3. CASE c > stale
    <2>1. sending' = Append(sending, call) /\ unsent' = unsent
      BY <1>3 DEF writeRegistry
    <2>2. Latest' = Registry(sessions, deleted)
      BY <2>1, WriteAppended DEF StripInv
    <2>3. call.column = c /\ call.text # <<>>
      BY DEF Write
    <2> HIDE DEF call
    <2>4. /\ DOMAIN sending' = 1..(Len(sending) + 1) /\ DOMAIN sending = 1..Len(sending)
          /\ sending'[Len(sending) + 1] = call /\ Len(sending) \in Nat
          /\ \A k \in 1..Len(sending) : sending'[k] = sending[k]
      BY <2>1 DEF StripInv, WritersTypeOK
    <2>5. \A k \in DOMAIN sending' : k = Len(sending) + 1 \/ k \in DOMAIN sending
      BY <2>4
    <2>6. Reads(shown)' = Reads(shown)
      BY <2>3, <2>4, <2>5 DEF Reads
    <2>7. \A k \in DOMAIN sending' : sending'[k].column <= mounts
      BY <2>3, <2>4, <2>5 DEF StripInv, Mounted
    <2> QED
      BY <1>2, <2>1, <2>2, <2>6, <2>7
  <1>4. CASE ~(c > stale)
    <2>1. sending' = sending /\ unsent' = TRUE
      BY <1>4 DEF writeRegistry
    <2> QED
      BY <1>2, <2>1 DEF StripInv, Mounted, Reads
  <1> QED
    BY <1>3, <1>4

LEMMA MountKeeps ==
  ASSUME StripInv, WritersTypeOK', Mount PROVE StripInv'
  <1>0. WritersTypeOK /\ Mounted /\ ReadFirst /\ Synced
    BY DEF StripInv
  <1>1. /\ UNCHANGED <<logs, writers, loaded, tabs, tombs, creating, opened, closed,
                       unsent, swapped, outrun>>
    BY DEF Mount, diskVars, stripVars
  <1>2. Latest' = Latest /\ Writes' = Writes
    BY <1>0, ReadAppended DEF Mount, diskVars
  <1>3. /\ DOMAIN sending' = 1..(Len(sending) + 1) /\ DOMAIN sending = 1..Len(sending)
        /\ sending'[Len(sending) + 1] = Read(mounts + 1) /\ Len(sending) \in Nat
        /\ \A k \in 1..Len(sending) : sending'[k] = sending[k]
    BY <1>0 DEF Mount, WritersTypeOK
  <1>4. mounts \in Nat /\ mounts' = mounts + 1 /\ shown' = mounts + 1
    BY <1>0 DEF Mount, WritersTypeOK
  <1>5. \A k \in DOMAIN sending' : k = Len(sending) + 1 \/ k \in DOMAIN sending
    BY <1>3
  <1>6. \A k \in DOMAIN sending : sending[k].column \in Nat /\ sending[k].column <= mounts
    BY <1>0, CallTyped DEF Mounted, Columns
  <1>7. \A k \in DOMAIN creating : creating[k].column \in Nat /\ creating[k].column <= mounts
    BY <1>0, RequestTyped DEF Mounted, Columns
  <1>8. Mounted'
    <2>1. \A k \in DOMAIN sending' : sending'[k].column <= mounts'
      BY <1>3, <1>4, <1>5, <1>6 DEF Read
    <2>2. loaded' \subseteq 1..mounts'
      BY <1>0, <1>1, <1>4 DEF Mounted
    <2> QED
      BY <1>0, <1>1, <1>4, <1>7, <2>1, <2>2 DEF Mounted
  <1>9. \A k \in Reads(shown)' : k = Len(sending) + 1
    BY <1>3, <1>4, <1>5, <1>6 DEF Reads
  <1>10. shown' \notin loaded'
    BY <1>0, <1>1, <1>4 DEF Mounted
  <1>11. \A j \in DOMAIN creating' : creating'[j].column # shown'
    BY <1>1, <1>4, <1>7
  <1>12. ReadFirst'
    <2>1. \A j \in Writes' : j < Len(sending) + 1
      BY <1>2, <1>3 DEF Writes
    <2> QED
      BY <1>9, <1>10, <1>11, <2>1 DEF ReadFirst
  <1>13. Synced'
    BY <1>0, <1>1, <1>2, <1>10 DEF Synced, StillClaimed
  <1> QED
    BY <1>8, <1>12, <1>13 DEF StripInv

LEMMA UnmountKeeps ==
  ASSUME StripInv, WritersTypeOK', Unmount PROVE StripInv'
  <1>0. WritersTypeOK /\ Mounted /\ ReadFirst /\ Synced
    BY DEF StripInv
  <1>1. /\ shown' = 0
        /\ UNCHANGED <<registry, logs, writers, mounts, loaded, tabs, tombs, creating, sending,
                       opened, closed, unsent, swapped, outrun>>
    BY DEF Unmount, NoColumn, diskVars, stripVars
  <1>2. Latest' = Latest
    BY <1>1, SameCalls
  <1>3. \A k \in DOMAIN sending : sending[k].column # 0
    BY <1>0, CallTyped DEF Columns
  <1>4. Reads(shown)' = {}
    BY <1>1, <1>3 DEF Reads
  <1>5. mounts \in Nat /\ loaded' \subseteq 1..mounts
    BY <1>0, <1>1 DEF WritersTypeOK, Mounted
  <1>6. Mounted'
    BY <1>0, <1>1, <1>5 DEF Mounted
  <1>7. Synced'
    BY <1>0, <1>1, <1>2, <1>5 DEF Synced, StillClaimed
  <1> QED
    BY <1>4, <1>6, <1>7 DEF StripInv, ReadFirst

\* What serving the head leaves of the calls on their way.
LEMMA HeadLeaves ==
  ASSUME StripInv, sending # <<>>, sending' = Tail(sending), UNCHANGED <<shown, mounts>>
  PROVE  /\ 1 \in DOMAIN sending /\ Head(sending) = sending[1]
         /\ \A k \in DOMAIN sending' : sending'[k].column <= mounts
         /\ \A k \in Nat : k \in Reads(shown)' <=> k > 0 /\ k + 1 \in Reads(shown)
         /\ \A k \in Nat : k \in Writes' <=> k > 0 /\ k + 1 \in Writes
  <1>1. /\ Head(sending) = sending[1] /\ Len(sending) \in Nat /\ Len(sending) > 0
        /\ DOMAIN sending' = 1..(Len(sending) - 1) /\ DOMAIN sending = 1..Len(sending)
        /\ \A k \in DOMAIN sending' : sending'[k] = sending[k + 1]
    BY DEF StripInv, WritersTypeOK
  <1> QED
    BY <1>1 DEF StripInv, Mounted, Reads, Writes

LEMMA PositionsNat ==
  ASSUME WritersTypeOK PROVE DOMAIN sending \subseteq Nat \ {0}
  BY DEF WritersTypeOK

LEMMA StillFirst ==
  ASSUME StripInv, WritersTypeOK', sending # <<>>, sending' = Tail(sending),
         UNCHANGED <<shown, mounts, loaded, creating>>, StillClaimed' => StillClaimed
  PROVE  ReadFirst'
  <1>1. /\ \A k \in Nat : k \in Reads(shown)' <=> k > 0 /\ k + 1 \in Reads(shown)
        /\ \A k \in Nat : k \in Writes' <=> k > 0 /\ k + 1 \in Writes
    BY HeadLeaves
  <1>2. Writes' \subseteq Nat \ {0} /\ Reads(shown)' \subseteq Nat \ {0}
    BY PositionsNat DEF Writes, Reads
  <1> SUFFICES ASSUME NEW k \in Reads(shown)'
               PROVE  /\ shown \notin loaded
                      /\ \A j \in DOMAIN creating : creating[j].column # shown
                      /\ \A j \in Reads(shown)' : j = k
                      /\ StillClaimed => \A j \in Writes' : j < k
    BY DEF ReadFirst
  <1>3. k \in Nat /\ k + 1 \in Reads(shown)
    BY <1>1, <1>2
  <1>4. /\ shown \notin loaded /\ \A j \in DOMAIN creating : creating[j].column # shown
        /\ \A j \in Reads(shown) : j = k + 1
        /\ StillClaimed => \A j \in Writes : j < k + 1
    BY <1>3 DEF StripInv, ReadFirst
  <1>5. \A j \in Reads(shown)' : j \in Nat /\ j + 1 \in Reads(shown)
    BY <1>1, <1>2
  <1>6. \A j \in Writes' : j \in Nat /\ j + 1 \in Writes
    BY <1>1, <1>2
  <1> QED
    BY <1>3, <1>4, <1>5, <1>6

\* The read of the shown column is answered: the strip shows what is registered then.
LEMMA LoadsKeeps ==
  ASSUME StripInv, WritersTypeOK', NEW reg,
         sending # <<>>, sending' = Tail(sending), Head(sending).text = <<>>,
         Loads(Head(sending).column, reg),
         unsent' \/ (reg = registry /\ registry' = registry /\ UNCHANGED unsent),
         UNCHANGED <<logs, writers, mounts, shown, opened, closed, swapped, outrun>>
  PROVE  StripInv'
  <1> DEFINE c == Head(sending).column
  <1>0. WritersTypeOK /\ Mounted /\ ReadFirst /\ Synced
    BY DEF StripInv
  <1>1. /\ 1 \in DOMAIN sending /\ Head(sending) = sending[1]
        /\ \A k \in DOMAIN sending' : sending'[k].column <= mounts
        /\ \A k \in Nat : k \in Reads(shown)' <=> k > 0 /\ k + 1 \in Reads(shown)
        /\ \A k \in Nat : k \in Writes' <=> k > 0 /\ k + 1 \in Writes
    BY HeadLeaves
  <1>2. c \in Columns /\ c <= mounts
    BY <1>0, <1>1, CallTyped DEF Mounted
  <1>3. DOMAIN sending \subseteq Nat \ {0} /\ DOMAIN sending' \subseteq Nat \ {0}
    BY <1>0, PositionsNat
  <1>4. Writes' \subseteq Nat \ {0} /\ Reads(shown)' \subseteq Nat \ {0}
    BY <1>3 DEF Writes, Reads
  <1>5. ~unsent' => Latest' = Latest
    BY <1>0, HeadServed
  <1>50. StillClaimed' => StillClaimed /\ ~unsent'
    BY DEF StillClaimed
  <1>6. CASE shown # c
    <2>1. UNCHANGED <<loaded, tabs, tombs, creating>>
      BY <1>6 DEF Loads, stripVars
    <2>2. ReadFirst'
      BY <1>50, <2>1, StillFirst
    <2>3. Mounted'
      BY <1>0, <1>1, <2>1 DEF Mounted
    <2>4. Synced'
      BY <1>0, <1>5, <1>50, <2>1 DEF Synced, Covers
    <2> QED
      BY <2>2, <2>3, <2>4 DEF StripInv
  <1>7. CASE shown = c
    <2>1. 1 \in Reads(shown)
      BY <1>1, <1>7 DEF Reads
    <2>2. /\ shown \notin loaded /\ Reads(shown) \subseteq {1}
          /\ StillClaimed => Writes = {}
      <3>1. StillClaimed => \A j \in Writes : j < 1
        BY <1>0, <2>1 DEF ReadFirst
      <3>2. Writes \subseteq Nat \ {0}
        BY <1>3 DEF Writes
      <3>3. StillClaimed => Writes = {}
        BY <3>1, <3>2
      <3> QED
        BY <1>0, <2>1, <3>3 DEF ReadFirst
    <2>3. Reads(shown)' = {}
      BY <1>1, <1>4, <2>2
    <2>4. /\ tabs'[shown] = reg.sessions /\ tombs'[shown] = reg.deleted
          /\ creating' = creating \/ creating' = Append(creating, NewTab(shown, reg))
          /\ loaded' \subseteq loaded \cup {shown} /\ loaded \subseteq loaded'
      BY <1>0, <1>2, <1>7, <2>2 DEF Loads, WritersTypeOK
    <2>5. ReadFirst'
      BY <2>3 DEF ReadFirst
    <2>6. \A k \in DOMAIN creating' : /\ creating'[k].column <= mounts
                                      /\ creating'[k].old # 0 => creating'[k].column \in loaded'
      <3> DEFINE request == NewTab(shown, reg)
      <3>1. request.column = shown /\ request.old = 0
        BY DEF NewTab
      <3>2. creating' = creating \/ creating' = Append(creating, request)
        BY <2>4
      <3> HIDE DEF request
      <3>3. creating \in Seq(Requests)
        BY <1>0 DEF WritersTypeOK
      <3>4. \A k \in DOMAIN creating' :
              creating'[k] = request \/ (k \in DOMAIN creating /\ creating'[k] = creating[k])
        BY <3>2, <3>3
      <3> QED
        BY <1>0, <1>2, <1>7, <2>4, <3>1, <3>4 DEF Mounted
    <2>7. Mounted'
      BY <1>0, <1>1, <1>2, <1>7, <2>4, <2>6 DEF Mounted, Columns
    <2>8. Synced'
      <3> SUFFICES ASSUME StillClaimed' PROVE Synced'
        BY DEF Synced
      <3>1. reg = Latest /\ Latest' = Latest /\ StillClaimed
        <4>1. reg = registry /\ unsent' = unsent
          BY <1>50
        <4>2. Latest = registry
          BY <1>50, <2>2 DEF Latest
        <4> QED
          BY <1>5, <1>50, <4>1, <4>2
      <3>3. Covers(Registry(tabs[shown], tombs[shown]))'
        BY <2>4, <3>1 DEF Covers, Registry
      <3> QED
        BY <1>0, <3>1, <3>3 DEF Synced
    <2> QED
      BY <2>5, <2>7, <2>8 DEF StripInv
  <1> QED
    BY <1>6, <1>7

\* A write is served, or lost.
LEMMA WriteLeaves ==
  ASSUME StripInv, WritersTypeOK',
         sending # <<>>, sending' = Tail(sending), Head(sending).text # <<>>,
         unsent' \/ (registry' = Head(sending).text[1] /\ UNCHANGED unsent),
         UNCHANGED <<logs, writers, mounts, shown, opened, closed, swapped, outrun,
                     loaded, tabs, tombs, creating>>
  PROVE  StripInv'
  <1>0. WritersTypeOK /\ Mounted /\ ReadFirst /\ Synced
    BY DEF StripInv
  <1>1. \A k \in DOMAIN sending' : sending'[k].column <= mounts
    BY HeadLeaves
  <1>2. StillClaimed' => StillClaimed /\ ~unsent'
    BY DEF StillClaimed
  <1>4. ReadFirst'
    BY <1>2, StillFirst
  <1>5. Mounted'
    BY <1>0, <1>1 DEF Mounted
  <1>6. ~unsent' => Latest' = Latest
    BY <1>0, HeadServed
  <1>7. Synced'
    BY <1>0, <1>2, <1>6 DEF Synced, Covers
  <1> QED
    BY <1>4, <1>5, <1>7 DEF StripInv

LEMMA ServiceKeeps ==
  ASSUME StripInv, WritersTypeOK', Served \/ CallFails PROVE StripInv'
  <1>1. CASE Served /\ Head(sending).text = <<>>
    BY <1>1, LoadsKeeps DEF Served
  <1>2. CASE Served /\ Head(sending).text # <<>>
    BY <1>2, WriteLeaves DEF Served, stripVars
  <1>3. CASE CallFails /\ Head(sending).text = <<>>
    BY <1>3, LoadsKeeps DEF CallFails, diskVars
  <1>4. CASE CallFails /\ Head(sending).text # <<>>
    BY <1>4, WriteLeaves DEF CallFails, diskVars, stripVars
  <1> QED
    BY <1>1, <1>2, <1>3, <1>4

LEMMA ClickKeeps ==
  ASSUME StripInv, WritersTypeOK', clickNew \/ clearActive PROVE StripInv'
  <1>0. WritersTypeOK /\ Mounted /\ ReadFirst /\ Synced
    BY DEF StripInv
  <1>1. PICK request : CreateTab(request) /\ request.column = shown
    <2>1. CASE clickNew
      BY <2>1 DEF clickNew, NewTab
    <2>2. CASE clearActive
      BY <2>2 DEF clearActive, Replacement
    <2> QED
      BY <2>1, <2>2
  <1>2. shown \in loaded /\ shown <= mounts
    BY <1>0 DEF clickNew, clearActive, Mounted
  <1>3. /\ creating' = Append(creating, request)
        /\ UNCHANGED <<registry, logs, writers, mounts, shown, loaded, tabs, tombs, sending,
                       opened, closed, unsent, swapped, outrun>>
    BY <1>1 DEF CreateTab, diskVars, columnVars, stripVars
  <1>4. Latest' = Latest /\ Writes' = Writes /\ Reads(shown)' = Reads(shown)
    BY <1>3, SameCalls
  <1>5. \A k \in DOMAIN creating' :
          creating'[k] = request \/ (k \in DOMAIN creating /\ creating'[k] = creating[k])
    <2>1. creating \in Seq(Requests)
      BY <1>0 DEF WritersTypeOK
    <2> QED
      BY <1>3, <2>1
  <1>6. ReadFirst'
    BY <1>0, <1>2, <1>4 DEF ReadFirst
  <1>7. Mounted'
    BY <1>0, <1>1, <1>2, <1>3, <1>5 DEF Mounted
  <1>8. Synced'
    BY <1>0, <1>3, <1>4 DEF Synced, Covers, StillClaimed
  <1> QED
    BY <1>6, <1>7, <1>8 DEF StripInv

\* Nothing the column or its calls hold changes; the disk only as far as the
\* registry that will be served stays what it was.
LEMMA QuietKeeps ==
  ASSUME StripInv, WritersTypeOK', FirstPrompt \/ SaveCopies \/ UNCHANGED writerVars
  PROVE  StripInv'
  <1>0. WritersTypeOK /\ Mounted /\ ReadFirst /\ Synced
    BY DEF StripInv
  <1>1. /\ UNCHANGED <<registry, writers, mounts, shown, loaded, tabs, tombs, creating,
                       sending, opened, closed, unsent, swapped, outrun>>
        /\ logs' \subseteq logs \cup (IF shown \in loaded THEN tabs[shown] ELSE {})
    BY DEF FirstPrompt, SaveCopies, writerVars, columnVars, stripVars
  <1>2. Latest' = Latest /\ Writes' = Writes /\ Reads(shown)' = Reads(shown)
    BY <1>1, SameCalls
  <1>3. Mounted' /\ ReadFirst'
    BY <1>0, <1>1, <1>2 DEF Mounted, ReadFirst, StillClaimed
  <1>4. Synced'
    BY <1>0, <1>1, <1>2 DEF Synced, Covers, Registry, StillClaimed
  <1> QED
    BY <1>3, <1>4 DEF StripInv

LEMMA CloseKeeps ==
  ASSUME StripInv, WritersTypeOK', closeActive PROVE StripInv'
  <1>0. WritersTypeOK /\ Mounted /\ ReadFirst /\ Synced
    BY DEF StripInv
  <1>1. PICK s \in tabs[shown] : Buries(s) /\ closed' = closed \cup {s}
    BY DEF closeActive
  <1>2. /\ shown \in loaded /\ shown \in Columns /\ shown <= mounts
        /\ UNCHANGED <<registry, logs, writers, mounts, shown, loaded, creating, opened,
                       swapped, outrun>>
    BY <1>0 DEF closeActive, diskVars, columnVars, Mounted, WritersTypeOK
  <1>3. /\ tabs[shown] \subseteq Writers /\ tombs[shown] \subseteq Writers
    BY <1>0, <1>2 DEF WritersTypeOK
  <1>4. writeRegistry(shown, tabs[shown] \ {s}, tombs[shown] \cup {s})
    BY <1>1 DEF Buries
  <1>5. /\ Reads(shown)' = Reads(shown)
        /\ \A k \in DOMAIN sending' : sending'[k].column <= mounts
        /\ tabs'[shown] = tabs[shown] \ {s} /\ tombs'[shown] = tombs[shown] \cup {s}
        /\ ~unsent' => /\ ~unsent
                       /\ Latest' = Registry(tabs[shown] \ {s}, tombs[shown] \cup {s})
    <2>1. tabs[shown] \ {s} \in SUBSET Writers /\ tombs[shown] \cup {s} \in SUBSET Writers
      BY <1>1, <1>3
    <2> QED
      BY <1>2, <1>4, <2>1, Handed
  <1>6. Mounted' /\ ReadFirst'
    BY <1>0, <1>2, <1>5 DEF Mounted, ReadFirst
  <1>7. Synced'
    <2> SUFFICES ASSUME StillClaimed' PROVE Synced'
      BY DEF Synced
    <2>0. StillClaimed /\ ~unsent'
      BY <1>2, <1>5 DEF StillClaimed
    <2>1. /\ closed \cap Latest.sessions = {} /\ closed \cap logs \subseteq Latest.deleted
          /\ opened \ closed \subseteq Latest.sessions
          /\ closed \cup Latest.sessions \subseteq 1..writers
          /\ tabs[shown] = Latest.sessions /\ Latest.deleted \subseteq tombs[shown]
      BY <1>0, <1>2, <2>0 DEF Synced, Covers, Registry
    <2>2. Latest'.sessions = tabs[shown] \ {s} /\ Latest'.deleted = tombs[shown] \cup {s}
      BY <1>5, <2>0 DEF Registry
    <2>3. /\ closed' \cap Latest'.sessions = {} /\ closed' \cap logs \subseteq Latest'.deleted
          /\ opened \ closed' \subseteq Latest'.sessions
          /\ closed' \cup Latest'.sessions \subseteq 1..writers
      BY <1>1, <2>1, <2>2
    <2>4. Covers(Registry(tabs[shown], tombs[shown]))'
      BY <1>2, <1>5, <2>2 DEF Covers, Registry
    <2> QED
      BY <1>2, <2>3, <2>4 DEF Synced
  <1> QED
    BY <1>6, <1>7 DEF StripInv

\* runtime/ is replaced: the registry that will be served is the same, or the
\* history says otherwise.
LEMMA SwapKeeps ==
  ASSUME StripInv, WritersTypeOK', Rebinds \/ Reseeds PROVE StripInv'
  <1>0. WritersTypeOK /\ Mounted /\ ReadFirst /\ Synced
    BY DEF StripInv
  <1>1. UNCHANGED <<logs, writers, mounts, shown, loaded, tabs, tombs, creating, opened, closed,
                  outrun>>
    BY DEF Rebinds, Reseeds, Swaps, columnVars, stripVars
  <1>2. Mounted' /\ ReadFirst'
    <2>1. CASE sending' = <<>>
      BY <1>0, <1>1, <2>1 DEF Mounted, ReadFirst, Reads
    <2>2. CASE sending' = sending
      <3>1. StillClaimed' => StillClaimed
        BY <1>1 DEF Rebinds, Reseeds, Swaps, StillClaimed
      <3> QED
        BY <1>0, <1>1, <2>2, <3>1 DEF Mounted, ReadFirst, Reads, Writes
    <2> QED
      BY <2>1, <2>2 DEF Rebinds, Reseeds
  <1>3. ~unsent' /\ ~swapped' => ~unsent /\ ~swapped /\ Latest' = Latest
    <2> SUFFICES ASSUME ~unsent', ~swapped' PROVE ~unsent /\ ~swapped /\ Latest' = Latest
      OBVIOUS
    <2>1. ~swapped /\ registry' = registry
      BY DEF Rebinds, Reseeds, Swaps
    <2>2. CASE Rebinds
      <3>1. ~unsent /\ Writes = {} /\ sending' = <<>>
        BY <2>2 DEF Rebinds
      <3>2. Writes' = {}
        BY <3>1 DEF Writes
      <3> QED
        BY <2>1, <3>1, <3>2 DEF Latest
    <2>3. CASE Reseeds
      BY <2>1, <2>3, SameCalls DEF Reseeds
    <2> QED
      BY <2>1, <2>2, <2>3
  <1>4. Synced'
    BY <1>0, <1>1, <1>3 DEF Synced, Covers, StillClaimed
  <1> QED
    BY <1>2, <1>4 DEF StripInv

\* Collecting keeps every tombstone whose log is still there.
LEMMA CollectKeeps ==
  ASSUME StripInv, WritersTypeOK', writerLogGC PROVE StripInv'
  <1>0. WritersTypeOK /\ Mounted /\ ReadFirst /\ Synced
    BY DEF StripInv
  <1>1. /\ sending = <<>> /\ creating = <<>> /\ logs' = logs \ Collects(registry)
        /\ UNCHANGED <<writers, mounts, shown, loaded, tabs, tombs, creating, sending,
                       opened, closed, unsent, swapped, outrun>>
    BY DEF writerLogGC, columnVars, stripVars
  <1>2. Latest = registry /\ Latest' = registry'
    BY <1>1 DEF Latest, Writes
  <1>3. /\ registry'.sessions = registry.sessions
        /\ registry'.deleted = registry.deleted \cap logs'
    BY <1>0 DEF writerLogGC, WritersTypeOK, Registries
  <1>4. Mounted' /\ ReadFirst'
    BY <1>0, <1>1 DEF Mounted, ReadFirst, Reads, Writes
  <1>5. Synced'
    BY <1>0, <1>1, <1>2, <1>3 DEF Synced, Covers, StillClaimed
  <1> QED
    BY <1>4, <1>5 DEF StripInv

\* A create resolves: the new session takes its place among the tabs.
LEMMA ResolveKeeps ==
  ASSUME StripInv, WritersTypeOK', NEW k \in DOMAIN creating, CreateResolves(k)
  PROVE  StripInv'
  <1> DEFINE request == creating[k]
             fresh == writers + 1
             c == request.column
  <1>0. WritersTypeOK /\ Mounted /\ ReadFirst /\ Synced
    BY DEF StripInv
  <1>1. request \in Requests /\ c \in Columns /\ c <= mounts /\ mounts \in Nat
    BY <1>0, RequestTyped DEF Mounted, WritersTypeOK
  <1>2. /\ Created(request, fresh)
        /\ writers' = fresh /\ opened' = opened \cup {fresh}
        /\ closed' = closed \cup ({request.old} \cap Writers)
        /\ loaded' = loaded \cup {c}
        /\ outrun' = (outrun \/ Outruns(request))
        /\ creating' = RemoveAt(creating, k)
        /\ UNCHANGED <<registry, logs, mounts, shown, swapped>>
    BY DEF CreateResolves, diskVars
  <1>3. fresh \in Writers /\ writers \in Nat
    BY <1>0 DEF CreateResolves, WritersTypeOK, Writers
  <1>4. \A i \in DOMAIN creating' : \E j \in DOMAIN creating : creating'[i] = creating[j]
    BY <1>0, <1>2, Removed DEF WritersTypeOK
  <1> DEFINE sessions == IF request.old = 0 THEN request.base.sessions \cup {fresh}
                         ELSE Replaced(tabs[c], request.old, fresh)
             deleted == IF request.old = 0 THEN request.base.deleted
                        ELSE tombs[c] \cup {request.old}
  <1>6. sessions \subseteq Writers /\ deleted \subseteq Writers
    BY <1>0, <1>1, <1>3 DEF WritersTypeOK, Requests, Registries, Replaced
  <1>7. writeRegistry(c, sessions, deleted)
    BY <1>2 DEF Created
  <1>8. StillClaimed' => /\ StillClaimed /\ ~unsent'
                         /\ request.old = 0 => Covers(request.base)
                         /\ request.old # 0 => Covers(Registry(tabs[c], tombs[c]))
                         /\ request.old \in tabs[c] \cup {0} /\ shown \in {c, 0}
    <2>1. ~unsent' => ~unsent
      BY <1>7 DEF writeRegistry
    <2>2. ~outrun' => ~outrun /\ ~Outruns(request)
      BY <1>2
    <2>3. swapped' = swapped
      BY <1>2
    <2> QED
      BY <2>1, <2>2, <2>3 DEF StillClaimed, Outruns, NoColumn
  <1> HIDE DEF request
  <1>9. StillClaimed' =>
          /\ closed' \cap sessions = {} /\ closed' \cap logs \subseteq deleted
          /\ opened' \ closed' \subseteq sessions
          /\ closed' \cup sessions \subseteq 1..writers'
    <2> SUFFICES ASSUME StillClaimed'
                 PROVE  /\ closed' \cap sessions = {} /\ closed' \cap logs \subseteq deleted
                        /\ opened' \ closed' \subseteq sessions
                        /\ closed' \cup sessions \subseteq 1..writers'
      OBVIOUS
    <2>1. /\ closed \cap Latest.sessions = {} /\ closed \cap logs \subseteq Latest.deleted
          /\ opened \ closed \subseteq Latest.sessions
          /\ closed \cup Latest.sessions \subseteq 1..writers
      BY <1>0, <1>8 DEF Synced
    <2>2. CASE request.old = 0
      <3>1. closed' = closed
        BY <1>2, <2>2 DEF Writers
      <3>2. request.base.sessions = Latest.sessions /\ Latest.deleted \subseteq request.base.deleted
        BY <1>8, <2>2 DEF Covers
      <3> QED
        BY <1>2, <1>3, <2>1, <2>2, <3>1, <3>2
    <2>3. CASE request.old # 0
      <3>1. request.old \in tabs[c] /\ request.old \in Writers
        BY <1>0, <1>1, <1>8, <2>3 DEF WritersTypeOK
      <3>2. closed' = closed \cup {request.old}
        BY <1>2, <3>1
      <3>3. sessions = (tabs[c] \ {request.old}) \cup {fresh}
        BY <2>3, <3>1 DEF Replaced
      <3>4. tabs[c] = Latest.sessions /\ Latest.deleted \subseteq tombs[c]
        BY <1>8, <2>3 DEF Covers, Registry
      <3>5. deleted = tombs[c] \cup {request.old}
        BY <2>3
      <3> HIDE DEF sessions, deleted
      <3> QED
        BY <1>2, <1>3, <2>1, <3>1, <3>2, <3>3, <3>4, <3>5
    <2> QED
      BY <2>2, <2>3
  <1> HIDE DEF sessions, deleted
  <1>10. /\ Reads(shown)' = Reads(shown)
         /\ \A j \in DOMAIN sending' : sending'[j].column <= mounts
         /\ tabs'[c] = sessions /\ tombs'[c] = deleted
         /\ ~unsent' => ~unsent /\ Latest' = Registry(sessions, deleted)
    <2> HIDE DEF c
    <2> QED
      BY <1>1, <1>2, <1>6, <1>7, Handed
  <1>11. ReadFirst'
    <2> SUFFICES ASSUME NEW i \in Reads(shown)
                 PROVE  /\ shown' \notin loaded'
                        /\ \A j \in DOMAIN creating' : creating'[j].column # shown
                        /\ \A j \in Reads(shown) : j = i
                        /\ ~StillClaimed'
      BY <1>2, <1>10 DEF ReadFirst
    <2>1. /\ shown \notin loaded /\ \A j \in DOMAIN creating : creating[j].column # shown
          /\ \A j \in Reads(shown) : j = i
      BY <1>0 DEF ReadFirst
    <2>2. shown # c
      BY <2>1 DEF request
    <2>3. shown # 0
      BY <1>0, CallTyped DEF Reads, Columns
    <2> QED
      BY <1>2, <1>4, <1>8, <2>1, <2>2, <2>3
  <1>12. Mounted'
    <2>1. c \in 1..mounts
      BY <1>1 DEF Columns
    <2>2. \A i \in DOMAIN creating' : /\ creating'[i].column <= mounts
                                      /\ creating'[i].old # 0 => creating'[i].column \in loaded'
      BY <1>0, <1>2, <1>4 DEF Mounted
    <2> QED
      BY <1>0, <1>2, <1>10, <2>1, <2>2 DEF Mounted
  <1>13. Synced'
    <2> SUFFICES ASSUME StillClaimed' PROVE Synced'
      BY DEF Synced
    <2>1. Latest'.sessions = sessions /\ Latest'.deleted = deleted
      BY <1>8, <1>10 DEF Registry
    <2>2. shown' \in loaded' => shown' = c
      BY <1>0, <1>1, <1>2, <1>8 DEF WritersTypeOK, Columns
    <2>3. shown' \in loaded' => Covers(Registry(tabs[shown], tombs[shown]))'
      BY <1>10, <2>1, <2>2 DEF Covers, Registry
    <2> QED
      BY <1>2, <1>9, <2>1, <2>3 DEF Synced
  <1> QED
    BY <1>11, <1>12, <1>13 DEF StripInv

LEMMA RejectKeeps ==
  ASSUME StripInv, WritersTypeOK', NEW k \in DOMAIN creating, CreateRejects(k)
  PROVE  StripInv'
  <1> DEFINE request == creating[k]
             c == request.column
  <1>0. WritersTypeOK /\ Mounted /\ ReadFirst /\ Synced
    BY DEF StripInv
  <1>1. c \in Columns /\ c <= mounts /\ mounts \in Nat
    BY <1>0, RequestTyped DEF Mounted, WritersTypeOK
  <1>2. /\ tabs' = IF request.old = 0
                     THEN [tabs EXCEPT ![c] = request.base.sessions] ELSE tabs
        /\ loaded' = loaded \cup {c}
        /\ outrun' = (outrun \/ /\ request.old = 0 /\ shown = c
                                 /\ ~Covers(Registry(request.base.sessions, tombs[shown])))
        /\ creating' = RemoveAt(creating, k)
        /\ UNCHANGED <<registry, logs, writers, mounts, shown, tombs, sending, opened, closed,
                       unsent, swapped>>
    BY DEF CreateRejects, diskVars
  <1>3. \A i \in DOMAIN creating' : \E j \in DOMAIN creating : creating'[i] = creating[j]
    BY <1>0, <1>2, Removed DEF WritersTypeOK
  <1>4. Latest' = Latest /\ Writes' = Writes /\ Reads(shown)' = Reads(shown)
    BY <1>2, SameCalls
  <1>5. StillClaimed' =>
          /\ StillClaimed
          /\ request.old = 0 /\ shown = c => Covers(Registry(request.base.sessions, tombs[shown]))
    BY <1>2 DEF StillClaimed
  <1>6. request.old # 0 => c \in loaded
    BY <1>0 DEF Mounted
  <1>7. Reads(shown) # {} => \A j \in DOMAIN creating : creating[j].column # shown
    BY <1>0 DEF ReadFirst
  <1> HIDE DEF request
  <1>8. ReadFirst'
    <2> SUFFICES ASSUME NEW i \in Reads(shown)
                 PROVE  /\ shown' \notin loaded'
                        /\ \A j \in DOMAIN creating' : creating'[j].column # shown
                        /\ \A j \in Reads(shown) : j = i
                        /\ StillClaimed' => \A j \in Writes : j < i
      BY <1>2, <1>4 DEF ReadFirst
    <2>1. shown # c
      BY <1>7 DEF request
    <2> QED
      BY <1>0, <1>2, <1>3, <1>5, <2>1 DEF ReadFirst
  <1>9. Mounted'
    <2>1. c \in 1..mounts
      BY <1>1 DEF Columns
    <2>2. \A i \in DOMAIN creating' : /\ creating'[i].column <= mounts
                                      /\ creating'[i].old # 0 => creating'[i].column \in loaded'
      BY <1>0, <1>2, <1>3 DEF Mounted
    <2> QED
      BY <1>0, <1>2, <2>1, <2>2 DEF Mounted
  <1>10. Synced'
    <2> SUFFICES ASSUME StillClaimed' PROVE Synced'
      BY DEF Synced
    <2>1. shown' \in loaded' => Covers(Registry(tabs[shown], tombs[shown]))'
      <3> SUFFICES ASSUME shown \in loaded'
                   PROVE  Covers(Registry(tabs'[shown], tombs[shown]))
        BY <1>2, <1>4 DEF Covers, Registry
      <3>1. CASE request.old = 0 /\ shown = c
        <4>1. tabs'[shown] = request.base.sessions
          BY <1>0, <1>1, <1>2, <3>1 DEF WritersTypeOK
        <4> QED
          BY <1>5, <3>1, <4>1
      <3>2. CASE ~(request.old = 0 /\ shown = c)
        <4>1. shown \in loaded /\ shown \in Columns
          BY <1>0, <1>2, <1>6, <3>2 DEF WritersTypeOK
        <4>2. tabs'[shown] = tabs[shown]
          BY <1>0, <1>1, <1>2, <3>2, <4>1 DEF WritersTypeOK
        <4> QED
          BY <1>0, <1>5, <4>1, <4>2 DEF Synced
      <3> QED
        BY <3>1, <3>2
    <2> QED
      BY <1>0, <1>2, <1>4, <1>5, <2>1 DEF Synced
  <1> QED
    BY <1>8, <1>9, <1>10 DEF StripInv

LEMMA StripInvStep ==
  ASSUME StripInv, [WritersNext]_writerVars
  PROVE  StripInv'
  <1>1. WritersTypeOK'
    BY WritersTyped DEF StripInv
  <1> QED
    BY <1>1, MountKeeps, UnmountKeeps, ServiceKeeps, ClickKeeps, CloseKeeps, QuietKeeps,
       SwapKeeps, CollectKeeps, ResolveKeeps, RejectKeeps DEF WritersNext

LEMMA WritersStart == WritersInit => StripInv
  <1> SUFFICES ASSUME WritersInit PROVE StripInv
    OBVIOUS
  <1> USE WriterAssumption DEF WritersInit
  <1>1. Empty \in Registries
    BY DEF Empty, Registry, Registries
  <1>2. WritersTypeOK
    <2>1. registry \in Registries /\ savedCopy \in Registries
      BY <1>1
    <2>2. /\ logs \subseteq Writers /\ writers \in 0..MaxWriters
          /\ mounts \in 0..MaxMounts /\ shown \in Columns \cup {NoColumn}
          /\ loaded \subseteq Columns /\ stale \in 0..MaxMounts /\ mishaps \in 0..MaxMishaps
      OBVIOUS
    <2>3. tabs \in [Columns -> SUBSET Writers] /\ tombs \in [Columns -> SUBSET Writers]
      OBVIOUS
    <2>4. creating \in Seq(Requests) /\ sending \in Seq(WriterCalls)
      OBVIOUS
    <2>5. unsent \in BOOLEAN /\ swapped \in BOOLEAN /\ outrun \in BOOLEAN
      BY Zenon
    <2> QED
      BY <2>1, <2>2, <2>3, <2>4, <2>5 DEF WritersTypeOK
  <1>3. Writes = {} /\ \A c : Reads(c) = {}
    BY DEF Writes, Reads
  <1>4. Latest.sessions = {} /\ Latest.deleted = {}
    BY <1>3 DEF Latest, Empty, Registry
  <1>5. Mounted /\ ReadFirst
    BY <1>3 DEF Mounted, ReadFirst, NoColumn
  <1>6. Synced
    BY <1>4 DEF Synced
  <1> QED
    BY <1>2, <1>5, <1>6 DEF StripInv

\* Every variable of the tabs keeps to its type, overlapping creates included.
THEOREM WritersTypeCorrect == WritersSpec => []WritersTypeOK
  <1>1. WritersInit => WritersTypeOK
    BY WritersStart DEF StripInv
  <1> QED
    BY <1>1, WritersTyped, PTL DEF WritersSpec

\* However creates, clears and closes overlap, and whatever is mounted, restarted or
\* rejected meanwhile: as long as no write is lost, runtime/ is not replaced and no
\* create is answered after the strip it builds on has changed, a session closed or
\* cleared stays closed.
THEOREM ClosedTabsStayClosed == WritersSpec => []ClosedStaysClosed
  <1>1. StripInv => ClosedStaysClosed
    BY DEF StripInv, Synced, ClosedStaysClosed, Buried
  <1>2. StripInv /\ [WritersNext]_writerVars => StripInv'
    BY StripInvStep
  <1> QED
    BY <1>1, <1>2, WritersStart, PTL DEF WritersSpec

\* Under the same conditions a session the column created stays a tab until it is
\* closed.
THEOREM CreatedTabsStay == WritersSpec => []OpenTabsStay
  <1>1. StripInv => OpenTabsStay
    BY DEF StripInv, Synced, OpenTabsStay
  <1>2. StripInv /\ [WritersNext]_writerVars => StripInv'
    BY StripInvStep
  <1> QED
    BY <1>1, <1>2, WritersStart, PTL DEF WritersSpec

(***************************************************************************)
(* The page follows the tail's child.                                      *)
(***************************************************************************)
\* A run of the effect is owed: what it depends on has a child it does not follow.
Owed == activeChild # None /\ activeChild # MountedChild

\* Every run, the owed one included, had a move before it.
RunsWithinMoves ==
  /\ begun + (IF Owed THEN 1 ELSE 0) <= moves
  /\ listed <= moves /\ mounted <= begun

-----------------------------------------------------------------------------
(* Type correctness.                                                        *)

FollowInv == FollowTypeOK /\ RunsWithinMoves

LEMMA InitInv == FollowInit => FollowInv /\ OnlyMountedFollows
  <1> SUFFICES ASSUME FollowInit PROVE FollowInv /\ OnlyMountedFollows
    OBVIOUS
  <1>1. ~Owed
    BY Zenon DEF FollowInit, Owed, activeChild
  <1>2. follows = [k \in Effects |-> [child |-> None, state |-> "idle"]]
    BY DEF FollowInit
  <1>3. filed \in [Children -> {"nothing", "directory", "descriptor"}]
    BY DEF FollowInit
  <1>4. follows \in [Effects -> [child : Children \cup {None}, state : States]]
    BY <1>2 DEF States
  <1>5. /\ viewing \in BOOLEAN /\ running \in BOOLEAN /\ listed \in Children \cup {None}
        /\ mounted \in Effects \cup {None} /\ begun \in 0..MaxMoves
        /\ retained \subseteq Effects /\ broken \subseteq Effects
        /\ moves \in 0..MaxMoves /\ breaks \in 0..MaxBreaks
    <2>1. /\ viewing = TRUE /\ running = FALSE /\ listed = 0 /\ mounted = None /\ begun = 0
          /\ retained = {} /\ broken = {} /\ moves = 0 /\ breaks = 0
      BY DEF FollowInit
    <2>2. viewing \in BOOLEAN /\ running \in BOOLEAN
      BY <2>1, Zenon
    <2>3. /\ listed \in Children \cup {None} /\ mounted \in Effects \cup {None}
          /\ retained \subseteq Effects /\ broken \subseteq Effects
      BY <2>1, Zenon DEF None
    <2>4. begun \in 0..MaxMoves /\ moves \in 0..MaxMoves /\ breaks \in 0..MaxBreaks
      BY <2>1, FollowAssumption
    <2> QED
      BY <2>2, <2>3, <2>4
  <1>6. RunsWithinMoves
    BY <1>1 DEF FollowInit, RunsWithinMoves, None
  <1>7. FollowTypeOK
    BY <1>3, <1>4, <1>5 DEF FollowTypeOK
  <1> QED
    BY <1>2, <1>6, <1>7 DEF FollowInit, FollowInv, OnlyMountedFollows

\* A move leaves room for the run it may cause.
LEMMA MovesKeepInv ==
  ASSUME FollowInv,
         GateRises \/ GateFalls \/ ChildListed \/ PageLeft \/ PageOpened
           \/ \E c \in Children : ChildFiled(c)
  PROVE  FollowInv'
  <1> USE FollowAssumption
      DEF FollowInv, FollowTypeOK, RunsWithinMoves, Owed, activeChild, MountedChild, Children,
          Effects, None
  <1>1. CASE GateRises
    BY <1>1 DEF GateRises, Moves
  <1>2. CASE GateFalls
    <2>1. ~running' /\ UNCHANGED <<viewing, listed, filed, moves, follows, mounted, begun,
                                   retained, broken, breaks>>
      BY <1>2 DEF GateFalls
    <2>2. activeChild' = None /\ running' \in BOOLEAN
      BY <1>2, <2>1 DEF GateFalls
    <2> QED
      BY <2>1, <2>2
  <1>3. CASE ChildListed
    BY <1>3 DEF ChildListed, Moves
  <1>4. CASE PageLeft
    <2>1. ~viewing' /\ UNCHANGED <<running, listed, filed, moves, follows, mounted, begun,
                                   retained, broken, breaks>>
      BY <1>4 DEF PageLeft
    <2>2. activeChild' = None /\ viewing' \in BOOLEAN
      BY <1>4, <2>1 DEF PageLeft
    <2> QED
      BY <2>1, <2>2
  <1>5. CASE PageOpened
    BY <1>5 DEF PageOpened, Moves
  <1>6. ASSUME NEW c \in Children, ChildFiled(c) PROVE FollowInv'
    BY <1>6 DEF ChildFiled
  <1> QED
    BY <1>1, <1>2, <1>3, <1>4, <1>5, <1>6

\* What acquire leaves: the run opens or waits or is over, the others as they were.
LEMMA AcquireTypes ==
  ASSUME NEW k \in Effects, NEW now \in [Effects -> [child : Children \cup {None}, state : States]],
         NEW kept \in SUBSET Effects, FollowTypeOK, acquire(k, now, kept)
  PROVE  /\ \E s \in {"opening", "waiting", "over"} : follows' = [now EXCEPT ![k].state = s]
         /\ follows' \in [Effects -> [child : Children \cup {None}, state : States]]
         /\ retained' \in SUBSET Effects /\ retained' \subseteq kept \cup {k}
         /\ broken' \in SUBSET Effects /\ breaks' \in 0..MaxBreaks
  BY FollowAssumption DEF acquire, scheduleRetry, Breaks, FollowTypeOK, States

LEMMA EffectKeepsInv ==
  ASSUME FollowInv, EffectRuns
  PROVE  FollowInv' /\ (OnlyMountedFollows => OnlyMountedFollows')
  <1> DEFINE left == IF mounted = None THEN follows ELSE Left(mounted)
             kept == retained \ (IF mounted = None THEN {} ELSE Releases(mounted))
             now == [left EXCEPT ![begun + 1].child = activeChild]
  <1> USE FollowAssumption
  <1>1. left \in [Effects -> [child : Children \cup {None}, state : States]]
    BY DEF FollowInv, FollowTypeOK, Left, States
  <1>2. OnlyMountedFollows => \A k \in Effects : left[k].state \notin {"waiting", "following"}
    BY DEF FollowInv, FollowTypeOK, OnlyMountedFollows, Left, States, None, Effects
  <1>3. kept \in SUBSET Effects /\ (OnlyMountedFollows => kept \subseteq {None})
    BY DEF FollowInv, FollowTypeOK, OnlyMountedFollows, Releases, None, Effects
  <1>4. UNCHANGED <<viewing, running, listed, filed, moves>>
    BY DEF EffectRuns, pageOptions
  <1>5. CASE activeChild = None
    <2>1. /\ follows' = left /\ retained' = kept /\ mounted' = None
          /\ UNCHANGED <<begun, broken, breaks>>
      BY <1>5 DEF EffectRuns
    <2>2. activeChild' = None
      BY <1>4, <1>5 DEF activeChild
    <2>3. FollowInv'
      BY <1>1, <1>3, <1>4, <2>1, <2>2 DEF FollowInv, FollowTypeOK, RunsWithinMoves, Owed, None, Effects
    <2> QED
      BY <1>2, <1>3, <2>1, <2>3 DEF OnlyMountedFollows
  <1>6. CASE activeChild # None
    <2>1. acquire(begun + 1, now, kept) /\ mounted' = begun + 1 /\ begun' = begun + 1
      BY <1>6 DEF EffectRuns
    <2>2. Owed /\ begun + 1 \in Effects /\ begun + 1 <= moves
      BY <1>6 DEF EffectRuns, Owed, FollowInv, FollowTypeOK, RunsWithinMoves, Effects, None
    <2>3. activeChild \in Children \cup {None}
      BY DEF FollowInv, FollowTypeOK, activeChild
    <2>4. now \in [Effects -> [child : Children \cup {None}, state : States]]
      BY <1>1, <2>2, <2>3
    <2>5. /\ \E s \in {"opening", "waiting", "over"} : follows' = [now EXCEPT ![begun + 1].state = s]
          /\ follows' \in [Effects -> [child : Children \cup {None}, state : States]]
          /\ retained' \in SUBSET Effects /\ retained' \subseteq kept \cup {begun + 1}
          /\ broken' \in SUBSET Effects /\ breaks' \in 0..MaxBreaks
      <3> HIDE DEF now, kept
      <3> QED
        BY <1>3, <2>1, <2>2, <2>4, AcquireTypes DEF FollowInv
    <2>6. follows'[begun + 1].child = activeChild
      BY <1>1, <2>2, <2>4, <2>5
    <2>7. activeChild' = activeChild /\ MountedChild' = activeChild
      BY <1>4, <2>1, <2>2, <2>6 DEF activeChild, MountedChild, Effects, None
    <2>8. FollowInv'
      <3>1. FollowTypeOK'
        <4>1. /\ viewing' \in BOOLEAN /\ running' \in BOOLEAN
              /\ listed' \in Children \cup {None} /\ moves' \in 0..MaxMoves
              /\ filed' \in [Children -> {"nothing", "directory", "descriptor"}]
          BY <1>4 DEF FollowInv, FollowTypeOK
        <4>2. mounted' \in Effects \cup {None} /\ begun' \in 0..MaxMoves
          BY <2>1, <2>2 DEF Effects
        <4> QED
          BY <2>5, <4>1, <4>2 DEF FollowTypeOK
      <3>2. ~Owed'
        BY <2>7 DEF Owed
      <3>3. RunsWithinMoves'
        BY <1>4, <2>1, <2>2, <3>2 DEF FollowInv, FollowTypeOK, RunsWithinMoves
      <3> QED
        BY <3>1, <3>3 DEF FollowInv
    <2>9. ASSUME OnlyMountedFollows PROVE OnlyMountedFollows'
      <3>1. \A k \in Effects : k # begun + 1 => follows'[k].state = left[k].state
        BY <1>1, <2>2, <2>4, <2>5
      <3>2. retained' \subseteq {begun + 1}
        BY <1>3, <2>5, <2>9 DEF Effects, None
      <3> QED
        BY <1>2, <2>1, <2>9, <3>1, <3>2 DEF OnlyMountedFollows
    <2> QED
      BY <2>8, <2>9
  <1> QED
    BY <1>5, <1>6

LEMMA RunKeepsInv ==
  ASSUME FollowInv, NEW k \in Effects, ReadySettles(k) \/ ReadyBreaks(k) \/ RetryFires(k)
  PROVE  FollowInv' /\ (OnlyMountedFollows => OnlyMountedFollows')
  <1> USE FollowAssumption
  <1>1. /\ UNCHANGED <<viewing, running, listed, filed, moves, mounted, begun>>
        /\ \E s \in States : follows' = [follows EXCEPT ![k].state = s]
        /\ retained' \in SUBSET Effects /\ broken' \in SUBSET Effects /\ breaks' \in 0..MaxBreaks
    <2>1. CASE RetryFires(k)
      BY <2>1, AcquireTypes DEF FollowInv, FollowTypeOK, RetryFires, pageOptions, States
    <2>2. CASE ReadySettles(k) \/ ReadyBreaks(k)
      BY <2>2 DEF FollowInv, FollowTypeOK, ReadySettles, ReadyBreaks, OpenAnswered, scheduleRetry,
                  Breaks, pageOptions, States
    <2> QED
      BY <2>1, <2>2
  <1>2. follows' \in [Effects -> [child : Children \cup {None}, state : States]]
    BY <1>1 DEF FollowInv, FollowTypeOK
  <1>3. MountedChild' = MountedChild /\ activeChild' = activeChild
    BY <1>1, <1>2 DEF FollowInv, FollowTypeOK, MountedChild, activeChild
  <1>4. FollowInv'
    BY <1>1, <1>2, <1>3 DEF FollowInv, FollowTypeOK, RunsWithinMoves, Owed
  <1>5. ASSUME OnlyMountedFollows PROVE OnlyMountedFollows'
    <2>1. \A e \in Effects : e # k => follows'[e].state = follows[e].state
      BY <1>1 DEF FollowInv, FollowTypeOK
    <2>2. CASE RetryFires(k)
      <3>1. k = mounted
        BY <1>5, <2>2 DEF RetryFires, OnlyMountedFollows
      <3>2. retained' \subseteq retained \cup {k}
        BY <2>2, AcquireTypes DEF FollowInv, FollowTypeOK, RetryFires
      <3> QED
        BY <1>1, <1>5, <2>1, <3>1, <3>2 DEF OnlyMountedFollows
    <2>3. CASE ReadySettles(k) \/ ReadyBreaks(k)
      <3>1. retained' \subseteq retained
        BY <2>3 DEF ReadySettles, ReadyBreaks, OpenAnswered
      <3>2. k # mounted => follows'[k].state = "over"
        BY <2>3 DEF FollowInv, FollowTypeOK, ReadySettles, ReadyBreaks, OpenAnswered
      <3> QED
        BY <1>1, <1>5, <2>1, <3>1, <3>2 DEF OnlyMountedFollows
    <2> QED
      BY <2>2, <2>3
  <1> QED
    BY <1>4, <1>5

LEMMA NextKeepsInv ==
  FollowInv /\ [FollowNext]_followVars => FollowInv' /\ (OnlyMountedFollows => OnlyMountedFollows')
  <1> SUFFICES ASSUME FollowInv, [FollowNext]_followVars
               PROVE  FollowInv' /\ (OnlyMountedFollows => OnlyMountedFollows')
    OBVIOUS
  <1>1. CASE GateRises \/ GateFalls \/ ChildListed \/ PageLeft \/ PageOpened
               \/ \E c \in Children : ChildFiled(c)
    <2>1. FollowInv'
      BY <1>1, MovesKeepInv
    <2>2. UNCHANGED <<retained, mounted, follows>>
      BY <1>1 DEF GateRises, GateFalls, ChildListed, PageLeft, PageOpened, ChildFiled
    <2> QED
      BY <2>1, <2>2 DEF OnlyMountedFollows
  <1>2. CASE EffectRuns
    BY <1>2, EffectKeepsInv
  <1>3. CASE \E k \in Effects : ReadySettles(k) \/ ReadyBreaks(k) \/ RetryFires(k)
    BY <1>3, RunKeepsInv
  <1>4. CASE UNCHANGED followVars
    BY <1>4 DEF followVars, FollowInv, FollowTypeOK, RunsWithinMoves, Owed, activeChild,
                MountedChild, OnlyMountedFollows
  <1> QED
    BY <1>1, <1>2, <1>3, <1>4 DEF FollowNext

\* Every variable keeps to its type: a run of the effect never exceeds the moves.
THEOREM FollowTypesHold == FollowSpec => []FollowTypeOK
  <1>1. FollowInit => FollowInv
    BY InitInv
  <1>2. FollowInv /\ [FollowNext]_followVars => FollowInv'
    BY NextKeepsInv
  <1>3. FollowInv => FollowTypeOK
    BY DEF FollowInv
  <1> QED
    BY <1>1, <1>2, <1>3, PTL DEF FollowSpec

\* No reference and no subscription outlives its run of the effect, whatever order
\* cleanups, retries and late answers come in (tail-live.ts, useTailLiveFolds).
THEOREM OnlyMountedFollowsHolds == FollowSpec => []OnlyMountedFollows
  <1>1. FollowInit => FollowInv /\ OnlyMountedFollows
    BY InitInv
  <1>2. FollowInv /\ OnlyMountedFollows /\ [FollowNext]_followVars
          => FollowInv' /\ OnlyMountedFollows'
    BY NextKeepsInv
  <1> QED
    BY <1>1, <1>2, PTL DEF FollowSpec
=============================================================================
