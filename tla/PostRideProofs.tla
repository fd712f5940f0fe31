--------------------------- MODULE PostRideProofs ---------------------------
(***************************************************************************)
(* Theorems about PostRide, for any number of submissions.                 *)
(***************************************************************************)
EXTENDS PostRide, SequenceTheorems, TLAPS

-----------------------------------------------------------------------------
(* Lists.                                                                   *)

LEMMA DropProperties ==
  ASSUME NEW S, NEW s \in Seq(S), NEW k \in 0..Len(s)
  PROVE  /\ Drop(s, k) \in Seq(S) /\ Len(Drop(s, k)) = Len(s) - k
         /\ \A j \in 1..Len(s) - k : Drop(s, k)[j] = s[k + j]
  <1>1. \A j \in k + 1..Len(s) : s[j] \in S
    BY ElementOfSeq
  <1> QED
    BY <1>1, SubSeqProperties DEF Drop

LEMMA CutProperties ==
  ASSUME NEW S, NEW s \in Seq(S), NEW k \in 1..Len(s)
  PROVE  /\ Cut(s, k) \in Seq(S) /\ Len(Cut(s, k)) = Len(s) - 1
         /\ \A j \in 1..Len(s) - 1 : Cut(s, k)[j] = IF j < k THEN s[j] ELSE s[j + 1]
  <1>1. \A j \in 1..Len(s) : s[j] \in S
    BY ElementOfSeq
  <1> DEFINE a == SubSeq(s, 1, k - 1)
             b == SubSeq(s, k + 1, Len(s))
  <1>2. a \in Seq(S) /\ Len(a) = k - 1 /\ \A j \in 1..k - 1 : a[j] = s[j]
    BY <1>1, SubSeqProperties
  <1>3. b \in Seq(S) /\ Len(b) = Len(s) - k /\ \A j \in 1..Len(s) - k : b[j] = s[k + j]
    BY <1>1, SubSeqProperties
  <1> HIDE DEF a, b
  <1>4. /\ a \o b \in Seq(S) /\ Len(a \o b) = Len(s) - 1
        /\ \A j \in 1..Len(s) - 1 : (a \o b)[j] = IF j <= k - 1 THEN a[j] ELSE b[j - (k - 1)]
    BY <1>2, <1>3, ConcatProperties
  <1>5. \A j \in 1..Len(s) - 1 : (a \o b)[j] = IF j < k THEN s[j] ELSE s[j + 1]
    BY <1>2, <1>3, <1>4
  <1> QED
    BY <1>4, <1>5 DEF Cut, a, b

LEMMA ElementsProperties ==
  ASSUME NEW S, NEW s \in Seq(S)
  PROVE  /\ Elements(s) \subseteq S
         /\ \A i : i \in Elements(s) <=> \E k \in 1..Len(s) : s[k] = i
         /\ \A i \in Elements(s) : Position(s, i) \in 1..Len(s) /\ s[Position(s, i)] = i
  BY LenProperties, ElementOfSeq DEF Elements, Position

Distinct(s) == \A j, k \in 1..Len(s) : s[j] = s[k] => j = k

LEMMA DistinctParts ==
  ASSUME NEW S, NEW s \in Seq(S), NEW t \in Seq(S), Distinct(s \o t)
  PROVE  /\ Distinct(s) /\ Distinct(t)
         /\ Elements(s) \cap Elements(t) = {}
  <1>1. /\ Len(s) \in Nat /\ Len(t) \in Nat /\ Len(s \o t) = Len(s) + Len(t)
        /\ \A i \in 1..Len(s) : (s \o t)[i] = s[i]
        /\ \A i \in 1..Len(t) : (s \o t)[Len(s) + i] = t[i]
    BY ConcatProperties, LenProperties
  <1>2. Distinct(s)
    BY <1>1 DEF Distinct
  <1>3. Distinct(t)
    <2> SUFFICES ASSUME NEW j \in 1..Len(t), NEW k \in 1..Len(t), t[j] = t[k] PROVE j = k
      BY DEF Distinct
    <2>1. Len(s) + j \in 1..Len(s \o t) /\ Len(s) + k \in 1..Len(s \o t)
      BY <1>1
    <2>2. (s \o t)[Len(s) + j] = (s \o t)[Len(s) + k]
      BY <1>1
    <2>3. Len(s) + j = Len(s) + k
      BY <2>1, <2>2, Zenon DEF Distinct
    <2> QED
      BY <1>1, <2>3
  <1>4. Elements(s) \cap Elements(t) = {}
    <2> SUFFICES ASSUME NEW j \in 1..Len(s), NEW k \in 1..Len(t), s[j] = t[k] PROVE FALSE
      BY LenProperties DEF Elements
    <2>1. j \in 1..Len(s \o t) /\ Len(s) + k \in 1..Len(s \o t)
      BY <1>1
    <2>2. (s \o t)[j] = (s \o t)[Len(s) + k]
      BY <1>1
    <2>3. j = Len(s) + k
      BY <2>1, <2>2, Zenon DEF Distinct
    <2> QED
      BY <1>1, <2>3
  <1> QED
    BY <1>2, <1>3, <1>4

LEMMA ElementsConcat ==
  ASSUME NEW S, NEW s \in Seq(S), NEW t \in Seq(S)
  PROVE  Elements(s \o t) = Elements(s) \cup Elements(t)
  <1>1. /\ Len(s) \in Nat /\ Len(t) \in Nat /\ Len(s \o t) = Len(s) + Len(t) /\ s \o t \in Seq(S)
        /\ \A i \in 1..Len(s) + Len(t) : (s \o t)[i] = IF i <= Len(s) THEN s[i] ELSE t[i - Len(s)]
    BY ConcatProperties, LenProperties
  <1>2. ASSUME NEW i \in Elements(s \o t) PROVE i \in Elements(s) \cup Elements(t)
    <2>1. PICK k \in 1..Len(s) + Len(t) : (s \o t)[k] = i
      BY <1>1, <1>2, ElementsProperties
    <2>2. CASE k <= Len(s)
      <3>1. k \in 1..Len(s) /\ s[k] = i
        BY <1>1, <2>1, <2>2
      <3> QED
        BY <3>1, ElementsProperties
    <2>3. CASE ~(k <= Len(s))
      <3>1. k - Len(s) \in 1..Len(t) /\ t[k - Len(s)] = i
        BY <1>1, <2>1, <2>3
      <3> QED
        BY <3>1, ElementsProperties
    <2> QED
      BY <2>2, <2>3
  <1>3. ASSUME NEW i \in Elements(s) PROVE i \in Elements(s \o t)
    <2>1. PICK k \in 1..Len(s) : s[k] = i
      BY <1>3, ElementsProperties
    <2>2. k \in 1..Len(s \o t) /\ (s \o t)[k] = i
      BY <1>1, <2>1
    <2> QED
      BY <1>1, <2>2, ElementsProperties
  <1>4. ASSUME NEW i \in Elements(t) PROVE i \in Elements(s \o t)
    <2>1. PICK k \in 1..Len(t) : t[k] = i
      BY <1>4, ElementsProperties
    <2>2. Len(s) + k \in 1..Len(s \o t) /\ (s \o t)[Len(s) + k] = i
      BY <1>1, <2>1
    <2> QED
      BY <1>1, <2>2, ElementsProperties
  <1> QED
    BY <1>2, <1>3, <1>4

LEMMA DropConcat ==
  ASSUME NEW S, NEW s \in Seq(S), NEW t \in Seq(S)
  PROVE  Drop(s \o t, Len(s)) = t
  <1> DEFINE w == s \o t
             d == Drop(w, Len(s))
  <1>1. /\ Len(s) \in Nat /\ Len(t) \in Nat /\ Len(w) = Len(s) + Len(t) /\ w \in Seq(S)
        /\ \A i \in 1..Len(t) : w[Len(s) + i] = t[i]
    BY ConcatProperties, LenProperties
  <1> HIDE DEF w
  <1>2. Len(s) \in 0..Len(w) /\ Len(w) - Len(s) = Len(t)
    BY <1>1
  <1>3. d \in Seq(S) /\ Len(d) = Len(w) - Len(s) /\ \A j \in 1..Len(w) - Len(s) : d[j] = w[Len(s) + j]
    BY <1>1, <1>2, DropProperties
  <1> HIDE DEF d
  <1>4. Len(d) = Len(t) /\ \A j \in 1..Len(d) : d[j] = t[j]
    BY <1>1, <1>2, <1>3
  <1>5. d = t
    BY <1>3, <1>4, SeqEqual
  <1> QED
    BY <1>5 DEF d, w

\* Taking out an element that stands in the second part.
LEMMA WithoutConcat ==
  ASSUME NEW S, NEW s \in Seq(S), NEW t \in Seq(S), Distinct(s \o t), NEW i \in Elements(t)
  PROVE  Without(s \o t, i) = s \o Without(t, i)
  <1> DEFINE w == s \o t
             k == Position(t, i)
             m == Position(w, i)
             u == Cut(t, k)
             v == Cut(w, m)
             x == s \o u
  <1>1. /\ Len(s) \in Nat /\ Len(t) \in Nat /\ Len(w) = Len(s) + Len(t) /\ w \in Seq(S)
        /\ \A j \in 1..Len(s) : w[j] = s[j]
        /\ \A j \in 1..Len(t) : w[Len(s) + j] = t[j]
    BY ConcatProperties, LenProperties
  <1>2. k \in 1..Len(t) /\ t[k] = i
    BY ElementsProperties
  <1>3. i \in Elements(w) /\ Distinct(w)
    BY ElementsConcat
  <1> HIDE DEF w
  <1>4. m \in 1..Len(w) /\ w[m] = i
    BY <1>1, <1>3, ElementsProperties
  <1>5. Without(w, i) = v /\ Without(t, i) = u
    BY <1>3 DEF Without
  <1> HIDE DEF k, m
  <1>6. m = Len(s) + k
    <2>1. Len(s) + k \in 1..Len(w) /\ w[Len(s) + k] = i
      BY <1>1, <1>2
    <2> QED
      BY <1>3, <1>4, <2>1 DEF Distinct
  <1>7. /\ v \in Seq(S) /\ Len(v) = Len(w) - 1
        /\ \A j \in 1..Len(w) - 1 : v[j] = IF j < m THEN w[j] ELSE w[j + 1]
    BY <1>1, <1>4, CutProperties
  <1>8. /\ u \in Seq(S) /\ Len(u) = Len(t) - 1
        /\ \A j \in 1..Len(t) - 1 : u[j] = IF j < k THEN t[j] ELSE t[j + 1]
    BY <1>2, CutProperties
  <1> HIDE DEF u, v
  <1>9. /\ x \in Seq(S) /\ Len(x) = Len(s) + Len(u)
        /\ \A j \in 1..Len(s) : x[j] = s[j]
        /\ \A j \in 1..Len(u) : x[Len(s) + j] = u[j]
    <2>1. /\ x \in Seq(S) /\ Len(x) = Len(s) + Len(u) /\ Len(s) \in Nat /\ Len(u) \in Nat
          /\ \A j \in 1..Len(s) + Len(u) : x[j] = IF j <= Len(s) THEN s[j] ELSE u[j - Len(s)]
      BY <1>8, ConcatProperties, LenProperties
    <2> HIDE DEF x
    <2>2. ASSUME NEW j \in 1..Len(u) PROVE x[Len(s) + j] = u[j]
      <3>1. Len(s) + j \in 1..Len(s) + Len(u) /\ ~(Len(s) + j <= Len(s)) /\ (Len(s) + j) - Len(s) = j
        BY <2>1
      <3> QED
        BY <2>1, <3>1
    <2> QED
      BY <2>1, <2>2
  <1> HIDE DEF x
  <1>10. ASSUME NEW j \in 1..Len(v) PROVE v[j] = x[j]
    <2>1. CASE j <= Len(s)
      BY <1>1, <1>2, <1>6, <1>7, <1>9, <2>1
    <2>2. CASE ~(j <= Len(s))
      <3>1. PICK n \in 1..Len(t) - 1 : j = Len(s) + n
        <4>1. j - Len(s) \in 1..Len(t) - 1 /\ j = Len(s) + (j - Len(s))
          BY <1>1, <1>7, <2>2
        <4> QED
          BY <4>1
      <3>2. x[j] = u[n]
        BY <1>8, <1>9, <3>1
      <3>3. v[j] = IF n < k THEN w[Len(s) + n] ELSE w[Len(s) + (n + 1)]
        <4>1. j \in 1..Len(w) - 1 /\ (j < m <=> n < k) /\ j + 1 = Len(s) + (n + 1)
          BY <1>1, <1>2, <1>6, <1>7, <3>1
        <4> QED
          BY <1>7, <3>1, <4>1
      <3>4. w[Len(s) + n] = t[n] /\ w[Len(s) + (n + 1)] = t[n + 1]
        BY <1>1, <3>1
      <3> QED
        BY <1>8, <3>1, <3>2, <3>3, <3>4
    <2> QED
      BY <2>1, <2>2
  <1>11. Len(v) = Len(x)
    BY <1>1, <1>7, <1>8, <1>9
  <1>12. v = x
    BY <1>7, <1>9, <1>10, <1>11, SeqEqual
  <1> QED
    BY <1>5, <1>12 DEF w, x

-----------------------------------------------------------------------------
(* Type correctness.                                                        *)

LEMMA WithoutTypes ==
  ASSUME NEW S, NEW s \in Seq(S), NEW i
  PROVE  Without(s, i) \in Seq(S)
  BY ElementsProperties, CutProperties DEF Without

LEMMA InitRideTypes == RideInit => RideTypeOK
  <1> SUFFICES ASSUME RideInit PROVE RideTypeOK
    OBVIOUS
  <1>1. <<>> \in Seq(Submissions)
    BY EmptySeq
  <1>2. paired \in [Submissions -> 0..MaxSubmissions]
    BY RideAssumption DEF RideInit, NoPost
  <1>3. sent \in 0..MaxSubmissions /\ slips \in 0..MaxSlips /\ failedShadows \in 0..MaxFailedShadows
    BY RideAssumption DEF RideInit
  <1> QED
    BY <1>1, <1>2, <1>3, Zenon DEF RideInit, RideTypeOK

LEMMA NextRideTypes == RideTypeOK /\ [RideNext]_rideVars => RideTypeOK'
  <1> SUFFICES ASSUME RideTypeOK, [RideNext]_rideVars PROVE RideTypeOK'
    OBVIOUS
  <1> USE DEF RideTypeOK, loopVars, surfaceVars
  <1>1. ASSUME StartRender PROVE RideTypeOK'
    BY <1>1, RideAssumption DEF StartRender, Submissions
  <1>2. ASSUME NEW i \in Submissions, RenderFails(i) PROVE RideTypeOK'
    BY <1>2 DEF RenderFails
  <1>3. ASSUME NEW i \in Submissions, Push(i) PROVE RideTypeOK'
    BY <1>3 DEF Push
  <1>4. ASSUME Admit PROVE RideTypeOK'
    BY <1>4, HeadTailProperties DEF Admit
  <1>5. ASSUME NEW i \in Submissions, Refuse(i) PROVE RideTypeOK'
    BY <1>5, WithoutTypes DEF Refuse
  <1>6. ASSUME NEW i \in Submissions, Claim(i) PROVE RideTypeOK'
    <2>1. i \in 1..Len(inbox) /\ Len(inbox) \in Nat /\ i \in 0..Len(inbox) /\ \A j \in 1..i : inbox[j] \in Submissions
      BY <1>6, ElementOfSeq, LenProperties DEF Claim
    <2>2. SubSeq(inbox, 1, i) \in Seq(Submissions)
      BY <2>1, SubSeqProperties
    <2>3. Drop(inbox, i) \in Seq(Submissions)
      BY <2>1, DropProperties
    <2> QED
      BY <1>6, <2>2, <2>3 DEF Claim
  <1>7. ASSUME Decline PROVE RideTypeOK'
    BY <1>7, RideAssumption DEF Decline
  <1>8. ASSUME Inject PROVE RideTypeOK'
    <2>1. Shifted \in 0..Len(stash) /\ Shifted \in 0..Len(batch)
      BY LenProperties DEF Shifted, Lesser
    <2>2. \A k \in 1..Shifted : stash[k] \in Submissions
      BY <2>1, ElementOfSeq, LenProperties
    <2>3. Drop(stash, Shifted) \in Seq(Submissions)
      BY <2>1, DropProperties
    <2>4. paired' \in [Submissions -> 0..MaxSubmissions]
      <3> SUFFICES ASSUME NEW i \in Submissions
                   PROVE (IF \E k \in 1..Shifted : batch[k] = i /\ stash[k] \notin blank
                            THEN stash[CHOOSE k \in 1..Shifted : batch[k] = i]
                            ELSE paired[i]) \in 0..MaxSubmissions
        BY <1>8 DEF Inject
      <3>1. ASSUME \E k \in 1..Shifted : batch[k] = i
            PROVE stash[CHOOSE k \in 1..Shifted : batch[k] = i] \in 0..MaxSubmissions
        <4>1. (CHOOSE k \in 1..Shifted : batch[k] = i) \in 1..Shifted
          BY <3>1
        <4> QED
          BY <2>2, <4>1, RideAssumption DEF Submissions
      <3> QED
        BY <3>1
    <2>5. lastClaim' \subseteq Submissions
      BY <1>8, ElementsProperties DEF Inject
    <2>6. Outdated \subseteq Submissions
      BY DEF Outdated
    <2>7. riding' \subseteq Submissions /\ shadows' \subseteq Submissions /\ batch' \in Seq(Submissions)
      BY <1>8, <2>2, <2>6, EmptySeq DEF Inject
    <2>8. /\ stash' \in Seq(Submissions) /\ step' = "entered" /\ shadowLost' = FALSE
          /\ UNCHANGED <<sent, rendering, calls, blank, inbox, live, draining, slipped, slips, failedShadows>>
      BY <1>8, <2>3, Zenon DEF Inject
    <2> QED
      BY <2>4, <2>5, <2>7, <2>8
  <1>9. ASSUME NextStep PROVE RideTypeOK'
    BY <1>9 DEF NextStep
  <1>10. ASSUME StepStart PROVE RideTypeOK'
    BY <1>10 DEF StepStart
  <1>11. ASSUME Shadow PROVE RideTypeOK'
    <2>1. failedShadows' \in 0..MaxFailedShadows
      BY <1>11, RideAssumption DEF Shadow
    <2>2. /\ live' \subseteq Submissions /\ shadowLost' \in BOOLEAN /\ step' = "asking" /\ draining' = {}
          /\ UNCHANGED <<sent, rendering, calls, stash, blank, inbox, batch, riding, lastClaim, paired,
                         slipped, slips, shadows>>
      BY <1>11, Zenon DEF Shadow
    <2> QED
      BY <2>1, <2>2
  <1>12. ASSUME EndTurn PROVE RideTypeOK'
    BY <1>12 DEF EndTurn
  <1>13. ASSUME RestartOrLoad \/ ResetRide PROVE RideTypeOK'
    <2>1. inbox' \in Seq(Submissions) /\ live' \subseteq Submissions
      BY <1>13, EmptySeq DEF RestartOrLoad, ResetRide
    <2>2. Forgets
      BY <1>13 DEF RestartOrLoad, ResetRide
    <2>3. slips' \in 0..MaxSlips
      BY <2>2, RideAssumption DEF Forgets
    <2>4. slipped' \in BOOLEAN
      BY <2>2, Zenon DEF Forgets
    <2>5. /\ rendering' = {} /\ calls' = <<>> /\ stash' = <<>>
          /\ step' = "idle" /\ batch' = <<>> /\ riding' = {} /\ shadows' = {} /\ draining' = {}
          /\ lastClaim' = {} /\ UNCHANGED <<sent, blank, paired, shadowLost, failedShadows>>
      BY <2>2, Zenon DEF Forgets
    <2> QED
      BY <2>1, <2>3, <2>4, <2>5, EmptySeq
  <1>14. ASSUME UNCHANGED rideVars PROVE RideTypeOK'
    <2>1. /\ UNCHANGED <<sent, rendering, calls, stash, blank, inbox, step, batch, riding, live>>
          /\ UNCHANGED <<shadows, draining, paired, lastClaim, slipped, shadowLost, slips, failedShadows>>
      BY <1>14, Zenon DEF rideVars
    <2> QED
      BY <2>1
  <1> QED
    BY <1>1, <1>2, <1>3, <1>4, <1>5, <1>6, <1>7, <1>8, <1>9, <1>10, <1>11, <1>12, <1>13, <1>14,
       Zenon DEF RideNext

\* Every variable keeps to its type.
THEOREM RideTypesHold == RideSpec => []RideTypeOK
  BY InitRideTypes, NextRideTypes, PTL DEF RideSpec

-----------------------------------------------------------------------------
(* The messages on their way into a step, in the order they will be claimed. *)
(* As long as nothing slipped, the stash is the same list.                   *)

Rest == inbox \o calls
Queue == batch \o Rest

\* A submission is on its way at most once, and before that nothing knows it.
QueueInv ==
  /\ RideTypeOK /\ Distinct(Queue)
  /\ \A i \in Submissions : i > sent \/ i \in rendering =>
       i \notin Elements(Queue) /\ i \notin lastClaim /\ paired[i] = NoPost /\ i \notin blank
  /\ \A i \in rendering : i <= sent
  /\ \A i \in Elements(Queue) : paired[i] = NoPost
  /\ step # "claimed" => batch = <<>>
  /\ ~slipped => stash = Queue

\* What the queue may become: less of the same, or one submission more.
LEMMA QueueTypes ==
  ASSUME RideTypeOK
  PROVE  /\ Rest \in Seq(Submissions) /\ Queue \in Seq(Submissions)
         /\ Elements(Queue) = Elements(batch) \cup (Elements(inbox) \cup Elements(calls))
  <1>1. inbox \in Seq(Submissions) /\ calls \in Seq(Submissions) /\ batch \in Seq(Submissions)
    BY DEF RideTypeOK
  <1>2. Rest \in Seq(Submissions)
    BY <1>1, ConcatProperties DEF Rest
  <1>3. Queue \in Seq(Submissions)
    BY <1>1, <1>2, ConcatProperties DEF Queue
  <1>4. Elements(Rest) = Elements(inbox) \cup Elements(calls)
    BY <1>1, ElementsConcat DEF Rest
  <1>5. Elements(Queue) = Elements(batch) \cup Elements(Rest)
    BY <1>1, <1>2, ElementsConcat DEF Queue
  <1> QED
    BY <1>2, <1>3, <1>4, <1>5, Zenon

\* The queue after a step that leaves its three lists alone.
LEMMA SameQueue ==
  UNCHANGED <<batch, inbox, calls>> => Queue' = Queue
  BY DEF Queue, Rest

LEMMA DistinctAppend ==
  ASSUME NEW S, NEW s \in Seq(S), Distinct(s), NEW i \in S, i \notin Elements(s)
  PROVE  Distinct(Append(s, i)) /\ Elements(Append(s, i)) = Elements(s) \cup {i}
  <1> DEFINE w == Append(s, i)
  <1>1. /\ w \in Seq(S) /\ Len(w) = Len(s) + 1 /\ w[Len(s) + 1] = i /\ Len(s) \in Nat
        /\ \A k \in 1..Len(s) : w[k] = s[k]
    BY AppendProperties, LenProperties
  <1> HIDE DEF w
  <1>2. \A k \in 1..Len(s) : s[k] # i
    BY ElementsProperties
  <1>3. \A k \in 1..Len(w) : k \in 1..Len(s) \/ k = Len(s) + 1
    BY <1>1
  <1>4. Distinct(w)
    <2> SUFFICES ASSUME NEW j \in 1..Len(w), NEW k \in 1..Len(w), w[j] = w[k] PROVE j = k
      BY DEF Distinct
    <2> QED
      BY <1>1, <1>2, <1>3 DEF Distinct
  <1>5. Elements(w) = Elements(s) \cup {i}
    <2>1. ASSUME NEW j \in Elements(w) PROVE j \in Elements(s) \cup {i}
      BY <1>1, <1>3, <2>1, ElementsProperties
    <2>2. ASSUME NEW j \in Elements(s) PROVE j \in Elements(w)
      <3>1. PICK k \in 1..Len(s) : s[k] = j
        BY <2>2, ElementsProperties
      <3>2. k \in 1..Len(w) /\ w[k] = j
        BY <1>1, <3>1
      <3> QED
        BY <1>1, <3>2, ElementsProperties
    <2>3. i \in Elements(w)
      <3>1. Len(s) + 1 \in 1..Len(w)
        BY <1>1
      <3> QED
        BY <1>1, <3>1, ElementsProperties
    <2> QED
      BY <2>1, <2>2, <2>3
  <1> QED
    BY <1>4, <1>5 DEF w

LEMMA DistinctWithout ==
  ASSUME NEW S, NEW s \in Seq(S), Distinct(s), NEW i \in Elements(s)
  PROVE  Distinct(Without(s, i)) /\ Elements(Without(s, i)) \subseteq Elements(s)
  <1> DEFINE k == Position(s, i)
             u == Cut(s, k)
  <1>1. k \in 1..Len(s) /\ Len(s) \in Nat
    BY ElementsProperties, LenProperties
  <1> HIDE DEF k
  <1>2. /\ u \in Seq(S) /\ Len(u) = Len(s) - 1
        /\ \A j \in 1..Len(s) - 1 : u[j] = IF j < k THEN s[j] ELSE s[j + 1]
    BY <1>1, CutProperties
  <1>3. Without(s, i) = u
    BY DEF Without, k
  <1> HIDE DEF u
  <1>4. \A j \in 1..Len(u) : /\ u[j] = s[IF j < k THEN j ELSE j + 1]
                             /\ (IF j < k THEN j ELSE j + 1) \in 1..Len(s)
    BY <1>1, <1>2
  <1>5. Distinct(u)
    <2> SUFFICES ASSUME NEW j \in 1..Len(u), NEW n \in 1..Len(u), u[j] = u[n] PROVE j = n
      BY DEF Distinct
    <2>1. (IF j < k THEN j ELSE j + 1) = (IF n < k THEN n ELSE n + 1)
      BY <1>4 DEF Distinct
    <2> QED
      BY <1>1, <1>2, <2>1
  <1>6. Elements(u) \subseteq Elements(s)
    BY <1>2, <1>4, ElementsProperties
  <1> QED
    BY <1>3, <1>5, <1>6

\* The claims of the two ends: what is claimed stays in the queue, in its place.
LEMMA ClaimKeepsQueue ==
  ASSUME RideTypeOK, batch = <<>>, NEW k \in 1..Len(inbox),
         batch' = SubSeq(inbox, 1, k), inbox' = Drop(inbox, k), calls' = calls
  PROVE  Queue' = Queue
  <1>1. inbox \in Seq(Submissions) /\ calls \in Seq(Submissions) /\ Len(inbox) \in Nat
    BY LenProperties DEF RideTypeOK
  <1>2. /\ 1 \in 1..Len(inbox) + 1 /\ k \in 1 - 1..Len(inbox) /\ Len(inbox) \in k..Len(inbox)
        /\ k \in 0..Len(inbox)
    BY <1>1
  <1>3. SubSeq(inbox, 1, k) \o SubSeq(inbox, k + 1, Len(inbox)) = SubSeq(inbox, 1, Len(inbox))
    BY <1>1, <1>2, ConcatAdjacentSubSeq
  <1>4. batch' \o inbox' = inbox
    BY <1>1, <1>3, SubSeqFull DEF Drop
  <1>5. batch' \in Seq(Submissions) /\ inbox' \in Seq(Submissions)
    <2>1. \A j \in 1..k : inbox[j] \in Submissions
      BY <1>1, ElementOfSeq
    <2> QED
      BY <1>1, <1>2, <2>1, SubSeqProperties, DropProperties
  <1>6. batch' \o (inbox' \o calls) = Rest
    <2>0. \A s, t, u \in Seq(Submissions) : (s \o t) \o u = s \o (t \o u)
      BY ConcatAssociative
    <2>1. (batch' \o inbox') \o calls = batch' \o (inbox' \o calls)
      BY <1>1, <1>5, <2>0, Zenon
    <2> QED
      BY <1>4, <2>1 DEF Rest
  <1>7. <<>> \o Rest = Rest
    BY QueueTypes, ConcatEmptySeq
  <1> QED
    BY <1>6, <1>7 DEF Queue, Rest

LEMMA AdmitKeepsQueue ==
  ASSUME RideTypeOK, calls # <<>>, inbox' = Append(inbox, Head(calls)), calls' = Tail(calls),
         batch' = batch
  PROVE  Queue' = Queue
  <1>1. inbox \in Seq(Submissions) /\ calls \in Seq(Submissions) /\ Len(calls) \in Nat \ {0}
    BY EmptySeq DEF RideTypeOK
  <1>2. Head(calls) \in Submissions /\ Tail(calls) \in Seq(Submissions) /\ Head(calls) = calls[1]
    BY <1>1, HeadTailProperties, HeadTailOfSubSeq
  <1>3. inbox' = inbox \o <<Head(calls)>> /\ <<Head(calls)>> \in Seq(Submissions)
    BY <1>1, <1>2, AppendIsConcat
  <1>4. <<Head(calls)>> \o Tail(calls) = calls
    <2>1. 1 \in 1..Len(calls) /\ Len(calls) \in 1..Len(calls)
      BY <1>1
    <2>2. SubSeq(calls, 1, Len(calls)) = <<calls[1]>> \o SubSeq(calls, 1 + 1, Len(calls))
      BY <1>1, <2>1, SubSeqRecursiveFirst
    <2>3. SubSeq(calls, 1, Len(calls)) = calls /\ Tail(calls) = SubSeq(calls, 2, Len(calls))
      BY <1>1, SubSeqFull, TailIsSubSeq
    <2> QED
      BY <1>2, <2>2, <2>3
  <1>5. (inbox \o <<Head(calls)>>) \o Tail(calls) = inbox \o (<<Head(calls)>> \o Tail(calls))
    BY <1>1, <1>2, <1>3, ConcatAssociative
  <1> QED
    BY <1>3, <1>4, <1>5 DEF Queue, Rest

LEMMA PushLengthensQueue ==
  ASSUME RideTypeOK, NEW i \in Submissions, calls' = Append(calls, i), inbox' = inbox, batch' = batch
  PROVE  Queue' = Append(Queue, i)
  <1>1. inbox \in Seq(Submissions) /\ calls \in Seq(Submissions) /\ batch \in Seq(Submissions)
        /\ <<i>> \in Seq(Submissions)
    BY DEF RideTypeOK
  <1>2. calls' = calls \o <<i>> /\ Append(Queue, i) = Queue \o <<i>>
    BY <1>1, AppendIsConcat, QueueTypes
  <1>3. inbox \o (calls \o <<i>>) = Rest \o <<i>>
    BY <1>1, ConcatAssociative DEF Rest
  <1>4. batch \o (Rest \o <<i>>) = (batch \o Rest) \o <<i>>
    BY <1>1, QueueTypes, ConcatAssociative
  <1>5. Rest' = Rest \o <<i>>
    BY <1>2, <1>3 DEF Rest
  <1> QED
    BY <1>2, <1>4, <1>5 DEF Queue

LEMMA RefuseShortensQueue ==
  ASSUME RideTypeOK, Distinct(Queue), NEW i \in Elements(calls), calls' = Without(calls, i),
         inbox' = inbox, batch' = batch
  PROVE  Queue' = Without(Queue, i) /\ i \in Elements(Queue)
  <1>1. inbox \in Seq(Submissions) /\ calls \in Seq(Submissions) /\ batch \in Seq(Submissions)
    BY DEF RideTypeOK
  <1>2. Distinct(Rest) /\ Rest \in Seq(Submissions)
    BY <1>1, QueueTypes, DistinctParts DEF Queue
  <1>3. i \in Elements(Rest)
    BY <1>1, ElementsConcat DEF Rest
  <1>4. Without(Rest, i) = Rest'
    BY <1>1, <1>2, WithoutConcat DEF Rest
  <1>5. Without(Queue, i) = batch \o Without(Rest, i)
    <2>1. \A s, t \in Seq(Submissions) : Distinct(s \o t) =>
            \A j \in Elements(t) : Without(s \o t, j) = s \o Without(t, j)
      BY WithoutConcat
    <2> QED
      BY <1>1, <1>2, <1>3, <2>1, Zenon DEF Queue
  <1>6. i \in Elements(Queue)
    BY QueueTypes, Zenon
  <1> QED
    BY <1>4, <1>5, <1>6 DEF Queue

\* The batch leaves the queue.
LEMMA BatchLeavesQueue ==
  ASSUME RideTypeOK, Distinct(Queue), batch' = <<>>, inbox' = inbox, calls' = calls
  PROVE  /\ Queue' = Drop(Queue, Len(batch)) /\ Distinct(Queue') /\ Distinct(batch)
         /\ Elements(Queue') \subseteq Elements(Queue)
         /\ Elements(Queue') \cap Elements(batch) = {}
  <1>1. batch \in Seq(Submissions) /\ Rest \in Seq(Submissions)
    BY QueueTypes DEF RideTypeOK
  <1>2. Queue' = Rest
    BY <1>1, ConcatEmptySeq DEF Queue, Rest
  <1>3. Drop(Queue, Len(batch)) = Rest
    BY <1>1, DropConcat DEF Queue
  <1>4. Distinct(Rest) /\ Distinct(batch) /\ Elements(batch) \cap Elements(Rest) = {}
    BY <1>1, DistinctParts DEF Queue
  <1>5. Elements(Rest) \subseteq Elements(Queue)
    BY <1>1, ElementsConcat DEF Queue
  <1> QED
    BY <1>2, <1>3, <1>4, <1>5

-----------------------------------------------------------------------------
(* The queue is what the stash is, as long as nothing slipped.              *)

LEMMA NextQueue == QueueInv /\ [RideNext]_rideVars => QueueInv'
  <1> SUFFICES ASSUME QueueInv, [RideNext]_rideVars PROVE QueueInv'
    OBVIOUS
  <1>0. RideTypeOK /\ RideTypeOK' /\ Distinct(Queue) /\ Queue \in Seq(Submissions)
    BY NextRideTypes, QueueTypes DEF QueueInv
  <1>1. ASSUME StartRender PROVE QueueInv'
    <2>1. Queue' = Queue
      BY <1>1, SameQueue DEF StartRender, loopVars
    <2>2. /\ sent' = sent + 1 /\ rendering' = rendering \cup {sent + 1} /\ sent \in Nat
          /\ UNCHANGED <<blank, stash, step, batch, lastClaim, paired, slipped>>
      BY <1>0, <1>1 DEF StartRender, loopVars, RideTypeOK
    <2>3. \A i \in Submissions : i > sent' \/ i \in rendering' => i > sent \/ i \in rendering
      BY <2>2 DEF Submissions
    <2>4. \A i \in rendering' : i <= sent'
      BY <1>0, <2>2 DEF QueueInv, RideTypeOK, Submissions
    <2> QED
      BY <1>0, <2>1, <2>2, <2>3, <2>4 DEF QueueInv
  <1>2. ASSUME NEW i \in Submissions, RenderFails(i) PROVE QueueInv'
    <2>1. Queue' = Queue
      BY <1>2, SameQueue DEF RenderFails, loopVars
    <2> QED
      BY <1>0, <1>2, <2>1 DEF QueueInv, RenderFails, loopVars
  <1>3. ASSUME NEW i \in Submissions, Push(i) PROVE QueueInv'
    <2>1. Queue' = Append(Queue, i)
      BY <1>0, <1>3, PushLengthensQueue DEF Push, loopVars
    <2>2. i \notin Elements(Queue) /\ paired[i] = NoPost /\ i \in rendering /\ i <= sent
      BY <1>3 DEF Push, QueueInv
    <2>3. Distinct(Queue') /\ Elements(Queue') = Elements(Queue) \cup {i}
      BY <1>0, <2>1, <2>2, DistinctAppend
    <2>4. /\ rendering' = rendering \ {i} /\ blank' \in {blank, blank \cup {i}} /\ stash' = Append(stash, i)
          /\ UNCHANGED <<sent, step, batch, lastClaim, paired, slipped>>
      BY <1>3 DEF Push, loopVars
    <2>5. \A j \in Submissions : j > sent' \/ j \in rendering' => (j > sent \/ j \in rendering) /\ j # i
      BY <1>0, <2>2, <2>4 DEF RideTypeOK, Submissions
    <2>6. \A j \in Submissions : j > sent' \/ j \in rendering' =>
            j \notin Elements(Queue)' /\ j \notin lastClaim' /\ paired'[j] = NoPost /\ j \notin blank'
      BY <2>3, <2>4, <2>5 DEF QueueInv
    <2>7. /\ \A j \in rendering' : j <= sent'
          /\ \A j \in Elements(Queue)' : paired'[j] = NoPost
          /\ step' # "claimed" => batch' = <<>>
          /\ ~slipped' => stash' = Queue'
      BY <2>1, <2>2, <2>3, <2>4 DEF QueueInv
    <2> QED
      BY <1>0, <2>3, <2>6, <2>7 DEF QueueInv
  <1>4. ASSUME Admit PROVE QueueInv'
    <2>1. Queue' = Queue
      BY <1>0, <1>4, AdmitKeepsQueue DEF Admit, loopVars
    <2> QED
      BY <1>0, <1>4, <2>1 DEF QueueInv, Admit, loopVars
  <1>5. ASSUME NEW i \in Submissions, Refuse(i) PROVE QueueInv'
    <2>1. Queue' = Without(Queue, i) /\ i \in Elements(Queue)
      BY <1>0, <1>5, RefuseShortensQueue DEF Refuse, loopVars
    <2>2. Distinct(Queue') /\ Elements(Queue') \subseteq Elements(Queue)
      BY <1>0, <2>1, DistinctWithout
    <2>3. /\ stash' = Without(stash, i)
          /\ UNCHANGED <<sent, rendering, blank, step, batch, lastClaim, paired, slipped>>
      BY <1>5 DEF Refuse, loopVars
    <2> QED
      BY <1>0, <2>1, <2>2, <2>3 DEF QueueInv
  <1>6. ASSUME NEW k \in Submissions, Claim(k) PROVE QueueInv'
    <2>1. batch = <<>>
      BY <1>6 DEF Claim, QueueInv
    <2>2. Queue' = Queue
      BY <1>0, <1>6, <2>1, ClaimKeepsQueue DEF Claim
    <2> QED
      BY <1>0, <1>6, <2>2 DEF QueueInv, Claim
  <1>7. ASSUME Decline PROVE QueueInv'
    <2>1. Distinct(Queue') /\ Elements(Queue') \subseteq Elements(Queue)
      BY <1>0, <1>7, BatchLeavesQueue DEF Decline
    <2> QED
      BY <1>0, <1>7, <2>1 DEF QueueInv, Decline
  <1>8. ASSUME Inject PROVE QueueInv'
    <2>1. /\ Queue' = Drop(Queue, Len(batch)) /\ Distinct(Queue')
          /\ Elements(Queue') \subseteq Elements(Queue) /\ Elements(Queue') \cap Elements(batch) = {}
      BY <1>0, <1>8, BatchLeavesQueue DEF Inject
    <2>2. /\ lastClaim' = Elements(batch) /\ stash' = Drop(stash, Shifted)
          /\ UNCHANGED <<sent, rendering, blank, slipped>> /\ batch' = <<>>
      BY <1>8 DEF Inject
    <2>3. ASSUME NEW j \in Submissions, j \notin Elements(batch) PROVE paired'[j] = paired[j]
      <3>1. batch \in Seq(Submissions) /\ Len(batch) \in Nat /\ Shifted \in 0..Len(batch)
        BY <1>0, LenProperties DEF RideTypeOK, Shifted, Lesser
      <3>2. \A k \in 1..Shifted : batch[k] # j
        BY <2>3, <3>1, ElementsProperties
      <3> QED
        BY <1>8, <3>2 DEF Inject
    <2>4. Elements(batch) \subseteq Elements(Queue)
      BY <1>0, QueueTypes
    <2>5. \A j \in Submissions : j > sent' \/ j \in rendering' =>
            j \notin Elements(Queue)' /\ j \notin lastClaim' /\ paired'[j] = NoPost /\ j \notin blank'
      BY <2>1, <2>2, <2>3, <2>4 DEF QueueInv
    <2>6. \A j \in Elements(Queue)' : paired'[j] = NoPost
      <3>1. \A j \in Elements(Queue)' : j \in Elements(Queue) /\ j \in Submissions /\ j \notin Elements(batch)
        BY <1>0, <2>1, ElementsProperties
      <3> QED
        BY <2>3, <3>1 DEF QueueInv
    <2>7. ~slipped' => stash' = Queue'
      <3> SUFFICES ASSUME ~slipped PROVE stash' = Queue'
        BY <2>2
      <3>1. stash = Queue
        BY DEF QueueInv
      <3>2. Shifted = Len(batch)
        <4>1. Len(Queue) = Len(batch) + Len(Rest) /\ Len(batch) \in Nat /\ Len(Rest) \in Nat
          BY <1>0, QueueTypes, ConcatProperties, LenProperties DEF Queue, RideTypeOK
        <4> QED
          BY <3>1, <4>1 DEF Shifted, Lesser
      <3> QED
        BY <2>1, <2>2, <3>1, <3>2
    <2>8. \A j \in rendering' : j <= sent'
      BY <2>2 DEF QueueInv
    <2> QED
      BY <1>0, <2>1, <2>2, <2>5, <2>6, <2>7, <2>8 DEF QueueInv
  <1>9. ASSUME NextStep \/ StepStart \/ Shadow PROVE QueueInv'
    <2>1. /\ UNCHANGED <<sent, rendering, stash, blank, batch, lastClaim, paired, slipped>>
          /\ UNCHANGED <<batch, inbox, calls>> /\ step # "claimed"
      BY <1>9 DEF NextStep, StepStart, Shadow, surfaceVars
    <2>2. Queue' = Queue
      BY <2>1, SameQueue
    <2> QED
      BY <1>0, <2>1, <2>2 DEF QueueInv
  <1>10. ASSUME EndTurn PROVE QueueInv'
    <2>1. /\ UNCHANGED <<sent, rendering, stash, blank, batch, lastClaim, paired, slipped>>
          /\ UNCHANGED <<batch, inbox, calls>> /\ step # "claimed"
      BY <1>10 DEF EndTurn, surfaceVars
    <2>2. Queue' = Queue
      BY <2>1, SameQueue
    <2> QED
      BY <1>0, <2>1, <2>2 DEF QueueInv
  <1>11. ASSUME RestartOrLoad \/ ResetRide PROVE QueueInv'
    <2>1. Forgets /\ inbox' \in {inbox, <<>>}
      BY <1>11 DEF RestartOrLoad, ResetRide
    <2>2. inbox' \in Seq(Submissions) /\ batch' = <<>> /\ calls' = <<>> /\ stash' = <<>>
      BY <1>0, <2>1 DEF Forgets, RideTypeOK
    <2>3. Queue' = inbox'
      BY <2>2, ConcatEmptySeq DEF Queue, Rest
    <2>4. Distinct(inbox) /\ Elements(inbox) \subseteq Elements(Queue)
      <3>1. /\ batch \in Seq(Submissions) /\ Rest \in Seq(Submissions)
            /\ inbox \in Seq(Submissions) /\ calls \in Seq(Submissions)
        BY <1>0, QueueTypes DEF RideTypeOK
      <3>2. Distinct(Rest)
        BY <1>0, <3>1, DistinctParts DEF Queue
      <3>3. Distinct(inbox)
        BY <3>1, <3>2, DistinctParts DEF Rest
      <3> QED
        BY <1>0, <3>3, QueueTypes
    <2>5. Distinct(<<>>) /\ Elements(<<>>) = {}
      BY DEF Distinct, Elements
    <2>6. Distinct(Queue') /\ Elements(Queue)' \subseteq Elements(Queue)
      BY <2>1, <2>3, <2>4, <2>5
    <2>7. /\ sent' = sent /\ rendering' = {} /\ blank' = blank /\ paired' = paired /\ lastClaim' = {}
          /\ (~slipped' => inbox' = <<>>)
      BY <2>1 DEF Forgets
    <2> QED
      BY <1>0, <2>2, <2>3, <2>6, <2>7 DEF QueueInv
  <1>12. ASSUME UNCHANGED rideVars PROVE QueueInv'
    <2>1. /\ UNCHANGED <<sent, rendering, stash, blank, step, lastClaim, paired, slipped>>
          /\ UNCHANGED <<batch, inbox, calls>>
      BY <1>12, Zenon DEF rideVars
    <2>2. Queue' = Queue
      BY <2>1, SameQueue
    <2> QED
      BY <1>0, <2>1, <2>2 DEF QueueInv
  <1> QED
    BY <1>1, <1>2, <1>3, <1>4, <1>5, <1>6, <1>7, <1>8, <1>9, <1>10, <1>11, <1>12, Zenon
    DEF RideNext

LEMMA InitQueue == RideInit => QueueInv
  <1> SUFFICES ASSUME RideInit PROVE QueueInv
    OBVIOUS
  <1>1. batch = <<>> /\ inbox = <<>> /\ calls = <<>> /\ stash = <<>> /\ <<>> \in Seq(Submissions)
    BY EmptySeq DEF RideInit
  <1>2. Queue = <<>>
    BY <1>1, ConcatEmptySeq DEF Queue, Rest
  <1>3. Distinct(<<>>) /\ Elements(<<>>) = {}
    BY DEF Distinct, Elements
  <1> QED
    BY <1>1, <1>2, <1>3, InitRideTypes DEF QueueInv, RideInit

\* One entry is shifted per message, and the message's own place decides.
LEMMA InjectPairs ==
  ASSUME RideTypeOK, Distinct(batch), Inject, NEW k \in 1..Shifted
  PROVE  /\ batch[k] \in Elements(batch) /\ batch[k] \in Submissions
         /\ stash[k] \notin blank => paired'[batch[k]] = stash[k]
  <1>1. batch \in Seq(Submissions) /\ Len(batch) \in Nat /\ Shifted \in 0..Len(batch)
    BY LenProperties DEF RideTypeOK, Shifted, Lesser
  <1>2. k \in 1..Len(batch) /\ batch[k] \in Elements(batch) /\ batch[k] \in Submissions
    BY <1>1, ElementsProperties, ElementOfSeq
  <1>3. \A j \in 1..Shifted : batch[j] = batch[k] => j = k
    BY <1>1, <1>2 DEF Distinct
  <1>4. (CHOOSE j \in 1..Shifted : batch[j] = batch[k]) = k
    BY <1>3
  <1>5. stash[k] \notin blank => paired'[batch[k]] = stash[CHOOSE j \in 1..Shifted : batch[j] = batch[k]]
    BY <1>2 DEF Inject
  <1> QED
    BY <1>2, <1>4, <1>5

\* However submissions overlap, are refused or aborted: as long as nothing slips,
\* a message enters its step with its own post.
THEOREM PostsRideOwn == RideSpec => []OwnPostRides
  <1>1. RideInit => OwnPostRides
    BY DEF RideInit, OwnPostRides
  <1>2. QueueInv /\ OwnPostRides /\ [RideNext]_rideVars => OwnPostRides'
    <2> SUFFICES ASSUME QueueInv, OwnPostRides, [RideNext]_rideVars PROVE OwnPostRides'
      OBVIOUS
    <2>0. RideTypeOK /\ Distinct(Queue)
      BY DEF QueueInv
    <2>1. ASSUME Inject PROVE OwnPostRides'
      <3> SUFFICES ASSUME ~slipped, NEW i \in Elements(batch)
                   PROVE paired'[i] = IF i \in blank THEN NoPost ELSE i
        BY <2>1 DEF Inject, OwnPostRides
      <3>1. batch \in Seq(Submissions) /\ Rest \in Seq(Submissions) /\ stash = batch \o Rest
        BY <2>0, QueueTypes DEF QueueInv, RideTypeOK, Queue
      <3>2. /\ Len(batch) \in Nat /\ Shifted = Len(batch)
            /\ \A k \in 1..Len(batch) : stash[k] = batch[k]
        BY <3>1, ConcatProperties, LenProperties DEF Shifted, Lesser
      <3>3. Distinct(batch)
        BY <2>0, <3>1, DistinctParts DEF Queue
      <3>4. PICK k \in 1..Len(batch) : batch[k] = i
        BY <3>1, ElementsProperties
      <3>5. CASE i \notin blank
        BY <2>0, <2>1, <3>2, <3>3, <3>4, <3>5, InjectPairs
      <3>6. CASE i \in blank
        <4>1. \A j \in 1..Shifted : batch[j] = i => stash[j] \in blank
          BY <3>2, <3>6
        <4>2. i \in Submissions /\ i \in Elements(Queue)
          BY <2>0, <3>1, ElementsProperties, QueueTypes
        <4>3. paired'[i] = paired[i]
          BY <2>1, <4>1, <4>2 DEF Inject
        <4> QED
          BY <3>6, <4>2, <4>3 DEF QueueInv
      <3> QED
        BY <3>5, <3>6
    <2>2. ASSUME NEW i \in Submissions, Push(i) PROVE OwnPostRides'
      <3>1. i \notin lastClaim
        BY <2>2 DEF Push, QueueInv
      <3> QED
        BY <2>2, <3>1 DEF Push, OwnPostRides, loopVars
    <2>3. ASSUME RestartOrLoad \/ ResetRide PROVE OwnPostRides'
      BY <2>3 DEF RestartOrLoad, ResetRide, Forgets, OwnPostRides
    <2>4. ASSUME Decline PROVE OwnPostRides'
      BY <2>4 DEF Decline, OwnPostRides
    <2>5. ASSUME UNCHANGED <<blank, paired, lastClaim, slipped>> PROVE OwnPostRides'
      BY <2>5 DEF OwnPostRides
    <2>6. ASSUME \/ StartRender \/ Admit \/ NextStep \/ StepStart \/ Shadow \/ EndTurn
                 \/ \E i \in Submissions : RenderFails(i) \/ Refuse(i) \/ Claim(i)
                 \/ UNCHANGED rideVars
          PROVE  UNCHANGED <<blank, paired, lastClaim, slipped>>
      BY <2>6 DEF StartRender, Admit, NextStep, StepStart, Shadow, EndTurn, RenderFails, Refuse, Claim,
         loopVars, rideVars
    <2> QED
      BY <2>1, <2>2, <2>3, <2>4, <2>5, <2>6, Zenon DEF RideNext
  <1> QED
    BY <1>1, <1>2, InitQueue, NextQueue, PTL DEF RideSpec

-----------------------------------------------------------------------------
(* What is shadowed.                                                        *)

OwnPosts == {paired[i] : i \in lastClaim}

\* From the claim to the request the posts that are not queued for shadowing are
\* those of the claim.
ShadowInv ==
  /\ step \in {"open", "asking"} => riding = {}
  /\ ~shadowLost => /\ step = "entered" => (live \ shadows) \cup riding \subseteq OwnPosts
                    /\ step = "open" => live \ draining \subseteq OwnPosts
                    /\ step = "asking" => live \subseteq OwnPosts

\* A request never shows the model a post of an earlier claim, unless a shadow
\* could not be written.
THEOREM OldPostsStayShadowed == RideSpec => []OldPostsAreShadowed
  <1>1. RideInit => ShadowInv
    BY DEF RideInit, ShadowInv
  <1>2. ShadowInv => OldPostsAreShadowed
    BY DEF ShadowInv, OldPostsAreShadowed, OwnPosts
  <1>3. QueueInv /\ ShadowInv /\ [RideNext]_rideVars => ShadowInv'
    <2> SUFFICES ASSUME QueueInv, ShadowInv, [RideNext]_rideVars PROVE ShadowInv'
      OBVIOUS
    <2>0. RideTypeOK /\ Distinct(Queue)
      BY DEF QueueInv
    <2>1. ASSUME Inject PROVE ShadowInv'
      <3>1. /\ step' = "entered" /\ live' = live /\ shadows' = shadows \cup live
            /\ riding' = {stash[k] : k \in 1..Shifted} \ blank /\ lastClaim' = Elements(batch)
        BY <2>1 DEF Inject, Outdated
      <3>2. Distinct(batch)
        BY <2>0, QueueTypes, DistinctParts DEF Queue, RideTypeOK
      <3>3. ASSUME NEW k \in 1..Shifted, stash[k] \notin blank PROVE stash[k] \in OwnPosts'
        <4>1. batch[k] \in lastClaim' /\ paired'[batch[k]] = stash[k]
          BY <2>0, <2>1, <3>1, <3>2, <3>3, InjectPairs
        <4> QED
          BY <4>1 DEF OwnPosts
      <3>4. riding' \subseteq OwnPosts'
        BY <3>1, <3>3
      <3> QED
        BY <3>1, <3>4 DEF ShadowInv
    <2>2. ASSUME NextStep PROVE ShadowInv'
      BY <2>2 DEF NextStep, ShadowInv, OwnPosts, surfaceVars
    <2>3. ASSUME StepStart PROVE ShadowInv'
      <3>1. /\ step = "entered" /\ step' = "open" /\ live' = live \cup riding /\ riding' = {}
            /\ draining' = shadows /\ UNCHANGED <<paired, lastClaim, shadowLost>>
        BY <2>3 DEF StepStart
      <3>2. OwnPosts' = OwnPosts
        BY <3>1 DEF OwnPosts
      <3> QED
        BY <3>1, <3>2 DEF ShadowInv
    <2>4. ASSUME Shadow PROVE ShadowInv'
      <3>1. /\ step = "open" /\ step' = "asking" /\ UNCHANGED <<paired, lastClaim, riding>>
            /\ (live' = live \ draining /\ shadowLost' = shadowLost) \/ shadowLost' = TRUE
        BY <2>4 DEF Shadow
      <3>2. OwnPosts' = OwnPosts
        BY <3>1 DEF OwnPosts
      <3> QED
        BY <3>1, <3>2 DEF ShadowInv
    <2>5. ASSUME step' \in {"idle", "claimed"} PROVE ShadowInv'
      BY <2>5 DEF ShadowInv
    <2>6. ASSUME Decline \/ EndTurn \/ RestartOrLoad \/ ResetRide
                 \/ \E i \in Submissions : Claim(i)
          PROVE  step' \in {"idle", "claimed"}
      BY <2>6 DEF Decline, EndTurn, RestartOrLoad, ResetRide, Forgets, Claim
    <2>7. ASSUME UNCHANGED <<step, riding, live, shadows, draining, shadowLost, paired, lastClaim>>
          PROVE  ShadowInv'
      <3>1. OwnPosts' = OwnPosts
        BY <2>7 DEF OwnPosts
      <3> QED
        BY <2>7, <3>1 DEF ShadowInv
    <2>8. ASSUME \/ StartRender \/ Admit
                 \/ \E i \in Submissions : RenderFails(i) \/ Push(i) \/ Refuse(i)
                 \/ UNCHANGED rideVars
          PROVE  UNCHANGED <<step, riding, live, shadows, draining, shadowLost, paired, lastClaim>>
      BY <2>8 DEF StartRender, Admit, RenderFails, Push, Refuse, loopVars, surfaceVars, rideVars
    <2> QED
      BY <2>1, <2>2, <2>3, <2>4, <2>5, <2>6, <2>7, <2>8, Zenon DEF RideNext
  <1> QED
    BY <1>1, <1>2, <1>3, InitQueue, NextQueue, PTL DEF RideSpec
=============================================================================
