-------------------------- MODULE SavePointsProofs --------------------------
(***************************************************************************)
(* Theorems about SavePoints, for every value of its constants.            *)
(***************************************************************************)
EXTENDS SavePoints, SequenceTheorems, FiniteSetTheorems, WellFoundedInduction, TLAPS

USE DEF turnVars, saveVars, boxVars

-----------------------------------------------------------------------------
(* A name has one directory and one stamp: every write of a name first      *)
(* drops what the name held, and pruning only drops.                        *)

LEMMA PromptOneRow ==
  ASSUME OneRowPerName, NEW t, Prompt(t)
  PROVE  OneRowPerName'
  BY DEF OneRowPerName, Prompt, Autosave, Pruned, PrunedLedger, WriteSave, WriteSaveStamp, Without

LEMMA NextOneRow == OneRowPerName /\ [Next]_vars => OneRowPerName'
  <1> SUFFICES ASSUME OneRowPerName, [Next]_vars PROVE OneRowPerName'
    OBVIOUS
  <1>1. CASE UNCHANGED <<dirs, ledger>>
    BY <1>1 DEF OneRowPerName
  <1>2. CASE Send \/ CardSubmit \/ Resend
    BY <1>2, PromptOneRow DEF Send, CardSubmit, Resend
  <1>3. ASSUME NEW n \in Names, Save(n) \/ DieUnstamped(n) PROVE OneRowPerName'
    BY <1>3 DEF OneRowPerName, Save, DieUnstamped, WriteSave, WriteSaveStamp, Without
  <1>4. ASSUME NEW n \in Names, RemoveSave(n) \/ DeleteByEditor(n) PROVE OneRowPerName'
    BY <1>4 DEF OneRowPerName, RemoveSave, DeleteByEditor, Without
  <1>5. \A n \in 1..HandNames : n \in Names
    BY SaveAssumption DEF Names
  <1>6. CASE Type \/ TurnWrites \/ TurnCloses \/ TailCloses \/ CardWrites \/ Reset \/ Retry
    BY <1>1, <1>6 DEF Type, TurnWrites, TurnCloses, TailCloses, CardWrites, Reset, Retry
  <1>7. ASSUME NEW n \in Names, Load(n) PROVE OneRowPerName'
    BY <1>1, <1>7 DEF Load
  <1>8. ASSUME NEW t \in Texts, GhostWrites(t) PROVE OneRowPerName'
    BY <1>1, <1>8 DEF GhostWrites
  <1> QED
    BY <1>1, <1>2, <1>3, <1>4, <1>5, <1>6, <1>7, <1>8 DEF Next, vars

\* Whatever is saved, overwritten, deleted, pruned or lost in a death, a name of
\* the save list stands for one directory and one stamp.
THEOREM RowsUnique == Spec => []OneRowPerName
  <1>1. Init => OneRowPerName
    BY DEF Init, OneRowPerName
  <1> QED
    BY <1>1, NextOneRow, PTL DEF Spec

-----------------------------------------------------------------------------
(* Type correctness. A fork is well typed because a stamp never points past *)
(* the end of the log it was written from, and a closed turn has a text.    *)

StampsInLogs ==
  \A s \in ledger : s.sid \in 1..Len(logs) /\ s.seq <= Len(logs[s.sid])

TypeInv == TypeOK /\ StampsInLogs /\ OneRowPerName /\ (phase # "rest" => text # 0)

\* A session that is bound anew is added to the logs, which stay what they were.
LEMMA BindFreshAppends ==
  ASSUME HistoryTypes, NEW log \in Seq(Texts), BindFresh(log)
  PROVE  /\ logs' \in Seq(Seq(Texts)) /\ Len(logs') <= MaxSessions
         /\ bound' \in 1..Len(logs') /\ bound' = Len(logs) + 1
         /\ \A i \in 1..Len(logs) : i \in 1..Len(logs') /\ logs'[i] = logs[i]
         /\ logs'[bound'] = log
  BY SaveAssumption DEF HistoryTypes, BindFresh

\* A fork is a conversation.
LEMMA ForkTyped ==
  ASSUME HistoryTypes, SaveTypes, StampsInLogs, NEW s \in ledger
  PROVE  ForkAt(s) \in Seq(Texts)
  <1>1. logs[s.sid] \in Seq(Texts) /\ s.seq \in 0..Len(logs[s.sid])
    BY DEF HistoryTypes, SaveTypes, StampsInLogs
  <1>2. \A i \in 1..s.seq : logs[s.sid][i] \in Texts
    BY <1>1
  <1> QED
    BY <1>1, <1>2, SubSeqProperties DEF ForkAt

\* A stamp that is looked up is the ledger's.
LEMMA StampOfFinds ==
  ASSUME NEW n, Stamped(n)
  PROVE  StampOf(n) \in ledger /\ StampOf(n).name = n
  BY DEF Stamped, StampOf

LEMMA StampOfUnique ==
  ASSUME OneRowPerName, NEW s \in ledger
  PROVE  StampOf(s.name) = s
  BY StampOfFinds DEF Stamped, OneRowPerName

LEMMA InitTypeInv == Init => TypeInv
  <1> SUFFICES ASSUME Init PROVE TypeInv
    OBVIOUS
  <1>1. HistoryTypes /\ SaveTypes
    BY SaveAssumption DEF Init, HistoryTypes, SaveTypes
  <1>2. PlayerTypes
    <2>1. mixed \in BOOLEAN
      BY Zenon DEF Init
    <2>2. queue \in Seq(Texts)
      BY DEF Init
    <2> QED
      BY <2>1, <2>2, SaveAssumption DEF Init, PlayerTypes
  <1>3. StampsInLogs /\ OneRowPerName /\ phase = "rest"
    BY DEF Init, StampsInLogs, OneRowPerName
  <1> QED
    BY <1>1, <1>2, <1>3 DEF TypeInv, TypeOK

\* What a queue holds, and what it holds when one is added or the first is taken.
LEMMA QueueTyped ==
  ASSUME NEW q \in Seq(Texts)
  PROVE  /\ Elems(q) \subseteq Texts
         /\ \A t \in Texts : Append(q, t) \in Seq(Texts)
         /\ q # <<>> => Head(q) \in Texts /\ Tail(q) \in Seq(Texts)
  BY DEF Elems

\* What runs and waits is still a text after the kernel took the next one ...
LEMMA GoesOnTyped ==
  ASSUME PlayerTypes, GoesOn
  PROVE  /\ queue' \in Seq(Texts) /\ text' \in 0..MaxTexts
         /\ phase' \in {"rest", "turn"} /\ (phase' # "rest" => text' # 0)
  <1>1. CASE queue = <<>>
    BY <1>1, SaveAssumption DEF PlayerTypes, GoesOn
  <1>2. CASE queue # <<>>
    <2>1. Head(queue) \in Texts /\ Tail(queue) \in Seq(Texts)
      BY <1>2, QueueTyped DEF PlayerTypes
    <2> QED
      BY <1>2, <2>1 DEF GoesOn, Texts
  <1> QED
    BY <1>1, <1>2

\* ... and after all of it was left behind in a session.
LEMMA AbandonsTyped ==
  ASSUME PlayerTypes, Abandons
  PROVE  /\ queue' \in Seq(Texts) /\ ghosts' \subseteq Texts
         /\ text' = 0 /\ phase' = "rest"
  <1>1. {text} \ {0} \subseteq Texts /\ Elems(queue) \subseteq Texts
    BY QueueTyped DEF PlayerTypes, Texts
  <1>2. <<>> \in Seq(Texts)
    OBVIOUS
  <1> QED
    BY <1>1, <1>2 DEF PlayerTypes, Abandons

\* The write time that is recorded is one.
LEMMA TearTyped ==
  ASSUME SaveTypes, RecordTear, clock < MaxSaves
  PROVE  torn' \subseteq 1..MaxSaves
  <1>1. clock + 1 \in 1..MaxSaves
    BY SaveAssumption DEF SaveTypes
  <1> QED
    BY <1>1 DEF RecordTear, SaveTypes

LEMMA MixedTyped ==
  ASSUME PlayerTypes
  PROVE  /\ \A t : GhostWrites(t) => mixed' \in BOOLEAN
         /\ \A d : Restore(d) => mixed' \in BOOLEAN
         /\ Reseed => mixed' \in BOOLEAN
  <1>1. \A t : (mixed \/ t \notin Elems(logs[bound])) \in BOOLEAN
    BY Zenon
  <1>2. \A d : (d.at \in torn) \in BOOLEAN
    BY SMT
  <1> QED
    BY <1>1, <1>2, Zenon DEF GhostWrites, Restore, Reseed

\* A submitted text is autosaved under a fresh name, and the texts it leaves
\* in the box and in flight are texts.
LEMMA PromptTypeInv ==
  ASSUME TypeInv, NEW t \in Texts, Prompt(t), composer' \in 0..MaxTexts, typed' \in 0..MaxTexts
  PROVE  TypeInv'
  <1> USE SaveAssumption DEF TypeInv, TypeOK
  <1>1. HandNames + clock + 1 \in Names /\ clock' \in 1..MaxSaves
    BY DEF Prompt, Autosave, SaveTypes, Names
  <1>2. dirs' \subseteq WriteSave(HandNames + clock + 1)
    BY DEF Prompt, Autosave, Pruned
  <1>3. ledger' \subseteq WriteSaveStamp(HandNames + clock + 1, t)
    BY DEF Prompt, Autosave, PrunedLedger
  <1>4. HistoryTypes'
    <2>1. world' \in Seq(0..MaxTexts)
      <3>1. CASE world' = world
        BY <3>1 DEF HistoryTypes
      <3>2. CASE world' = Append(world, 0)
        BY <3>2 DEF HistoryTypes
      <3> QED
        BY <3>1, <3>2 DEF Prompt, Refuse, StrayWrite
    <2> QED
      BY <2>1 DEF Prompt, HistoryTypes
  <1>5. Len(logs[bound]) \in Nat /\ bound \in 1..MaxSessions
    BY DEF HistoryTypes
  <1>6. SaveTypes'
    <2>1. dirs' \subseteq [name : Names, at : 1..MaxSaves, world : Seq(0..MaxTexts)]
      BY <1>1, <1>2 DEF WriteSave, Without, SaveTypes, HistoryTypes, Prompt, Autosave
    <2>2. ledger' \subseteq [name : Names, at : 1..MaxSaves, sid : 1..MaxSessions,
                             seq : Nat, draft : 0..MaxTexts]
      BY <1>1, <1>3, <1>5 DEF WriteSaveStamp, Without, SaveTypes, Texts, Prompt, Autosave
    <2>3. torn' \subseteq 1..MaxSaves
      BY TearTyped DEF Prompt, Autosave
    <2> QED
      BY <1>1, <2>1, <2>2, <2>3 DEF SaveTypes
  <1>7. PlayerTypes' /\ (phase # "rest" => text # 0)'
    <2>1. queue' \in Seq(Texts)
      BY QueueTyped DEF Prompt, Admit, Refuse, PlayerTypes
    <2>2. /\ phase' \in {"rest", "turn"} /\ text' \in 0..MaxTexts
          /\ (phase' # "rest" => text' # 0)
      BY DEF Prompt, Admit, Refuse, PlayerTypes, Texts
    <2>3. writes' \in 0..MaxWrites /\ UNCHANGED <<ghosts, mixed, crashes>>
      BY DEF Prompt, Refuse, StrayWrite, PlayerTypes
    <2> QED
      BY <2>1, <2>2, <2>3 DEF PlayerTypes
  <1>8. StampsInLogs'
    BY <1>3, <1>5 DEF WriteSaveStamp, Without, StampsInLogs, HistoryTypes, Prompt
  <1> QED
    BY <1>4, <1>6, <1>7, <1>8, PromptOneRow

\* A rebind leaves every stamp inside its log.
LEMMA BindFreshTypeInv ==
  ASSUME TypeInv, NEW log \in Seq(Texts), BindFresh(log), world' \in Seq(0..MaxTexts),
         UNCHANGED saveVars
  PROVE  HistoryTypes' /\ SaveTypes' /\ StampsInLogs'
  <1>1. HistoryTypes'
    BY BindFreshAppends DEF TypeInv, TypeOK, HistoryTypes
  <1>2. SaveTypes'
    BY DEF TypeInv, TypeOK, SaveTypes
  <1>3. StampsInLogs'
    BY BindFreshAppends DEF TypeInv, TypeOK, StampsInLogs
  <1> QED
    BY <1>1, <1>2, <1>3

\* A restored save brings a world and a conversation.
LEMMA RestoreTypeInv ==
  ASSUME TypeInv, NEW d \in dirs, Restore(d), UNCHANGED saveVars
  PROVE  HistoryTypes' /\ SaveTypes' /\ StampsInLogs'
  <1>1. world' \in Seq(0..MaxTexts)
    BY DEF Restore, TypeInv, TypeOK, SaveTypes
  <1>2. CASE Stamped(d.name) /\ StampOf(d.name).seq > 0
    <2>1. ForkAt(StampOf(d.name)) \in Seq(Texts)
      BY <1>2, StampOfFinds, ForkTyped DEF TypeInv, TypeOK
    <2> QED
      BY <1>1, <1>2, <2>1, BindFreshTypeInv DEF Restore
  <1>3. CASE ~(Stamped(d.name) /\ StampOf(d.name).seq > 0)
    <2>1. <<>> \in Seq(Texts)
      OBVIOUS
    <2> QED
      BY <1>1, <1>3, <2>1, BindFreshTypeInv DEF Restore
  <1> QED
    BY <1>2, <1>3

LEMMA ReseedTypeInv ==
  ASSUME TypeInv, Reseed, UNCHANGED saveVars
  PROVE  HistoryTypes' /\ SaveTypes' /\ StampsInLogs'
  <1>1. <<>> \in Seq(Texts) /\ <<>> \in Seq(0..MaxTexts)
    OBVIOUS
  <1> QED
    BY <1>1, BindFreshTypeInv DEF Reseed

LEMMA NextTypeInv == TypeInv /\ [Next]_vars => TypeInv'
  <1> SUFFICES ASSUME TypeInv, [Next]_vars PROVE TypeInv'
    OBVIOUS
  <1> USE SaveAssumption
  <1>0. OneRowPerName'
    BY NextOneRow DEF TypeInv
  <1>1. CASE Type
    BY <1>0, <1>1 DEF Type, TypeInv, TypeOK, HistoryTypes, SaveTypes, PlayerTypes, StampsInLogs
  <1>2. CASE Send
    <2>1. composer \in Texts /\ composer' \in 0..MaxTexts /\ typed' \in 0..MaxTexts /\ Prompt(composer)
      BY <1>2 DEF Send, TypeInv, TypeOK, PlayerTypes, Texts
    <2> QED
      BY <2>1, PromptTypeInv
  <1>3. CASE TurnWrites
    <2>1. HistoryTypes'
      BY <1>3 DEF TurnWrites, TypeInv, TypeOK, HistoryTypes, PlayerTypes
    <2> QED
      BY <1>0, <1>3, <2>1 DEF TurnWrites, TypeInv, TypeOK, SaveTypes, PlayerTypes, StampsInLogs
  <1>4. CASE TurnCloses
    <2>1. text \in Texts /\ logs[bound] \in Seq(Texts)
      BY <1>4 DEF TurnCloses, TypeInv, TypeOK, HistoryTypes, PlayerTypes, Texts
    <2>2. Append(logs[bound], text) \in Seq(Texts)
          /\ Len(Append(logs[bound], text)) = Len(logs[bound]) + 1
      BY <2>1
    <2>3. logs' \in Seq(Seq(Texts)) /\ Len(logs') = Len(logs)
          /\ \A i \in 1..Len(logs) : Len(logs[i]) <= Len(logs'[i])
      <3>1. logs' = [logs EXCEPT ![bound] = Append(logs[bound], text)]
        BY <1>4 DEF TurnCloses
      <3>2. \A i \in 1..Len(logs) : logs[i] \in Seq(Texts) /\ Len(logs[i]) \in Nat
        BY DEF TypeInv, TypeOK, HistoryTypes
      <3> QED
        BY <2>2, <3>1, <3>2, ExceptSeq DEF TypeInv, TypeOK, HistoryTypes
    <2>4. HistoryTypes' /\ SaveTypes'
      BY <1>4, <2>3 DEF TurnCloses, TypeInv, TypeOK, HistoryTypes, SaveTypes
    <2>5. StampsInLogs'
      <3> SUFFICES ASSUME NEW s \in ledger PROVE s.sid \in 1..Len(logs') /\ s.seq <= Len(logs'[s.sid])
        BY <1>4 DEF TurnCloses, StampsInLogs
      <3>1. s.sid \in 1..Len(logs) /\ s.seq <= Len(logs[s.sid]) /\ s.seq \in Nat
        BY DEF TypeInv, TypeOK, StampsInLogs, SaveTypes
      <3>2. Len(logs[s.sid]) \in Nat /\ Len(logs'[s.sid]) \in Nat
        <4>1. logs[s.sid] \in Seq(Texts) /\ logs'[s.sid] \in Seq(Texts)
          BY <2>3, <3>1 DEF TypeInv, TypeOK, HistoryTypes
        <4> QED
          BY <4>1
      <3> QED
        BY <2>3, <3>1, <3>2
    <2>6. UNCHANGED <<ghosts, mixed, composer, typed, writes, crashes>>
      BY <1>4 DEF TurnCloses
    <2>7. PlayerTypes' /\ (phase # "rest" => text # 0)'
      <3>1. CASE GoesOn
        BY <2>6, <3>1, GoesOnTyped DEF TypeInv, TypeOK, PlayerTypes
      <3>2. CASE phase' = "tail" /\ UNCHANGED <<text, queue>>
        BY <2>1, <2>6, <3>2 DEF TypeInv, TypeOK, PlayerTypes, Texts
      <3> QED
        BY <1>4, <3>1, <3>2 DEF TurnCloses
    <2> QED
      BY <1>0, <2>4, <2>5, <2>7 DEF TypeInv, TypeOK
  <1>5. CASE TailCloses
    <2>1. UNCHANGED <<logs, bound, world, dirs, ledger, clock, torn>> /\ GoesOn
          /\ UNCHANGED <<ghosts, mixed, composer, typed, writes, crashes>>
      BY <1>5 DEF TailCloses
    <2>2. PlayerTypes' /\ (phase # "rest" => text # 0)'
      BY <2>1, GoesOnTyped DEF TypeInv, TypeOK, PlayerTypes
    <2> QED
      BY <1>0, <2>1, <2>2 DEF TypeInv, TypeOK, HistoryTypes, SaveTypes, StampsInLogs
  <1>6. CASE CardWrites
    BY <1>0, <1>6 DEF CardWrites, StrayWrite, TypeInv, TypeOK, HistoryTypes, SaveTypes, PlayerTypes,
                StampsInLogs
  <1>7. CASE Reset
    <2>1. HistoryTypes' /\ SaveTypes' /\ StampsInLogs'
      BY <1>7, ReseedTypeInv DEF Reset
    <2>2. Abandons /\ composer' = 0 /\ UNCHANGED <<typed, writes, crashes>> /\ mixed' \in BOOLEAN
      BY <1>7, MixedTyped DEF Reset, TypeInv, TypeOK
    <2> QED
      BY <1>0, <2>1, <2>2, AbandonsTyped DEF TypeInv, TypeOK, PlayerTypes
  <1>8. CASE Retry
    <2>1. PICK d \in RetryPoint :
            /\ IF StampOf(d.name).seq = 0 THEN Reseed ELSE Restore(d)
            /\ text' = StampOf(d.name).draft
      BY <1>8 DEF Retry
    <2>2. d \in dirs /\ \E s \in ledger : s.name = d.name /\ s.draft # 0
      BY <2>1 DEF RetryPoint, Qualifying
    <2>3. UNCHANGED <<saveVars, queue, ghosts, typed, writes, crashes>>
          /\ phase' = "resend" /\ composer' = 0
      BY <1>8 DEF Retry
    <2>4. HistoryTypes' /\ SaveTypes' /\ StampsInLogs'
      <3>1. CASE Reseed
        BY <2>3, <3>1, ReseedTypeInv
      <3>2. CASE Restore(d)
        BY <2>2, <2>3, <3>2, RestoreTypeInv
      <3> QED
        BY <2>1, <3>1, <3>2
    <2>5. PICK s \in ledger : s.name = d.name /\ s.draft # 0
      BY <2>2
    <2>6. text' = s.draft
      BY <2>1, <2>5, StampOfUnique DEF TypeInv
    <2>7. mixed' \in BOOLEAN
      BY <2>1, MixedTyped DEF TypeInv, TypeOK
    <2>8. PlayerTypes' /\ text' # 0
      BY <2>3, <2>5, <2>6, <2>7 DEF TypeInv, TypeOK, PlayerTypes, SaveTypes
    <2> QED
      BY <2>4, <2>8, <1>0 DEF TypeInv, TypeOK
  <1>9. CASE Resend
    <2>1. text \in Texts /\ composer' \in 0..MaxTexts /\ typed' \in 0..MaxTexts /\ Prompt(text)
      BY <1>9 DEF Resend, TypeInv, TypeOK, PlayerTypes, Texts
    <2> QED
      BY <2>1, PromptTypeInv
  <1>10. ASSUME NEW n \in 1..HandNames, Save(n) PROVE TypeInv'
    <2>1. n \in Names /\ clock' \in 1..MaxSaves /\ clock' = clock + 1
      BY <1>10 DEF Save, TypeInv, TypeOK, SaveTypes, Names
    <2>2. Len(logs[bound]) \in Nat /\ bound \in 1..MaxSessions
      BY DEF TypeInv, TypeOK, HistoryTypes
    <2>3. SaveTypes'
      <3>1. dirs' \subseteq [name : Names, at : 1..MaxSaves, world : Seq(0..MaxTexts)]
        BY <1>10, <2>1 DEF Save, WriteSave, Without, TypeInv, TypeOK, SaveTypes, HistoryTypes
      <3>2. ledger' \subseteq [name : Names, at : 1..MaxSaves, sid : 1..MaxSessions,
                               seq : Nat, draft : 0..MaxTexts]
        BY <1>10, <2>1, <2>2 DEF Save, WriteSaveStamp, Without, TypeInv, TypeOK, SaveTypes,
                                 PlayerTypes
      <3>3. torn' \subseteq 1..MaxSaves
        BY <1>10, TearTyped DEF Save, TypeInv, TypeOK
      <3> QED
        BY <2>1, <3>1, <3>2, <3>3 DEF SaveTypes
    <2>4. StampsInLogs'
      BY <1>10, <2>2 DEF Save, WriteSaveStamp, Without, TypeInv, TypeOK, StampsInLogs, HistoryTypes
    <2> QED
      BY <1>10, <2>3, <2>4, <1>0 DEF Save, TypeInv, TypeOK, HistoryTypes, PlayerTypes
  <1>11. ASSUME NEW n \in Names, DieUnstamped(n) PROVE TypeInv'
    <2>1. dirs' \subseteq [name : Names, at : 1..MaxSaves, world : Seq(0..MaxTexts)]
          /\ clock' \in 0..MaxSaves
      BY <1>11 DEF DieUnstamped, WriteSave, Without, TypeInv, TypeOK, SaveTypes, HistoryTypes
    <2>2. UNCHANGED <<logs, bound, world, ledger, turnVars, mixed, typed, writes>>
          /\ composer' = 0 /\ ghosts' = {} /\ crashes' = crashes + 1 /\ crashes < MaxCrashes
          /\ torn' \subseteq 1..MaxSaves
      BY <1>11, TearTyped DEF DieUnstamped, TypeInv, TypeOK
    <2>3. HistoryTypes' /\ SaveTypes' /\ StampsInLogs'
      BY <2>1, <2>2 DEF TypeInv, TypeOK, HistoryTypes, SaveTypes, StampsInLogs
    <2>4. PlayerTypes' /\ (phase # "rest" => text # 0)'
      BY <2>2 DEF TypeInv, TypeOK, PlayerTypes
    <2> QED
      BY <1>0, <2>3, <2>4 DEF TypeInv, TypeOK
  <1>12. ASSUME NEW n \in Names, RemoveSave(n) \/ DeleteByEditor(n) PROVE TypeInv'
    <2>1. SaveTypes' /\ StampsInLogs'
      BY <1>12 DEF RemoveSave, DeleteByEditor, Without, TypeInv, TypeOK, SaveTypes, StampsInLogs
    <2> QED
      BY <1>12, <2>1, <1>0
      DEF RemoveSave, DeleteByEditor, TypeInv, TypeOK, HistoryTypes, PlayerTypes
  <1>13. ASSUME NEW n \in Names, Load(n) PROVE TypeInv'
    <2>1. PICK d \in dirs : d.name = n /\ Restore(d)
      BY <1>13 DEF Load
    <2>2. UNCHANGED <<saveVars, typed, writes, crashes>> /\ Abandons /\ mixed' \in BOOLEAN
          /\ composer' = IF Stamped(n) THEN StampOf(n).draft ELSE 0
      BY <1>13, <2>1, MixedTyped DEF Load, TypeInv, TypeOK
    <2>3. composer' \in 0..MaxTexts
      BY <2>2, StampOfFinds DEF TypeInv, TypeOK, SaveTypes
    <2>4. HistoryTypes' /\ SaveTypes' /\ StampsInLogs'
      BY <2>1, <2>2, RestoreTypeInv
    <2> QED
      BY <2>2, <2>3, <2>4, <1>0, AbandonsTyped DEF TypeInv, TypeOK, PlayerTypes
  <1>14. CASE UNCHANGED vars
    BY <1>0, <1>14 DEF vars, TypeInv, TypeOK, HistoryTypes, SaveTypes, PlayerTypes, StampsInLogs
  <1>15. CASE CardSubmit
    <2>1. typed + 1 \in Texts /\ composer' \in 0..MaxTexts /\ typed' \in 0..MaxTexts
          /\ Prompt(typed + 1)
      BY <1>15 DEF CardSubmit, TypeInv, TypeOK, PlayerTypes, Texts
    <2> QED
      BY <2>1, PromptTypeInv
  <1>16. ASSUME NEW t \in Texts, GhostWrites(t) PROVE TypeInv'
    <2>1. world' \in Seq(0..MaxTexts) /\ mixed' \in BOOLEAN
          /\ UNCHANGED <<logs, bound, saveVars, turnVars, ghosts, boxVars, writes, crashes>>
      BY <1>16, MixedTyped DEF GhostWrites, TypeInv, TypeOK, HistoryTypes, Texts
    <2>2. HistoryTypes' /\ SaveTypes' /\ StampsInLogs'
      BY <2>1 DEF TypeInv, TypeOK, HistoryTypes, SaveTypes, StampsInLogs
    <2>3. PlayerTypes' /\ (phase # "rest" => text # 0)'
      BY <2>1 DEF TypeInv, TypeOK, PlayerTypes
    <2> QED
      BY <1>0, <2>2, <2>3 DEF TypeInv, TypeOK
  <1> QED
    BY <1>1, <1>2, <1>3, <1>4, <1>5, <1>6, <1>7, <1>8, <1>9, <1>10, <1>11, <1>12, <1>13, <1>14,
       <1>15, <1>16
    DEF Next

\* Every variable keeps its type, for every ring length and every bound.
THEOREM TypeCorrect == Spec => []TypeOK
  <1>1. TypeInv => TypeOK
    BY DEF TypeInv
  <1> QED
    BY <1>1, InitTypeInv, NextTypeInv, PTL DEF Spec

-----------------------------------------------------------------------------
(* Pairing. A name with the prefix of the ring is used once, so a directory  *)
(* that lost its stamp cannot meet another save's; pruning removes the stamp *)
(* of the rows it removes and of no other, since names are unique.           *)

NamesUsed ==
  \A x \in dirs \cup ledger : IsAuto(x.name) => x.name <= HandNames + clock

PairInv == TypeInv /\ NamesUsed /\ StampsPaired

\* A directory and a stamp that are written together are a pair.
LEMMA WrittenPairs ==
  ASSUME StampsPaired, NEW n, NEW t, NEW d \in WriteSave(n)
  PROVE  /\ crashes = 0 => \E s \in WriteSaveStamp(n, t) : s.name = d.name
         /\ \A s \in WriteSaveStamp(n, t) :
              s.name = d.name /\ (IsAuto(d.name) \/ crashes = 0) => s.at = d.at
  <1> DEFINE new == [name |-> n, at |-> clock + 1, sid |-> bound,
                     seq |-> Len(logs[bound]), draft |-> t]
  <1>1. WriteSaveStamp(n, t) = Without(ledger, n) \cup {new}
    BY DEF WriteSaveStamp
  <1>2. new.name = n /\ new.at = clock + 1
    OBVIOUS
  <1> HIDE DEF new
  <1>3. CASE d.name = n
    <2>1. d.at = clock + 1
      BY <1>3 DEF WriteSave, Without
    <2> QED
      BY <1>1, <1>2, <1>3, <2>1 DEF Without
  <1>4. CASE d.name # n
    <2>1. d \in dirs
      BY <1>4 DEF WriteSave, Without
    <2> QED
      BY <1>1, <1>2, <1>4, <2>1 DEF Without, StampsPaired, Stamped
  <1> QED
    BY <1>3, <1>4

LEMMA PromptPairs ==
  ASSUME PairInv, NEW t \in Texts, Prompt(t)
  PROVE  NamesUsed' /\ StampsPaired'
  <1> DEFINE name == HandNames + clock + 1
             all == WriteSave(name)
             stamps == WriteSaveStamp(name, t)
  <1>1. dirs' = Pruned(all) /\ ledger' = stamps \ Named(stamps, all \ Pruned(all))
        /\ clock' = clock + 1 /\ crashes' = crashes
    BY DEF Prompt, Autosave, PrunedLedger
  <1>2. clock \in Nat /\ HandNames \in Nat
        /\ \A x \in dirs \cup ledger : x.name \in Nat
    BY SaveAssumption DEF PairInv, TypeInv, TypeOK, SaveTypes, Names
  <1>3. Pruned(all) \subseteq all
    BY DEF Pruned
  <1>4. NamesUsed'
    BY <1>1, <1>2, <1>3 DEF NamesUsed, PairInv, WriteSave, WriteSaveStamp, Without, IsAuto
  <1>5. ASSUME NEW d \in dirs'
        PROVE  \A s \in stamps : s.name = d.name => s \in ledger'
    <2>1. \A e \in all : e.name = d.name => e = d
      BY <1>1, <1>3 DEF PairInv, TypeInv, OneRowPerName, WriteSave, Without
    <2> QED
      BY <1>1, <2>1 DEF Named
  <1>6. ASSUME NEW d \in all
        PROVE  /\ crashes = 0 => \E s \in stamps : s.name = d.name
               /\ \A s \in stamps : s.name = d.name /\ (IsAuto(d.name) \/ crashes = 0) => s.at = d.at
    BY WrittenPairs DEF PairInv
  <1>7. StampsPaired'
    BY <1>1, <1>3, <1>5, <1>6 DEF StampsPaired, Stamped, IsAuto
  <1> QED
    BY <1>4, <1>7

LEMMA NextPairs == PairInv /\ [Next]_vars => PairInv'
  <1> SUFFICES ASSUME PairInv, [Next]_vars PROVE NamesUsed' /\ StampsPaired'
    BY NextTypeInv DEF PairInv
  <1>1. CASE UNCHANGED <<dirs, ledger, clock, crashes>>
    BY <1>1 DEF PairInv, NamesUsed, StampsPaired, Stamped, IsAuto
  <1>2. CASE Send \/ CardSubmit
    <2>1. CASE Send
      BY <2>1, PromptPairs DEF Send, PairInv, TypeInv, TypeOK, PlayerTypes, Texts
    <2>2. CASE CardSubmit
      <3>1. typed + 1 \in Texts
        BY <2>2, SaveAssumption DEF CardSubmit, PairInv, TypeInv, TypeOK, PlayerTypes, Texts
      <3> QED
        BY <2>2, <3>1, PromptPairs DEF CardSubmit
    <2> QED
      BY <1>2, <2>1, <2>2
  <1>3. CASE Resend
    BY <1>3, PromptPairs DEF Resend, PairInv, TypeInv, TypeOK, PlayerTypes, Texts
  <1>4. clock \in Nat /\ HandNames \in Nat /\ crashes \in Nat
        /\ \A x \in dirs \cup ledger : x.name \in Nat
    BY SaveAssumption DEF PairInv, TypeInv, TypeOK, SaveTypes, PlayerTypes, Names
  <1>5. ASSUME NEW n \in 1..HandNames, Save(n) PROVE NamesUsed' /\ StampsPaired'
    <2>1. NamesUsed'
      BY <1>4, <1>5 DEF Save, WriteSave, WriteSaveStamp, Without, PairInv, NamesUsed, IsAuto
    <2>2. StampsPaired'
      <3>1. dirs' = WriteSave(n) /\ ledger' = WriteSaveStamp(n, composer) /\ crashes' = crashes
        BY <1>5 DEF Save
      <3>2. StampsPaired
        BY DEF PairInv
      <3> QED
        BY <3>1, <3>2, WrittenPairs DEF StampsPaired, Stamped, IsAuto
    <2> QED
      BY <2>1, <2>2
  <1>6. ASSUME NEW n \in Names, DieUnstamped(n) PROVE NamesUsed' /\ StampsPaired'
    <2>1. clock' = clock + 1 /\ crashes' # 0 /\ ledger' = ledger
          /\ dirs' = Without(dirs, n) \cup {[name |-> n, at |-> clock + 1, world |-> world]}
          /\ (IsAuto(n) => n = HandNames + clock + 1)
      BY <1>4, <1>6 DEF DieUnstamped, WriteSave
    <2>2. NamesUsed'
      BY <1>4, <2>1 DEF Without, PairInv, NamesUsed, IsAuto
    <2>3. ASSUME NEW d \in dirs', NEW s \in ledger, s.name = d.name, IsAuto(d.name)
          PROVE  s.at = d.at
      <3>1. CASE d.name = n
        <4>1. s.name <= HandNames + clock
          BY <2>3 DEF PairInv, NamesUsed
        <4> QED
          BY <1>4, <2>1, <2>3, <3>1, <4>1
      <3>2. CASE d.name # n
        <4>1. d \in dirs
          BY <2>1, <3>2 DEF Without
        <4> QED
          BY <2>3, <4>1 DEF PairInv, StampsPaired
      <3> QED
        BY <3>1, <3>2
    <2>4. StampsPaired'
      BY <2>1, <2>3 DEF StampsPaired, IsAuto
    <2> QED
      BY <2>2, <2>4
  <1>7. ASSUME NEW n \in Names, RemoveSave(n) \/ DeleteByEditor(n)
        PROVE  NamesUsed' /\ StampsPaired'
    BY <1>7 DEF RemoveSave, DeleteByEditor, Without, PairInv, NamesUsed, StampsPaired, Stamped,
                IsAuto
  <1>8. ASSUME NEW n \in Names, Load(n) PROVE NamesUsed' /\ StampsPaired'
    BY <1>1, <1>8 DEF Load
  <1>9. CASE Type \/ TurnWrites \/ TurnCloses \/ TailCloses \/ CardWrites \/ Reset \/ Retry
    BY <1>1, <1>9 DEF Type, TurnWrites, TurnCloses, TailCloses, CardWrites, Reset, Retry
  <1>10. ASSUME NEW t \in Texts, GhostWrites(t) PROVE NamesUsed' /\ StampsPaired'
    BY <1>1, <1>10 DEF GhostWrites
  <1> QED
    BY <1>1, <1>2, <1>3, <1>5, <1>6, <1>7, <1>8, <1>9, <1>10 DEF Next, vars

\* A directory and the stamp of its name come from the same save: load never
\* pairs one save's world with another save's history, and what a death between
\* the two writes leaves of an autosave is a directory without a stamp.
THEOREM StampsMatch == Spec => []StampsPaired
  <1>1. Init => PairInv
    BY InitTypeInv DEF Init, PairInv, NamesUsed, StampsPaired
  <1>2. PairInv => StampsPaired
    BY DEF PairInv
  <1> QED
    BY <1>1, <1>2, NextPairs, PTL DEF Spec

-----------------------------------------------------------------------------
(* What a sequence holds.                                                   *)

LEMMA ElemsOfEmpty == Elems(<<>>) = {}
  BY DEF Elems

LEMMA ElemsOfAppend ==
  ASSUME NEW S, NEW q \in Seq(S), NEW x \in S
  PROVE  Elems(Append(q, x)) = Elems(q) \cup {x}
  <1>1. Len(Append(q, x)) = Len(q) + 1 /\ Len(q) \in Nat
    OBVIOUS
  <1>2. \A i \in 1..Len(q) : Append(q, x)[i] = q[i]
    OBVIOUS
  <1>3. Append(q, x)[Len(q) + 1] = x
    OBVIOUS
  <1>4. 1..Len(q) + 1 = (1..Len(q)) \cup {Len(q) + 1}
    BY <1>1
  <1> QED
    BY <1>1, <1>2, <1>3, <1>4 DEF Elems

LEMMA ElemsTyped ==
  ASSUME NEW S, NEW q \in Seq(S)
  PROVE  Elems(q) \subseteq S
  BY DEF Elems

LEMMA ElemsOfTail ==
  ASSUME NEW S, NEW q \in Seq(S), q # <<>>
  PROVE  /\ Head(q) = q[1] /\ 1 \in 1..Len(q) /\ Len(Tail(q)) = Len(q) - 1
         /\ \A i \in 1..Len(Tail(q)) : Tail(q)[i] = q[i + 1] /\ i + 1 \in 1..Len(q)
         /\ Head(q) \in Elems(q) /\ Elems(Tail(q)) \subseteq Elems(q)
  <1>1. /\ Head(q) = q[1] /\ 1 \in 1..Len(q) /\ Len(Tail(q)) = Len(q) - 1
        /\ \A i \in 1..Len(Tail(q)) : Tail(q)[i] = q[i + 1] /\ i + 1 \in 1..Len(q)
    OBVIOUS
  <1> QED
    BY <1>1 DEF Elems

\* A prefix does not see what is appended behind it.
LEMMA PrefixOfAppend ==
  ASSUME NEW S, NEW q \in Seq(S), NEW x \in S, NEW n \in 0..Len(q)
  PROVE  SubSeq(Append(q, x), 1, n) = SubSeq(q, 1, n)
  <1>1. \A i \in 1..n : q[i] \in S /\ Append(q, x)[i] = q[i]
    OBVIOUS
  <1>2. /\ SubSeq(q, 1, n) \in Seq(S) /\ Len(SubSeq(q, 1, n)) = n
        /\ \A i \in 1..n : SubSeq(q, 1, n)[i] = q[i]
    BY <1>1, SubSeqProperties
  <1>3. /\ SubSeq(Append(q, x), 1, n) \in Seq(S) /\ Len(SubSeq(Append(q, x), 1, n)) = n
        /\ \A i \in 1..n : SubSeq(Append(q, x), 1, n)[i] = q[i]
    BY <1>1, SubSeqProperties
  <1> QED
    BY <1>2, <1>3, SeqEqual

-----------------------------------------------------------------------------
(* World and history. As long as nothing is mixed in, a world the running    *)
(* turn is not ahead in is explained by the prefix a save of it is stamped   *)
(* with, and the draft stamped with it is in neither. Prefixes never change, *)
(* since logs are only appended to, so a rebind to the prefix brings back    *)
(* what was true when the save was made. What waits behind a running turn is *)
(* newer than it, or was there, and another text, when the turn began.       *)

TextsTyped ==
  /\ \A i \in 1..Len(logs) : Elems(logs[i]) \subseteq 0..typed
  /\ Elems(world) \subseteq 0..typed
  /\ \A d \in dirs : Elems(d.world) \subseteq 0..typed
  /\ \A s \in ledger : s.draft \in 0..typed
  /\ text \in 0..typed /\ composer \in 0..typed
  /\ Elems(queue) \cup ghosts \subseteq 0..typed

QueueSound ==
  /\ phase \in {"rest", "resend"} => queue = <<>>
  /\ phase = "resend" => composer = 0
  /\ phase \in {"turn", "tail"} => composer # text /\ text # 0
  /\ \A i \in 1..Len(queue) : queue[i] # composer /\ queue[i] > text
  /\ \A i, j \in 1..Len(queue) : i < j => queue[i] < queue[j]

WorldExplained ==
  /\ phase = "tail" => text \in Elems(logs[bound])
  /\ Elems(world) \ {0} \subseteq
       Elems(logs[bound]) \cup (IF phase = "turn" THEN {text} ELSE {})
  /\ \A t \in Waiting : t \notin Elems(logs[bound]) \cup Elems(world)

SaveExplained(d, s) ==
  /\ Elems(d.world) \ {0} \subseteq Elems(ForkAt(s))
  /\ s.draft # 0 => s.draft \notin Elems(ForkAt(s)) \cup Elems(d.world)

SavesExplained ==
  \A d \in dirs, s \in ledger : s.name = d.name /\ d.at \notin torn => SaveExplained(d, s)

HistoryInv ==
  /\ PairInv /\ TextsTyped /\ QueueSound
  /\ crashes = 0 => (~mixed => WorldExplained) /\ SavesExplained

LEMMA WorldElems ==
  ASSUME TypeInv, NEW t \in 0..MaxTexts, world' = Append(world, t)
  PROVE  Elems(world') = Elems(world) \cup {t}
  <1> DEFINE Effects == 0..MaxTexts
  <1>1. t \in Effects /\ world \in Seq(Effects)
    BY DEF TypeInv, TypeOK, HistoryTypes
  <1> HIDE DEF Effects
  <1> QED
    BY <1>1, ElemsOfAppend

LEMMA StrayElems ==
  ASSUME TypeInv, world' = Append(world, 0)
  PROVE  Elems(world') = Elems(world) \cup {0}
  <1>1. 0 \in 0..MaxTexts
    BY SaveAssumption
  <1> QED
    BY <1>1, WorldElems

\* What is typed or submitted is newer than all there is: the bound on texts only
\* grows.
LEMMA TextsGrow ==
  ASSUME TypeInv, TextsTyped, NEW top \in Nat, typed <= top
  PROVE  /\ \A i \in 1..Len(logs) : Elems(logs[i]) \subseteq 0..top
         /\ Elems(world) \subseteq 0..top
         /\ \A d \in dirs : Elems(d.world) \subseteq 0..top
         /\ \A s \in ledger : s.draft \in 0..top
         /\ text \in 0..top /\ composer \in 0..top
         /\ Elems(queue) \subseteq 0..top /\ ghosts \subseteq 0..top
  <1>1. typed \in Nat
    BY DEF TypeInv, TypeOK, PlayerTypes
  <1>2. 0..typed \subseteq 0..top
    BY <1>1
  <1> QED
    BY <1>2 DEF TextsTyped

LEMMA PromptTexts ==
  ASSUME TypeInv, TextsTyped, NEW t \in Texts, t <= typed', Prompt(t),
         typed' \in Nat, typed <= typed', composer' \in {0, composer}
  PROVE  TextsTyped'
  <1>1. UNCHANGED <<logs, ghosts>> /\ text' \in {0, text, t} /\ t \in 0..typed'
    BY DEF Prompt, Admit, Refuse, Texts
  <1>2. Elems(world') \subseteq 0..typed'
    <2>1. CASE world' = world
      BY <2>1, TextsGrow
    <2>2. CASE world' = Append(world, 0)
      <3>1. Elems(world') = Elems(world) \cup {0}
        BY <2>2, StrayElems
      <3> QED
        BY <3>1, TextsGrow
    <2> QED
      BY <2>1, <2>2 DEF Prompt, Refuse, StrayWrite
  <1>3. dirs' \subseteq WriteSave(HandNames + clock + 1)
    BY DEF Prompt, Autosave, Pruned
  <1>4. ledger' \subseteq WriteSaveStamp(HandNames + clock + 1, t)
    BY DEF Prompt, Autosave, PrunedLedger
  <1>5. \A d \in dirs' : Elems(d.world) \subseteq 0..typed'
    BY <1>3, TextsGrow DEF WriteSave, Without
  <1>6. \A s \in ledger' : s.draft \in 0..typed'
    BY <1>1, <1>4, TextsGrow DEF WriteSaveStamp, Without
  <1>7. Elems(queue') \subseteq 0..typed'
    <2>1. CASE queue' = queue
      BY <2>1, TextsGrow
    <2>2. CASE queue' = Append(queue, t)
      <3>1. Elems(queue') = Elems(queue) \cup {t}
        BY <2>2, ElemsOfAppend DEF TypeInv, TypeOK, PlayerTypes
      <3> QED
        BY <1>1, <3>1, TextsGrow
    <2> QED
      BY <2>1, <2>2 DEF Prompt, Admit, Refuse
  <1>8. /\ \A i \in 1..Len(logs') : Elems(logs'[i]) \subseteq 0..typed'
        /\ ghosts' \subseteq 0..typed' /\ text' \in 0..typed' /\ composer' \in 0..typed'
    BY <1>1, TextsGrow
  <1> QED
    BY <1>2, <1>5, <1>6, <1>7, <1>8 DEF TextsTyped

\* The next turn's text is one that waited; what is abandoned was sent.
LEMMA GoesOnTexts ==
  ASSUME TypeInv, TextsTyped, GoesOn
  PROVE  text' \in 0..typed /\ Elems(queue') \subseteq 0..typed
  <1>1. CASE queue = <<>>
    BY <1>1 DEF GoesOn, TextsTyped, TypeInv, TypeOK, PlayerTypes
  <1>2. CASE queue # <<>>
    <2>1. Head(queue) \in Elems(queue) /\ Elems(Tail(queue)) \subseteq Elems(queue)
      BY <1>2, ElemsOfTail DEF TypeInv, TypeOK, PlayerTypes
    <2> QED
      BY <1>2, <2>1 DEF GoesOn, TextsTyped
  <1> QED
    BY <1>1, <1>2

LEMMA AbandonsTexts ==
  ASSUME TypeInv, TextsTyped, Abandons
  PROVE  text' \in 0..typed /\ Elems(queue') \cup ghosts' \subseteq 0..typed
  <1>1. text' = 0 /\ queue' = <<>> /\ typed \in Nat
        /\ ghosts' = ghosts \cup ({text} \ {0}) \cup Elems(queue)
    BY DEF Abandons, TypeInv, TypeOK, PlayerTypes
  <1> QED
    BY <1>1, ElemsOfEmpty DEF TextsTyped

\* A rebind to a prefix or to nothing adds no text.
LEMMA BindFreshTexts ==
  ASSUME TypeInv, TextsTyped, NEW log \in Seq(Texts), BindFresh(log),
         Elems(log) \subseteq 0..typed
  PROVE  \A i \in 1..Len(logs') : Elems(logs'[i]) \subseteq 0..typed
  <1>1. Len(logs') = Len(logs) + 1 /\ Len(logs) \in Nat
    BY DEF BindFresh, TypeInv, TypeOK, HistoryTypes
  <1> QED
    BY <1>1, BindFreshAppends DEF TypeInv, TypeOK, TextsTyped, BindFresh

LEMMA ForkTexts ==
  ASSUME TypeInv, TextsTyped, NEW s \in ledger
  PROVE  Elems(ForkAt(s)) \subseteq Elems(logs[s.sid]) /\ Elems(ForkAt(s)) \subseteq 0..typed
  <1>1. logs[s.sid] \in Seq(Texts) /\ s.seq \in 0..Len(logs[s.sid]) /\ s.sid \in 1..Len(logs)
    BY DEF TypeInv, TypeOK, HistoryTypes, SaveTypes, StampsInLogs
  <1>2. \A i \in 1..s.seq : logs[s.sid][i] \in Texts
    BY <1>1
  <1>3. /\ Len(ForkAt(s)) = s.seq
        /\ \A i \in 1..s.seq : ForkAt(s)[i] = logs[s.sid][i]
    BY <1>1, <1>2, SubSeqProperties DEF ForkAt
  <1>4. Elems(ForkAt(s)) \subseteq Elems(logs[s.sid])
    BY <1>1, <1>3 DEF Elems
  <1> QED
    BY <1>1, <1>4 DEF TextsTyped

LEMMA RestoreTexts ==
  ASSUME TypeInv, TextsTyped, NEW d \in dirs, Restore(d)
  PROVE  /\ \A i \in 1..Len(logs') : Elems(logs'[i]) \subseteq 0..typed
         /\ Elems(world') \subseteq 0..typed
  <1>1. Elems(world') \subseteq 0..typed
    BY DEF Restore, TextsTyped
  <1>2. CASE Stamped(d.name) /\ StampOf(d.name).seq > 0
    <2>1. StampOf(d.name) \in ledger
      BY <1>2, StampOfFinds
    <2>2. ForkAt(StampOf(d.name)) \in Seq(Texts)
      BY <2>1, ForkTyped DEF TypeInv, TypeOK
    <2> QED
      BY <1>1, <1>2, <2>1, <2>2, ForkTexts, BindFreshTexts DEF Restore
  <1>3. CASE ~(Stamped(d.name) /\ StampOf(d.name).seq > 0)
    <2>1. <<>> \in Seq(Texts)
      OBVIOUS
    <2> QED
      BY <1>1, <1>3, <2>1, ElemsOfEmpty, BindFreshTexts DEF Restore
  <1> QED
    BY <1>2, <1>3

LEMMA ReseedTexts ==
  ASSUME TypeInv, TextsTyped, Reseed
  PROVE  /\ \A i \in 1..Len(logs') : Elems(logs'[i]) \subseteq 0..typed
         /\ Elems(world') \subseteq 0..typed
  <1>1. <<>> \in Seq(Texts)
    OBVIOUS
  <1> QED
    BY <1>1, ElemsOfEmpty, BindFreshTexts DEF Reseed

LEMMA NextTexts ==
  ASSUME TypeInv, TextsTyped, [Next]_vars
  PROVE  TextsTyped'
  <1>0. typed \in Nat /\ composer \in Nat /\ text \in Nat /\ MaxTexts \in Nat
    BY SaveAssumption DEF TypeInv, TypeOK, PlayerTypes
  <1>1. CASE Type
    <2>1. typed' = typed + 1 /\ composer' = typed + 1 /\ typed' \in Nat /\ typed <= typed'
          /\ UNCHANGED <<logs, world, dirs, ledger, text, queue, ghosts>>
      BY <1>0, <1>1 DEF Type
    <2> QED
      BY <1>0, <2>1, TextsGrow DEF TextsTyped
  <1>2. CASE Send
    <2>1. composer \in Texts /\ composer <= typed /\ typed' = typed /\ composer' = 0
          /\ Prompt(composer)
      BY <1>0, <1>2 DEF Send, TextsTyped, TypeInv, TypeOK, PlayerTypes, Texts
    <2> QED
      BY <1>0, <2>1, PromptTexts
  <1>3. CASE Resend
    <2>1. text \in Texts /\ text <= typed /\ typed' = typed /\ composer' = composer
          /\ Prompt(text)
      BY <1>0, <1>3 DEF Resend, TextsTyped, TypeInv, TypeOK, PlayerTypes, Texts
    <2> QED
      BY <1>0, <2>1, PromptTexts
  <1>4. CASE TurnWrites
    <2>1. Elems(world') = Elems(world) \cup {text}
      BY <1>4, WorldElems DEF TurnWrites, TypeInv, TypeOK, PlayerTypes
    <2> QED
      BY <1>4, <2>1 DEF TurnWrites, TextsTyped
  <1>5. CASE TurnCloses
    <2>1. text \in Texts /\ logs[bound] \in Seq(Texts) /\ bound \in 1..Len(logs)
      BY <1>5 DEF TurnCloses, TypeInv, TypeOK, HistoryTypes, PlayerTypes, Texts
    <2>2. Elems(Append(logs[bound], text)) = Elems(logs[bound]) \cup {text}
      BY <2>1, ElemsOfAppend
    <2>3. Len(logs') = Len(logs)
          /\ \A i \in 1..Len(logs) : logs'[i] = IF i = bound THEN Append(logs[bound], text) ELSE logs[i]
      BY <1>5, <2>1 DEF TurnCloses, TypeInv, TypeOK, HistoryTypes
    <2>4. \A i \in 1..Len(logs') : Elems(logs'[i]) \subseteq 0..typed
      BY <2>1, <2>2, <2>3 DEF TextsTyped
    <2>5. text' \in 0..typed /\ Elems(queue') \subseteq 0..typed
      <3>1. CASE UNCHANGED <<text, queue>>
        BY <3>1 DEF TextsTyped
      <3> QED
        BY <1>5, <3>1, GoesOnTexts DEF TurnCloses
    <2> QED
      BY <1>5, <2>4, <2>5 DEF TurnCloses, TextsTyped
  <1>6. CASE TailCloses
    BY <1>6, GoesOnTexts DEF TailCloses, TextsTyped
  <1>7. CASE CardWrites
    <2>1. Elems(world') = Elems(world) \cup {0}
      BY <1>7, StrayElems DEF CardWrites, StrayWrite
    <2> QED
      BY <1>0, <1>7, <2>1 DEF CardWrites, StrayWrite, TextsTyped
  <1>8. CASE Reset
    <2>1. Abandons /\ Reseed /\ composer' = 0 /\ UNCHANGED <<dirs, ledger, typed>>
      BY <1>8 DEF Reset
    <2> QED
      BY <1>0, <2>1, AbandonsTexts, ReseedTexts DEF TextsTyped
  <1>9. CASE Retry
    <2>1. PICK d \in RetryPoint :
            /\ IF StampOf(d.name).seq = 0 THEN Reseed ELSE Restore(d)
            /\ text' = StampOf(d.name).draft
      BY <1>9 DEF Retry
    <2>2. d \in dirs /\ Stamped(d.name)
      BY <2>1 DEF RetryPoint, Qualifying, Stamped
    <2>3. /\ \A i \in 1..Len(logs') : Elems(logs'[i]) \subseteq 0..typed
          /\ Elems(world') \subseteq 0..typed
      BY <2>1, <2>2, ReseedTexts, RestoreTexts
    <2>4. text' \in 0..typed
      BY <2>1, <2>2, StampOfFinds DEF TextsTyped
    <2>5. composer' = 0 /\ UNCHANGED <<dirs, ledger, typed, queue, ghosts>>
      BY <1>9 DEF Retry
    <2> QED
      BY <1>0, <2>3, <2>4, <2>5 DEF TextsTyped
  <1>10. ASSUME NEW n \in 1..HandNames, Save(n) PROVE TextsTyped'
    BY <1>10 DEF Save, WriteSave, WriteSaveStamp, Without, TextsTyped
  <1>11. ASSUME NEW n \in Names, DieUnstamped(n) PROVE TextsTyped'
    BY <1>0, <1>11 DEF DieUnstamped, WriteSave, Without, TextsTyped
  <1>12. ASSUME NEW n \in Names, RemoveSave(n) \/ DeleteByEditor(n) PROVE TextsTyped'
    BY <1>12 DEF RemoveSave, DeleteByEditor, Without, TextsTyped
  <1>13. ASSUME NEW n \in Names, Load(n) PROVE TextsTyped'
    <2>1. PICK d \in dirs : d.name = n /\ Restore(d)
      BY <1>13 DEF Load
    <2>2. composer' \in 0..typed
      BY <1>0, <1>13, StampOfFinds DEF Load, TextsTyped
    <2>3. Abandons /\ UNCHANGED <<dirs, ledger, typed>>
      BY <1>13 DEF Load
    <2> QED
      BY <2>1, <2>2, <2>3, AbandonsTexts, RestoreTexts DEF TextsTyped
  <1>14. CASE UNCHANGED vars
    BY <1>14 DEF vars, TextsTyped
  <1>15. CASE CardSubmit
    <2>1. typed + 1 \in Texts /\ typed' = typed + 1 /\ composer' = composer /\ Prompt(typed + 1)
      BY <1>0, <1>15 DEF CardSubmit, Texts
    <2> QED
      BY <1>0, <2>1, PromptTexts
  <1>16. ASSUME NEW t \in Texts, GhostWrites(t) PROVE TextsTyped'
    <2>1. world' = Append(world, t) /\ t \in ghosts
          /\ UNCHANGED <<logs, dirs, ledger, text, composer, typed, queue, ghosts>>
      BY <1>16 DEF GhostWrites
    <2>2. Elems(world') = Elems(world) \cup {t}
      BY <2>1, WorldElems DEF Texts
    <2> QED
      BY <2>1, <2>2 DEF TextsTyped
  <1> QED
    BY <1>1, <1>2, <1>3, <1>4, <1>5, <1>6, <1>7, <1>8, <1>9, <1>10, <1>11, <1>12, <1>13, <1>14,
       <1>15, <1>16
    DEF Next

\* The queue is in the order of the texts' age, behind the running one.
LEMMA QueueElems ==
  ASSUME TypeInv, QueueSound
  PROVE  \A t \in Elems(queue) : t # composer /\ t > text /\ t # text /\ t # 0
  <1>1. text \in Nat
    BY DEF TypeInv, TypeOK, PlayerTypes
  <1>2. \A i \in 1..Len(queue) : queue[i] \in Texts
    BY DEF TypeInv, TypeOK, PlayerTypes
  <1>3. \A i \in 1..Len(queue) : queue[i] \in Nat /\ queue[i] # 0
    BY <1>2 DEF Texts
  <1> QED
    BY <1>1, <1>3 DEF QueueSound, Elems

LEMMA GoesOnQueue ==
  ASSUME TypeInv, QueueSound, GoesOn, phase \in {"turn", "tail"}, UNCHANGED composer
  PROVE  QueueSound' /\ Elems(queue') \subseteq Elems(queue)
  <1>1. CASE queue = <<>>
    BY <1>1 DEF GoesOn, QueueSound
  <1>2. CASE queue # <<>>
    <2>1. queue \in Seq(Texts)
      BY DEF TypeInv, TypeOK, PlayerTypes
    <2>2. /\ phase' = "turn" /\ text' = queue[1] /\ 1 \in 1..Len(queue)
          /\ Len(queue') = Len(queue) - 1
          /\ \A i \in 1..Len(queue') : queue'[i] = queue[i + 1] /\ i + 1 \in 1..Len(queue)
          /\ Elems(queue') \subseteq Elems(queue)
      BY <1>2, <2>1, ElemsOfTail DEF GoesOn
    <2>3. queue[1] \in Texts /\ composer # queue[1]
      BY <2>1, <2>2 DEF QueueSound
    <2>4. \A i \in 1..Len(queue') : queue'[i] # composer /\ queue'[i] > text'
      BY <2>1, <2>2 DEF QueueSound
    <2>5. \A i, j \in 1..Len(queue') : i < j => queue'[i] < queue'[j]
      BY <2>1, <2>2 DEF QueueSound
    <2> QED
      BY <2>2, <2>3, <2>4, <2>5 DEF QueueSound, Texts
  <1> QED
    BY <1>1, <1>2

\* A text that is typed or submitted is newer than all that run or wait.
LEMMA NewestText ==
  ASSUME TypeInv, TextsTyped
  PROVE  /\ typed + 1 \notin Elems(logs[bound]) \cup Elems(world)
         /\ typed \in Nat /\ text \in Nat /\ composer \in Nat
         /\ typed + 1 # composer /\ typed + 1 > text
         /\ \A i \in 1..Len(queue) : queue[i] \in Nat /\ queue[i] < typed + 1
  <1>1. typed \in Nat /\ text \in Nat /\ composer \in Nat /\ bound \in 1..Len(logs)
        /\ typed + 1 \notin 0..typed
    BY DEF TypeInv, TypeOK, PlayerTypes, HistoryTypes
  <1>2. \A i \in 1..Len(queue) : queue[i] \in 0..typed
    BY DEF TextsTyped, Elems
  <1> QED
    BY <1>1, <1>2 DEF TextsTyped

LEMMA NextQueue ==
  ASSUME TypeInv, TextsTyped, QueueSound, [Next]_vars
  PROVE  QueueSound'
  <1>1. CASE UNCHANGED <<turnVars, composer>>
    BY <1>1 DEF QueueSound
  <1>2. CASE Type
    <2>1. phase # "resend" /\ composer' = typed + 1 /\ UNCHANGED turnVars
      BY <1>2 DEF Type
    <2>2. \A i \in 1..Len(queue) : queue[i] # typed + 1
      BY NewestText
    <2> QED
      BY <2>1, <2>2, NewestText DEF QueueSound
  \* At rest nothing waits; what is admitted becomes the running turn.
  <1>3. ASSUME NEW t \in Texts, Prompt(t), phase \in {"rest", "resend"}, composer' # t,
               phase = "resend" => composer' = composer
        PROVE  QueueSound'
    <2>1. t # 0 /\ queue = <<>> /\ queue' = <<>>
      BY <1>3 DEF Prompt, Admit, Refuse, QueueSound, Texts
    <2>2. (phase' = "turn" /\ text' = t) \/ phase' = "rest"
      BY <1>3 DEF Prompt, Admit, Refuse
    <2>3. 1..Len(queue') = {}
      BY <2>1
    <2> QED
      BY <1>3, <2>1, <2>2, <2>3 DEF QueueSound
  <1>4. CASE Send
    BY <1>3, <1>4 DEF Send, TypeInv, TypeOK, PlayerTypes, Texts
  <1>5. CASE Resend
    BY <1>3, <1>5 DEF Resend, TypeInv, TypeOK, PlayerTypes, Texts, QueueSound
  <1>6. CASE CardSubmit
    <2>1. typed + 1 \in Texts /\ Prompt(typed + 1) /\ composer' = composer
      BY <1>6, NewestText, SaveAssumption DEF CardSubmit, Texts
    <2>2. CASE phase = "rest"
      BY <1>3, <2>1, <2>2, NewestText
    <2>3. CASE phase = "turn" /\ Admit(typed + 1)
      <3>1. queue \in Seq(Texts)
        BY DEF TypeInv, TypeOK, PlayerTypes
      <3>2. /\ Len(queue') = Len(queue) + 1 /\ queue'[Len(queue) + 1] = typed + 1
            /\ \A i \in 1..Len(queue) : queue'[i] = queue[i]
            /\ UNCHANGED <<phase, text>>
        BY <2>1, <2>3, <3>1 DEF Admit
      <3>3. \A i \in 1..Len(queue') : i \in 1..Len(queue) \/ i = Len(queue) + 1
        BY <3>1, <3>2
      <3>4. \A i \in 1..Len(queue') : queue'[i] # composer' /\ queue'[i] > text'
        BY <2>1, <3>2, <3>3, NewestText DEF QueueSound
      <3>5. ASSUME NEW i \in 1..Len(queue'), NEW j \in 1..Len(queue'), i < j
            PROVE  queue'[i] < queue'[j]
        <4>1. i \in 1..Len(queue)
          BY <3>1, <3>2, <3>5
        <4> QED
          BY <3>2, <3>3, <3>5, <4>1, NewestText DEF QueueSound
      <3> QED
        BY <2>1, <2>3, <3>2, <3>4, <3>5 DEF QueueSound
    <2>4. CASE phase = "turn" /\ Refuse
      BY <1>1, <2>1, <2>4 DEF Refuse
    <2> QED
      BY <1>6, <2>1, <2>2, <2>3, <2>4 DEF CardSubmit, Prompt
  <1>7. CASE TurnCloses
    <2>1. CASE phase' = "tail" /\ UNCHANGED <<text, queue>>
      BY <1>7, <2>1 DEF TurnCloses, QueueSound
    <2>2. CASE GoesOn
      BY <1>7, <2>2, GoesOnQueue DEF TurnCloses
    <2> QED
      BY <1>7, <2>1, <2>2 DEF TurnCloses
  <1>8. CASE TailCloses
    BY <1>8, GoesOnQueue DEF TailCloses
  <1>9. CASE phase' = "rest" /\ queue' = <<>>
    BY <1>9 DEF QueueSound
  <1>10. CASE Reset \/ \E n \in Names : Load(n)
    BY <1>9, <1>10 DEF Reset, Load, Abandons
  <1>11. CASE Retry
    BY <1>11 DEF Retry, QueueSound
  <1>12. ASSUME NEW n, DieUnstamped(n) PROVE QueueSound'
    BY <1>12 DEF DieUnstamped, QueueSound
  <1>13. ASSUME NEW n, Save(n) \/ RemoveSave(n) \/ DeleteByEditor(n) PROVE QueueSound'
    BY <1>1, <1>13 DEF Save, RemoveSave, DeleteByEditor
  <1>14. CASE TurnWrites \/ CardWrites \/ \E t \in Texts : GhostWrites(t)
    BY <1>1, <1>14 DEF TurnWrites, CardWrites, GhostWrites
  <1> QED
    BY <1>1, <1>2, <1>4, <1>5, <1>6, <1>7, <1>8, <1>10, <1>11, <1>12, <1>13, <1>14 DEF Next, vars

\* A step leaves the prefix of a stamp that was there before it as it was.
LEMMA ForkKept ==
  ASSUME TypeInv, [Next]_vars, NEW s \in ledger
  PROVE  SubSeq(logs'[s.sid], 1, s.seq) = ForkAt(s)
  <1>1. s.sid \in 1..Len(logs) /\ logs[s.sid] \in Seq(Texts) /\ s.seq \in 0..Len(logs[s.sid])
    BY DEF TypeInv, TypeOK, HistoryTypes, SaveTypes, StampsInLogs
  <1>2. CASE UNCHANGED logs
    BY <1>2 DEF ForkAt
  <1>3. CASE TurnCloses
    <2>1. text \in Texts /\ logs[bound] \in Seq(Texts) /\ bound \in 1..Len(logs)
      BY <1>3 DEF TurnCloses, TypeInv, TypeOK, HistoryTypes, PlayerTypes, Texts
    <2>2. logs'[s.sid] = IF s.sid = bound THEN Append(logs[bound], text) ELSE logs[s.sid]
      BY <1>1, <1>3, <2>1 DEF TurnCloses, TypeInv, TypeOK, HistoryTypes
    <2> QED
      BY <1>1, <2>1, <2>2, PrefixOfAppend DEF ForkAt
  <1>4. ASSUME NEW log, BindFresh(log) PROVE logs'[s.sid] = logs[s.sid]
    BY <1>1, <1>4 DEF BindFresh, TypeInv, TypeOK, HistoryTypes
  <1>5. CASE Reset \/ Retry \/ \E n \in Names : Load(n)
    BY <1>4, <1>5 DEF Reset, Retry, Load, Reseed, Restore, ForkAt
  <1> QED
    BY <1>2, <1>3, <1>5
    DEF Next, vars, Type, Send, CardSubmit, Resend, Prompt, TurnWrites, TailCloses, GhostWrites,
        CardWrites, Save, DieUnstamped, RemoveSave, DeleteByEditor

LEMMA WorldIsHistory ==
  ASSUME TypeInv
  PROVE  Elems(SubSeq(logs[bound], 1, Len(logs[bound]))) = Elems(logs[bound])
  <1>1. logs[bound] \in Seq(Texts)
    BY DEF TypeInv, TypeOK, HistoryTypes
  <1> QED
    BY <1>1, SubSeqFull

\* A save that is not recorded as torn is explained by the history of its moment.
LEMMA WrittenExplained ==
  ASSUME TypeInv, SavesExplained, ~mixed => WorldExplained, RecordTear, UNCHANGED logs,
         NEW n, NEW t, ~mixed /\ t # 0 => t \notin Elems(logs[bound]) \cup Elems(world),
         dirs' \subseteq WriteSave(n), ledger' \subseteq WriteSaveStamp(n, t)
  PROVE  SavesExplained'
  <1> SUFFICES ASSUME NEW d \in dirs', NEW s \in ledger', s.name = d.name, d.at \notin torn'
               PROVE  /\ Elems(d.world) \ {0} \subseteq Elems(SubSeq(logs[s.sid], 1, s.seq))
                      /\ s.draft # 0 =>
                           s.draft \notin Elems(SubSeq(logs[s.sid], 1, s.seq)) \cup Elems(d.world)
    BY DEF SavesExplained, SaveExplained, ForkAt
  <1>1. CASE d.name = n
    <2>1. d.world = world /\ d.at = clock + 1
      BY <1>1 DEF WriteSave, Without
    <2>2. s.sid = bound /\ s.seq = Len(logs[bound]) /\ s.draft = t
      BY <1>1 DEF WriteSaveStamp, Without
    <2>3. ~mixed /\ ~Ahead
      BY <2>1 DEF RecordTear
    <2>4. Elems(world) \ {0} \subseteq Elems(logs[bound])
      BY <2>3 DEF WorldExplained, Ahead
    <2>5. t # 0 => t \notin Elems(logs[bound]) \cup Elems(world)
      BY <2>3
    <2> QED
      BY <2>1, <2>2, <2>4, <2>5, WorldIsHistory
  <1>2. CASE d.name # n
    <2>1. d \in dirs /\ s \in ledger
      BY <1>2 DEF WriteSave, WriteSaveStamp, Without
    <2>2. d.at \notin torn
      BY DEF RecordTear
    <2> QED
      BY <2>1, <2>2 DEF SavesExplained, SaveExplained, ForkAt
  <1> QED
    BY <1>1, <1>2

\* Rows that are kept stay explained.
LEMMA KeptExplained ==
  ASSUME TypeInv, [Next]_vars, SavesExplained, dirs' \subseteq dirs, ledger' \subseteq ledger,
         UNCHANGED torn
  PROVE  SavesExplained'
  <1> SUFFICES ASSUME NEW d \in dirs', NEW s \in ledger', s.name = d.name, d.at \notin torn
               PROVE  /\ Elems(d.world) \ {0} \subseteq Elems(SubSeq(logs'[s.sid], 1, s.seq))
                      /\ s.draft # 0 =>
                           s.draft \notin Elems(SubSeq(logs'[s.sid], 1, s.seq)) \cup Elems(d.world)
    BY DEF SavesExplained, SaveExplained, ForkAt
  <1>1. d \in dirs /\ s \in ledger
    OBVIOUS
  <1> QED
    BY <1>1, ForkKept DEF SavesExplained, SaveExplained

\* A rebind to a save that is not torn brings a world the history brought with it
\* explains, and a draft that is in neither.
LEMMA RestoreExplained ==
  ASSUME PairInv, crashes = 0, SavesExplained, NEW d \in dirs, Restore(d), d.at \notin torn
  PROVE  /\ Elems(world') \ {0} \subseteq Elems(logs'[bound'])
         /\ StampOf(d.name).draft # 0 =>
              StampOf(d.name).draft \notin Elems(logs'[bound']) \cup Elems(world')
  <1> DEFINE s == StampOf(d.name)
  <1>1. s \in ledger /\ s.name = d.name /\ Stamped(d.name)
    BY StampOfFinds DEF PairInv, StampsPaired
  <1>2. SaveExplained(d, s)
    BY <1>1 DEF SavesExplained
  <1>3. world' = d.world
    BY DEF Restore
  <1>4. CASE s.seq > 0
    <2>1. BindFresh(ForkAt(s)) /\ ForkAt(s) \in Seq(Texts)
      BY <1>1, <1>4, ForkTyped DEF Restore, PairInv, TypeInv, TypeOK
    <2>2. logs'[bound'] = ForkAt(s)
      BY <2>1, BindFreshAppends DEF PairInv, TypeInv, TypeOK
    <2> QED
      BY <1>2, <1>3, <2>2 DEF SaveExplained
  <1>5. CASE ~(s.seq > 0)
    <2>1. BindFresh(<<>>) /\ <<>> \in Seq(Texts)
      BY <1>5 DEF Restore
    <2>2. logs'[bound'] = <<>>
      BY <2>1, BindFreshAppends DEF PairInv, TypeInv, TypeOK
    <2>3. s.seq = 0
      BY <1>1, <1>5 DEF PairInv, TypeInv, TypeOK, SaveTypes
    <2>4. ForkAt(s) = <<>>
      BY <2>3, SubSeqEmpty DEF ForkAt
    <2> QED
      BY <1>2, <1>3, <2>2, <2>4 DEF SaveExplained
  <1> QED
    BY <1>4, <1>5

\* A seed is explained by a conversation that is empty.
LEMMA ReseedExplained ==
  ASSUME TypeInv, Reseed
  PROVE  Elems(world') = {} /\ Elems(logs'[bound']) = {}
  <1>1. <<>> \in Seq(Texts)
    OBVIOUS
  <1>2. world' = <<>> /\ logs'[bound'] = <<>>
    BY <1>1, BindFreshAppends DEF Reseed, TypeInv, TypeOK
  <1> QED
    BY <1>2, ElemsOfEmpty

\* A world that neither a turn nor a ghost changed stays explained while a text
\* leaves the box or the card's page.
LEMMA PromptExplained ==
  ASSUME TypeInv, QueueSound, WorldExplained, NEW t \in Texts, Prompt(t),
         t \notin Elems(logs[bound]) \cup Elems(world), composer' \in {0, composer}
  PROVE  WorldExplained'
  <1>1. UNCHANGED <<logs, bound>> /\ phase # "tail" /\ phase' # "tail" /\ phase' # "resend"
    BY DEF Prompt, Admit, Refuse, TypeInv, TypeOK, PlayerTypes
  <1>2. Elems(world') \subseteq Elems(world) \cup {0}
    <2>1. world' = world \/ world' = Append(world, 0)
      BY DEF Prompt, Refuse, StrayWrite
    <2> QED
      BY <2>1, StrayElems
  <1>3. Elems(world') \ {0} \subseteq
          Elems(logs[bound]) \cup (IF phase' = "turn" THEN {text'} ELSE {})
    <2>1. CASE phase = "turn"
      <3>1. UNCHANGED <<phase, text>>
        BY <2>1 DEF Prompt, Admit, Refuse
      <3> QED
        BY <1>2, <2>1, <3>1 DEF WorldExplained
    <2>2. CASE phase # "turn"
      BY <1>2, <2>2 DEF WorldExplained
    <2> QED
      BY <2>1, <2>2
  <1>4. Elems(queue') \subseteq Elems(queue) \cup {t}
    <2>1. CASE queue' = queue
      BY <2>1
    <2>2. CASE queue' = Append(queue, t)
      BY <2>2, ElemsOfAppend DEF TypeInv, TypeOK, PlayerTypes
    <2> QED
      BY <2>1, <2>2 DEF Prompt, Admit, Refuse
  <1>5. \A x \in Waiting' : x = t \/ x \in Waiting
    BY <1>1, <1>4 DEF Waiting
  <1>6. t # 0 /\ \A x \in Waiting : x # 0
    BY DEF Texts, Waiting
  <1> QED
    BY <1>1, <1>2, <1>3, <1>5, <1>6 DEF WorldExplained

\* A step that takes no text out of the reach of a turn.
LEMMA GoesOnExplained ==
  ASSUME TypeInv, QueueSound, WorldExplained, GoesOn, phase \in {"turn", "tail"},
         UNCHANGED <<bound, world, composer>>, Elems(world) \ {0} \subseteq Elems(logs'[bound]),
         Elems(logs'[bound]) \subseteq Elems(logs[bound]) \cup {text}
  PROVE  WorldExplained'
  <1>1. phase' # "tail" /\ phase' # "resend" /\ Elems(queue') \subseteq Elems(queue)
    BY GoesOnQueue DEF GoesOn
  <1>2. \A t \in Waiting' : t \in Waiting /\ t # text
    BY <1>1, QueueElems DEF Waiting, QueueSound
  <1> QED
    BY <1>1, <1>2 DEF WorldExplained

LEMMA NoNewDeath ==
  ASSUME TypeInv, [Next]_vars, crashes' = 0
  PROVE  crashes = 0 /\ \A n : ~DieUnstamped(n)
  <1>1. crashes \in Nat
    BY DEF TypeInv, TypeOK, PlayerTypes
  <1>2. \A n : DieUnstamped(n) => crashes' = crashes + 1
    BY DEF DieUnstamped
  <1>3. crashes' \in {crashes, crashes + 1}
    BY <1>2 DEF Next, vars, Type, Send, CardSubmit, Resend, Prompt, TurnWrites, TurnCloses,
                TailCloses, GhostWrites, CardWrites, Reset, Retry, Save, RemoveSave, DeleteByEditor,
                Load
  <1> QED
    BY <1>1, <1>2, <1>3

\* A text that is sent, sent again or submitted is in neither.
LEMMA SentUnseen ==
  ASSUME TypeInv, TextsTyped, WorldExplained
  PROVE  /\ \A t \in {composer} \cup {x \in {text} : phase = "resend"} :
              t # 0 => t \notin Elems(logs[bound]) \cup Elems(world)
         /\ typed + 1 \notin Elems(logs[bound]) \cup Elems(world)
  BY NewestText DEF WorldExplained, Waiting

LEMMA NextSaves ==
  ASSUME HistoryInv, [Next]_vars, crashes' = 0
  PROVE  SavesExplained'
  <1>1. /\ PairInv /\ TypeInv /\ TextsTyped /\ SavesExplained
        /\ ~mixed => WorldExplained
        /\ \A n : ~DieUnstamped(n)
    BY NoNewDeath DEF HistoryInv, PairInv
  <1>2. CASE dirs' \subseteq dirs /\ ledger' \subseteq ledger /\ UNCHANGED torn
    BY <1>1, <1>2, KeptExplained
  <1>3. ASSUME NEW t, Prompt(t), ~mixed /\ t # 0 => t \notin Elems(logs[bound]) \cup Elems(world)
        PROVE  SavesExplained'
    <2>1. dirs' \subseteq WriteSave(HandNames + clock + 1) /\ UNCHANGED logs /\ RecordTear
          /\ ledger' \subseteq WriteSaveStamp(HandNames + clock + 1, t)
      BY <1>3 DEF Prompt, Autosave, Pruned, PrunedLedger
    <2> QED
      BY <1>1, <1>3, <2>1, WrittenExplained
  <1>4. CASE Send \/ CardSubmit \/ Resend
    BY <1>1, <1>3, <1>4, SentUnseen DEF Send, CardSubmit, Resend
  <1>5. ASSUME NEW n, Save(n) PROVE SavesExplained'
    <2>1. dirs' = WriteSave(n) /\ ledger' = WriteSaveStamp(n, composer) /\ RecordTear
          /\ UNCHANGED logs
      BY <1>5 DEF Save
    <2> QED
      BY <1>1, <2>1, SentUnseen, WrittenExplained
  <1>6. ASSUME NEW n, RemoveSave(n) \/ DeleteByEditor(n) PROVE SavesExplained'
    BY <1>2, <1>6 DEF RemoveSave, DeleteByEditor, Without
  <1>7. ASSUME NEW n, Load(n) PROVE SavesExplained'
    BY <1>2, <1>7 DEF Load
  <1>8. CASE Type \/ TurnWrites \/ TurnCloses \/ TailCloses \/ CardWrites \/ Reset \/ Retry
    BY <1>2, <1>8 DEF Type, TurnWrites, TurnCloses, TailCloses, CardWrites, Reset, Retry
  <1>9. ASSUME NEW t, GhostWrites(t) PROVE SavesExplained'
    BY <1>2, <1>9 DEF GhostWrites
  <1>10. CASE UNCHANGED vars
    BY <1>2, <1>10 DEF vars
  <1> QED
    BY <1>1, <1>4, <1>5, <1>6, <1>7, <1>8, <1>9, <1>10 DEF Next

\* No step but a rebind ends the mixing.
LEMMA MixedStays ==
  ASSUME [Next]_vars, ~mixed', ~Reset, ~Retry, \A n \in Names : ~Load(n)
  PROVE  ~mixed
  <1>1. UNCHANGED mixed \/ \E t \in Texts : GhostWrites(t)
    BY DEF Next, vars, Type, Send, CardSubmit, Resend, Prompt, TurnWrites, TurnCloses, TailCloses,
           CardWrites, Save, DieUnstamped, RemoveSave, DeleteByEditor
  <1> QED
    BY <1>1 DEF GhostWrites

LEMMA NextWorld ==
  ASSUME HistoryInv, [Next]_vars, crashes' = 0, ~mixed'
  PROVE  WorldExplained'
  <1>0. /\ PairInv /\ TypeInv /\ TextsTyped /\ QueueSound /\ SavesExplained /\ crashes = 0
        /\ ~mixed => WorldExplained
    BY NoNewDeath DEF HistoryInv, PairInv
  \* A rebind drops what waits, and brings what the draft it brings has not seen.
  <1>1. ASSUME NEW d \in dirs, Restore(d)
        PROVE  /\ Elems(world') \ {0} \subseteq Elems(logs'[bound'])
               /\ StampOf(d.name).draft # 0 =>
                    StampOf(d.name).draft \notin Elems(logs'[bound']) \cup Elems(world')
    BY <1>0, <1>1, RestoreExplained DEF Restore
  <1>2. ASSUME NEW n \in Names, Load(n) PROVE WorldExplained'
    <2>1. PICK d \in dirs : d.name = n /\ Restore(d)
      BY <1>2 DEF Load
    <2>2. /\ phase' = "rest" /\ text' = 0 /\ queue' = <<>>
          /\ composer' = IF Stamped(n) THEN StampOf(n).draft ELSE 0
      BY <1>2 DEF Load, Abandons
    <2>3. Waiting' = {composer'} \ {0}
      BY <2>2, ElemsOfEmpty DEF Waiting
    <2> QED
      BY <1>1, <2>1, <2>2, <2>3 DEF WorldExplained
  <1>3. CASE Reset
    <2>1. phase' = "rest" /\ queue' = <<>> /\ composer' = 0 /\ Reseed
      BY <1>3 DEF Reset, Abandons
    <2>2. Waiting' = {}
      BY <2>1, ElemsOfEmpty DEF Waiting
    <2> QED
      BY <1>0, <2>1, <2>2, ReseedExplained DEF WorldExplained
  <1>4. CASE Retry
    <2>1. PICK d \in RetryPoint :
            /\ IF StampOf(d.name).seq = 0 THEN Reseed ELSE Restore(d)
            /\ text' = StampOf(d.name).draft
      BY <1>4 DEF Retry
    <2>2. d \in dirs /\ phase' = "resend" /\ composer' = 0 /\ queue' = <<>>
      BY <1>0, <1>4, <2>1 DEF Retry, RetryPoint, Qualifying, QueueSound
    <2>3. Waiting' = {text'} \ {0}
      BY <2>2, ElemsOfEmpty DEF Waiting
    <2> QED
      BY <1>0, <1>1, <2>1, <2>2, <2>3, ReseedExplained DEF WorldExplained
  \* All other steps start from a world that is explained.
  <1> SUFFICES ASSUME ~Reset, ~Retry, \A n \in Names : ~Load(n) PROVE WorldExplained'
    BY <1>2, <1>3, <1>4
  <1>5. WorldExplained
    BY <1>0, MixedStays
  <1>6. CASE Type
    <2>1. UNCHANGED <<logs, bound, world, turnVars>> /\ composer' = typed + 1
      BY <1>6 DEF Type
    <2>2. \A t \in Waiting' : t \in Waiting \/ t = typed + 1
      BY <2>1 DEF Waiting
    <2> QED
      BY <1>0, <1>5, <2>1, <2>2, NewestText DEF WorldExplained
  <1>7. CASE Send
    <2>1. composer \in Texts
      BY <1>0, <1>7 DEF Send, TypeInv, TypeOK, PlayerTypes, Texts
    <2> QED
      BY <1>0, <1>5, <1>7, <2>1, SentUnseen, PromptExplained DEF Send
  <1>8. CASE CardSubmit
    <2>1. typed + 1 \in Texts
      BY <1>8, NewestText, <1>0, SaveAssumption DEF CardSubmit, Texts
    <2> QED
      BY <1>0, <1>5, <1>8, <2>1, SentUnseen, PromptExplained DEF CardSubmit
  <1>9. CASE Resend
    <2>1. text \in Texts
      BY <1>0, <1>9 DEF Resend, TypeInv, TypeOK, PlayerTypes, Texts
    <2>2. text \notin Elems(logs[bound]) \cup Elems(world)
      BY <1>0, <1>5, <1>9, <2>1, SentUnseen DEF Resend, Texts
    <2> QED
      BY <1>0, <1>5, <1>9, <2>1, <2>2, PromptExplained DEF Resend
  <1>10. CASE TurnWrites
    <2>1. Elems(world') = Elems(world) \cup {text}
      BY <1>0, <1>10, WorldElems DEF TurnWrites, TypeInv, TypeOK, PlayerTypes
    <2>2. UNCHANGED <<logs, bound, turnVars, composer>> /\ phase \in {"turn", "tail"}
      BY <1>10 DEF TurnWrites
    <2>3. \A t \in Waiting : t # text
      BY <1>0, <2>2, QueueElems DEF Waiting, QueueSound
    <2>4. Waiting' = Waiting
      BY <2>2 DEF Waiting
    <2> QED
      BY <1>5, <2>1, <2>2, <2>3, <2>4 DEF WorldExplained
  <1>11. CASE TurnCloses
    <2>1. text \in Texts /\ logs[bound] \in Seq(Texts) /\ bound \in 1..Len(logs)
      BY <1>0, <1>11 DEF TurnCloses, TypeInv, TypeOK, HistoryTypes, PlayerTypes, Texts
    <2>2. logs'[bound] = Append(logs[bound], text)
      BY <1>0, <1>11, <2>1 DEF TurnCloses, TypeInv, TypeOK, HistoryTypes
    <2>3. Elems(logs'[bound]) = Elems(logs[bound]) \cup {text}
      BY <2>1, <2>2, ElemsOfAppend
    <2>4. phase = "turn" /\ UNCHANGED <<bound, world, composer>>
      BY <1>11 DEF TurnCloses
    <2>5. Elems(world) \ {0} \subseteq Elems(logs'[bound])
      BY <1>5, <2>3, <2>4 DEF WorldExplained
    <2>6. CASE GoesOn
      BY <1>0, <1>5, <2>3, <2>4, <2>5, <2>6, GoesOnExplained
    <2>7. CASE phase' = "tail" /\ UNCHANGED <<text, queue>>
      <3>1. \A t \in Waiting' : t \in Waiting /\ t # text
        BY <1>0, <2>4, <2>7, QueueElems DEF Waiting, QueueSound
      <3> QED
        BY <1>5, <2>3, <2>4, <2>5, <2>7, <3>1 DEF WorldExplained
    <2> QED
      BY <1>11, <2>6, <2>7 DEF TurnCloses
  <1>12. CASE TailCloses
    <2>1. phase = "tail" /\ GoesOn /\ UNCHANGED <<logs, bound, world, composer>>
      BY <1>12 DEF TailCloses
    <2>2. Elems(world) \ {0} \subseteq Elems(logs'[bound])
      BY <1>5, <2>1 DEF WorldExplained
    <2> QED
      BY <1>0, <1>5, <2>1, <2>2, GoesOnExplained
  <1>13. CASE CardWrites
    <2>1. Elems(world') = Elems(world) \cup {0}
      BY <1>0, <1>13, StrayElems DEF CardWrites, StrayWrite
    <2>2. UNCHANGED <<logs, bound, turnVars, composer>>
      BY <1>13 DEF CardWrites
    <2>3. Waiting' = Waiting /\ 0 \notin Waiting
      BY <2>2 DEF Waiting
    <2> QED
      BY <1>5, <2>1, <2>2, <2>3 DEF WorldExplained
  <1>14. ASSUME NEW t \in Texts, GhostWrites(t) PROVE WorldExplained'
    <2>1. Elems(world') = Elems(world) \cup {t}
      BY <1>0, <1>14, WorldElems DEF GhostWrites, Texts
    <2>2. t \in Elems(logs[bound]) /\ UNCHANGED <<logs, bound, turnVars, composer>>
      BY <1>14 DEF GhostWrites
    <2>3. Waiting' = Waiting
      BY <2>2 DEF Waiting
    <2> QED
      BY <1>5, <2>1, <2>2, <2>3 DEF WorldExplained
  <1>15. CASE UNCHANGED <<logs, bound, world, turnVars, composer>>
    BY <1>5, <1>15 DEF WorldExplained, Waiting
  <1>16. ASSUME NEW n, Save(n) \/ RemoveSave(n) \/ DeleteByEditor(n) PROVE WorldExplained'
    BY <1>15, <1>16 DEF Save, RemoveSave, DeleteByEditor
  <1>17. \A n : ~DieUnstamped(n)
    BY <1>0, NoNewDeath
  <1> QED
    BY <1>6, <1>7, <1>8, <1>9, <1>10, <1>11, <1>12, <1>13, <1>14, <1>15, <1>16, <1>17
    DEF Next, vars

LEMMA HistoryInvHolds == Spec => []HistoryInv
  <1>1. Init => HistoryInv
    <2> SUFFICES ASSUME Init PROVE HistoryInv
      OBVIOUS
    <2>1. PairInv
      BY InitTypeInv DEF Init, PairInv, NamesUsed, StampsPaired
    <2>2. TextsTyped
      BY ElemsOfEmpty DEF Init, TextsTyped
    <2>3. WorldExplained /\ SavesExplained
      BY ElemsOfEmpty DEF Init, WorldExplained, SavesExplained, Waiting
    <2>4. QueueSound
      BY DEF Init, QueueSound
    <2> QED
      BY <2>1, <2>2, <2>3, <2>4 DEF HistoryInv
  <1>2. HistoryInv /\ [Next]_vars => HistoryInv'
    <2> SUFFICES ASSUME HistoryInv, [Next]_vars PROVE HistoryInv'
      OBVIOUS
    <2>1. PairInv' /\ TextsTyped' /\ QueueSound'
      BY NextPairs, NextTexts, NextQueue DEF HistoryInv, PairInv
    <2>2. (crashes = 0)' => SavesExplained' /\ (~mixed' => WorldExplained')
      BY NextSaves, NextWorld
    <2> QED
      BY <2>1, <2>2 DEF HistoryInv
  <1> QED
    BY <1>1, <1>2, PTL DEF Spec

\* At rest runtime/ holds no effect that the bound conversation does not explain,
\* whatever was sent, submitted by the card's page, saved or loaded in the middle of
\* a turn, retried, reset, pruned or deleted before. Excused are the states after a
\* death between a save and its stamp, and the worlds `mixed` names: loaded from a
\* save that was made of a world the running turn was ahead in, or changed by the
\* turn of a session that is no longer bound.
THEOREM HistoryExplainsWorld == Spec => []WorldKnownToHistory
  <1>1. HistoryInv => WorldKnownToHistory
    BY DEF HistoryInv, WorldExplained, WorldKnownToHistory
  <1> QED
    BY <1>1, HistoryInvHolds, PTL

\* What waits to be sent, also behind a running turn, was never sent into the
\* conversation or the world it waits in front of: loading and retrying never double
\* a message. The same states are excused.
THEOREM SentOnce == Spec => []NothingSentTwice
  <1>1. HistoryInv => NothingSentTwice
    BY DEF HistoryInv, WorldExplained, NothingSentTwice
  <1> QED
    BY <1>1, HistoryInvHolds, PTL

-----------------------------------------------------------------------------
(* The ring. Write times tell the directories apart and never run ahead of   *)
(* the clock, so "the newest Keep" names Keep rows and a new row is newest.  *)

WriteTimes ==
  /\ IsFiniteSet(dirs)
  /\ \A d \in dirs : d.at \in Nat /\ d.at <= clock
  /\ \A d, e \in dirs : d.at = e.at => d = e

RingInv == PairInv /\ WriteTimes

\* Writing a directory keeps the times apart; so does dropping any.
LEMMA WriteSaveTimes ==
  ASSUME TypeOK, WriteTimes, NEW n
  PROVE  LET all == WriteSave(n) IN
         /\ IsFiniteSet(all)
         /\ \A d \in all : d.at \in Nat /\ d.at <= clock + 1
         /\ \A d, e \in all : d.at = e.at => d = e
  <1> DEFINE new == [name |-> n, at |-> clock + 1, world |-> world]
  <1>1. clock \in Nat
    BY SaveAssumption DEF TypeOK, SaveTypes
  <1>2. new.at = clock + 1
    OBVIOUS
  <1>3. WriteSave(n) = Without(dirs, n) \cup {new}
    BY DEF WriteSave
  <1>4. Without(dirs, n) \in SUBSET dirs
    BY DEF Without
  <1> HIDE DEF new
  <1>5. IsFiniteSet(Without(dirs, n))
    BY <1>4, FS_Subset DEF WriteTimes
  <1>6. IsFiniteSet(WriteSave(n))
    BY <1>3, <1>5, FS_AddElement
  <1>7. \A d \in WriteSave(n) : (d \in dirs \/ d = new) /\ d.at \in Nat /\ d.at <= clock + 1
    BY <1>1, <1>2, <1>3, <1>4 DEF WriteTimes
  <1>8. \A d, e \in WriteSave(n) : d.at = e.at => d = e
    BY <1>1, <1>2, <1>7 DEF WriteTimes
  <1> QED
    BY <1>6, <1>7, <1>8

LEMMA DroppedTimes ==
  ASSUME NEW all, IsFiniteSet(all), dirs' \subseteq all,
         \A d \in all : d.at \in Nat /\ d.at <= clock',
         \A d, e \in all : d.at = e.at => d = e
  PROVE  WriteTimes'
  <1>1. IsFiniteSet(dirs')
    BY FS_Subset
  <1> QED
    BY <1>1 DEF WriteTimes

LEMMA NextRing == RingInv /\ [Next]_vars => RingInv'
  <1> SUFFICES ASSUME RingInv, [Next]_vars PROVE WriteTimes'
    BY NextPairs DEF RingInv
  <1>a. TypeOK /\ WriteTimes /\ clock \in Nat
    BY SaveAssumption DEF RingInv, PairInv, TypeInv, TypeOK, SaveTypes
  <1>1. CASE UNCHANGED <<dirs, clock>>
    BY <1>a, <1>1 DEF WriteTimes
  \* Every step that advances the clock writes one directory.
  <1>2. ASSUME NEW n, dirs' \subseteq WriteSave(n), clock' = clock + 1
        PROVE  WriteTimes'
    BY <1>a, <1>2, WriteSaveTimes, DroppedTimes
  <1>3. CASE Send \/ CardSubmit \/ Resend
    BY <1>2, <1>3 DEF Send, CardSubmit, Resend, Prompt, Autosave, Pruned
  <1>4. ASSUME NEW n, Save(n) \/ DieUnstamped(n)
        PROVE  WriteTimes'
    BY <1>2, <1>4 DEF Save, DieUnstamped
  <1>5. ASSUME NEW n, RemoveSave(n) \/ DeleteByEditor(n)
        PROVE  WriteTimes'
    <2>1. dirs' \subseteq dirs /\ clock' = clock
      BY <1>5 DEF RemoveSave, DeleteByEditor, Without
    <2> QED
      BY <1>a, <2>1, DroppedTimes DEF WriteTimes
  <1>6. ASSUME NEW n, Load(n)
        PROVE  WriteTimes'
    BY <1>1, <1>6 DEF Load
  <1>7. CASE Type \/ TurnWrites \/ TurnCloses \/ TailCloses \/ CardWrites \/ Reset \/ Retry
    BY <1>1, <1>7 DEF Type, TurnWrites, TurnCloses, TailCloses, CardWrites, Reset, Retry
  <1>8. ASSUME NEW t \in Texts, GhostWrites(t)
        PROVE  WriteTimes'
    BY <1>1, <1>8 DEF GhostWrites
  <1> QED
    BY <1>1, <1>3, <1>4, <1>5, <1>6, <1>7, <1>8 DEF Next, vars

LEMMA RingInvHolds == Spec => []RingInv
  <1>1. Init => RingInv
    <2>1. Init => PairInv
      BY InitTypeInv DEF Init, PairInv, NamesUsed, StampsPaired
    <2>2. Init => WriteTimes
      BY FS_EmptySet DEF Init, WriteTimes
    <2> QED
      BY <2>1, <2>2 DEF RingInv
  <1> QED
    BY <1>1, NextRing, PTL DEF Spec

\* A set of rows that is not empty has an oldest one.
LEMMA Oldest ==
  ASSUME NEW S, S # {}, \A d \in S : d.at \in Nat
  PROVE  \E d \in S : \A e \in S : d.at <= e.at
  <1> DEFINE T == {d.at : d \in S}
  <1>1. T \subseteq Nat /\ T # {}
    OBVIOUS
  <1>2. \E m \in T : \A k \in T : ~(<<k, m>> \in OpToRel(<, Nat))
    BY <1>1, NatLessThanWellFounded, WFMin
  <1>3. PICK m \in T : \A k \in T : ~(k < m)
    BY <1>1, <1>2 DEF OpToRel
  <1>4. PICK d \in S : d.at = m
    BY <1>3
  <1>5. \A e \in S : e.at \in T
    OBVIOUS
  <1> HIDE DEF T
  <1>6. ASSUME NEW e \in S PROVE d.at <= e.at
    BY <1>1, <1>3, <1>4, <1>5
  <1> QED
    BY <1>4, <1>6

\* Pruning drops a row only for newer ones, and keeps at most Keep of the ring.
LEMMA PruneOldest ==
  ASSUME NEW all, IsFiniteSet(all), \A d \in all : d.at \in Nat,
         \A d, e \in all : d.at = e.at => d = e
  PROVE  /\ \A d \in all \ Pruned(all) :
              IsAuto(d.name) /\ \A e \in Pruned(all) : IsAuto(e.name) => e.at > d.at
         /\ Cardinality({d \in Pruned(all) : IsAuto(d.name)}) <= Keep
  <1> DEFINE Newer(d) == {e \in all : IsAuto(e.name) /\ e.at > d.at}
             Ring == {d \in Pruned(all) : IsAuto(d.name)}
  <1>1. Pruned(all) = {d \in all : IsAuto(d.name) => Cardinality(Newer(d)) < Keep}
    BY DEF Pruned
  <1>2. \A d \in all : IsFiniteSet(Newer(d)) /\ Cardinality(Newer(d)) \in Nat
    BY FS_Subset, FS_CardinalityType
  <1>3. Keep \in Nat /\ Keep > 0
    BY SaveAssumption
  <1>4. ASSUME NEW d \in all \ Pruned(all)
        PROVE  IsAuto(d.name) /\ \A e \in Pruned(all) : IsAuto(e.name) => e.at > d.at
    <2>1. IsAuto(d.name) /\ ~(Cardinality(Newer(d)) < Keep)
      BY <1>1, <1>4
    <2>2. ASSUME NEW e \in Pruned(all), IsAuto(e.name), ~(e.at > d.at)
          PROVE  FALSE
      <3>1. e \in all /\ Cardinality(Newer(e)) < Keep
        BY <1>1, <2>2
      <3>2. Newer(d) \in SUBSET Newer(e)
        BY <1>4, <2>2, <3>1
      <3>3. IsFiniteSet(Newer(e)) /\ Cardinality(Newer(e)) \in Nat /\ Cardinality(Newer(d)) \in Nat
        BY <1>2, <3>1
      <3>4. Cardinality(Newer(d)) <= Cardinality(Newer(e))
        BY <3>2, <3>3, FS_Subset
      <3> HIDE DEF Newer
      <3> QED
        BY <1>3, <2>1, <3>1, <3>3, <3>4
    <2> QED
      BY <2>1, <2>2
  <1>5. Cardinality(Ring) <= Keep
    <2>1. Ring \in SUBSET all /\ \A d \in Ring : d.at \in Nat
      BY <1>1
    <2>2. IsFiniteSet(Ring)
      BY <2>1, FS_Subset
    <2>3. CASE Ring = {}
      BY <1>3, <2>3, FS_EmptySet
    <2>4. CASE Ring # {}
      <3>1. PICK d \in Ring : \A e \in Ring : d.at <= e.at
        BY <2>1, <2>4, Oldest
      <3>2. d \in all /\ Cardinality(Newer(d)) < Keep
        BY <1>1, <3>1
      \* The others are newer than the oldest, and of those there are too few.
      <3>3. Ring \ {d} \in SUBSET Newer(d)
        <4>1. ASSUME NEW e \in Ring, e # d PROVE e.at > d.at
          <5>1. e \in all /\ e.at # d.at /\ e.at \in Nat /\ d.at \in Nat
            BY <2>1, <3>2, <4>1
          <5> HIDE DEF Ring
          <5> QED
            BY <3>1, <4>1, <5>1
        <4> QED
          BY <1>1, <4>1
      <3>4. Cardinality(Ring \ {d}) = Cardinality(Ring) - 1 /\ Cardinality(Ring) \in Nat
        BY <2>2, <3>1, FS_RemoveElement, FS_CardinalityType
      <3>5. Cardinality(Ring \ {d}) <= Cardinality(Newer(d)) /\ Cardinality(Newer(d)) \in Nat
        BY <1>2, <3>2, <3>3, FS_Subset
      <3> HIDE DEF Ring, Newer
      <3> QED
        BY <1>3, <3>2, <3>4, <3>5
    <2> QED
      BY <2>3, <2>4
  <1> QED
    BY <1>4, <1>5

\* An autosave's name is new and its row the newest: pruning leaves it alone.
LEMMA NewRowStays ==
  ASSUME RingInv, NEW t, Autosave(t)
  PROVE  LET name == HandNames + clock + 1
             new  == [name |-> name, at |-> clock + 1, world |-> world]
         IN  /\ new \in dirs' /\ IsAuto(name)
             /\ WriteSave(name) = dirs \cup {new}
             /\ \A d \in dirs : d.at < new.at /\ d.name # name
  <1> DEFINE name == HandNames + clock + 1
             new == [name |-> name, at |-> clock + 1, world |-> world]
  <1>1. /\ clock \in Nat /\ HandNames \in Nat /\ Keep \in Nat /\ Keep > 0
        /\ \A d \in dirs : d.at \in Nat /\ d.at <= clock /\ d.name \in Nat
    BY SaveAssumption DEF RingInv, WriteTimes, PairInv, TypeInv, TypeOK, SaveTypes, Names
  <1>2. new.name = name /\ new.at = clock + 1 /\ IsAuto(name)
    BY <1>1 DEF IsAuto
  <1>3. \A d \in dirs : d.at < clock + 1 /\ d.name # name
    BY <1>1 DEF RingInv, PairInv, NamesUsed, IsAuto
  <1>4. WriteSave(name) = dirs \cup {new}
    BY <1>3 DEF WriteSave, Without
  <1> HIDE DEF new
  <1>5. {e \in WriteSave(name) : IsAuto(e.name) /\ e.at > new.at} = {}
    BY <1>1, <1>2, <1>3, <1>4
  <1>6. Cardinality({e \in WriteSave(name) : IsAuto(e.name) /\ e.at > new.at}) < Keep
    BY <1>1, <1>5, FS_EmptySet
  <1>7. new \in Pruned(WriteSave(name))
    BY <1>4, <1>6 DEF Pruned
  <1>8. dirs' = Pruned(WriteSave(name))
    BY DEF Autosave
  <1> QED
    BY <1>2, <1>3, <1>4, <1>7, <1>8 DEF new

\* Sending drops nothing but autosaves, the oldest ones, and leaves at most Keep;
\* a manual save replaces only what bears its name.
THEOREM PruningIsFair == Spec => SendPrunesOldest
  <1> DEFINE Fair == /\ \A d \in dirs : d \notin dirs' =>
                          \/ \E e \in dirs' : e.name = d.name
                          \/ IsAuto(d.name) /\ \A e \in dirs' : IsAuto(e.name) => e.at > d.at
                     /\ (\E d \in dirs' : d.at = clock' /\ IsAuto(d.name))
                          => Cardinality({d \in dirs' : IsAuto(d.name)}) <= Keep
  <1>1. ASSUME RingInv, NEW t, Autosave(t)
        PROVE  Fair
    <2> DEFINE all == WriteSave(HandNames + clock + 1)
    <2>1. dirs' = Pruned(all) /\ dirs \subseteq all
      BY <1>1, NewRowStays DEF Autosave
    <2>2. IsFiniteSet(all) /\ (\A d \in all : d.at \in Nat) /\ (\A d, e \in all : d.at = e.at => d = e)
      BY <1>1, WriteSaveTimes DEF RingInv, PairInv, TypeInv
    <2> HIDE DEF all
    <2>3. /\ \A d \in all \ Pruned(all) :
               IsAuto(d.name) /\ \A e \in Pruned(all) : IsAuto(e.name) => e.at > d.at
          /\ Cardinality({d \in Pruned(all) : IsAuto(d.name)}) <= Keep
      BY <2>2, PruneOldest
    <2> QED
      BY <2>1, <2>3
  <1>2. ASSUME RingInv, NEW n \in 1..HandNames, Save(n)
        PROVE  Fair
    <2>1. dirs' = Without(dirs, n) \cup {[name |-> n, at |-> clock + 1, world |-> world]}
          /\ clock' = clock + 1
      BY <1>2 DEF Save, WriteSave
    <2>2. clock \in Nat /\ HandNames \in Nat /\ \A d \in dirs : d.at \in Nat /\ d.at <= clock
      BY <1>2, SaveAssumption DEF RingInv, WriteTimes, PairInv, TypeInv, TypeOK, SaveTypes
    <2>3. ASSUME NEW d \in dirs, d \notin dirs' PROVE \E e \in dirs' : e.name = d.name
      <3> DEFINE new == [name |-> n, at |-> clock + 1, world |-> world]
      <3>1. d.name = n
        BY <2>1, <2>3 DEF Without
      <3>2. new \in dirs' /\ new.name = n
        BY <2>1
      <3> QED
        BY <3>1, <3>2
    <2>4. ASSUME NEW d \in dirs', d.at = clock', IsAuto(d.name) PROVE FALSE
      BY <1>2, <2>1, <2>2, <2>4 DEF Without, IsAuto
    <2> QED
      BY <2>3, <2>4
  <1> HIDE DEF Fair
  <1>3. ASSUME RingInv, Next, clock' # clock, crashes' = crashes
        PROVE  Fair
    <2>1. CASE Send \/ CardSubmit \/ Resend
      BY <1>1, <1>3, <2>1 DEF Send, CardSubmit, Resend, Prompt
    <2>2. CASE \E n \in 1..HandNames : Save(n)
      BY <1>2, <1>3, <2>2
    <2>3. ASSUME NEW n \in Names, DieUnstamped(n) PROVE FALSE
      <3>1. crashes \in Nat /\ crashes' = crashes + 1
        BY <1>3, <2>3, SaveAssumption DEF DieUnstamped, RingInv, PairInv, TypeInv, TypeOK, PlayerTypes
      <3> QED
        BY <1>3, <3>1
    <2>4. ASSUME NEW n \in Names, RemoveSave(n) \/ DeleteByEditor(n) \/ Load(n) PROVE FALSE
      BY <1>3, <2>4 DEF RemoveSave, DeleteByEditor, Load
    <2>5. CASE Type \/ TurnWrites \/ TurnCloses \/ TailCloses \/ CardWrites \/ Reset \/ Retry
      BY <1>3, <2>5 DEF Type, TurnWrites, TurnCloses, TailCloses, CardWrites, Reset, Retry
    <2>6. ASSUME NEW t \in Texts, GhostWrites(t) PROVE FALSE
      BY <1>3, <2>6 DEF GhostWrites
    <2> QED
      BY <1>3, <2>1, <2>2, <2>3, <2>4, <2>5, <2>6 DEF Next
  <1>4. RingInv /\ [Next]_vars => [clock' # clock /\ crashes' = crashes => Fair]_vars
    BY <1>3
  <1> QED
    BY RingInvHolds, <1>4, PTL DEF Spec, SendPrunesOldest, Fair

\* The moment a text leaves the input box or the card's page, at rest or behind a
\* running turn, the autosave taken for it is the retry point: its stamp holds the
\* text and the boundary in front of it.
THEOREM SendCanBeRetried == Spec => SendSetsRetryPoint
  <1> DEFINE Retriable(t) ==
        \E d \in RetryPoint', s \in ledger' :
          /\ d.at = clock' /\ d.world = world
          /\ s.name = d.name /\ s.draft = t /\ s.sid = bound' /\ s.seq = Len(logs[bound])
  <1>1. ASSUME RingInv, NEW t \in Texts, Autosave(t), bound' = bound
        PROVE  Retriable(t)
    <2> DEFINE name == HandNames + clock + 1
               new == [name |-> name, at |-> clock + 1, world |-> world]
               stamp == [name |-> name, at |-> clock + 1, sid |-> bound,
                         seq |-> Len(logs[bound]), draft |-> t]
               all == WriteSave(name)
    <2>1. /\ clock' = clock + 1 /\ t # 0
          /\ dirs' = Pruned(all)
          /\ ledger' = WriteSaveStamp(name, t) \ Named(WriteSaveStamp(name, t), all \ Pruned(all))
      BY <1>1 DEF Autosave, PrunedLedger, Texts
    <2>2. /\ new \in dirs' /\ IsAuto(name) /\ all = dirs \cup {new}
          /\ \A d \in dirs : d.at < clock + 1 /\ d.name # name
      BY <1>1, NewRowStays
    <2>3. stamp \in WriteSaveStamp(name, t)
      BY DEF WriteSaveStamp
    <2>4. /\ new.name = name /\ new.at = clock + 1 /\ new.world = world
          /\ stamp.name = name /\ stamp.draft = t /\ stamp.sid = bound
          /\ stamp.seq = Len(logs[bound])
      OBVIOUS
    <2>5. clock \in Nat /\ \A d \in dirs : d.at \in Nat
      BY <1>1, SaveAssumption DEF RingInv, WriteTimes, PairInv, TypeInv, TypeOK, SaveTypes
    <2>6. Pruned(all) \subseteq all
      BY DEF Pruned
    <2> HIDE DEF new, stamp, all, name
    <2>7. stamp \in ledger'
      BY <2>1, <2>2, <2>3, <2>4 DEF Named
    <2>8. new \in Qualifying'
      BY <2>1, <2>2, <2>4, <2>7 DEF Qualifying, IsAuto
    <2>9. ASSUME NEW e \in Qualifying' PROVE new.at >= e.at
      <3>1. e \in dirs \cup {new}
        BY <2>1, <2>2, <2>6 DEF Qualifying
      <3> QED
        BY <2>2, <2>4, <2>5, <3>1
    <2>10. new \in RetryPoint'
      BY <2>8, <2>9 DEF RetryPoint
    <2> QED
      BY <1>1, <2>1, <2>4, <2>7, <2>10
  <1> HIDE DEF Retriable
  \* What is admitted behind a running turn is the text that was handed in.
  <1>2. ASSUME TypeOK, NEW t \in Texts, NEW u \in Texts, Append(queue, t) = Append(queue, u)
        PROVE  t = u
    <2>1. queue \in Seq(Texts)
      BY <1>2 DEF TypeOK, PlayerTypes
    <2>2. Append(queue, t)[Len(queue) + 1] = t /\ Append(queue, u)[Len(queue) + 1] = u
      BY <2>1
    <2> QED
      BY <1>2, <2>2
  <1>3. ASSUME TypeOK, NEW t \in Texts, queue' = Append(queue, t)
        PROVE  queue' # queue /\ queue' # <<>> /\ ~GoesOn
    <2>1. queue \in Seq(Texts)
      BY <1>3 DEF TypeOK, PlayerTypes
    <2>2. Len(Append(queue, t)) = Len(queue) + 1 /\ Len(queue) \in Nat
      BY <2>1
    <2>3. queue # <<>> => Len(Tail(queue)) = Len(queue) - 1
      BY <2>1
    <2> QED
      BY <1>3, <2>2, <2>3 DEF GoesOn
  <1>4. ASSUME RingInv, NEW t \in Texts, NEW u \in Texts, Prompt(u), Admitted(t)
        PROVE  Retriable(t)
    <2>1. Autosave(u) /\ bound' = bound
      BY <1>4 DEF Prompt
    <2>2. TypeOK
      BY <1>4 DEF RingInv, PairInv, TypeInv
    <2>3. CASE queue' = Append(queue, t)
      <3>1. queue' = Append(queue, u)
        BY <1>3, <1>4, <2>2, <2>3 DEF Prompt, Admit, Refuse
      <3> QED
        BY <1>1, <1>2, <1>4, <2>1, <2>2, <2>3, <3>1
    <2>4. CASE phase \in {"rest", "resend"} /\ phase' = "turn" /\ text' = t
      <3>1. text' = u
        BY <1>4, <2>4 DEF Prompt, Admit, Refuse
      <3> QED
        BY <1>1, <1>4, <2>1, <2>4, <3>1
    <2> QED
      BY <1>4, <2>3, <2>4 DEF Admitted
  <1>5. ASSUME RingInv, Next, NEW t \in Texts, Admitted(t)
        PROVE  Retriable(t)
    <2>0. TypeOK /\ (phase # "rest" => text # 0)
      BY <1>5 DEF RingInv, PairInv, TypeInv
    <2>1. CASE Send \/ CardSubmit \/ Resend
      <3>1. (composer # 0 => composer \in Texts) /\ (phase # "rest" => text \in Texts)
            /\ (typed < MaxTexts => typed + 1 \in Texts)
        BY <2>0, SaveAssumption DEF TypeOK, PlayerTypes, Texts
      <3> QED
        BY <1>4, <1>5, <2>1, <3>1 DEF Send, CardSubmit, Resend
    \* No other step fills the queue or starts a turn where none ran.
    <2>2. ASSUME queue' = queue \/ queue' = <<>> \/ GoesOn,
                 phase \in {"rest", "resend"} => phase' # "turn"
          PROVE  FALSE
      BY <1>3, <1>5, <2>0, <2>2 DEF Admitted
    <2>3. ASSUME NEW n, Save(n) \/ DieUnstamped(n) \/ RemoveSave(n) \/ DeleteByEditor(n) \/ Load(n)
          PROVE  FALSE
      BY <2>2, <2>3 DEF Save, DieUnstamped, RemoveSave, DeleteByEditor, Load, Abandons
    <2>4. CASE Type \/ TurnWrites \/ TurnCloses \/ TailCloses \/ CardWrites \/ Reset \/ Retry
      BY <2>2, <2>4 DEF Type, TurnWrites, TurnCloses, TailCloses, CardWrites, Reset, Retry, Abandons
    <2>5. ASSUME NEW u, GhostWrites(u) PROVE FALSE
      BY <2>2, <2>5 DEF GhostWrites
    <2> QED
      BY <1>5, <2>1, <2>3, <2>4, <2>5 DEF Next
  <1>6. RingInv /\ [Next]_vars => [\A t \in Texts : Admitted(t) => Retriable(t)]_vars
    BY <1>5
  <1> QED
    BY RingInvHolds, <1>6, PTL DEF Spec, SendSetsRetryPoint, Retriable

=============================================================================
