-------------------------- MODULE EditingProofs ---------------------------
(***************************************************************************)
(* Theorems about CardDesk, for any desks and any library, and about       *)
(* PathChain, for any documents and any number of calls.                   *)
(***************************************************************************)
EXTENDS CardDesk, PathChain, TLAPS

(***************************************************************************)
(* The card desk.                                                          *)
(***************************************************************************)
-----------------------------------------------------------------------------
(* Type correctness.                                                        *)

LEMMA InitDeskTypes == DeskInit => DeskTypeOK
  BY DeskAssumption DEF DeskInit, DeskTypeOK, Presets, Written, Pages, Gone, NoDir

\* What an outcome of a call leaves is well typed, each column for itself.
PresetTypes == preset \in [Desks -> Presets] /\ copyOf \in [Desks -> Cards \cup {NoCard}]
MarkerTypes == drafting \in [Desks -> BOOLEAN] /\ editing \in [Desks -> Cards \cup {NoCard}]
ShelfTypes == library \in [Cards -> Presets \cup {NoDir}]
TabTypes ==
  /\ page \in [Desks -> Pages] /\ asked \in [Desks -> BOOLEAN] /\ lame \in [Desks -> BOOLEAN]
  /\ deskFaults \in 0..MaxDeskFaults
TextTypes == texts \in 0..MaxTexts

LEMMA DeskColumns ==
  DeskTypeOK <=> PresetTypes /\ MarkerTypes /\ ShelfTypes /\ TabTypes /\ TextTypes
  BY DEF DeskTypeOK, PresetTypes, MarkerTypes, ShelfTypes, TabTypes, TextTypes

LEMMA HoldsTypes ==
  ASSUME PresetTypes, NEW d \in Desks, NEW t \in Presets, NEW c \in Cards \cup {NoCard}, Holds(d, t, c)
  PROVE  PresetTypes'
  BY DEF PresetTypes, Holds

LEMMA MarksTypes ==
  ASSUME MarkerTypes, NEW d \in Desks, NEW b \in BOOLEAN, NEW c \in Cards \cup {NoCard}, Marks(d, b, c)
  PROVE  MarkerTypes'
  BY DEF MarkerTypes, Marks

LEMMA ShelvesTypes ==
  ASSUME ShelfTypes, NEW c \in Cards, NEW t \in Presets \cup {NoDir}, Shelves(c, t)
  PROVE  ShelfTypes'
  BY DEF ShelfTypes, Shelves

LEMMA AnsweredTypes ==
  ASSUME TabTypes, NEW d \in Desks, NEW p \in Pages, Answered(d, p)
  PROVE  TabTypes'
  BY DEF TabTypes, Answered

LEMMA RejectedTypes ==
  ASSUME TabTypes, NEW d \in Desks, Thrown(d) \/ (Rejected(d) /\ UNCHANGED deskFaults)
  PROVE  TabTypes'
  <1>1. deskFaults' \in 0..MaxDeskFaults
    BY DeskAssumption DEF TabTypes, Thrown
  <1>2. /\ page' = page
        /\ asked' = [asked EXCEPT ![d] = FALSE] /\ lame' = [lame EXCEPT ![d] = TRUE]
    BY DEF Thrown, Rejected
  <1> QED
    BY <1>1, <1>2 DEF TabTypes

LEMMA Kept ==
  /\ PresetTypes /\ UNCHANGED <<preset, copyOf>> => PresetTypes'
  /\ MarkerTypes /\ UNCHANGED <<drafting, editing>> => MarkerTypes'
  /\ ShelfTypes /\ UNCHANGED library => ShelfTypes'
  /\ TabTypes /\ UNCHANGED <<page, asked, lame, deskFaults>> => TabTypes'
  /\ TextTypes /\ UNCHANGED texts => TextTypes'
  BY DEF PresetTypes, MarkerTypes, ShelfTypes, TabTypes, TextTypes

LEMMA NextDeskTypes == DeskTypeOK /\ [DeskNext]_deskVars => DeskTypeOK'
  <1> SUFFICES ASSUME DeskTypeOK, [DeskNext]_deskVars PROVE DeskTypeOK'
    OBVIOUS
  <1> DEFINE P == PresetTypes
             M == MarkerTypes
             S == ShelfTypes
             T == TabTypes
             X == TextTypes
  <1>0. P /\ M /\ S /\ T /\ X
    BY DeskColumns
  <1>01. /\ Gone \in Presets /\ Blank \in Presets /\ Torn \in Presets
         /\ \A c \in Cards : Listed(c) => library[c] \in Presets
         /\ texts < MaxTexts => texts + 1 \in Presets
    BY DeskAssumption DEF DeskTypeOK, Presets, Written, Listed, Gone, Blank, Torn, NoDir
  <1>02. {"library", "preview", "draft", "workspace", "chat"} \subseteq Pages
    BY DEF Pages
  <1>03. /\ \A d \in Desks : preset[d] \in Presets /\ editing[d] \in Cards \cup {NoCard}
         /\ \A d \in Desks : copyOf[d] \in Cards \cup {NoCard}
    BY DEF DeskTypeOK
  <1>04. ASSUME texts < MaxTexts, texts' = texts + 1 PROVE X'
    BY <1>0, <1>04, DeskAssumption DEF TextTypes
  <1> USE <1>0, <1>01, <1>02, <1>03
  <1>1. ASSUME NEW d \in Desks, NEW c \in Cards, ImportFromLibrary(d, c) PROVE P' /\ M' /\ S' /\ T' /\ X'
    BY <1>1, HoldsTypes, MarksTypes, AnsweredTypes, RejectedTypes, Kept DEF ImportFromLibrary
  <1>2. ASSUME NEW d \in Desks, NEW c \in Cards, EditFromLibrary(d, c) PROVE P' /\ M' /\ S' /\ T' /\ X'
    BY <1>2, HoldsTypes, MarksTypes, AnsweredTypes, RejectedTypes, Kept DEF EditFromLibrary
  <1>3. ASSUME NEW d \in Desks, NEW c \in Cards, DeleteCard(d, c) PROVE P' /\ M' /\ S' /\ T' /\ X'
    BY <1>3, ShelvesTypes, RejectedTypes, Kept DEF DeleteCard
  <1>4. ASSUME NEW d \in Desks, NEW c \in Cards, CommitImport(d, c) PROVE P' /\ M' /\ S' /\ T' /\ X'
    BY <1>4, <1>04, ShelvesTypes, HoldsTypes, MarksTypes, AnsweredTypes, RejectedTypes, Kept
    DEF CommitImport
  <1>5. ASSUME NEW d \in Desks, NEW c \in Cards, PublishDraft(d, c) PROVE P' /\ M' /\ S' /\ T' /\ X'
    <2>1. P'
      <3>1. preset' = preset /\ (copyOf' = copyOf \/ copyOf' = [copyOf EXCEPT ![d] = c])
        BY <1>5 DEF PublishDraft
      <3> QED
        BY <3>1 DEF PresetTypes
    <2>2. M' /\ S' /\ T' /\ X'
      BY <1>5, ShelvesTypes, MarksTypes, AnsweredTypes, RejectedTypes, Kept DEF PublishDraft
    <2> QED
      BY <2>1, <2>2
  <1>6. ASSUME NEW d \in Desks, NEW c \in Cards, SaveEdit(d, c) PROVE P' /\ M' /\ S' /\ T' /\ X'
    BY <1>6, ShelvesTypes, AnsweredTypes, RejectedTypes, Kept DEF SaveEdit, Replaces, HalfReplaces
  <1>7. ASSUME NEW d \in Desks, NEW c \in Cards, PublishEdit(d, c) PROVE P' /\ M' /\ S' /\ T' /\ X'
    BY <1>7, ShelvesTypes, MarksTypes, AnsweredTypes, RejectedTypes, Kept
    DEF PublishEdit, Replaces, HalfReplaces
  <1>8. ASSUME NEW d \in Desks, Preview(d) PROVE P' /\ M' /\ S' /\ T' /\ X'
    <2>1. T'
      BY <1>8 DEF Preview, TabTypes
    <2> QED
      BY <1>8, <2>1, Kept DEF Preview
  <1>9. ASSUME NEW d \in Desks, DraftCard(d) PROVE P' /\ M' /\ S' /\ T' /\ X'
    <2>1. P'
      BY <1>9, HoldsTypes, Kept DEF DraftCard, DraftThrows, Skeleton
    <2>2. M'
      <3>1. \E c \in {NoCard, editing[d]} : Marks(d, TRUE, c) \/ UNCHANGED <<drafting, editing>>
        BY <1>9 DEF DraftCard, DraftThrows
      <3> QED
        BY <3>1, MarksTypes, Kept
    <2>3. T'
      <3>1. CASE Answered(d, "draft")
        BY <3>1, AnsweredTypes
      <3>2. CASE DraftThrows(d)
        BY <3>2, DeskAssumption DEF DraftThrows, TabTypes
      <3> QED
        BY <1>9, <3>1, <3>2 DEF DraftCard
    <2>4. S' /\ X'
      BY <1>9, Kept DEF DraftCard
    <2> QED
      BY <2>1, <2>2, <2>3, <2>4
  <1>10. ASSUME NEW d \in Desks, Refused(d) PROVE P' /\ M' /\ S' /\ T' /\ X'
    BY <1>10, RejectedTypes, Kept DEF Refused
  <1>11. ASSUME NEW d \in Desks, CancelDraft(d) PROVE P' /\ M' /\ S' /\ T' /\ X'
    BY <1>11, HoldsTypes, MarksTypes, AnsweredTypes, RejectedTypes, Kept DEF CancelDraft
  <1>12. ASSUME NEW d \in Desks, RequestBack(d) PROVE P' /\ M' /\ S' /\ T' /\ X'
    <2>1. T'
      BY <1>12 DEF RequestBack, TabTypes
    <2> QED
      BY <1>12, <2>1, Kept DEF RequestBack
  <1>13. ASSUME NEW d \in Desks, CancelEdit(d) PROVE P' /\ M' /\ S' /\ T' /\ X'
    BY <1>13, HoldsTypes, MarksTypes, AnsweredTypes, RejectedTypes, Kept DEF CancelEdit
  <1>14. ASSUME NEW d \in Desks, WriteText(d) PROVE P' /\ M' /\ S' /\ T' /\ X'
    <2>1. P'
      BY <1>14 DEF WriteText, PresetTypes
    <2> QED
      BY <1>14, <1>04, <2>1, Kept DEF WriteText
  <1>15. ASSUME NEW d \in Desks, Reload(d) PROVE P' /\ M' /\ S' /\ T' /\ X'
    <2>1. T'
      BY <1>15 DEF Reload, Route, TabTypes
    <2> QED
      BY <1>15, <2>1, Kept DEF Reload
  <1>16. ASSUME UNCHANGED deskVars PROVE P' /\ M' /\ S' /\ T' /\ X'
    <2>1. /\ UNCHANGED <<preset, copyOf>> /\ UNCHANGED <<drafting, editing>>
          /\ UNCHANGED library /\ UNCHANGED <<page, asked, lame, deskFaults>> /\ UNCHANGED texts
      BY <1>16 DEF deskVars
    <2> QED
      BY <2>1, Kept
  <1>17. P' /\ M' /\ S' /\ T' /\ X'
    BY <1>1, <1>2, <1>3, <1>4, <1>5, <1>6, <1>7, <1>8, <1>9, <1>10, <1>11, <1>12, <1>13,
       <1>14, <1>15, <1>16, Zenon DEF DeskNext, LeaveClean, Discard
  <1> QED
    BY <1>17 DEF DeskTypeOK, PresetTypes, MarkerTypes, ShelfTypes, TabTypes, TextTypes

\* Every variable keeps to its type.
THEOREM DeskTypesHold == DeskSpec => []DeskTypeOK
  BY InitDeskTypes, NextDeskTypes, PTL DEF DeskSpec

-----------------------------------------------------------------------------
(* The markers, the card and the page of a desk. When wiping a workspace    *)
(* does not stop half way, an edit marker names the card the workspace was  *)
(* copied from, and only the workspace page has one.                        *)

MarkersInOrder(d) ==
  /\ editing[d] # NoCard =>
       copyOf[d] = editing[d] /\ HasCard(d) /\ ~drafting[d] /\ page[d] = "workspace"
  /\ drafting[d] => page[d] = "draft"
  /\ asked[d] => page[d] = "workspace"

Reloads(d) == ~lame[d] => Route(d) = IF page[d] = "preview" THEN "library" ELSE page[d]

DeskInOrder == DeskTypeOK /\ \A d \in Desks : MarkersInOrder(d) /\ Reloads(d)

\* The columns of a desk no step has touched.
Untouched(e) ==
  /\ preset'[e] = preset[e] /\ copyOf'[e] = copyOf[e] /\ drafting'[e] = drafting[e]
  /\ editing'[e] = editing[e] /\ page'[e] = page[e] /\ asked'[e] = asked[e] /\ lame'[e] = lame[e]

LEMMA UntouchedInOrder ==
  ASSUME NEW e \in Desks, MarkersInOrder(e), Reloads(e), Untouched(e)
  PROVE  MarkersInOrder(e)' /\ Reloads(e)'
  BY DEF MarkersInOrder, Reloads, Untouched, HasCard, Route

\* A step of one desk leaves the others alone.
LEMMA OthersUntouched ==
  ASSUME DeskTypeOK, NEW d \in Desks, NEW e \in Desks, e # d,
         \/ \E c \in Cards :
              \/ ImportFromLibrary(d, c) \/ EditFromLibrary(d, c) \/ DeleteCard(d, c)
              \/ CommitImport(d, c) \/ PublishDraft(d, c)
              \/ SaveEdit(d, c) \/ PublishEdit(d, c)
         \/ Preview(d) \/ DraftCard(d) \/ Refused(d) \/ CancelDraft(d)
         \/ RequestBack(d) \/ LeaveClean(d) \/ Discard(d)
         \/ WriteText(d) \/ Reload(d)
  PROVE  Untouched(e)
  <1>1. /\ \A t, c : Holds(d, t, c) => preset'[e] = preset[e] /\ copyOf'[e] = copyOf[e]
        /\ \A b, c : Marks(d, b, c) => drafting'[e] = drafting[e] /\ editing'[e] = editing[e]
        /\ \A p : Answered(d, p) => page'[e] = page[e] /\ asked'[e] = asked[e] /\ lame'[e] = lame[e]
        /\ Rejected(d) => page'[e] = page[e] /\ asked'[e] = asked[e] /\ lame'[e] = lame[e]
    BY DEF DeskTypeOK, Holds, Marks, Answered, Rejected
  <1>2. CASE \E c \in Cards : ImportFromLibrary(d, c) \/ EditFromLibrary(d, c) \/ DeleteCard(d, c)
    BY <1>1, <1>2 DEF ImportFromLibrary, EditFromLibrary, DeleteCard, Thrown, Untouched
  <1>3. CASE \E c \in Cards : CommitImport(d, c) \/ SaveEdit(d, c) \/ PublishEdit(d, c)
    BY <1>1, <1>3 DEF CommitImport, SaveEdit, PublishEdit, Thrown, Untouched
  <1>4. CASE \E c \in Cards : PublishDraft(d, c)
    BY <1>1, <1>4 DEF PublishDraft, Thrown, Untouched, DeskTypeOK
  <1>5. CASE DraftCard(d) \/ Refused(d) \/ CancelDraft(d) \/ LeaveClean(d) \/ Discard(d)
    BY <1>1, <1>5 DEF DraftCard, DraftThrows, Skeleton, DeskTypeOK, Refused, CancelDraft, LeaveClean, Discard, CancelEdit, Thrown, Untouched
  <1>6. CASE Preview(d) \/ RequestBack(d) \/ WriteText(d) \/ Reload(d)
    BY <1>6 DEF Preview, RequestBack, WriteText, Reload, Untouched, DeskTypeOK
  <1> QED
    BY <1>2, <1>3, <1>4, <1>5, <1>6

\* What the outcomes of a call say about its own desk.
LEMMA OwnColumns ==
  ASSUME DeskTypeOK, NEW d \in Desks
  PROVE  /\ \A t, c : Holds(d, t, c) => preset'[d] = t /\ copyOf'[d] = c
         /\ \A b, c : Marks(d, b, c) => drafting'[d] = b /\ editing'[d] = c
         /\ \A p : Answered(d, p) => page'[d] = p /\ asked'[d] = FALSE /\ lame'[d] = FALSE
         /\ Rejected(d) => page'[d] = page[d] /\ asked'[d] = FALSE /\ lame'[d] = TRUE
         /\ Thrown(d) => page'[d] = page[d] /\ asked'[d] = FALSE /\ lame'[d] = TRUE
         /\ preset[d] \in Presets
         /\ editing[d] \in Cards \cup {NoCard}
         /\ \A c \in Cards : c # NoCard /\ (Listed(c) => library[c] # Gone)
  BY NoCardAssumption DEF DeskTypeOK, Holds, Marks, Answered, Rejected, Thrown, Listed

LEMMA OwnDeskInOrder ==
  ASSUME DeskTypeOK, ~WipeFails, NEW d \in Desks, MarkersInOrder(d), Reloads(d),
         \/ \E c \in Cards :
              \/ ImportFromLibrary(d, c) \/ EditFromLibrary(d, c) \/ DeleteCard(d, c)
              \/ CommitImport(d, c) \/ PublishDraft(d, c)
              \/ SaveEdit(d, c) \/ PublishEdit(d, c)
         \/ Preview(d) \/ DraftCard(d) \/ Refused(d) \/ CancelDraft(d)
         \/ RequestBack(d) \/ LeaveClean(d) \/ Discard(d)
         \/ WriteText(d) \/ Reload(d)
  PROVE  MarkersInOrder(d)' /\ Reloads(d)'
  <1>0. /\ editing[d] # NoCard => page[d] = "workspace"
        /\ \A c \in Cards : c # NoCard
    BY NoCardAssumption DEF MarkersInOrder
  <1>1. ASSUME NEW c \in Cards, ImportFromLibrary(d, c) PROVE MarkersInOrder(d)' /\ Reloads(d)'
    <2>1. /\ page[d] = "library"
          /\ \/ preset'[d] # Gone /\ drafting'[d] = FALSE /\ editing'[d] = NoCard /\ page'[d] = "chat"
                /\ asked'[d] = FALSE
             \/ lame'[d] = TRUE /\ page'[d] = page[d] /\ asked'[d] = FALSE
                /\ drafting'[d] = drafting[d] /\ editing'[d] = editing[d]
      BY <1>1, OwnColumns DEF ImportFromLibrary
    <2> QED
      BY <2>1, <1>0 DEF MarkersInOrder, Reloads, Route, HasCard
  <1>2. ASSUME NEW c \in Cards, EditFromLibrary(d, c) PROVE MarkersInOrder(d)' /\ Reloads(d)'
    <2>1. CASE /\ preset'[d] # Gone /\ copyOf'[d] = c /\ drafting'[d] = FALSE /\ editing'[d] = c
               /\ page'[d] = "workspace" /\ asked'[d] = FALSE
      BY <2>1, <1>0 DEF MarkersInOrder, Reloads, Route, HasCard
    <2>2. CASE /\ lame'[d] = TRUE /\ page'[d] = page[d] /\ asked'[d] = FALSE
               /\ \/ drafting'[d] = drafting[d] /\ editing'[d] = editing[d]
                  \/ drafting'[d] = FALSE /\ editing'[d] = NoCard
               /\ page[d] = "library"
      BY <2>2, <1>0 DEF MarkersInOrder, Reloads, Route, HasCard
    <2>3. page[d] = "library" /\ library[c] # Gone
      BY <1>2, OwnColumns DEF EditFromLibrary
    <2>4. CASE Holds(d, library[c], c) /\ Marks(d, FALSE, c) /\ Answered(d, "workspace")
      BY <2>1, <2>3, <2>4, OwnColumns
    <2>5. CASE Thrown(d) /\ UNCHANGED <<drafting, editing>>
      BY <2>2, <2>3, <2>5, OwnColumns
    <2>6. CASE Thrown(d) /\ Marks(d, FALSE, NoCard)
      BY <2>2, <2>3, <2>6, OwnColumns
    <2> QED
      BY <1>2, <2>4, <2>5, <2>6, Zenon DEF EditFromLibrary
  <1>3. ASSUME NEW c \in Cards, DeleteCard(d, c) PROVE MarkersInOrder(d)' /\ Reloads(d)'
    <2>1. /\ UNCHANGED <<preset, copyOf, drafting, editing>>
          /\ \/ UNCHANGED <<page, asked, lame>>
             \/ page'[d] = page[d] /\ asked'[d] = FALSE /\ lame'[d] = TRUE
      BY <1>3, OwnColumns DEF DeleteCard
    <2> QED
      BY <2>1 DEF MarkersInOrder, Reloads, Route, HasCard
  <1>4. ASSUME NEW c \in Cards, CommitImport(d, c) PROVE MarkersInOrder(d)' /\ Reloads(d)'
    <2>1. texts + 1 # Gone
      BY DEF DeskTypeOK, Gone
    <2>2. /\ page[d] = "preview"
          /\ \/ preset'[d] # Gone /\ drafting'[d] = FALSE /\ editing'[d] = editing[d]
                /\ asked'[d] = FALSE /\ (editing[d] = NoCard => page'[d] = "chat")
             \/ lame'[d] = TRUE /\ page'[d] = page[d] /\ asked'[d] = FALSE
                /\ drafting'[d] = drafting[d] /\ editing'[d] = editing[d]
      BY <1>4, <2>1, OwnColumns DEF CommitImport
    <2> QED
      BY <2>2, <1>0 DEF MarkersInOrder, Reloads, Route, HasCard
  <1>5. ASSUME NEW c \in Cards, PublishDraft(d, c) PROVE MarkersInOrder(d)' /\ Reloads(d)'
    <2>1. /\ editing[d] = NoCard /\ preset'[d] # Gone
          /\ \/ drafting'[d] = FALSE /\ editing'[d] = NoCard /\ page'[d] = "chat" /\ asked'[d] = FALSE
             \/ lame'[d] = TRUE /\ page'[d] = page[d] /\ asked'[d] = FALSE
                /\ drafting'[d] = drafting[d] /\ editing'[d] = editing[d]
      BY <1>5, OwnColumns DEF PublishDraft, HasCard
    <2> QED
      BY <2>1, <1>0 DEF MarkersInOrder, Reloads, Route, HasCard
  <1>6. ASSUME NEW c \in Cards, SaveEdit(d, c) PROVE MarkersInOrder(d)' /\ Reloads(d)'
    BY <1>6, OwnColumns DEF SaveEdit, MarkersInOrder, Reloads, Route, HasCard
  <1>7. ASSUME NEW c \in Cards, PublishEdit(d, c) PROVE MarkersInOrder(d)' /\ Reloads(d)'
    <2>1. /\ editing[d] = c /\ preset'[d] = preset[d] /\ drafting'[d] = FALSE /\ editing'[d] = NoCard
          /\ asked'[d] = FALSE /\ page'[d] \in {page[d], "chat"}
          /\ lame'[d] = TRUE \/ page'[d] = "chat"
      BY <1>7, OwnColumns DEF PublishEdit
    <2> QED
      BY <2>1, <1>0 DEF MarkersInOrder, Reloads, Route, HasCard
  <1>8. ASSUME Preview(d) PROVE MarkersInOrder(d)' /\ Reloads(d)'
    BY <1>8 DEF Preview, DeskTypeOK, MarkersInOrder, Reloads, Route, HasCard
  <1>9. ASSUME DraftCard(d) PROVE MarkersInOrder(d)' /\ Reloads(d)'
    <2>1. /\ page'[d] = "draft" /\ asked'[d] = FALSE /\ editing[d] = NoCard
          /\ \/ drafting'[d] = TRUE /\ editing'[d] = NoCard
             \/ drafting'[d] = drafting[d] /\ editing'[d] = editing[d] /\ lame'[d] = TRUE
      <3>1. CASE Marks(d, TRUE, NoCard) /\ Answered(d, "draft")
        BY <1>0, <1>9, <3>1, OwnColumns DEF DraftCard
      <3>2. CASE DraftThrows(d)
        <4>1. page'[d] = "draft" /\ asked'[d] = FALSE /\ lame'[d] = TRUE
          BY <3>2 DEF DraftThrows, DeskTypeOK
        <4>2. Marks(d, TRUE, editing[d]) \/ UNCHANGED <<drafting, editing>>
          BY <3>2 DEF DraftThrows
        <4> QED
          BY <1>0, <1>9, <4>1, <4>2, OwnColumns DEF DraftCard
      <3> QED
        BY <1>9, <3>1, <3>2 DEF DraftCard
    <2> QED
      BY <2>1, <1>0 DEF MarkersInOrder, Reloads, Route, HasCard
  <1>10. ASSUME Refused(d) PROVE MarkersInOrder(d)' /\ Reloads(d)'
    BY <1>10, OwnColumns DEF Refused, MarkersInOrder, Reloads, Route, HasCard
  <1>11. ASSUME CancelDraft(d) PROVE MarkersInOrder(d)' /\ Reloads(d)'
    BY <1>11, OwnColumns DEF CancelDraft, MarkersInOrder, Reloads, Route, HasCard
  <1>12. ASSUME RequestBack(d) PROVE MarkersInOrder(d)' /\ Reloads(d)'
    BY <1>12 DEF RequestBack, DeskTypeOK, MarkersInOrder, Reloads, Route, HasCard
  <1>13. ASSUME CancelEdit(d) PROVE MarkersInOrder(d)' /\ Reloads(d)'
    BY <1>13, OwnColumns DEF CancelEdit, MarkersInOrder, Reloads, Route, HasCard
  <1>14. ASSUME WriteText(d) PROVE MarkersInOrder(d)' /\ Reloads(d)'
    <2>1. preset'[d] # Gone
      BY <1>14 DEF WriteText, DeskTypeOK, Gone, Torn
    <2> QED
      BY <1>14, <2>1 DEF WriteText, MarkersInOrder, Reloads, Route, HasCard
  <1>15. ASSUME Reload(d) PROVE MarkersInOrder(d)' /\ Reloads(d)'
    BY <1>15 DEF Reload, DeskTypeOK, MarkersInOrder, Reloads, Route, HasCard
  <1> QED
    BY <1>1, <1>2, <1>3, <1>4, <1>5, <1>6, <1>7, <1>8, <1>9, <1>10, <1>11, <1>12, <1>13,
       <1>14, <1>15 DEF LeaveClean, Discard

LEMMA NextDeskInOrder ==
  ASSUME ~WipeFails
  PROVE  DeskInOrder /\ [DeskNext]_deskVars => DeskInOrder'
  <1> SUFFICES ASSUME DeskInOrder, [DeskNext]_deskVars PROVE DeskInOrder'
    OBVIOUS
  <1>1. DeskTypeOK /\ DeskTypeOK'
    BY NextDeskTypes DEF DeskInOrder
  <1>2. CASE UNCHANGED deskVars
    BY <1>1, <1>2 DEF deskVars, DeskInOrder, MarkersInOrder, Reloads, Route, HasCard
  <1>3. CASE DeskNext
    <2> SUFFICES ASSUME NEW e \in Desks PROVE MarkersInOrder(e)' /\ Reloads(e)'
      BY <1>1 DEF DeskInOrder
    <2>1. MarkersInOrder(e) /\ Reloads(e)
      BY DEF DeskInOrder
    <2>2. PICK d \in Desks :
            \/ \E c \in Cards :
                 \/ ImportFromLibrary(d, c) \/ EditFromLibrary(d, c) \/ DeleteCard(d, c)
                 \/ CommitImport(d, c) \/ PublishDraft(d, c)
                 \/ SaveEdit(d, c) \/ PublishEdit(d, c)
            \/ Preview(d) \/ DraftCard(d) \/ Refused(d) \/ CancelDraft(d)
            \/ RequestBack(d) \/ LeaveClean(d) \/ Discard(d)
            \/ WriteText(d) \/ Reload(d)
      BY <1>3, Zenon DEF DeskNext
    <2>3. CASE e = d
      BY <1>1, <2>1, <2>2, <2>3, OwnDeskInOrder
    <2>4. CASE e # d
      BY <1>1, <2>1, <2>2, <2>4, OthersUntouched, UntouchedInOrder
    <2> QED
      BY <2>3, <2>4
  <1> QED
    BY <1>2, <1>3

LEMMA InitDeskInOrder == DeskInit => DeskInOrder
  <1> SUFFICES ASSUME DeskInit PROVE DeskInOrder
    OBVIOUS
  <1>1. \A d \in Desks : MarkersInOrder(d) /\ Reloads(d)
    BY DEF DeskInit, MarkersInOrder, Reloads, Route, HasCard
  <1> QED
    BY <1>1, InitDeskTypes DEF DeskInOrder

\* Unless wiping a workspace stops half way, a reload opens the page the author is
\* on, on any number of desks over one library.
THEOREM ReloadsKeepThePage ==
  ASSUME ~WipeFails
  PROVE  DeskSpec => []ReloadKeepsPage
  <1>1. DeskInOrder => ReloadKeepsPage
    BY DEF DeskInOrder, Reloads, ReloadKeepsPage
  <1>2. DeskInOrder /\ [DeskNext]_deskVars => DeskInOrder'
    BY NextDeskInOrder
  <1> QED
    BY <1>1, <1>2, InitDeskInOrder, PTL DEF DeskSpec

-----------------------------------------------------------------------------
(* What changes a library card, and what changes a draft.                   *)

\* Unless wiping a workspace stops half way, saving and publishing reach only the
\* library card the workspace was copied from.
THEOREM SavesReachTheirCardHolds ==
  ASSUME ~WipeFails
  PROVE  DeskSpec => SavesReachTheirCard
  <1>1. ASSUME DeskInOrder, DeskNext, NEW c \in Cards, Listed(c), library'[c] # library[c],
               ~(\E d \in Desks : DeleteCard(d, c))
        PROVE  \E d \in Desks : copyOf[d] = c /\ library'[c] \in {preset[d], Gone, Torn}
    <2>1. PICK d \in Desks, b \in Cards : SaveEdit(d, b) \/ PublishEdit(d, b)
      <3>1. ASSUME NEW d \in Desks, NEW b \in Cards,
                   DeleteCard(d, b) \/ CommitImport(d, b) \/ PublishDraft(d, b)
            PROVE  FALSE
        <4>1. \E t : Shelves(b, t)
          BY <3>1 DEF DeleteCard, CommitImport, PublishDraft
        <4>2. b = c
          BY <1>1, <4>1 DEF DeskInOrder, DeskTypeOK, Shelves
        <4> QED
          BY <1>1, <3>1, <4>2 DEF CommitImport, PublishDraft, Listed
      <3> QED
        BY <1>1, <3>1 DEF DeskNext, ImportFromLibrary, EditFromLibrary, Preview, DraftCard, Refused,
           CancelDraft, RequestBack, LeaveClean, Discard, CancelEdit, WriteText, Reload
    <2>2. editing[d] = b /\ copyOf[d] = b
      BY <1>1, <2>1, NoCardAssumption DEF SaveEdit, PublishEdit, DeskInOrder, MarkersInOrder
    <2>3. b = c /\ library'[c] \in {preset[d], Gone, Torn}
      BY <1>1, <2>1 DEF SaveEdit, PublishEdit, Replaces, HalfReplaces, Shelves, DeskInOrder, DeskTypeOK
    <2> QED
      BY <2>2, <2>3
  <1>2. DeskInOrder /\ [DeskNext]_deskVars =>
          [\A c \in Cards :
             Listed(c) /\ library'[c] # library[c] /\ ~(\E d \in Desks : DeleteCard(d, c)) =>
             \E d \in Desks : copyOf[d] = c /\ library'[c] \in {preset[d], Gone, Torn}]_deskVars
    BY <1>1
  <1>3. DeskInOrder /\ [DeskNext]_deskVars => DeskInOrder'
    BY NextDeskInOrder
  <1> QED
    BY <1>2, <1>3, InitDeskInOrder, PTL DEF DeskSpec, SavesReachTheirCard

\* Unless wiping a workspace stops half way, a draft is changed only by writing in
\* it and removed only by giving it up.
THEOREM DraftsSurvive ==
  ASSUME ~WipeFails
  PROVE  DeskSpec => DraftSurvives
  <1>1. ASSUME DeskInOrder, DeskNext, NEW e \in Desks, drafting[e], preset[e] \in Written
        PROVE  /\ preset'[e] \in {preset[e], Gone} \cup (texts + 1)..MaxTexts
               /\ preset'[e] = Gone => page[e] = "draft" /\ page'[e] = "library"
    <2>1. /\ page[e] = "draft" /\ ~asked[e] /\ editing[e] = NoCard /\ preset[e] # Gone
          /\ preset[e] # Torn /\ texts \in Nat /\ DeskTypeOK
      BY <1>1, DeskAssumption DEF DeskInOrder, MarkersInOrder, Written, Gone, Torn, DeskTypeOK
    <2>2. CASE preset'[e] = preset[e]
      BY <2>1, <2>2
    <2>3. CASE CancelDraft(e)
      BY <1>1, <2>1, <2>3, OwnColumns DEF CancelDraft
    <2>4. CASE WriteText(e)
      BY <2>1, <2>4, DeskAssumption DEF WriteText, DeskTypeOK, Gone
    <2>5. PICK d \in Desks :
            \/ \E c \in Cards :
                 \/ ImportFromLibrary(d, c) \/ EditFromLibrary(d, c) \/ DeleteCard(d, c)
                 \/ CommitImport(d, c) \/ PublishDraft(d, c)
                 \/ SaveEdit(d, c) \/ PublishEdit(d, c)
            \/ Preview(d) \/ DraftCard(d) \/ Refused(d) \/ CancelDraft(d)
            \/ RequestBack(d) \/ LeaveClean(d) \/ Discard(d)
            \/ WriteText(d) \/ Reload(d)
      BY <1>1, Zenon DEF DeskNext
    <2>6. CASE d # e
      BY <2>1, <2>2, <2>5, <2>6, OthersUntouched DEF Untouched
    <2>7. CASE d = e /\ \E c \in Cards : \/ ImportFromLibrary(d, c) \/ EditFromLibrary(d, c)
                                         \/ CommitImport(d, c)
      BY <2>1, <2>7 DEF ImportFromLibrary, EditFromLibrary, CommitImport
    <2>8. CASE d = e /\ \E c \in Cards : \/ DeleteCard(d, c) \/ PublishDraft(d, c)
                                         \/ SaveEdit(d, c) \/ PublishEdit(d, c)
      BY <2>2, <2>8 DEF DeleteCard, PublishDraft, SaveEdit, PublishEdit
    <2>9. CASE d = e /\ (Preview(d) \/ DraftCard(d) \/ Refused(d) \/ RequestBack(d) \/ Reload(d))
      BY <1>1, <2>2, <2>9 DEF Preview, DraftCard, DraftThrows, Skeleton, Refused, RequestBack, Reload
    <2>10. CASE d = e /\ (LeaveClean(d) \/ Discard(d))
      BY <2>1, <2>10 DEF LeaveClean, Discard
    <2> QED
      BY <2>3, <2>4, <2>5, <2>6, <2>7, <2>8, <2>9, <2>10, Zenon
  <1>2. DeskInOrder /\ [DeskNext]_deskVars =>
          [\A d \in Desks :
             drafting[d] /\ preset[d] \in Written =>
               preset'[d] \in {preset[d], Gone} \cup (texts + 1)..MaxTexts
               /\ (preset'[d] = Gone => page[d] = "draft" /\ page'[d] = "library")]_deskVars
    BY <1>1
  <1>3. DeskInOrder /\ [DeskNext]_deskVars => DeskInOrder'
    BY NextDeskInOrder
  <1> QED
    BY <1>2, <1>3, InitDeskInOrder, PTL DEF DeskSpec, DraftSurvives

(***************************************************************************)
(* The calls on a document.                                                *)
(***************************************************************************)
-----------------------------------------------------------------------------
(* Type correctness.                                                        *)

LEMMA InitTypes == ChainInit => ChainTypeOK
  <1> SUFFICES ASSUME ChainInit PROVE ChainTypeOK
    OBVIOUS
  <1>1. (CHOOSE d \in Documents : TRUE) \in Documents
    BY ChainAssumption
  <1>2. exists \in [Documents -> BOOLEAN]
    <2>1. \A d \in Documents : (d \in Seeded) \in BOOLEAN
      OBVIOUS
    <2>2. exists = [d \in Documents |-> d \in Seeded]
      BY Zenon DEF ChainInit
    <2> QED
      BY <2>1, <2>2, Zenon
  <1>3. target \in [Calls -> Documents]
    BY <1>1, Zenon DEF ChainInit
  <1>4. /\ issued = 0 /\ strikes = 0
        /\ tool = [c \in Calls |-> "runtimeWrite"]
        /\ after = [c \in Calls |-> NoCall] /\ stage = [c \in Calls |-> "none"]
        /\ applied = [c \in Calls |-> FALSE] /\ held = [c \in Calls |-> {}]
        /\ tails = [d \in Documents |-> NoCall] /\ text = [d \in Documents |-> {}]
        /\ wiped = [d \in Documents |-> {}] /\ crossed = [d \in Documents |-> FALSE]
    BY Zenon DEF ChainInit
  <1> QED
    BY <1>2, <1>3, <1>4, ChainAssumption, SMT DEF ChainTypeOK, NoCall, Tools

LEMMA NextTypes == ChainTypeOK /\ [ChainNext]_chainVars => ChainTypeOK'
  <1> SUFFICES ASSUME ChainTypeOK, [ChainNext]_chainVars PROVE ChainTypeOK'
    OBVIOUS
  <1> USE ChainAssumption DEF ChainTypeOK
  <1>1. ASSUME NEW t \in Tools, NEW d \in Documents, Execute(t, d) PROVE ChainTypeOK'
    <2>1. issued + 1 \in Calls
      BY <1>1 DEF Execute, Calls
    <2> QED
      BY <1>1, <2>1 DEF Execute, pathChain, Reaches, docVars
  <1>2. ASSUME NEW c \in Calls, BodyStarts(c) PROVE ChainTypeOK'
    BY <1>2 DEF BodyStarts, Reaches, docVars
  <1>3. ASSUME NEW c \in Calls, BodyThrows(c) PROVE ChainTypeOK'
    BY <1>3 DEF BodyThrows, Reaches, docVars
  <1>4. ASSUME NEW c \in Calls, BodyWrites(c) PROVE ChainTypeOK'
    BY <1>4 DEF BodyWrites, Reaches
  <1>5. ASSUME NEW c \in Calls, drop(c) PROVE ChainTypeOK'
    BY <1>5 DEF drop, Reaches, docVars
  <1>6. ASSUME NEW d \in Documents, NEW there \in BOOLEAN, Struck(d, there) PROVE ChainTypeOK'
    BY <1>6 DEF Struck
  <1>7. CASE UNCHANGED chainVars
    BY <1>7 DEF chainVars
  <1> QED
    BY <1>1, <1>2, <1>3, <1>4, <1>5, <1>6, <1>7 DEF ChainNext, runtimeDelete, UserStrikes

\* Every variable keeps to its type.
THEOREM ChainTypesHold == ChainSpec => []ChainTypeOK
  BY InitTypes, NextTypes, PTL DEF ChainSpec

-----------------------------------------------------------------------------
(* The queue: on each document the calls run one at a time, in the model's  *)
(* order.                                                                   *)

\* A call that was issued is somewhere, one that was not has done nothing.
Numbered ==
  \A c \in Calls :
    /\ stage[c] = "none" <=> c > issued
    /\ applied[c] => Over(c)

\* The map's entry is the last call of its document; without one all are over.
TailIsLast ==
  \A d \in Documents : \A c \in 1..issued : target[c] = d =>
    /\ tails[d] = NoCall => Over(c)
    /\ c <= tails[d] \/ tails[d] = NoCall

\* Whom a call chained on stands behind every earlier call that is not over ...
WaitsForAll ==
  \A c \in 1..issued : \A b \in 1..issued :
    b < c /\ target[b] = target[c] => Over(b) \/ b <= after[c]

\* ... so a call that starts or has started has none of them before it.
InOrder ==
  \A c \in 1..issued : \A b \in 1..issued :
    b < c /\ target[b] = target[c] /\ stage[c] # "queued" => Over(b)

\* A call chains on one of its own document that was issued before it.
ChainsOnOwn ==
  \A c \in 1..issued : after[c] # NoCall =>
    after[c] < c /\ target[after[c]] = target[c]

TailsOwn ==
  \A d \in Documents : tails[d] # NoCall => tails[d] <= issued /\ target[tails[d]] = d

CallsInv ==
  /\ ChainTypeOK /\ Numbered /\ TailIsLast /\ WaitsForAll /\ InOrder
  /\ ChainsOnOwn /\ TailsOwn

\* A call whose predecessor has settled has nobody left in front of it.
LEMMA FreeIsFirst ==
  ASSUME CallsInv, NEW c \in 1..issued, NEW b \in 1..issued,
         Free(c) \/ stage[c] # "queued", b < c, target[b] = target[c]
  PROVE  Over(b)
  <1> USE DEF CallsInv
  <1>1. CASE stage[c] # "queued"
    BY <1>1 DEF InOrder
  <1>2. CASE Free(c)
    <2> SUFFICES ASSUME b <= after[c] PROVE Over(b)
      BY DEF WaitsForAll
    <2>1. b \in Nat /\ after[c] # NoCall
      BY DEF NoCall
    <2>2. Over(after[c]) /\ after[c] \in Calls
      BY <1>2, <2>1 DEF Free
    <2>3. after[c] \in 1..issued
      BY <2>2, ChainAssumption DEF Numbered, Over, ChainTypeOK, Calls
    <2>4. b < after[c] \/ b = after[c]
      BY <2>3
    <2>5. target[after[c]] = target[c]
      BY <2>1 DEF ChainsOnOwn
    <2> QED
      BY <2>2, <2>3, <2>4, <2>5 DEF InOrder, Over
  <1> QED
    BY <1>1, <1>2

LEMMA InitCalls == ChainInit => CallsInv
  <1> SUFFICES ASSUME ChainInit PROVE CallsInv
    OBVIOUS
  <1>1. Numbered
    BY ChainAssumption DEF ChainInit, Numbered, Calls
  <1>2. \A b \in 1..issued : FALSE
    BY DEF ChainInit
  <1>3. TailsOwn
    BY DEF ChainInit, TailsOwn
  <1> QED
    BY <1>1, <1>2, <1>3, InitTypes
    DEF CallsInv, TailIsLast, WaitsForAll, InOrder, ChainsOnOwn

\* A call that is issued queues behind the tail of its document.
LEMMA ExecuteQueue ==
  ASSUME CallsInv, NEW t \in Tools, NEW d \in Documents, Execute(t, d)
  PROVE  CallsInv'
  <1> DEFINE c == issued + 1
  <1> USE ChainAssumption DEF CallsInv
  <1>0. ChainTypeOK'
    BY NextTypes DEF ChainNext
  <1>1. ChainTypeOK' /\ c \in Calls /\ issued' = c /\ issued \in Nat
    BY <1>0 DEF Execute, Calls, ChainTypeOK
  <1>2. /\ target' = [target EXCEPT ![c] = d] /\ tails' = [tails EXCEPT ![d] = c]
        /\ after' = [after EXCEPT ![c] = tails[d]] /\ stage' = [stage EXCEPT ![c] = "queued"]
        /\ applied' = applied
    BY DEF Execute, pathChain, Reaches
  <1>3. \A b \in Calls : b # c =>
          target'[b] = target[b] /\ after'[b] = after[b] /\ stage'[b] = stage[b] /\ (Over(b)' <=> Over(b))
    BY <1>1, <1>2 DEF ChainTypeOK, Over
  <1>4. target'[c] = d /\ after'[c] = tails[d] /\ stage'[c] = "queued" /\ stage[c] = "none"
    BY <1>1, <1>2 DEF ChainTypeOK, Numbered
  <1>5. \A b \in 1..issued : b \in Calls /\ b # c
    BY <1>1 DEF Calls
  <1>6. \A b \in 1..issued' : b = c \/ b \in 1..issued
    BY <1>1
  <1> HIDE DEF c
  <1>7. Numbered'
    <2> SUFFICES ASSUME NEW b \in Calls
                 PROVE  (stage'[b] = "none" <=> b > issued') /\ (applied'[b] => Over(b)')
      BY DEF Numbered
    <2>1. CASE b = c
      BY <2>1, <1>1, <1>2, <1>4 DEF Numbered, Over, c, Calls
    <2>2. CASE b # c
      BY <2>2, <1>1, <1>2, <1>3 DEF Numbered, c, Calls
    <2> QED
      BY <2>1, <2>2
  <1>8. TailIsLast'
    BY <1>1, <1>2, <1>3, <1>4, <1>5, <1>6 DEF TailIsLast, ChainTypeOK, NoCall, Calls, c
  <1>9. WaitsForAll'
    <2> SUFFICES ASSUME NEW x \in 1..issued', NEW b \in 1..issued', b < x, target'[b] = target'[x]
                 PROVE  Over(b)' \/ b <= after'[x]
      BY DEF WaitsForAll
    <2>1. b \in 1..issued
      BY <1>1, <1>6 DEF c, Calls
    <2>2. CASE x = c
      BY <2>1, <2>2, <1>3, <1>4, <1>5 DEF TailIsLast
    <2>3. CASE x \in 1..issued
      BY <2>1, <2>3, <1>3, <1>5 DEF WaitsForAll
    <2> QED
      BY <2>2, <2>3, <1>6
  <1>10. InOrder'
    <2> SUFFICES ASSUME NEW x \in 1..issued', NEW b \in 1..issued', b < x, target'[b] = target'[x],
                        stage'[x] # "queued"
                 PROVE  Over(b)'
      BY DEF InOrder
    <2>1. x \in 1..issued /\ b \in 1..issued
      BY <1>1, <1>4, <1>6 DEF c, Calls
    <2> QED
      BY <2>1, <1>3, <1>5 DEF InOrder
  <1>11. ChainsOnOwn'
    <2> SUFFICES ASSUME NEW x \in 1..issued', after'[x] # NoCall
                 PROVE  after'[x] < x /\ target'[after'[x]] = target'[x]
      BY DEF ChainsOnOwn
    <2>1. CASE x = c
      BY <2>1, <1>1, <1>3, <1>4, <1>5 DEF TailsOwn, ChainTypeOK, NoCall, Calls, c
    <2>2. CASE x \in 1..issued
      <3>1. after[x] # NoCall /\ after[x] \in Calls /\ after[x] < x /\ target[after[x]] = target[x]
        BY <2>2, <1>3, <1>5 DEF ChainsOnOwn, ChainTypeOK
      <3>2. after[x] # c
        BY <2>2, <3>1, <1>1 DEF c, Calls
      <3> QED
        BY <2>2, <3>1, <3>2, <1>3, <1>5
    <2> QED
      BY <2>1, <2>2, <1>6
  <1>12. TailsOwn'
    <2> SUFFICES ASSUME NEW e \in Documents, tails'[e] # NoCall
                 PROVE  tails'[e] <= issued' /\ target'[tails'[e]] = e
      BY DEF TailsOwn
    <2>1. CASE e = d
      BY <2>1, <1>1, <1>2, <1>4 DEF ChainTypeOK, Calls
    <2>2. CASE e # d
      BY <2>2, <1>1, <1>2, <1>3, <1>5 DEF ChainTypeOK, TailsOwn, NoCall, Calls, c
    <2> QED
      BY <2>1, <2>2
  <1> QED
    BY <1>1, <1>7, <1>8, <1>9, <1>10, <1>11, <1>12

\* A call that moves on, never back, leaves the queue as it is ...
LEMMA ReachesQueue ==
  ASSUME CallsInv, ChainTypeOK', NEW c \in Calls, Free(c) \/ stage[c] \in {"running", "settled"},
         UNCHANGED <<issued, target, after, tails>>,
         NEW where \in {"running", "settled", "dropped"}, Reaches(c, where),
         stage[c] = "settled" => where = "dropped",
         \A b \in Calls : applied'[b] => applied[b] \/ b = c,
         applied'[c] => where # "running"
  PROVE  CallsInv'
  <1> USE DEF CallsInv
  <1>1. c \in 1..issued
    BY ChainAssumption DEF Numbered, Free, ChainTypeOK, Calls
  <1>2. \A b \in Calls : stage'[b] = IF b = c THEN where ELSE stage[b]
    BY DEF Reaches, ChainTypeOK
  <1>3. \A b \in Calls : Over(b) => Over(b)'
    BY <1>2 DEF Over, Free
  <1>4. \A b \in 1..issued : b \in Calls
    BY ChainAssumption DEF ChainTypeOK, Calls
  <1>5. Numbered'
    BY <1>1, <1>2, <1>3 DEF Numbered, Over, Free
  <1>6. TailIsLast' /\ WaitsForAll' /\ ChainsOnOwn' /\ TailsOwn'
    BY <1>3, <1>4 DEF TailIsLast, WaitsForAll, ChainsOnOwn, TailsOwn
  <1>7. InOrder'
    <2> SUFFICES ASSUME NEW x \in 1..issued, NEW b \in 1..issued, b < x, target[b] = target[x],
                        stage'[x] # "queued"
                 PROVE  Over(b)'
      BY DEF InOrder
    <2>1. CASE x = c
      BY <2>1, <1>3, <1>4, FreeIsFirst DEF Free
    <2>2. CASE x # c
      BY <2>2, <1>2, <1>3, <1>4 DEF InOrder
    <2> QED
      BY <2>1, <2>2
  <1> QED
    BY <1>5, <1>6, <1>7

\* ... and taking the last entry out of the map leaves nobody unaccounted for.
LEMMA DropQueue ==
  ASSUME CallsInv, NEW c \in Calls, drop(c)
  PROVE  CallsInv'
  <1> USE DEF CallsInv
  <1>0. ChainTypeOK'
    BY NextTypes DEF ChainNext
  <1>1. c \in 1..issued
    BY ChainAssumption DEF drop, Numbered, ChainTypeOK, Calls
  <1>2. \A b \in Calls : stage'[b] = (IF b = c THEN "dropped" ELSE stage[b]) /\ (Over(b)' <=> Over(b))
    BY DEF drop, Reaches, ChainTypeOK, Over
  <1>3. \A b \in 1..issued : b \in Calls
    BY ChainAssumption DEF ChainTypeOK, Calls
  <1>4. \A d \in Documents : tails'[d] = IF d = target[c] /\ tails[d] = c THEN NoCall ELSE tails[d]
    BY DEF drop, ChainTypeOK
  <1>5. UNCHANGED <<issued, target, after, applied>>
    BY DEF drop
  <1>6. Numbered' /\ WaitsForAll' /\ ChainsOnOwn' /\ TailsOwn' /\ InOrder'
    BY <1>1, <1>2, <1>3, <1>4, <1>5
    DEF Numbered, WaitsForAll, ChainsOnOwn, TailsOwn, InOrder, drop
  <1>7. TailIsLast'
    <2> SUFFICES ASSUME NEW d \in Documents, NEW b \in 1..issued, target[b] = d
                 PROVE  (tails'[d] = NoCall => Over(b)) /\ (b <= tails'[d] \/ tails'[d] = NoCall)
      BY <1>2, <1>3, <1>5 DEF TailIsLast
    <2>1. CASE d = target[c] /\ tails[d] = c
      <3>1. b = c \/ b < c
        BY <2>1, <1>1 DEF TailIsLast, NoCall
      <3>2. CASE b = c
        BY <3>2, <2>1, <1>4 DEF drop, Over
      <3>3. CASE b < c
        BY <3>3, <2>1, <1>1, <1>4 DEF InOrder, drop
      <3> QED
        BY <3>1, <3>2, <3>3
    <2>2. CASE ~(d = target[c] /\ tails[d] = c)
      BY <2>2, <1>4 DEF TailIsLast
    <2> QED
      BY <2>1, <2>2
  <1> QED
    BY <1>0, <1>6, <1>7

LEMMA NextCalls == CallsInv /\ [ChainNext]_chainVars => CallsInv'
  <1> SUFFICES ASSUME CallsInv, [ChainNext]_chainVars PROVE CallsInv'
    OBVIOUS
  <1>0. ChainTypeOK'
    BY NextTypes DEF CallsInv
  <1>1. ASSUME NEW t \in Tools, NEW d \in Documents, Execute(t, d) PROVE CallsInv'
    BY <1>1, ExecuteQueue
  <1>2. ASSUME NEW c \in Calls, BodyStarts(c) PROVE CallsInv'
    <2>1. ~applied[c]
      BY <1>2 DEF BodyStarts, Free, CallsInv, Numbered, Over
    <2> QED
      BY <1>0, <1>2, <2>1, ReachesQueue DEF BodyStarts, Free
  <1>3. ASSUME NEW c \in Calls, BodyThrows(c) PROVE CallsInv'
    BY <1>0, <1>3, ReachesQueue DEF BodyThrows, Free
  <1>4. ASSUME NEW c \in Calls, BodyWrites(c) PROVE CallsInv'
    BY <1>0, <1>4, ReachesQueue DEF BodyWrites, CallsInv, ChainTypeOK
  <1>5. ASSUME NEW c \in Calls, drop(c) PROVE CallsInv'
    BY <1>5, DropQueue
  <1>6. ASSUME UNCHANGED <<issued, target, after, stage, applied, tails>> PROVE CallsInv'
    BY <1>0, <1>6 DEF CallsInv, Numbered, TailIsLast, WaitsForAll, InOrder, ChainsOnOwn, TailsOwn, Over
  <1> QED
    BY <1>1, <1>2, <1>3, <1>4, <1>5, <1>6
    DEF ChainNext, runtimeDelete, UserStrikes, Struck, chainVars

\* Two bodies never work on one document at once, and none starts before those
\* the model put in front of it are over.
BodiesInOrder ==
  \A c \in Calls : \A b \in Calls :
    stage[c] = "running" /\ b < c /\ target[b] = target[c] => Over(b)

\* pathChain serialises the tools' work on a document in the model's order.
THEOREM CallsRunInOrder == ChainSpec => []BodiesInOrder
  <1>1. CallsInv => BodiesInOrder
    <2> SUFFICES ASSUME CallsInv, NEW c \in Calls, NEW b \in Calls,
                        stage[c] = "running", b < c, target[b] = target[c]
                 PROVE  Over(b)
      BY DEF BodiesInOrder
    <2>1. issued \in Nat /\ c \in Nat /\ b \in Nat /\ 1 <= b /\ c <= issued
      BY ChainAssumption DEF CallsInv, Numbered, ChainTypeOK, Calls
    <2>2. c \in 1..issued /\ b \in 1..issued
      BY <2>1
    <2> QED
      BY <2>2 DEF CallsInv, InOrder
  <1> QED
    BY <1>1, InitCalls, NextCalls, PTL DEF ChainSpec

-----------------------------------------------------------------------------
(* The content: what a document holds is what its calls, one by one, left.  *)

\* The body that runs on a document works on its present text.
HeldIsText ==
  \A c \in Calls : stage[c] = "running" =>
    /\ tool[c] = "runtimeWrite" => held[c] = {}
    /\ tool[c] = "runtimeEdit" /\ ~crossed[target[c]] => held[c] = text[target[c]]

\* Only calls that are over were there to be wiped.
WipedAreOver == \A d \in Documents : \A c \in wiped[d] : Over(c)

ContentInv == CallsInv /\ HeldIsText /\ WipedAreOver /\ OneByOne

\* A call that is over stays over, so what was wiped need not be looked at again.
LEMMA WipedStayOver ==
  ASSUME ChainTypeOK, WipedAreOver, wiped' = wiped, \A b \in Calls : Over(b) => Over(b)'
  PROVE  WipedAreOver'
  BY DEF WipedAreOver, ChainTypeOK

\* A step that changes nothing of a document's past leaves it right.
LEMMA SameContent ==
  ASSUME NEW d \in Documents, ChainTypeOK,
         text'[d] = text[d], crossed'[d] = crossed[d], wiped'[d] = wiped[d],
         \A c \in Calls : (applied'[c] /\ target'[c] = d) <=> (applied[c] /\ target[c] = d),
         \A c \in Calls : applied[c] => tool'[c] = tool[c],
         ~crossed[d] => text[d] = Visible(d)
  PROVE  ~crossed'[d] => text'[d] = Visible(d)'
  <1>1. Applied(d)' = Applied(d)
    BY DEF Applied
  <1>2. \A c \in Applied(d) : tool'[c] = tool[c]
    BY DEF Applied
  <1>3. Visible(d)' = Visible(d)
    BY <1>1, <1>2 DEF Visible
  <1> QED
    BY <1>3

\* The write of a body is the last one on its document: it replaces what is
\* there, or adds to it.
LEMMA WriteContent ==
  ASSUME ContentInv, NEW c \in Calls, BodyWrites(c), ~crossed[target[c]]
  PROVE  text'[target[c]] = Visible(target[c])'
  <1> DEFINE d == target[c]
  <1> USE DEF ContentInv, CallsInv
  <1>1. d \in Documents /\ c \in Nat
    BY ChainAssumption DEF ChainTypeOK, Calls
  <1>2. /\ \A b \in Calls : applied'[b] <=> (applied[b] \/ b = c)
        /\ text'[d] = held[c] \cup {c} /\ wiped' = wiped /\ target' = target /\ tool' = tool
    BY <1>1 DEF BodyWrites, ChainTypeOK
  <1>3. c \notin wiped[d]
    BY <1>1 DEF BodyWrites, WipedAreOver, Over
  <1>4. Applied(d)' = Applied(d) \cup {c}
    BY <1>2, <1>3 DEF Applied
  <1>5. \A b \in Applied(d) : b \in Nat /\ b < c
    <2> SUFFICES ASSUME NEW b \in Applied(d) PROVE b \in Nat /\ b < c
      OBVIOUS
    <2>1. b \in Calls /\ Over(b) /\ target[b] = d
      BY DEF Applied, Numbered
    <2>2. b \in 1..issued /\ c \in 1..issued /\ b # c
      BY <2>1, ChainAssumption DEF Numbered, Over, BodyWrites, ChainTypeOK, Calls
    <2>3. ~(c < b)
      BY <2>1, <2>2 DEF InOrder, Over, BodyWrites
    <2> QED
      BY <2>2, <2>3
  <1>6. CASE tool[c] = "runtimeWrite"
    <2>1. Visible(d)' = {c}
      BY <1>1, <1>2, <1>4, <1>5, <1>6 DEF Visible
    <2> QED
      BY <1>2, <1>6, <2>1 DEF HeldIsText, BodyWrites
  <1>7. CASE tool[c] = "runtimeEdit"
    <2>1. Visible(d)' = Visible(d) \cup {c}
      BY <1>1, <1>2, <1>4, <1>5, <1>7 DEF Visible
    <2>2. held[c] = Visible(d)
      BY <1>1, <1>7 DEF HeldIsText, BodyWrites, OneByOne
    <2> QED
      BY <1>2, <2>1, <2>2
  <1> QED
    BY <1>6, <1>7 DEF ChainTypeOK, Tools

LEMMA BodyWritesContent ==
  ASSUME ContentInv, NEW c \in Calls, BodyWrites(c), CallsInv'
  PROVE  ContentInv'
  <1> USE DEF ContentInv, CallsInv
  <1>1. /\ \A b \in Calls : stage'[b] = IF b = c THEN "settled" ELSE stage[b]
        /\ \A b \in Calls : held'[b] = IF b = c THEN {} ELSE held[b]
        /\ \A b \in Calls : applied'[b] <=> (applied[b] \/ b = c)
        /\ target[c] \in Documents
        /\ \A e \in Documents : e # target[c] => text'[e] = text[e]
        /\ wiped' = wiped /\ crossed' = crossed /\ target' = target /\ tool' = tool
    BY DEF BodyWrites, Reaches, ChainTypeOK
  <1>2. HeldIsText'
    <2> SUFFICES ASSUME NEW b \in Calls, stage'[b] = "running"
                 PROVE  /\ tool[b] = "runtimeWrite" => held'[b] = {}
                        /\ tool[b] = "runtimeEdit" /\ ~crossed[target[b]] =>
                             held'[b] = text'[target[b]]
      BY <1>1 DEF HeldIsText
    <2>1. b # c /\ stage[b] = "running" /\ stage[c] = "running" /\ target[b] \in Documents
      BY <1>1 DEF BodyWrites, ChainTypeOK
    <2>2. target[b] # target[c]
      <3>1. b \in 1..issued /\ c \in 1..issued
        BY <2>1, ChainAssumption DEF Numbered, ChainTypeOK, Calls
      <3>2. b < c \/ c < b
        BY <2>1, <3>1
      <3> QED
        BY <2>1, <3>1, <3>2 DEF InOrder, Over
    <2> QED
      BY <1>1, <2>1, <2>2 DEF HeldIsText
  <1>3. WipedAreOver'
    BY <1>1 DEF WipedAreOver, Over, ChainTypeOK
  <1>4. OneByOne'
    <2> SUFFICES ASSUME NEW e \in Documents, ~crossed'[e] PROVE text'[e] = Visible(e)'
      BY DEF OneByOne
    <2>1. CASE e = target[c]
      BY <1>1, <2>1, WriteContent
    <2>2. CASE e # target[c]
      BY <1>1, <2>2, SameContent DEF OneByOne
    <2> QED
      BY <2>1, <2>2
  <1> QED
    BY <1>2, <1>3, <1>4

LEMMA NextContent == ContentInv /\ [ChainNext]_chainVars => ContentInv'
  <1> SUFFICES ASSUME ContentInv, [ChainNext]_chainVars PROVE ContentInv'
    OBVIOUS
  <1> USE DEF ContentInv
  <1>0. CallsInv' /\ ChainTypeOK /\ ChainTypeOK'
    BY NextCalls DEF CallsInv
  <1>1. ASSUME NEW t \in Tools, NEW d \in Documents, Execute(t, d) PROVE ContentInv'
    <2> DEFINE c == issued + 1
    <2>0. c \in Calls /\ c > issued
      BY <1>0, <1>1, ChainAssumption DEF Execute, ChainTypeOK, Calls
    <2>01. Numbered
      BY DEF CallsInv
    <2>1. c \in Calls /\ stage[c] = "none" /\ ~applied[c]
      BY <2>0, <2>01 DEF Numbered, Over
    <2>2. /\ \A b \in Calls : b # c => stage'[b] = stage[b] /\ tool'[b] = tool[b] /\ target'[b] = target[b]
          /\ stage'[c] = "queued"
          /\ applied' = applied /\ held' = held /\ text' = text /\ wiped' = wiped /\ crossed' = crossed
      BY <1>0, <1>1, <2>1 DEF Execute, pathChain, Reaches, docVars, ChainTypeOK
    <2> HIDE DEF c
    <2>3. HeldIsText'
      <3> SUFFICES ASSUME NEW b \in Calls, stage'[b] = "running"
                   PROVE  /\ tool'[b] = "runtimeWrite" => held'[b] = {}
                          /\ tool'[b] = "runtimeEdit" /\ ~crossed'[target'[b]] =>
                               held'[b] = text'[target'[b]]
        BY DEF HeldIsText
      <3>1. b # c
        BY <2>2
      <3> QED
        BY <2>2, <3>1 DEF HeldIsText
    <2>4. WipedAreOver'
      <3> SUFFICES ASSUME NEW e \in Documents, NEW b \in wiped[e] PROVE Over(b)'
        BY <2>2 DEF WipedAreOver
      <3>1. b \in Calls /\ Over(b)
        BY <1>0 DEF WipedAreOver, ChainTypeOK
      <3>2. b # c
        BY <2>1, <3>1 DEF Over
      <3> QED
        BY <2>2, <3>1, <3>2 DEF Over
    <2>5. OneByOne'
      BY <1>0, <2>1, <2>2, SameContent DEF OneByOne
    <2> QED
      BY <1>0, <2>3, <2>4, <2>5
  <1>2. ASSUME NEW c \in Calls, BodyStarts(c) PROVE ContentInv'
    <2>1. /\ \A b \in Calls : stage'[b] = IF b = c THEN "running" ELSE stage[b]
          /\ \A b \in Calls : held'[b] =
               IF b # c THEN held[b] ELSE IF tool[c] = "runtimeEdit" THEN text[target[c]] ELSE {}
          /\ UNCHANGED <<applied, target, tool, text, wiped, crossed>> /\ stage[c] = "queued"
      BY <1>0, <1>2 DEF BodyStarts, Free, Reaches, docVars, ChainTypeOK
    <2>2. HeldIsText'
      BY <1>0, <2>1 DEF HeldIsText, ChainTypeOK
    <2>3. WipedAreOver'
      <3>1. \A b \in Calls : Over(b) => Over(b)'
        BY <2>1 DEF Over
      <3> QED
        BY <1>0, <2>1, <3>1, WipedStayOver
    <2>4. OneByOne'
      BY <1>0, <2>1, SameContent DEF OneByOne
    <2> QED
      BY <1>0, <2>2, <2>3, <2>4
  <1>3. ASSUME NEW c \in Calls, BodyThrows(c) PROVE ContentInv'
    <2>1. /\ \A b \in Calls : stage'[b] = IF b = c THEN "settled" ELSE stage[b]
          /\ \A b \in Calls : held'[b] = IF b # c THEN held[b] ELSE {}
          /\ UNCHANGED <<applied, target, tool, text, wiped, crossed>>
      BY <1>0, <1>3 DEF BodyThrows, Reaches, docVars, ChainTypeOK
    <2>2. HeldIsText'
      BY <1>0, <2>1 DEF HeldIsText, ChainTypeOK
    <2>3. WipedAreOver'
      <3>1. \A b \in Calls : Over(b) => Over(b)'
        BY <2>1 DEF Over
      <3> QED
        BY <1>0, <2>1, <3>1, WipedStayOver
    <2>4. OneByOne'
      BY <1>0, <2>1, SameContent DEF OneByOne
    <2> QED
      BY <1>0, <2>2, <2>3, <2>4
  <1>4. ASSUME NEW c \in Calls, BodyWrites(c) PROVE ContentInv'
    BY <1>0, <1>4, BodyWritesContent
  <1>5. ASSUME NEW c \in Calls, drop(c) PROVE ContentInv'
    <2>1. /\ \A b \in Calls : stage'[b] = IF b = c THEN "dropped" ELSE stage[b]
          /\ UNCHANGED <<applied, target, tool, text, wiped, crossed, held>>
      BY <1>0, <1>5 DEF drop, Reaches, docVars, ChainTypeOK
    <2>2. HeldIsText'
      BY <1>0, <2>1 DEF HeldIsText, ChainTypeOK
    <2>3. WipedAreOver'
      <3>1. \A b \in Calls : Over(b) => Over(b)'
        BY <2>1 DEF Over
      <3> QED
        BY <1>0, <2>1, <3>1, WipedStayOver
    <2>4. OneByOne'
      BY <1>0, <2>1, SameContent DEF OneByOne
    <2> QED
      BY <1>0, <2>2, <2>3, <2>4
  <1>6. ASSUME NEW d \in Documents, NEW there \in BOOLEAN, Struck(d, there) PROVE ContentInv'
    <2>1. /\ \A e \in Documents : e # d => text'[e] = text[e] /\ wiped'[e] = wiped[e] /\ crossed'[e] = crossed[e]
          /\ text'[d] = {} /\ wiped'[d] = {c \in Calls : Over(c) /\ target[c] = d}
          /\ crossed'[d] = \E c \in Calls : stage[c] = "running" /\ target[c] = d /\ tool[c] = "runtimeEdit"
          /\ UNCHANGED <<applied, target, tool, stage, held>>
      BY <1>0, <1>6 DEF Struck, ChainTypeOK
    <2>2. HeldIsText'
      <3> SUFFICES ASSUME NEW c \in Calls, stage[c] = "running"
                   PROVE  /\ tool[c] = "runtimeWrite" => held[c] = {}
                          /\ tool[c] = "runtimeEdit" /\ ~crossed'[target[c]] =>
                               held[c] = text'[target[c]]
        BY <2>1 DEF HeldIsText
      <3>1. target[c] \in Documents
        BY <1>0 DEF ChainTypeOK
      <3>2. CASE target[c] = d
        BY <2>1, <3>2 DEF HeldIsText
      <3>3. CASE target[c] # d
        BY <2>1, <3>1, <3>3 DEF HeldIsText
      <3> QED
        BY <3>2, <3>3
    <2>3. WipedAreOver'
      <3> SUFFICES ASSUME NEW e \in Documents, NEW c \in wiped'[e] PROVE Over(c)'
        BY DEF WipedAreOver
      <3>1. Over(c)
        BY <2>1 DEF WipedAreOver
      <3> QED
        BY <2>1, <3>1 DEF Over
    <2>4. OneByOne'
      <3> SUFFICES ASSUME NEW e \in Documents, ~crossed'[e] PROVE text'[e] = Visible(e)'
        BY DEF OneByOne
      <3>1. CASE e = d
        <4>1. Applied(d)' = {}
          BY <2>1 DEF Applied, CallsInv, Numbered
        <4> QED
          BY <2>1, <3>1, <4>1 DEF Visible
      <3>2. CASE e # d
        BY <1>0, <2>1, <3>2, SameContent DEF OneByOne
      <3> QED
        BY <3>1, <3>2
    <2> QED
      BY <1>0, <2>2, <2>3, <2>4
  <1>7. CASE UNCHANGED chainVars
    <2>1. OneByOne'
      BY <1>0, <1>7, SameContent DEF OneByOne, chainVars
    <2> QED
      BY <1>0, <1>7, <2>1 DEF HeldIsText, WipedAreOver, Over, chainVars
  <1> QED
    BY <1>1, <1>2, <1>3, <1>4, <1>5, <1>6, <1>7 DEF ChainNext, runtimeDelete, UserStrikes

\* Overlapping writes and edits leave on every document what they would have left
\* one by one in the model's order, as long as the user's editor did not strike
\* between the read and the write of an edit.
THEOREM EditsAreSerial == ChainSpec => []OneByOne
  <1>1. ChainInit => ContentInv
    <2> SUFFICES ASSUME ChainInit PROVE ContentInv
      OBVIOUS
    <2>1. HeldIsText /\ WipedAreOver
      BY DEF ChainInit, HeldIsText, WipedAreOver
    <2>2. \A d \in Documents : Applied(d) = {} /\ text[d] = {}
      BY DEF ChainInit, Applied
    <2>3. OneByOne
      BY <2>2 DEF OneByOne, Visible
    <2> QED
      BY <2>1, <2>3, InitCalls DEF ContentInv
  <1>2. ContentInv => OneByOne
    BY DEF ContentInv
  <1> QED
    BY <1>1, <1>2, NextContent, PTL DEF ChainSpec
=============================================================================
