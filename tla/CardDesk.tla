------------------------------ MODULE CardDesk ------------------------------
(***************************************************************************)
(* Drafting, editing, publishing and importing cards: the remote calls of  *)
(* packages/engine/src/index.ts (draftCard .. commitImport) on the files   *)
(* of packages/engine/src/workspace.ts, driven from the pages of           *)
(* packages/ui/src/client/TavernView.tsx.  A desk is a session, its        *)
(* workspace directory and the one tab that shows it; the card library is  *)
(* shared by all desks.  A remote call runs without an await, so it is one *)
(* action; a file operation inside it may throw and leave the rest undone. *)
(* A preset/ tree is the version of its text, and the library card it is a *)
(* copy of.                                                                *)
(***************************************************************************)
EXTENDS Integers

CONSTANTS Desks,       (* sessions with a workspace                           *)
          Cards,       (* names of library directories                        *)
          Shipped,     (* those the library has at the start                  *)
          WipeFails,   (* may wipeWorkspaceDirs throw between its removals?   *)
          MaxTexts,    (* bound: versions of card text anybody writes         *)
          MaxDeskFaults \* bound: file operations that throw

ASSUME DeskAssumption ==
  /\ Shipped \subseteq Cards /\ WipeFails \in BOOLEAN
  /\ MaxTexts \in Nat \ {0} /\ MaxDeskFaults \in Nat

NoCard == "no card"
ASSUME NoCardAssumption == NoCard \notin Cards

Gone == 0    \* no preset/meta.json (or, in the library, no preset/)
Blank == -1  \* the skeleton: meta.json is there, systemPrompt is empty
Torn == -2   \* a copy that stopped half way, after meta.json
NoDir == -3  \* no library directory of this name

Written == 1..MaxTexts
Presets == Written \cup {Gone, Blank, Torn}
Pages == {"library", "preview", "draft", "workspace", "chat"}

VARIABLES
  library,   \* per card: NoDir or what its preset/ holds
  preset,    \* per desk: what the workspace's preset/ holds
  copyOf,    \* per desk: the library card preset/ was copied from, or NoCard
  drafting,  \* per desk: the marker .tavern-draft exists
  editing,   \* per desk: the card named in .tavern-editing, or NoCard
  page,      \* per desk: the page its tab shows
  asked,     \* per desk: a clean editDirty answer is about to be acted on
  lame,      \* history, per desk: its last call threw
  texts,     \* versions written, a counter for the bound
  deskFaults \* file operations that threw, a counter for the bound

deskVars == <<library, preset, copyOf, drafting, editing, page, asked, lame,
              texts, deskFaults>>

DeskTypeOK ==
  /\ library \in [Cards -> Presets \cup {NoDir}]
  /\ preset \in [Desks -> Presets]
  /\ copyOf \in [Desks -> Cards \cup {NoCard}]
  /\ drafting \in [Desks -> BOOLEAN]
  /\ editing \in [Desks -> Cards \cup {NoCard}]
  /\ page \in [Desks -> Pages]
  /\ asked \in [Desks -> BOOLEAN]
  /\ lame \in [Desks -> BOOLEAN]
  /\ texts \in 0..MaxTexts
  /\ deskFaults \in 0..MaxDeskFaults

\* The shipped library; fresh, empty workspaces.
DeskInit ==
  /\ texts = 1 /\ deskFaults = 0
  /\ library = [c \in Cards |-> IF c \in Shipped THEN 1 ELSE NoDir]
  /\ preset = [d \in Desks |-> Gone]
  /\ copyOf = [d \in Desks |-> NoCard]
  /\ drafting = [d \in Desks |-> FALSE]
  /\ editing = [d \in Desks |-> NoCard]
  /\ page = [d \in Desks |-> "library"]
  /\ asked = [d \in Desks |-> FALSE]
  /\ lame = [d \in Desks |-> FALSE]

\* Mutant: a directory that is not there passes for a card.
ListedAnyway(c) == library[c] # Gone

Listed(c) == library[c] \notin {NoDir, Gone}
HasCard(d) == preset[d] # Gone

\* The page a reload opens, from what state() answers.
Route(d) ==
  IF drafting[d] THEN "draft"
  ELSE IF ~HasCard(d) THEN "library"
  ELSE IF editing[d] # NoCard THEN "workspace" ELSE "chat"

(***************************************************************************)
(* What the file operations of a call leave behind                         *)
(***************************************************************************)
Holds(d, text, card) ==
  /\ preset' = [preset EXCEPT ![d] = text]
  /\ copyOf' = [copyOf EXCEPT ![d] = card]

Marks(d, draft, card) ==
  /\ drafting' = [drafting EXCEPT ![d] = draft]
  /\ editing' = [editing EXCEPT ![d] = card]

Shelves(c, text) == library' = [library EXCEPT ![c] = text]

\* The call answered: the tab goes to page p.
Answered(d, p) ==
  /\ page' = [page EXCEPT ![d] = p]
  /\ asked' = [asked EXCEPT ![d] = FALSE]
  /\ lame' = [lame EXCEPT ![d] = FALSE]
  /\ UNCHANGED deskFaults

\* The call threw: the tab stays where it is.
Rejected(d) ==
  /\ asked' = [asked EXCEPT ![d] = FALSE]
  /\ lame' = [lame EXCEPT ![d] = TRUE]
  /\ UNCHANGED page

\* ... because a file operation did.
Thrown(d) ==
  /\ deskFaults < MaxDeskFaults
  /\ deskFaults' = deskFaults + 1
  /\ Rejected(d)

(***************************************************************************)
(* Library page                                                            *)
(***************************************************************************)
\* importFromLibrary: copy, seed runtime/, drop both markers.  A throwing copy
\* or seed leaves the markers.
ImportFromLibrary(d, c) ==
  /\ page[d] = "library" /\ Listed(c)
  /\ \/ Holds(d, library[c], c) /\ Marks(d, FALSE, NoCard) /\ Answered(d, "chat")
     \/ /\ \E left \in {Gone, Torn, library[c]} : Holds(d, left, c)
        /\ Thrown(d) /\ UNCHANGED <<drafting, editing>>
  /\ UNCHANGED <<library, texts>>

\* editFromLibrary: the same, then the edit marker.
EditFromLibrary(d, c) ==
  /\ page[d] = "library" /\ Listed(c)
  /\ \/ Holds(d, library[c], c) /\ Marks(d, FALSE, c) /\ Answered(d, "workspace")
     \/ /\ \E left \in {Gone, Torn, library[c]} : Holds(d, left, c)
        /\ Thrown(d) /\ UNCHANGED <<drafting, editing>>
     \/ Holds(d, library[c], c) /\ Marks(d, FALSE, NoCard) /\ Thrown(d)
  /\ UNCHANGED <<library, texts>>

\* deleteCard, from any library page; the removal goes file by file.
DeleteCard(d, c) ==
  /\ page[d] = "library" /\ Listed(c)
  /\ \/ Shelves(c, NoDir) /\ UNCHANGED <<page, asked, lame, deskFaults>>
     \/ (\E left \in {Gone, Torn} : Shelves(c, left)) /\ Thrown(d)
  /\ UNCHANGED <<preset, copyOf, drafting, editing, texts>>

\* The client parsed a card file and previews it, nothing is written yet; back.
Preview(d) ==
  /\ page[d] \in {"library", "preview"}
  /\ page' = [page EXCEPT ![d] = IF @ = "library" THEN "preview" ELSE "library"]
  /\ UNCHANGED <<library, preset, copyOf, drafting, editing, asked, lame, texts, deskFaults>>

\* commitImport: a new library card (a name nobody has), its copy in the
\* workspace, a fresh runtime/; then the draft marker goes, the edit marker stays.
CommitImport(d, c) ==
  /\ page[d] = "preview" /\ library[c] = NoDir
  /\ texts < MaxTexts /\ texts' = texts + 1
  /\ \/ /\ Shelves(c, texts + 1) /\ Holds(d, texts + 1, c)
        /\ Marks(d, FALSE, editing[d])
        /\ Answered(d, IF editing[d] = NoCard THEN "chat" ELSE "workspace")
     \/ /\ \E left \in {Gone, Torn} : Shelves(c, left)
        /\ Thrown(d) /\ UNCHANGED <<preset, copyOf, drafting, editing>>
     \/ /\ Shelves(c, texts + 1)
        /\ \E left \in {Gone, Torn, texts + 1} : Holds(d, left, c)
        /\ Thrown(d) /\ UNCHANGED <<drafting, editing>>

(***************************************************************************)
(* Draft page                                                              *)
(***************************************************************************)
\* Mutant: every mount of the draft page writes the skeleton.
DraftCardAnew(d) ==
  /\ page[d] \in {"library", "draft"}
  /\ Holds(d, Blank, NoCard) /\ Marks(d, TRUE, NoCard) /\ Answered(d, "draft")
  /\ UNCHANGED <<library, texts>>

Skeleton(d) == IF drafting[d] THEN UNCHANGED <<preset, copyOf>> ELSE Holds(d, Blank, NoCard)

\* draftCard threw: before it wrote, in the skeleton, or behind the draft marker.
\* The mounted page stays.
DraftThrows(d) ==
  /\ deskFaults < MaxDeskFaults /\ deskFaults' = deskFaults + 1
  /\ page' = [page EXCEPT ![d] = "draft"]
  /\ asked' = [asked EXCEPT ![d] = FALSE] /\ lame' = [lame EXCEPT ![d] = TRUE]
  /\ \/ UNCHANGED <<preset, copyOf, drafting, editing>>
     \/ Skeleton(d) /\ UNCHANGED <<drafting, editing>>
     \/ Skeleton(d) /\ Marks(d, TRUE, editing[d])

\* draftCard, called whenever the draft page mounts: the skeleton only on the
\* first entry, the markers always.
DraftCard(d) ==
  /\ page[d] \in {"library", "draft"}
  /\ \/ Skeleton(d) /\ Marks(d, TRUE, NoCard) /\ Answered(d, "draft")
     \/ DraftThrows(d)
  /\ UNCHANGED <<library, texts>>

\* publishWorkspaceCard under a name nobody has, then the draft marker goes.  Also
\* what the workspace page does after a failed publish took the edit marker away.
PublishDraft(d, c) ==
  /\ page[d] \in {"draft", "workspace"} /\ editing[d] = NoCard /\ preset[d] # Blank /\ HasCard(d)
  /\ library[c] = NoDir
  /\ \/ /\ Shelves(c, preset[d]) /\ Marks(d, FALSE, NoCard) /\ Answered(d, "chat")
        /\ copyOf' = [copyOf EXCEPT ![d] = c]
     \/ /\ \E left \in {Gone, Torn, preset[d]} : Shelves(c, left)
        /\ Thrown(d) /\ UNCHANGED <<copyOf, drafting, editing>>
  /\ UNCHANGED <<preset, texts>>

\* publishCard refuses a blank card, saveEdit a desk without an edit marker.
Refused(d) ==
  /\ \/ page[d] \in {"draft", "workspace"} /\ preset[d] = Blank
     \/ page[d] = "workspace" /\ editing[d] = NoCard
  /\ Rejected(d)
  /\ UNCHANGED <<library, preset, copyOf, drafting, editing, texts, deskFaults>>

\* cancelDraft: wipe, then the draft marker; the edit marker is not its business.
CancelDraft(d) ==
  /\ page[d] = "draft"
  /\ Holds(d, Gone, NoCard)
  /\ \/ Marks(d, FALSE, editing[d]) /\ Answered(d, "library")
     \/ WipeFails /\ Thrown(d) /\ UNCHANGED <<drafting, editing>>
  /\ UNCHANGED <<library, texts>>

(***************************************************************************)
(* Workspace page: the card named in the edit marker is being edited       *)
(***************************************************************************)
\* publishIntoLibraryCard: the card's preset/ is removed, then copied anew.
Replaces(d, c) == Shelves(c, preset[d])
HalfReplaces(c) == \E left \in {Gone, Torn} : Shelves(c, left)

\* saveEdit, and the marker stays.
SaveEdit(d, c) ==
  /\ page[d] = "workspace" /\ editing[d] = c
  /\ \/ Listed(c) /\ Replaces(d, c) /\ Answered(d, "workspace")
     \/ Listed(c) /\ HalfReplaces(c) /\ Thrown(d)
     \/ ~Listed(c) /\ Rejected(d) /\ UNCHANGED <<library, deskFaults>>
  /\ UNCHANGED <<preset, copyOf, drafting, editing, texts>>

\* publishCard of an edit: both markers go first, whatever the copy does then.
\* The tab goes on to reset and to the chat.
PublishEdit(d, c) ==
  /\ page[d] \in {"draft", "workspace"} /\ editing[d] = c /\ preset[d] # Blank
  /\ Marks(d, FALSE, NoCard)
  /\ \/ Listed(c) /\ Replaces(d, c) /\ Answered(d, "chat")
     \/ Listed(c) /\ HalfReplaces(c) /\ Thrown(d)
     \/ ~Listed(c) /\ Rejected(d) /\ UNCHANGED <<library, deskFaults>>
  /\ UNCHANGED <<preset, copyOf, texts>>

\* editDirty: compare with the library.  A clean answer leaves at once; a dirty
\* one asks the author, see Discard.
EditDirty(d) == library[editing[d]] # preset[d]

RequestBack(d) ==
  /\ page[d] = "workspace" /\ editing[d] # NoCard /\ ~EditDirty(d)
  /\ asked' = [asked EXCEPT ![d] = TRUE]
  /\ UNCHANGED <<library, preset, copyOf, drafting, editing, page, lame, texts, deskFaults>>

\* Mutants: the card stays, the bug of 2026-09-22; the edit marker stays.
CancelKeepsCard(d) ==
  /\ Marks(d, FALSE, NoCard) /\ Answered(d, "library")
  /\ UNCHANGED <<library, preset, copyOf, texts>>

CancelKeepsMarker(d) ==
  /\ Holds(d, Gone, NoCard) /\ Marks(d, FALSE, editing[d]) /\ Answered(d, "library")
  /\ UNCHANGED <<library, texts>>

\* cancelEdit: wipe the workspace, then both markers.
CancelEdit(d) ==
  /\ Holds(d, Gone, NoCard)
  /\ \/ Marks(d, FALSE, NoCard) /\ Answered(d, "library")
     \/ WipeFails /\ Thrown(d) /\ UNCHANGED <<drafting, editing>>
  /\ UNCHANGED <<library, texts>>

LeaveClean(d) == asked[d] /\ CancelEdit(d)

\* The author is asked (also when editDirty threw) and discards; "save" instead
\* is SaveEdit, then RequestBack.
Discard(d) ==
  /\ page[d] = "workspace"
  /\ editing[d] # NoCard => EditDirty(d)
  /\ CancelEdit(d)

(***************************************************************************)
(* Any page                                                                *)
(***************************************************************************)
\* The editor's save-on-blur or the writer agent writes into preset/.
WriteText(d) ==
  /\ page[d] \in {"draft", "workspace", "chat"} /\ HasCard(d)
  /\ texts < MaxTexts /\ texts' = texts + 1
  /\ preset' = [preset EXCEPT ![d] = IF @ = Torn THEN Torn ELSE texts + 1]
  /\ UNCHANGED <<library, copyOf, drafting, editing, page, asked, lame, deskFaults>>

\* The tab is reloaded, or leaves the session and comes back.
Reload(d) ==
  /\ page' = [page EXCEPT ![d] = Route(d)]
  /\ asked' = [asked EXCEPT ![d] = FALSE]
  /\ UNCHANGED <<library, preset, copyOf, drafting, editing, lame, texts, deskFaults>>

DeskNext ==
  \E d \in Desks :
    \/ \E c \in Cards :
         \/ ImportFromLibrary(d, c) \/ EditFromLibrary(d, c) \/ DeleteCard(d, c)
         \/ CommitImport(d, c) \/ PublishDraft(d, c)
         \/ SaveEdit(d, c) \/ PublishEdit(d, c)
    \/ Preview(d) \/ DraftCard(d) \/ Refused(d) \/ CancelDraft(d)
    \/ RequestBack(d) \/ LeaveClean(d) \/ Discard(d)
    \/ WriteText(d) \/ Reload(d)

DeskSpec == DeskInit /\ [][DeskNext]_deskVars

(***************************************************************************)
(* Properties                                                              *)
(***************************************************************************)
\* Saving and publishing an edit replace the library card the workspace was
\* loaded from and no other, whatever failed before: a stale edit marker would
\* send one card's text into another (the comments in importFromLibrary and
\* draftCard).  A deletion that stops half way is no save; a name that is deleted and
\* created anew counts as the same card.
SavesReachTheirCard ==
  [][\A c \in Cards :
       Listed(c) /\ library'[c] # library[c] /\ ~(\E d \in Desks : DeleteCard(d, c)) =>
         \E d \in Desks : copyOf[d] = c /\ library'[c] \in {preset[d], Gone, Torn}]_deskVars

\* A reload of the tab opens the page the author is on, unless the last call of
\* this desk threw: the markers and the card in the workspace tell a draft, an
\* edit, a game and the library apart (cancelEdit's comment tells of the day
\* they did not).
ReloadKeepsPage ==
  \A d \in Desks :
    ~lame[d] => Route(d) = IF page[d] = "preview" THEN "library" ELSE page[d]

\* What the author or the writer agent wrote into a draft survives every
\* re-entry of the draft page, reload, refused or failing publish: only giving
\* up the draft, writing and publishing change it (draftCard's comment).
DraftSurvives ==
  [][\A d \in Desks :
       drafting[d] /\ preset[d] \in Written =>
         preset'[d] \in {preset[d], Gone} \cup (texts + 1)..MaxTexts
         /\ (preset'[d] = Gone => page[d] = "draft" /\ page'[d] = "library")]_deskVars
=============================================================================
