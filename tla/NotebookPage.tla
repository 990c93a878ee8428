---------------------------- MODULE NotebookPage ----------------------------
(***************************************************************************)
(* The notebook editor (frontend/src/app/notebooks/[id]/page.tsx): cells   *)
(* and title in the page, a save that waits out one second of typing, the  *)
(* flush that export and "run as job" do first, and the notebooks row they *)
(* all write.  Requests are answered in any order, are refused, or lose    *)
(* their answers; the page may be left at any time.                        *)
(*                                                                         *)
(* An action is one callback of the page, one step of update_notebook      *)
(* between awaits, or one answer.  A cell's rev stands for everything      *)
(* updateCell may replace (source, outputs, execution count); 0 is the     *)
(* empty source of newCell.                                                *)
(***************************************************************************)
EXTENDS Naturals, FiniteSets, SequencesExt

CONSTANTS
    Autos,      \* debounced saves in flight, one each
    MaxSaves,   \* bound: saves of any kind in flight at once
    MaxEdits    \* bound: edits of the user and of running cells

ASSUME EditorAssumption ==
    /\ Autos # {} /\ Autos \cap {"export", "job"} = {}
    /\ MaxEdits \in Nat /\ MaxSaves \in Nat \ {0}

\* crypto.randomUUID() never repeats: two cells of an earlier visit, the one an
\* empty notebook is opened with, and one per edit that adds one.
Opened == 3
CellIds == 1..(Opened + MaxEdits)

Flushes == {"export", "job"}        \* one flush each: its button is disabled meanwhile
Saves == Autos \cup Flushes
Kinds == {"code", "markdown"}
SaveStates == {"none", "sent", "read", "written"}
FlowPcs == {"idle", "flushing", "flushed"}

VARIABLES
    \* the page
    page,       \* loading, ready, or left (unmounted)
    title, cells,
    saveStatus,
    timer,      \* whether saveTimer is armed
    flow,       \* exportNotebook and runAsJob: the await each is at
    \* PATCH requests: the body, and what update_notebook loaded
    save,
    \* the server
    stored,     \* notebooks.title and notebooks.content
    \* history
    edits,      \* edits so far
    since,      \* the edit the stored row is as of
    wanted,     \* the edit at the click on export
    overlapped  \* whether two saves were ever under way together

pageVars == <<page, title, cells, saveStatus, timer>>
history == <<edits, since, wanted, overlapped>>
vars == <<pageVars, flow, save, stored, history>>

Cell == [id : CellIds, kind : Kinds, rev : 0..MaxEdits]
Doc(t, cs) == [title |-> t, cells |-> cs]
Shown == Doc(title, cells)
Ids(cs) == {cs[i].id : i \in DOMAIN cs}
NoDoc == Doc(0, <<>>)

Docs == [title : 0..MaxEdits, cells : Seq(Cell)]
SaveRecords == [st : SaveStates, body : Docs, edit : 0..MaxEdits,
                dirty : SUBSET {"title", "content"}]

UniqueIds(cs) == \A i, k \in DOMAIN cs : cs[i].id = cs[k].id => i = k
IsDoc(d) == d \in Docs /\ UniqueIds(d.cells)

\* No reordering loses or doubles a cell: ids stay unique in the page, in every
\* request and in the row.
TypeOK ==
    /\ page \in {"loading", "ready", "left"}
    /\ IsDoc(Shown)
    /\ saveStatus \in {"saved", "saving", "unsaved"}
    /\ timer \in BOOLEAN
    /\ flow \in [Flushes -> FlowPcs]
    /\ save \in [Saves -> SaveRecords]
    /\ \A s \in Saves : UniqueIds(save[s].body.cells)
    /\ IsDoc(stored)
    /\ edits \in 0..MaxEdits /\ since \in 0..MaxEdits /\ wanted \in 0..MaxEdits
    /\ overlapped \in BOOLEAN

NoSave == [st |-> "none", body |-> NoDoc, edit |-> 0, dirty |-> {}]
NewCell(id, kind) == [id |-> id, kind |-> kind, rev |-> 0]
InFlight == {s \in Saves : save[s].st # "none"}

\* A new notebook has no cells (models/notebook.py, EMPTY_NOTEBOOK); another has
\* some, written in an earlier visit.
Init ==
    /\ page = "loading"
    /\ title = 0 /\ cells = <<>>
    /\ saveStatus = "saved"
    /\ timer = FALSE
    /\ flow = [f \in Flushes |-> "idle"]
    /\ save = [s \in Saves |-> NoSave]
    /\ \E cs \in {<<>>} \cup {<<NewCell(1, k), NewCell(2, "code")>> : k \in Kinds} :
         stored = Doc(0, cs)
    /\ edits = 0 /\ since = 0 /\ wanted = 0
    /\ overlapped = FALSE

---------------------------------------------------------------------------
(* Loading.  A failed load leaves the page at "Loading...".                *)

Load ==
    /\ page = "loading"
    /\ page' = "ready"
    /\ title' = stored.title
    /\ cells' = IF stored.cells # <<>> THEN stored.cells ELSE <<NewCell(Opened, "code")>>
    /\ UNCHANGED <<saveStatus, timer, flow, save, stored, history>>

---------------------------------------------------------------------------
(* Editing.                                                                *)

Rev == edits + 1

ScheduleSave ==
    /\ saveStatus' = "unsaved"
    /\ timer' = TRUE

\* What an edit has in common with the others: it counts, and schedules a save.
Edit ==
    /\ page = "ready"
    /\ edits < MaxEdits
    /\ edits' = edits + 1
    /\ ScheduleSave
    /\ UNCHANGED <<page, flow, save, stored, since, wanted, overlapped>>

\* A run's late output may name a cell that was deleted: nothing changes, and a
\* save is scheduled all the same.
UpdateCell(id) ==
    /\ cells' = [i \in DOMAIN cells |->
                   IF cells[i].id = id THEN [cells[i] EXCEPT !.rev = Rev] ELSE cells[i]]
    /\ UNCHANGED title
    /\ Edit

HandleTitleChange ==
    /\ title' = Rev
    /\ UNCHANGED cells
    /\ Edit

AddCell(kind) ==
    /\ cells' = Append(cells, NewCell(Opened + Rev, kind))
    /\ UNCHANGED title
    /\ Edit

IndexOf(id) == CHOOSE i \in DOMAIN cells : cells[i].id = id

\* Mutation: the deletion is left to the next save.
DeleteUnsaved(id) ==
    /\ page = "ready" /\ edits < MaxEdits
    /\ id \in Ids(cells)
    /\ cells' = RemoveAt(cells, IndexOf(id))
    /\ edits' = edits + 1
    /\ UNCHANGED <<page, title, saveStatus, timer, flow, save, stored, since, wanted,
                   overlapped>>

\* The filter drops one cell: ids are unique.
DeleteCell(id) ==
    /\ id \in Ids(cells)
    /\ cells' = RemoveAt(cells, IndexOf(id))
    /\ UNCHANGED title
    /\ Edit

\* Mutation: the neighbour is overwritten instead of swapped.
MoveOverwrites(id, direction) ==
    /\ id \in Ids(cells)
    /\ LET i == IndexOf(id)
           target == IF direction = "up" THEN i - 1 ELSE i + 1
       IN IF target \in DOMAIN cells
          THEN cells' = [cells EXCEPT ![target] = cells[i]]
          ELSE UNCHANGED cells
    /\ UNCHANGED title
    /\ Edit

\* At either end the cells stay as they are, and a save is scheduled.
MoveCell(id, direction) ==
    /\ id \in Ids(cells)
    /\ LET i == IndexOf(id)
           target == IF direction = "up" THEN i - 1 ELSE i + 1
       IN IF target \in DOMAIN cells
          THEN cells' = [cells EXCEPT ![i] = cells[target], ![target] = cells[i]]
          ELSE UNCHANGED cells
    /\ UNCHANGED title
    /\ Edit

HandleDragEnd(active, over) ==
    /\ active # over
    /\ {active, over} \subseteq Ids(cells)
    /\ cells' = InsertAt(RemoveAt(cells, IndexOf(active)), IndexOf(over), cells[IndexOf(active)])
    /\ UNCHANGED title
    /\ Edit

\* Shift+Enter: past the last cell there is a new one; elsewhere nothing happens.
AdvanceFrom(id) ==
    /\ id \in Ids(cells)
    /\ IndexOf(id) = Len(cells)
    /\ AddCell("code")

---------------------------------------------------------------------------
(* Saving.                                                                 *)

\* notebooksApi.update with the given title and cells.
Send(s) ==
    /\ save[s].st = "none"
    /\ Cardinality(InFlight) < MaxSaves
    /\ save' = [save EXCEPT ![s] = [NoSave EXCEPT !.st = "sent", !.body = Shown, !.edit = edits]]
    /\ overlapped' = (overlapped \/ InFlight # {})

\* Which slot a debounced save takes makes no difference.
AutoSave == Send(CHOOSE s \in Autos : save[s].st = "none" \/ Autos \subseteq InFlight)

\* The timer's updaters see the cells and the title of that moment.  They are
\* not run for certain once the page is left: React may drop them.
TimerFires ==
    /\ timer
    /\ timer' = FALSE
    /\ \/ /\ page = "ready"
          /\ saveStatus' = "saving"
          /\ AutoSave
       \/ /\ page = "left"
          /\ AutoSave \/ UNCHANGED <<save, overlapped>>
          /\ UNCHANGED saveStatus
    /\ UNCHANGED <<page, title, cells, flow, stored, edits, since, wanted>>

\* Mutation: the pending edit is dropped with the timer.
FlushOnlyCancels(f) ==
    /\ timer' = FALSE
    /\ saveStatus' = "saved"
    /\ flow' = [flow EXCEPT ![f] = "flushed"]
    /\ UNCHANGED <<save, overlapped>>

FlushSave(f) ==
    /\ timer' = FALSE
    /\ saveStatus' = "saving"
    /\ flow' = [flow EXCEPT ![f] = "flushing"]
    /\ Send(f)

\* update_notebook: the row is loaded, then the columns that differ are written.
ServerLoads(s) ==
    /\ save[s].st = "sent"
    /\ save' = [save EXCEPT ![s].st = "read", ![s].dirty =
                   {col \in {"title", "content"} :
                      \/ col = "title" /\ save[s].body.title # stored.title
                      \/ col = "content" /\ save[s].body.cells # stored.cells}]
    /\ UNCHANGED <<pageVars, flow, stored, history>>

ServerWrites(s) ==
    /\ save[s].st = "read"
    /\ stored' = LET new == save[s].body IN
                 Doc(IF "title" \in save[s].dirty THEN new.title ELSE stored.title,
                     IF "content" \in save[s].dirty THEN new.cells ELSE stored.cells)
    /\ save' = [save EXCEPT ![s] = [NoSave EXCEPT !.st = "written"]]
    /\ since' = save[s].edit
    /\ UNCHANGED <<pageVars, flow, edits, wanted, overlapped>>

\* Nothing is shown any more once the page is left.
ShowStatus(x) == saveStatus' = IF page = "left" THEN saveStatus ELSE x

\* flushSave returned or threw: the flow that awaits it goes on or gives up.
FlushReturns(s, pc) == flow' = IF s \in Flushes THEN [flow EXCEPT ![s] = pc] ELSE flow

SaveAnswered(s) ==
    /\ save[s].st = "written"
    /\ save' = [save EXCEPT ![s] = NoSave]
    /\ ShowStatus("saved")
    /\ FlushReturns(s, "flushed")
    /\ UNCHANGED <<page, title, cells, timer, stored, history>>

\* Mutation: an error is shown and the status is left at saved.
SaveErrorIgnored(s) ==
    /\ save[s].st \in {"sent", "written"}
    /\ save' = [save EXCEPT ![s] = NoSave]
    /\ ShowStatus("saved")
    /\ FlushReturns(s, "idle")
    /\ wanted' = IF s = "export" THEN 0 ELSE wanted
    /\ UNCHANGED <<page, title, cells, timer, stored, edits, since, overlapped>>

\* A refusal, or a network error before or after the row was written.
SaveError(s) ==
    /\ save[s].st \in {"sent", "written"}
    /\ save' = [save EXCEPT ![s] = NoSave]
    /\ ShowStatus("unsaved")
    /\ FlushReturns(s, "idle")
    /\ wanted' = IF s = "export" THEN 0 ELSE wanted
    /\ UNCHANGED <<page, title, cells, timer, stored, edits, since, overlapped>>

---------------------------------------------------------------------------
(* Export and run as job.                                                  *)

\* Code cells that may have something in them, in order.
Script(cs) == SelectSeq(cs, LAMBDA c : c.kind = "code" /\ c.rev # 0)

ExportNotebook ==
    /\ page = "ready"
    /\ flow["export"] = "idle"
    /\ FlushSave("export")
    /\ wanted' = edits
    /\ UNCHANGED <<page, title, cells, stored, edits, since>>

RunAsJob ==
    /\ page = "ready"
    /\ flow["job"] = "idle"
    /\ Script(cells) # <<>>
    /\ FlushSave("job")
    /\ UNCHANGED <<page, title, cells, stored, edits, since, wanted>>

\* POST .../export: export_to_bucket writes what the row holds, or fails.
ServerExports ==
    /\ flow["export"] = "flushed"
    /\ flow' = [flow EXCEPT !["export"] = "idle"]
    /\ wanted' = 0
    /\ UNCHANGED <<pageVars, save, stored, edits, since, overlapped>>

\* POST /jobs with the script taken at the click, whatever has been edited since,
\* or it fails; JobLifecycle's CreateJob is the other side.
ServerCreatesJob ==
    /\ flow["job"] = "flushed"
    /\ flow' = [flow EXCEPT !["job"] = "idle"]
    /\ UNCHANGED <<pageVars, save, stored, history>>

\* Unmounting clears no timer and aborts no request.
Leave ==
    /\ page = "ready"
    /\ page' = "left"
    /\ UNCHANGED <<title, cells, saveStatus, timer, flow, save, stored, history>>

---------------------------------------------------------------------------

\* The toolbar's controls; export and job are disabled while under way.
Toolbar ==
    \/ HandleTitleChange
    \/ \E kind \in Kinds : AddCell(kind)
    \/ ExportNotebook
    \/ RunAsJob

\* The handle a cell is dragged by.
SortableCell(id) == \E over \in CellIds : HandleDragEnd(id, over)

IsShown(id, kind) == \E i \in DOMAIN cells : cells[i].id = id /\ cells[i].kind = kind

\* Both kinds have an editor, the buttons that move and delete the cell, and
\* Shift+Enter; toggling an output or a preview is layout.
CodeCell(id) ==
    /\ IsShown(id, "code")
    /\ \/ UpdateCell(id) \/ DeleteCell(id) \/ AdvanceFrom(id)
       \/ \E direction \in {"up", "down"} : MoveCell(id, direction)

MarkdownCell(id) ==
    /\ IsShown(id, "markdown")
    /\ \/ UpdateCell(id) \/ DeleteCell(id) \/ AdvanceFrom(id)
       \/ \E direction \in {"up", "down"} : MoveCell(id, direction)

\* The outputs, the count and the error of a run replace fields of the cell it
\* was started for, which may be gone by then; KernelClient has the run.
RunCell == \E id \in CellIds : UpdateCell(id)

CellControls ==
    \/ RunCell
    \/ \E id \in CellIds : SortableCell(id) \/ CodeCell(id) \/ MarkdownCell(id)

Requests(s) ==
    ServerLoads(s) \/ ServerWrites(s) \/ SaveAnswered(s)

Next ==
    \/ Load \/ Toolbar \/ CellControls \/ TimerFires \/ Leave
    \/ \E s \in Saves : Requests(s) \/ SaveError(s)
    \/ ServerExports \/ ServerCreatesJob

Spec == Init /\ [][Next]_vars

\* Timers fire and requests are answered, one way or the other.
FairSpec ==
    /\ Spec
    /\ WF_vars(TimerFires)
    /\ \A s \in Saves : WF_vars(Requests(s))
    /\ WF_vars(ServerExports) /\ WF_vars(ServerCreatesJob)

---------------------------------------------------------------------------
(* Properties.                                                             *)

\* "Saved" with nothing under way is true: the row holds what the page shows
\* (but for the empty cell an empty notebook is opened with), and what is about
\* to be exported is not older than the click (page.tsx:90-93).  It needs that
\* saves never overlapped: the requests carry no version, and an older body
\* that arrives later wins, in part or as a whole.
SavedIsTrue ==
    ~overlapped =>
        /\ flow["export"] = "flushed" => since >= wanted
        /\ page = "ready" /\ saveStatus = "saved" /\ ~timer /\ InFlight = {}
             => stored = Shown \/ edits = 0

\* An edit gets to the server, unless the page says that it did not, is left, or
\* the user goes on editing: the debounce, the flush that cancels it and the
\* answers of earlier saves together lose none.
EditsReachServer ==
    \A n \in 1..MaxEdits :
        page = "ready" /\ edits = n /\ timer
            ~> \/ since >= n
               \/ saveStatus = "unsaved" /\ ~timer
               \/ page # "ready" \/ edits # n
=============================================================================
