------------------------------ MODULE ListPages ------------------------------
(***************************************************************************)
(* The pages that list what the user owns: app/datasets/page.tsx with its  *)
(* import dialog (components/datasets/ImportDialog.tsx), which asks again  *)
(* only while something is being imported, and app/dashboard/page.tsx,     *)
(* the notebooks, which asks once.  Both take a deleted row away before    *)
(* the server has, and put the whole list back when it refuses.            *)
(*                                                                         *)
(* The server is a table of rows and a worker that ends imports;           *)
(* DatasetFiles is how it does.  An action is a click, a tick of the       *)
(* interval, a request served, or an answer.                               *)
(***************************************************************************)
EXTENDS Naturals, FiniteSets

CONSTANTS
    Items,      \* files, or notebooks
    Refs,       \* datasets a catalogue offers
    None,       \* no item, no ref
    MaxAsked,   \* bound: requests under way at once
    MaxActs,    \* bound: changes the user asks for
    MaxFails    \* bound: requests refused, and answers lost

ASSUME ListsAssumption ==
    /\ None \notin Items \cup Refs
    /\ MaxAsked \in Nat \ {0} /\ MaxActs \in Nat /\ MaxFails \in Nat

VARIABLES
    \* the server
    rows,       \* each item's status; "none" before it is made, "deleted" after
    version,    \* history: how often the user's requests have changed a row
    \* the page
    route,      \* datasets, dashboard, or left for a notebook
    shown,      \* the status shown of each item; "none" is not shown
    confirming, \* the item the delete dialog asks about, and the list at that click
    creating,   \* dashboard: the "New notebook" button is disabled
    \* the import dialog, which keeps its state while it is closed
    dialog, searching, results, expanded, loadingFiles, importing,
    \* requests under way
    asked,
    \* history
    known,      \* the latest version the page was told of, or missed an answer about
    muddled,    \* the page shows something it had been told better of, or was never told
    acts, fails \* so far

server == <<rows, version>>
import == <<dialog, searching, results, expanded, loadingFiles, importing>>
page == <<route, shown, confirming, creating, import>>
history == <<known, muddled, acts, fails>>
listsVars == <<server, page, asked, history>>

Statuses == {"importing", "ready", "failed"}
Present(f) == rows[f] \in Statuses
Shown == {f \in Items : shown[f] # "none"}

Collapsed == [ref |-> None, files |-> FALSE]
Nothing == [f \in Items |-> "none"]
NoDialog == [item |-> None, rows |-> Nothing]
Listing == [f \in Items |-> IF Present(f) THEN rows[f] ELSE "none"]
Later(v, w) == IF v < w THEN w ELSE v

\* A request: what it is about, whether it is served and with what success, the
\* version it was served at, the rows it lists or (a deletion) the list to restore
\* and whether that is not the list shown any more.
Ask(kind, about) == [kind |-> kind, about |-> about, served |-> FALSE, ok |-> TRUE,
                     version |-> 0, rows |-> Nothing, stale |-> FALSE]
Deletion(c) == [Ask("delete", c.item) EXCEPT !.rows = c.rows, !.stale = c.rows # shown]
List == Ask("list", None)
Writes == {"upload", "import", "retry", "delete", "create"}
Lookups == {"search", "describe"}
Kinds == Writes \cup Lookups \cup {"list"}
Out(kind) == {q \in asked : q.kind = kind}

\* The shape of the state.  A button is disabled only while what it waits for is
\* out; files are read only for a dataset; and the page knows no future.
ListsTypeOK ==
    /\ rows \in [Items -> Statuses \cup {"none", "deleted"}]
    /\ route \in {"datasets", "dashboard", "left"}
    /\ shown \in [Items -> Statuses \cup {"none"}]
    /\ confirming.item \in Items \cup {None}
    /\ creating => Out("create") # {}
    /\ searching <=> Out("search") # {}
    /\ importing <=> Out("import") # {}
    /\ loadingFiles => Out("describe") # {}
    /\ dialog \in BOOLEAN /\ results \in BOOLEAN
    /\ expanded \in [ref : Refs \cup {None}, files : BOOLEAN]
    /\ \A q \in asked : q.kind \in Kinds
    /\ Cardinality(asked) <= MaxAsked
    /\ known <= version
    /\ muddled \in BOOLEAN /\ acts \in 0..MaxActs /\ fails \in 0..MaxFails

\* The page is mounted and asks; what is there already is of any kind that stays.
ListsInit ==
    /\ \/ route = "datasets" /\ rows \in [Items -> {"ready", "failed", "none"}]
       \/ route = "dashboard" /\ rows \in [Items -> {"ready", "none"}]
    /\ version = 0
    /\ shown = Nothing /\ confirming = NoDialog /\ creating = FALSE
    /\ dialog = FALSE /\ searching = FALSE /\ results = FALSE
    /\ expanded = Collapsed /\ loadingFiles = FALSE /\ importing = FALSE
    /\ asked = {List}
    /\ known = 0 /\ muddled = FALSE /\ acts = 0 /\ fails = 0

---------------------------------------------------------------------------
(* The worker and the interval.                                            *)

ImportEnds(f) ==
    /\ rows[f] = "importing"
    /\ \E s \in {"ready", "failed"} : rows' = [rows EXCEPT ![f] = s]
    /\ UNCHANGED <<version, page, asked, history>>

Sends(q) == Cardinality(asked) < MaxAsked /\ asked' = asked \cup {q}

\* Mutation: the interval lasts only while everything shown is in flight.
PollingAll == route = "datasets" /\ Shown # {} /\ \A f \in Shown : shown[f] = "importing"

Polling == route = "datasets" /\ \E f \in Items : shown[f] = "importing"

Tick ==
    /\ Polling
    /\ Sends(List)
    /\ UNCHANGED <<server, page, history>>

---------------------------------------------------------------------------
(* Clicks.                                                                 *)

\* Either dialog covers the page.
Uncovered == ~dialog /\ confirming = NoDialog

Acts == acts < MaxActs /\ acts' = acts + 1 /\ UNCHANGED <<known, muddled, fails>>

\* One file of a selection or of a drop; the next one of it waits for this one,
\* but not for those of another drop.
UploadOne ==
    /\ route = "datasets" /\ Uncovered
    /\ Acts /\ Sends(Ask("upload", None))
    /\ UNCHANGED <<server, page>>

HandleRetry(f) ==
    /\ route = "datasets" /\ Uncovered /\ shown[f] = "failed"
    /\ Acts /\ Sends(Ask("retry", f))
    /\ UNCHANGED <<server, page>>

AskDelete(f) ==
    /\ Uncovered /\ shown[f] # "none"
    /\ confirming' = [item |-> f, rows |-> shown]
    /\ UNCHANGED <<server, route, shown, creating, import, asked, history>>

\* handleDelete goes on with the list of the rendering it was clicked in.
ConfirmDelete(f) ==
    /\ confirming.item = f /\ confirming' = NoDialog
    /\ \/ UNCHANGED <<shown, asked, history>>
       \/ /\ Acts /\ Sends(Deletion(confirming))
          /\ shown' = [shown EXCEPT ![f] = "none"]
    /\ UNCHANGED <<server, route, creating, import>>

HandleDelete(f) == AskDelete(f) \/ ConfirmDelete(f)

\* The button is disabled meanwhile, the one an empty list shows is not.
HandleCreate ==
    /\ route = "dashboard" /\ Uncovered /\ (~creating \/ Shown = {})
    /\ Acts /\ Sends(Ask("create", None))
    /\ creating' = TRUE
    /\ UNCHANGED <<server, route, shown, confirming, import>>

ToggleDialog ==
    /\ route = "datasets" /\ (dialog \/ Uncovered)
    /\ dialog' = ~dialog
    /\ UNCHANGED <<server, route, shown, confirming, creating, searching, results, expanded,
                   loadingFiles, importing, asked, history>>

HandleSearch ==
    /\ dialog /\ ~searching
    /\ Sends(Ask("search", None))
    /\ searching' = TRUE /\ expanded' = Collapsed
    /\ UNCHANGED <<server, route, shown, confirming, creating, dialog, results, loadingFiles,
                   importing, history>>

\* A direct link names its one file, and is not asked about.
HandleExpand(d) ==
    /\ dialog /\ results
    /\ \/ /\ expanded.ref = d
          /\ expanded' = Collapsed
          /\ UNCHANGED <<loadingFiles, asked>>
       \/ /\ expanded.ref # d
          /\ expanded' = [ref |-> d, files |-> TRUE]
          /\ UNCHANGED <<loadingFiles, asked>>
       \/ /\ expanded.ref # d
          /\ expanded' = [ref |-> d, files |-> FALSE]
          /\ Sends(Ask("describe", d)) /\ loadingFiles' = TRUE
    /\ UNCHANGED <<server, route, shown, confirming, creating, dialog, searching, results,
                   importing, history>>

HandleImport ==
    /\ dialog /\ results /\ ~importing
    /\ expanded.files /\ ~loadingFiles
    /\ Acts /\ Sends(Ask("import", None))
    /\ importing' = TRUE
    /\ UNCHANGED <<server, route, shown, confirming, creating, dialog, searching, results, expanded,
                   loadingFiles>>

---------------------------------------------------------------------------
(* Serving.                                                                *)

Replace(q, r) == asked' = (asked \ {q}) \cup {r}

Becomes(f, s) == rows' = [rows EXCEPT ![f] = s] /\ version' = version + 1

\* A row that is made, if the bound leaves one to make.
Makes(s) == \E f \in Items : rows[f] = "none" /\ Becomes(f, s)

Serve(q) ==
    /\ ~q.served
    /\ \/ q.kind \in {"upload", "create"} /\ Makes("ready")
       \/ q.kind = "import" /\ Makes("importing")
       \/ q.kind = "retry" /\ rows[q.about] = "failed" /\ Becomes(q.about, "importing")
       \/ q.kind = "delete" /\ Present(q.about) /\ Becomes(q.about, "deleted")
       \/ q.kind \notin Writes /\ UNCHANGED server
    /\ Replace(q, [q EXCEPT !.served = TRUE,
                            !.version = IF q.kind \in Lookups THEN 0 ELSE version',
                            !.rows = IF q.kind = "list" THEN Listing ELSE @])
    /\ UNCHANGED <<page, history>>

\* Refused, as it must be when there is no such row (any more) or as it may be
\* for another reason; or served, and the answer lost.
Refuse(q) ==
    /\ q.ok
    /\ \/ fails < MaxFails /\ fails' = fails + 1
       \/ /\ ~q.served /\ UNCHANGED fails
          /\ \/ q.kind = "retry" /\ rows[q.about] # "failed"
             \/ q.kind = "delete" /\ ~Present(q.about)
             \/ q.kind \in {"upload", "import", "create"} /\ \A f \in Items : rows[f] # "none"
    /\ Replace(q, [q EXCEPT !.ok = FALSE])
    /\ UNCHANGED <<server, page, known, muddled, acts>>

---------------------------------------------------------------------------
(* Answers.                                                                *)

Answered(q) == q.served \/ ~q.ok
Lost(q) == ~q.ok /\ (q.served \/ q.kind = "list")
Learns(v) == known' = Later(known, v) /\ UNCHANGED <<acts, fails>>

\* refresh: whatever arrives is shown, in the order of its arrival.
ListAnswered(q) ==
    /\ q.kind = "list" /\ Answered(q)
    /\ asked' = asked \ {q}
    /\ Learns(q.version)
    /\ IF q.ok
       THEN /\ shown' = q.rows
            /\ muddled' = (q.version < known \/ \E r \in Out("delete") : q.rows[r.about] # "none")
       ELSE UNCHANGED shown /\ muddled' = TRUE
    /\ UNCHANGED <<server, route, confirming, creating, import>>

\* What follows an upload, an import or a retry: the list, if it went well.
Refreshes(q) ==
    /\ asked' = (asked \ {q}) \cup (IF q.ok THEN {List} ELSE {})
    /\ Learns(q.version)
    /\ muddled' = (muddled \/ Lost(q))

UploadAnswered(q) ==
    /\ q.kind \in {"upload", "retry"} /\ Answered(q)
    /\ Refreshes(q)
    /\ UNCHANGED <<server, page>>

\* Mutation: the buttons come back only after a success.
ImportKeepsWaiting(q) ==
    /\ q.kind = "import" /\ Answered(q)
    /\ Refreshes(q)
    /\ importing' = ~q.ok /\ dialog' = (dialog /\ ~q.ok)
    /\ UNCHANGED <<server, route, shown, confirming, creating, searching, results, expanded, loadingFiles>>

\* It closes the dialog, be it one the user has opened again meanwhile.
ImportAnswered(q) ==
    /\ q.kind = "import" /\ Answered(q)
    /\ Refreshes(q)
    /\ importing' = FALSE /\ dialog' = (dialog /\ ~q.ok)
    /\ UNCHANGED <<server, route, shown, confirming, creating, searching, results, expanded, loadingFiles>>

\* The list as it was is put back, whatever the page has learned since.
DeleteAnswered(q) ==
    /\ q.kind = "delete" /\ Answered(q)
    /\ asked' = asked \ {q}
    /\ Learns(q.version)
    /\ shown' = IF q.ok THEN shown ELSE q.rows
    /\ muddled' = (\/ muddled
                   \/ Lost(q)
                   \/ ~q.ok /\ (q.stale \/ ~Present(q.about))
                   \/ ~q.ok /\ q.rows # [shown EXCEPT ![q.about] = q.rows[q.about]])
    /\ UNCHANGED <<server, route, confirming, creating, import>>

\* The new notebook is opened; this page and its questions are gone.
CreateAnswered(q) ==
    /\ q.kind = "create" /\ Answered(q)
    /\ creating' = FALSE
    /\ IF q.ok
       THEN route' = "left" /\ asked' = {} /\ shown' = Nothing /\ confirming' = NoDialog
       ELSE asked' = asked \ {q} /\ UNCHANGED <<route, shown, confirming>>
    /\ Learns(q.version)
    /\ muddled' = (muddled \/ Lost(q))
    /\ UNCHANGED <<server, import>>

SearchAnswered(q) ==
    /\ q.kind = "search" /\ Answered(q)
    /\ asked' = asked \ {q}
    /\ searching' = FALSE /\ results' = (results \/ q.ok)
    /\ UNCHANGED <<server, route, shown, confirming, creating, dialog, expanded, loadingFiles,
                   importing, history>>

\* Whichever dataset is expanded by now, this one is, or none when it failed.
DescribeAnswered(q) ==
    /\ q.kind = "describe" /\ Answered(q)
    /\ asked' = asked \ {q}
    /\ loadingFiles' = FALSE
    /\ expanded' = IF q.ok THEN [ref |-> q.about, files |-> TRUE] ELSE Collapsed
    /\ UNCHANGED <<server, route, shown, confirming, creating, dialog, searching, results,
                   importing, history>>

Answer(q) ==
    ListAnswered(q) \/ UploadAnswered(q) \/ ImportAnswered(q) \/ DeleteAnswered(q)
      \/ CreateAnswered(q) \/ SearchAnswered(q) \/ DescribeAnswered(q)

---------------------------------------------------------------------------

\* The pages' controls.  A search narrows what is shown of the list and a download
\* opens a link; neither changes anything here.
DropZone == UploadOne
FileRow(f) == HandleRetry(f) \/ HandleDelete(f)
SearchForm == HandleSearch
ResultRow(d) == HandleExpand(d) \/ (expanded.ref = d /\ HandleImport)
DashboardPage == HandleCreate \/ \E f \in Items : HandleDelete(f)

ListsNext ==
    \/ \E f \in Items : ImportEnds(f) \/ FileRow(f)
    \/ Tick \/ DropZone \/ ToggleDialog \/ DashboardPage
    \/ SearchForm \/ \E d \in Refs : ResultRow(d)
    \/ \E q \in asked : Serve(q) \/ Refuse(q) \/ Answer(q)

ListsSpec == ListsInit /\ [][ListsNext]_listsVars

---------------------------------------------------------------------------
(* Properties.                                                             *)

\* A page at rest, with no request out and no interval running, shows exactly
\* the rows there are: every way in which a row changes brings the page to ask,
\* and a refused deletion comes back.  Three things muddle it for good, and the
\* property is not about them: a list older than what the page already showed or
\* knew (refresh and handleDelete do not order their answers), a refusal that
\* restores a list since changed or a row no longer there, and a lost answer.
AtRestIsTrue ==
    route # "left" /\ asked = {} /\ ~Polling /\ ~muddled => shown = Listing
=============================================================================
