------------------------------ MODULE JobPages ------------------------------
(***************************************************************************)
(* The pages that watch jobs: the list (app/jobs/page.tsx) with its form,  *)
(* one job's page (app/jobs/[id]/page.tsx) with its cancel dialog, and the *)
(* bell of the navigation bar (NotificationCenter.tsx).  Each asks again   *)
(* and again; questions overlap, fail and are answered in any order, and a *)
(* question may consist of several requests.                               *)
(*                                                                         *)
(* The server is JobRecord: workers and sweeps move the rows in any way it *)
(* allows, and the pages' own POSTs submit and cancel.  An action is a     *)
(* tick of an interval, a click, one request served, or one answer.        *)
(***************************************************************************)
EXTENDS Naturals, FiniteSets

CONSTANTS
    Jobs, Runs, NoRun,  \* as in JobRecord
    MaxAsked,           \* bound: questions under way at once
    MaxVisits,          \* bound: times the user goes to another page
    MaxFails            \* bound: requests that fail

ASSUME PagesAssumption == MaxAsked \in Nat /\ MaxVisits \in Nat /\ MaxFails \in Nat

VARIABLES
    \* the server
    status, container, notified, committed,     \* JobRecord
    whole,      \* whether the job's log and checkpoints in the bucket are complete
    read,       \* notifications with a read_at
    \* the page
    route, here,    \* list or detail, and params.id
    shown,          \* the statuses shown; "none" is not shown
    files,          \* detail: whether the log and checkpoints shown are complete
    confirm,        \* detail: the cancel dialog is open
    form,           \* list: closed, open or submitting
    bell,           \* the unread notifications the bell shows
    \* questions
    asked,          \* those under way
    \* history
    visits, fails,  \* so far
    straddled       \* a question had read the artifacts, and not yet the job, as it ended

Server == INSTANCE JobRecord

record == <<status, container, notified, committed>>
server == <<record, whole, read>>
detail == <<here, files, confirm>>
page == <<route, shown, detail, form, bell>>
history == <<visits, fails, straddled>>
vars == <<server, page, asked, history>>

Live == {"queued", "running"}
Terminal == {"succeeded", "failed", "cancelled"}
Statuses == {"none"} \cup Live \cup Terminal
Notices == Jobs \X {"running", "succeeded", "failed"}
All == {n \in Notices : n[2] \in notified[n[1]]}
Unread == All \ read

\* The requests that make up each question; a POST has an effect.  The log and
\* the checkpoints are asked for side by side with the job, and are one here.
Parts == [list |-> {"job"}, detail |-> {"job", "files"}, bell |-> {"items"},
          create |-> {"post"}, cancel |-> {"post"}, read |-> {"post"}, readall |-> {"post"}]
Kinds == DOMAIN Parts
Polls == {"list", "detail", "bell"}

\* A question: its kind, the requests still out, whether the page that asked is
\* still there (live), whether the form or the click that asked waits for it
\* (awaited), what it is about, and what has been answered so far.
Unseen == [j \in Jobs |-> "none"]
Ask(kind) == [kind |-> kind, left |-> Parts[kind], live |-> TRUE,
              awaited |-> FALSE, ok |-> TRUE, about |-> {},
              job |-> Unseen, files |-> FALSE, bell |-> {}]
Open(kind) == {q \in asked : q.kind = kind /\ q.live}

\* The shape of the state.  What is shown was once true: a page shows only
\* statuses that were committed, the bell only what was told; and the form
\* waits exactly while its submission is out.
TypeOK ==
    /\ route \in {"list", "detail"} /\ here \in Jobs
    /\ \A j \in Jobs : shown[j] \in {"none"} \cup committed[j]
    /\ files \in BOOLEAN /\ confirm \in BOOLEAN
    /\ form \in {"closed", "open", "submitting"}
    /\ form = "submitting" <=> \E q \in Open("create") : q.awaited
    /\ bell \subseteq All
    /\ straddled \in BOOLEAN
    /\ Cardinality(asked) <= MaxAsked
    /\ \A q \in asked : /\ q.kind \in Kinds /\ q.left \subseteq Parts[q.kind]
                        /\ q.live /\ q.kind \in {"list", "detail"} => q.kind = route
    /\ visits \in 0..MaxVisits /\ fails \in 0..MaxFails

Init ==
    /\ Server!RecordInit
    /\ whole = [j \in Jobs |-> FALSE] /\ read = {}
    /\ route = "list" /\ here \in Jobs
    /\ shown = Unseen /\ files = FALSE
    /\ confirm = FALSE /\ form = "closed"
    /\ bell = {}
    /\ asked = {}
    /\ visits = 0 /\ fails = 0 /\ straddled = FALSE

---------------------------------------------------------------------------
(* The server's own steps.                                                 *)

Straddles(j) ==
    \E q \in Open("detail") : here = j /\ "job" \in q.left /\ q.left # Parts.detail

\* The worker and the sweep; a run's artifacts are complete before it ends.
\* Bounds: an end is not revised (a page that has stopped asking would not see
\* it), and the owner is told once, of the start or of the end.
Background(j) ==
    /\ \/ notified[j] = {} /\ Server!Told(j) /\ UNCHANGED <<whole, straddled>>
       \/ status[j] = "queued" /\ Server!Started(j) /\ UNCHANGED <<whole, straddled>>
       \/ /\ status[j] = "running"
          /\ \/ Server!Tracked(j) /\ UNCHANGED <<whole, straddled>>
             \/ /\ \E s \in Server!Ended : Server!EndedAs(j, s)
                /\ straddled' = (straddled \/ Straddles(j))
                /\ UNCHANGED whole
             \/ /\ container[j] # NoRun
                /\ whole' = [whole EXCEPT ![j] = TRUE]
                /\ UNCHANGED <<record, straddled>>
    /\ UNCHANGED <<read, page, asked, visits, fails>>

---------------------------------------------------------------------------
(* Asking.                                                                 *)

Sends(q) == Cardinality(asked) < MaxAsked /\ asked' = asked \cup {q}

\* The list asks on mount, every 3 s, and after a submission.
ListTick ==
    /\ route = "list"
    /\ Sends(Ask("list"))
    /\ UNCHANGED <<server, page, history>>

\* Mutation: a page whose first question failed does not ask again.
DetailTickIfLoaded ==
    /\ route = "detail" /\ shown[here] \in Live
    /\ Sends(Ask("detail"))
    /\ UNCHANGED <<server, page, history>>

\* One job's page asks until it shows a final status, loaded or not.
DetailTick ==
    /\ route = "detail" /\ shown[here] \notin Terminal
    /\ Sends(Ask("detail"))
    /\ UNCHANGED <<server, page, history>>

\* The bell asks on mount, when it is opened, and every 20 s in a tab that is
\* looked at; in one that is not, it need not.
BellTick ==
    /\ Sends(Ask("bell"))
    /\ UNCHANGED <<server, page, history>>

---------------------------------------------------------------------------
(* Going elsewhere.                                                        *)

\* A submission outlives its form, and has none to come back to.
FormGone(qs) == {[q EXCEPT !.awaited = @ /\ q.kind # "create"] : q \in qs}

\* Every page is mounted anew, the bell with it.  Polls of the old one change
\* nothing any more; POSTs still do what they do at the server, and a bell
\* question that a click awaits still takes the user to its job.
Mount(to, j, qs) ==
    /\ route' = to /\ here' = j
    /\ shown' = Unseen /\ files' = FALSE
    /\ confirm' = FALSE /\ form' = "closed"
    /\ bell' = {}
    /\ asked' = {[q EXCEPT !.live = FALSE] : q \in {r \in FormGone(qs) : r.kind \notin Polls \/ r.awaited}}

\* A link, the back button, or a notification that is read already.
Visit ==
    /\ visits < MaxVisits /\ visits' = visits + 1
    /\ \/ route = "detail" /\ Mount("list", here, asked)
       \/ \E j \in Jobs : (shown[j] # "none" \/ notified[j] # {}) /\ Mount("detail", j, asked)
    /\ UNCHANGED <<server, fails, straddled>>

---------------------------------------------------------------------------
(* The controls.                                                           *)

\* "New job" and "Cancel"; the form may be closed while it submits.
ToggleForm ==
    /\ route = "list"
    /\ form' = IF form = "closed" THEN "open" ELSE "closed"
    /\ asked' = FormGone(asked)
    /\ UNCHANGED <<server, route, shown, detail, bell, history>>

\* JobForm; its button is disabled while it submits.
JobForm ==
    /\ route = "list" /\ form = "open"
    /\ Sends([Ask("create") EXCEPT !.awaited = TRUE]) /\ form' = "submitting"
    /\ UNCHANGED <<server, route, shown, detail, bell, history>>

CancelButton ==
    /\ route = "detail" /\ shown[here] \in Live
    /\ confirm' = TRUE
    /\ UNCHANGED <<server, route, shown, here, files, form, bell, asked, history>>

\* Escape, the backdrop and "Cancel" close it; "Cancel job" stays enabled while
\* its request is out.
ConfirmDialog ==
    /\ confirm
    /\ \/ confirm' = FALSE /\ UNCHANGED asked
       \/ Sends([Ask("cancel") EXCEPT !.about = {here}]) /\ UNCHANGED confirm
    /\ UNCHANGED <<server, route, shown, here, files, form, bell, history>>

\* An unread notification is marked, and only then is its job shown.
HandleSelect ==
    /\ visits < MaxVisits /\ visits' = visits + 1
    /\ \E n \in bell : Sends([Ask("read") EXCEPT !.about = {n}, !.awaited = TRUE])
    /\ UNCHANGED <<server, page, fails, straddled>>

HandleMarkAllRead ==
    /\ bell # {}
    /\ Sends(Ask("readall"))
    /\ UNCHANGED <<server, page, history>>

BellControls == HandleSelect \/ HandleMarkAllRead

---------------------------------------------------------------------------
(* Serving.                                                                *)

Replace(q, r) == asked' = (asked \ {q}) \cup {r}
Settled(q) == asked' = asked \ {q}
Served(q, part, r) == Replace(q, [r EXCEPT !.left = @ \ {part}])

ServeJob(q) ==
    /\ "job" \in q.left
    /\ Served(q, "job", [q EXCEPT !.job = status])
    /\ UNCHANGED <<server, page, history>>

ServeFiles(q) ==
    /\ "files" \in q.left
    /\ Served(q, "files", [q EXCEPT !.files = whole[here]])
    /\ UNCHANGED <<server, page, history>>

\* list_notifications; the rows and their count are two selects, one here.
ServeBell(q) ==
    /\ "items" \in q.left
    /\ Served(q, "items", [q EXCEPT !.bell = Unread])
    /\ UNCHANGED <<server, page, history>>

\* create_job makes a row, if the bound leaves one to make.
ServeCreate(q) ==
    /\ \/ \E j \in Jobs : Server!Submitted(j)
       \/ (\A j \in Jobs : status[j] # "none") /\ UNCHANGED record
    /\ Served(q, "post", q)
    /\ UNCHANGED <<whole, read, straddled>>

\* cancel_job refuses a job that has ended.
ServeCancel(q) ==
    /\ \E j \in q.about :
         IF status[j] \in Live
         THEN /\ Server!Cancelled(j)
              /\ straddled' = (straddled \/ Straddles(j))
              /\ Served(q, "post", q)
         ELSE /\ Served(q, "post", [q EXCEPT !.ok = FALSE])
              /\ UNCHANGED <<record, straddled>>
    /\ UNCHANGED <<whole, read>>

ServeRead(q) ==
    /\ read' = read \cup (IF q.kind = "read" THEN q.about ELSE Unread)
    /\ Served(q, "post", q)
    /\ UNCHANGED <<record, whole, straddled>>

ServePost(q) ==
    /\ q.left = {"post"}
    /\ \/ q.kind = "create" /\ ServeCreate(q)
       \/ q.kind = "cancel" /\ ServeCancel(q)
       \/ q.kind \in {"read", "readall"} /\ ServeRead(q)
    /\ UNCHANGED <<page, visits, fails>>

Serve(q) == ServeJob(q) \/ ServeFiles(q) \/ ServeBell(q) \/ ServePost(q)

\* A request fails before or after it was served, and its question with it.
RequestFails(q) ==
    /\ q.ok
    /\ fails < MaxFails /\ fails' = fails + 1
    /\ Replace(q, [Ask(q.kind) EXCEPT !.left = {}, !.ok = FALSE, !.live = q.live,
                                      !.awaited = q.awaited, !.about = q.about])
    /\ UNCHANGED <<server, page, visits, straddled>>

---------------------------------------------------------------------------
(* Answers.                                                                *)

\* A question that a remount has overtaken has nobody to show it to.
ListAnswered(q) ==
    /\ q.kind = "list" /\ q.left = {} /\ q.ok
    /\ shown' = q.job
    /\ Settled(q)
    /\ UNCHANGED <<server, route, detail, form, bell, history>>

ShowDetail(q) ==
    /\ shown' = [Unseen EXCEPT ![here] = q.job[here]]
    /\ files' = q.files
    /\ Settled(q)
    /\ UNCHANGED <<server, route, here, confirm, form, bell, history>>

\* Mutation: the job is shown as soon as it is there, whatever it came with.
ShowsJobAtOnce(q) ==
    q.kind = "detail" /\ "job" \notin q.left /\ q.ok /\ ShowDetail(q)

\* Promise.all: the answers are shown together.
DetailAnswered(q) ==
    q.kind = "detail" /\ q.left = {} /\ q.ok /\ ShowDetail(q)

\* Wherever the click was made, the user is taken to the job.
Push(q) == \E n \in q.about : Mount("detail", n[1], asked \ {q})

\* The bell keeps what it shows when its question failed.
BellAnswered(q) ==
    /\ q.kind = "bell" /\ q.left = {}
    /\ IF q.awaited
       THEN Push(q)
       ELSE /\ bell' = IF q.ok /\ q.live THEN q.bell ELSE bell
            /\ Settled(q)
            /\ UNCHANGED <<route, shown, detail, form>>
    /\ UNCHANGED <<server, history>>

PollFailed(q) ==
    /\ q.kind \in {"list", "detail"} /\ ~q.ok
    /\ Settled(q)
    /\ UNCHANGED <<server, page, history>>

\* Mutation: the failure reopens the form, whoever it is of by now.
CreateReopens(q) ==
    /\ q.kind = "create" /\ q.left = {}
    /\ IF q.ok /\ q.live
       THEN form' = "closed" /\ asked' = FormGone(asked \ {q}) \cup {Ask("list")}
       ELSE form' = (IF q.live THEN "open" ELSE form) /\ Settled(q)
    /\ UNCHANGED <<server, route, shown, detail, bell, history>>

\* onCreated closes whatever form is open by then, and asks for the list, as
\* long as the list is there; a failure is shown in the form that submitted.
CreateAnswered(q) ==
    /\ q.kind = "create" /\ q.left = {}
    /\ IF q.ok /\ q.live
       THEN form' = "closed" /\ asked' = FormGone(asked \ {q}) \cup {Ask("list")}
       ELSE form' = (IF q.live /\ q.awaited THEN "open" ELSE form) /\ Settled(q)
    /\ UNCHANGED <<server, route, shown, detail, bell, history>>

HandleCancel(q) ==
    /\ q.kind = "cancel" /\ q.left = {}
    /\ confirm' = (confirm /\ ~q.live)
    /\ IF q.ok /\ q.live THEN Replace(q, Ask("detail")) ELSE Settled(q)
    /\ UNCHANGED <<server, route, shown, here, files, form, bell, history>>

\* The bell asks again; a receipt that failed does not keep the user from the job.
MarkAnswered(q) ==
    /\ q.kind \in {"read", "readall"} /\ q.left = {}
    /\ \/ /\ q.ok
          /\ Replace(q, [Ask("bell") EXCEPT !.awaited = q.awaited, !.about = q.about, !.live = q.live])
          /\ UNCHANGED page
       \/ ~q.ok /\ q.awaited /\ Push(q)
       \/ ~q.ok /\ ~q.awaited /\ Settled(q) /\ UNCHANGED page
    /\ UNCHANGED <<server, history>>

Answer(q) ==
    ListAnswered(q) \/ DetailAnswered(q) \/ BellAnswered(q) \/ PollFailed(q)
      \/ CreateAnswered(q) \/ HandleCancel(q) \/ MarkAnswered(q)

---------------------------------------------------------------------------

\* The pages: their intervals and controls.  Progress, styles and the links that
\* open a checkpoint change nothing here.
JobsPage == ListTick \/ ToggleForm \/ JobForm
JobDetailPage == DetailTick \/ CancelButton \/ ConfirmDialog
NotificationCenter == BellTick \/ BellControls

Next ==
    \/ \E j \in Jobs : Background(j)
    \/ JobsPage \/ JobDetailPage \/ NotificationCenter \/ Visit
    \/ \E q \in asked : Serve(q) \/ Answer(q) \/ RequestFails(q)

Spec == Init /\ [][Next]_vars

\* Intervals fire, requests are served and answered.  Ticks compete for the
\* bound, hence SF; the list's may rest, as no property is about it.
FairSpec ==
    /\ Spec
    /\ SF_vars(DetailTick) /\ SF_vars(BellTick)
    /\ WF_vars(\E q \in asked : ServeJob(q))
    /\ WF_vars(\E q \in asked : ServeFiles(q))
    /\ WF_vars(\E q \in asked : ServeBell(q))
    /\ WF_vars(\E q \in asked : ServePost(q))
    /\ \A kinds \in {{"list", "detail"}, {"bell"}, Kinds \ Polls} :
         WF_vars(\E q \in asked : q.kind \in kinds /\ Answer(q))

---------------------------------------------------------------------------
(* Properties.                                                             *)

\* A page that shows how the job ended and has stopped asking shows the complete
\* log and checkpoints with it, though answers overtake each other.  It needs
\* that no question straddled the end: its three requests are separate, and one
\* that reads the log before the end and the job after it is the last
\* (jobs/[id]/page.tsx:36, 65).
EndIsWhole ==
    route = "detail" /\ shown[here] \in Terminal /\ Open("detail") = {}
      /\ ~straddled
    => files = whole[here]

\* An open page comes to show how its job ended, whatever failed or overtook
\* what; and the bell comes to count what the owner has not read.
PagesCatchUp ==
    /\ \A j \in Jobs :
         route = "detail" /\ here = j /\ status[j] \in Terminal
           ~> route # "detail" \/ here # j \/ shown[j] = status[j]
    /\ Unread # {} ~> bell # {} \/ Unread = {}
=============================================================================
