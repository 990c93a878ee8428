--------------------------- MODULE JobPagesProofs ---------------------------
(***************************************************************************)
(* Proofs about JobPages, for any set of jobs, of questions under way and  *)
(* of visits: what the pages show was once true, and a job's page shows    *)
(* the whole of an end that it shows.                                      *)
(*                                                                         *)
(* The argument is about what a question has seen: one that has read the   *)
(* artifacts of an ended job, and has not found it unended, read them      *)
(* whole (Sees), unless it straddled the end.                              *)
(***************************************************************************)
EXTENDS JobPages, FiniteSetTheorems, TLAPS

\* The browser answers to no more questions than the bound allows.
Sized == IsFiniteSet(asked) /\ Cardinality(asked) <= MaxAsked

Told == {"running", "succeeded", "failed"}

\* The rows the pages ask about: every status a job has was committed.
Recorded ==
    /\ status \in [Jobs -> Statuses]
    /\ notified \in [Jobs -> SUBSET Told]
    /\ committed \in [Jobs -> SUBSET Statuses]
    /\ whole \in [Jobs -> BOOLEAN]
    /\ \A j \in Jobs : status[j] \in {"none"} \cup committed[j]

\* What a page shows was once true.
Page ==
    /\ route \in {"list", "detail"} /\ here \in Jobs
    /\ shown \in [Jobs -> Statuses]
    /\ \A j \in Jobs : shown[j] \in {"none"} \cup committed[j]
    /\ files \in BOOLEAN /\ confirm \in BOOLEAN /\ (confirm => route = "detail")
    /\ form \in {"closed", "open", "submitting"}
    /\ bell \subseteq All
    /\ straddled \in BOOLEAN
    /\ visits \in 0..MaxVisits /\ fails \in 0..MaxFails

Questions ==
    [kind : Kinds, left : SUBSET {"job", "files", "items", "post"}, live : BOOLEAN,
     awaited : BOOLEAN, ok : BOOLEAN, about : SUBSET (Jobs \cup Notices),
     job : [Jobs -> Statuses], files : BOOLEAN, bell : SUBSET Notices]

\* A question, and so is its answer.
True(q) ==
    /\ q \in Questions /\ q.left \subseteq Parts[q.kind]
    /\ q.kind \in {"bell", "read", "readall"} => q.about \subseteq Notices
    /\ q.kind = "cancel" => q.about \subseteq Jobs
    /\ \A j \in Jobs : q.job[j] \in {"none"} \cup committed[j]
    /\ q.bell \subseteq All

\* Where it may have been asked, if the page that did is still there.
Placed(q) ==
    /\ q.kind \in {"list", "detail"} => q.live /\ ~q.awaited
    /\ q.live /\ q.kind \in {"list", "create"} => route = "list"
    /\ q.live /\ q.kind \in {"detail", "cancel"} => route = "detail"

Asked == \A q \in asked : True(q) /\ Placed(q)

\* The form waits while its submission is out, and for no other.
Submitting(q) == q.kind = "create" /\ q.live /\ q.awaited

Submits ==
    /\ form = "submitting" <=> \E q \in asked : Submitting(q)
    /\ \A p, q \in asked : Submitting(p) /\ Submitting(q) => p = q

\* What a question about a job has seen: an end only if there was one, and the
\* artifacts as they are of a job that has ended, unless the job it has seen had not.
Sees(q) ==
    q.kind = "detail" =>
      /\ (/\ status[here] \in Terminal /\ "files" \notin q.left
          /\ "job" \in q.left \/ q.job[here] \in Terminal)
         => q.files = whole[here]
      /\ "job" \notin q.left /\ q.job[here] \in Terminal => status[here] \in Terminal

Ends ==
    route = "detail" /\ ~straddled =>
      /\ \A q \in asked : Sees(q)
      /\ shown[here] \in Terminal
           => status[here] \in Terminal /\ files = whole[here]

PagesInv == Recorded /\ Page /\ Sized /\ Asked /\ Submits /\ Ends

---------------------------------------------------------------------------
(* Questions.                                                              *)

LEMMA DropSized ==
  ASSUME Sized, NEW q \in asked
  PROVE  /\ IsFiniteSet(asked \ {q}) /\ Cardinality(asked \ {q}) = Cardinality(asked) - 1
         /\ Cardinality(asked \ {q}) \in Nat /\ Cardinality(asked) - 1 < MaxAsked
<1>1. IsFiniteSet(asked) /\ Cardinality(asked) \in Nat
  BY FS_CardinalityType DEF Sized
<1>2. IsFiniteSet(asked \ {q}) /\ Cardinality(asked \ {q}) = Cardinality(asked) - 1
  BY <1>1, FS_RemoveElement
<1>3. Cardinality(asked \ {q}) \in Nat
  BY <1>2, FS_CardinalityType
<1> QED
  BY <1>1, <1>2, <1>3, PagesAssumption DEF Sized

LEMMA GrowSized ==
  ASSUME Sized, NEW q, Sends(q)
  PROVE  Sized'
<1>1. IsFiniteSet(asked) /\ Cardinality(asked) \in Nat /\ Cardinality(asked) < MaxAsked
  BY FS_CardinalityType DEF Sized, Sends
<1>2. /\ IsFiniteSet(asked \cup {q})
      /\ Cardinality(asked \cup {q}) = Cardinality(asked) \/ Cardinality(asked \cup {q}) = Cardinality(asked) + 1
  BY <1>1, FS_AddElement
<1> QED
  BY <1>1, <1>2, PagesAssumption DEF Sized, Sends

LEMMA SwapSized ==
  ASSUME Sized, NEW q \in asked, NEW r, asked' = (asked \ {q}) \cup {r}
  PROVE  Sized'
<1> DEFINE rest == asked \ {q}
<1>1. IsFiniteSet(rest) /\ Cardinality(rest) \in Nat /\ Cardinality(rest) < MaxAsked
  BY DropSized
<1> HIDE DEF rest
<1>2. /\ IsFiniteSet(rest \cup {r})
      /\ Cardinality(rest \cup {r}) = Cardinality(rest) \/ Cardinality(rest \cup {r}) = Cardinality(rest) + 1
  BY <1>1, FS_AddElement
<1>3. Sized'
  BY <1>1, <1>2, PagesAssumption DEF Sized, rest
<1> QED
  BY <1>3

LEMMA LessSized ==
  ASSUME Sized, NEW q \in asked, asked' = asked \ {q}
  PROVE  Sized'
<1>1. /\ IsFiniteSet(asked \ {q}) /\ Cardinality(asked \ {q}) \in Nat
      /\ Cardinality(asked \ {q}) = Cardinality(asked) - 1 /\ Cardinality(asked) \in Nat
  BY DropSized, FS_CardinalityType DEF Sized
<1> QED
  BY <1>1, PagesAssumption DEF Sized

LEMMA PartsAre ==
  /\ Kinds = {"list", "detail", "bell", "create", "cancel", "read", "readall"}
  /\ Parts["list"] = {"job"} /\ Parts["detail"] = {"job", "files"}
  /\ Parts["bell"] = {"items"}
  /\ \A k \in {"create", "cancel", "read", "readall"} : Parts[k] = {"post"}
BY DEF Parts, Kinds

LEMMA UnseenIs == Unseen \in [Jobs -> Statuses] /\ \A j \in Jobs : Unseen[j] = "none"
BY DEF Unseen, Statuses

LEMMA AskIs ==
  ASSUME NEW kind \in Kinds
  PROVE  /\ Ask(kind) \in Questions
         /\ Ask(kind).kind = kind /\ Ask(kind).left = Parts[kind]
         /\ Ask(kind).live = TRUE /\ Ask(kind).awaited = FALSE
         /\ Ask(kind).ok = TRUE /\ Ask(kind).about = {}
         /\ Ask(kind).job = Unseen /\ Ask(kind).bell = {}
<1> DEFINE q == Ask(kind)
<1>1. q = [kind |-> kind, left |-> Parts[kind], live |-> TRUE, awaited |-> FALSE, ok |-> TRUE,
           about |-> {}, job |-> Unseen, files |-> FALSE, bell |-> {}]
  BY DEF Ask
<1>2. Parts[kind] \subseteq {"job", "files", "items", "post"}
  BY PartsAre
<1> HIDE DEF q
<1> QED
  BY <1>1, <1>2, UnseenIs DEF Questions, q

\* The rows move forward only: what was committed or told stays so, and a job that
\* has ended keeps its status and its artifacts.
Forward ==
    /\ \A j \in Jobs : committed[j] \subseteq committed'[j] /\ notified[j] \subseteq notified'[j]
    /\ \A j \in Jobs : status[j] \in Terminal => status'[j] = status[j] /\ whole'[j] = whole[j]

LEMMA Still ==
  ASSUME UNCHANGED <<status, notified, committed, whole>>
  PROVE  Forward /\ (Recorded => Recorded')
BY DEF Forward, Recorded

LEMMA AllGrows ==
  ASSUME Forward
  PROVE  All \subseteq All'
BY DEF Forward, All, Notices

LEMMA TrueStays ==
  ASSUME Forward, NEW q, True(q)
  PROVE  True(q)'
BY AllGrows DEF True, Forward

LEMMA AllTrueStays ==
  ASSUME Forward, \A q \in asked' : True(q)
  PROVE  \A q \in asked' : True(q)'
BY TrueStays

LEMMA PageStays ==
  ASSUME Forward, Page, UNCHANGED <<route, shown, here, files, confirm, form, bell, visits, fails, straddled>>
  PROVE  Page'
BY AllGrows DEF Page, Forward

\* A question whose job's answer no page could take for more than it is.
Like(p, q) == p.kind = q.kind /\ p.left = q.left /\ p.job = q.job /\ p.files = q.files

\* What is asked may change, but not what it has seen.
LEMMA EndsFrame ==
  ASSUME Ends, UNCHANGED <<status, whole, here, shown, files, straddled>>, route' = route,
         \A p \in asked' : Sees(p) \/ \E q \in asked : Like(p, q)
  PROVE  Ends'
<1> SUFFICES ASSUME route = "detail", ~straddled
             PROVE  /\ \A p \in asked' : Sees(p)'
                    /\ shown[here] \in Terminal
                         => status[here] \in Terminal /\ files = whole[here]
  BY DEF Ends
<1>1. ASSUME NEW p \in asked' PROVE Sees(p)
  <2>1. CASE Sees(p)
    BY <2>1
  <2>2. CASE \E q \in asked : Like(p, q)
    BY <2>2 DEF Ends, Sees, Like
  <2> QED
    BY <2>1, <2>2
<1>2. ASSUME NEW p \in asked' PROVE Sees(p)'
  BY <1>1 DEF Sees
<1> QED
  BY <1>2 DEF Ends

LEMMA AskedSees ==
  ASSUME NEW kind \in Kinds, NEW q, q.kind = kind, q.left = Parts[kind]
  PROVE  Sees(q)
BY PartsAre DEF Sees

\* Asking, while the rows and the page stand still.
LEMMA AskKeeps ==
  ASSUME PagesInv, UNCHANGED <<status, notified, committed, whole, route, here, shown, files, straddled>>,
         NEW q, True(q), Placed(q), q.left = Parts[q.kind], Sends(q)
  PROVE  Recorded' /\ Sized' /\ Asked' /\ Ends' /\ asked' = asked \cup {q} /\ Forward
<1>1. Forward /\ Recorded' /\ asked' = asked \cup {q}
  BY Still DEF PagesInv, Sends
<1>2. Sized'
  <2>1. Sends(q)
    BY DEF Sends
  <2> QED
    BY <2>1, GrowSized DEF PagesInv
<1>3. Asked'
  <2>1. \A p \in asked' : True(p) /\ Placed(p)
    BY <1>1 DEF PagesInv, Asked
  <2>2. \A p \in asked' : Placed(p)'
    BY <2>1 DEF Placed
  <2> QED
    BY <1>1, <2>1, <2>2, AllTrueStays DEF Asked
<1>4. Sees(q)
  BY AskedSees DEF True, Questions
<1>5. Ends'
  BY <1>1, <1>4, EndsFrame DEF PagesInv, Like
<1> QED
  BY <1>1, <1>2, <1>3, <1>5

\* A question that submits nothing leaves the form alone.
LEMMA SubmitsStays ==
  ASSUME Submits, form' = form, NEW q, ~Submitting(q), asked' = asked \cup {q}
  PROVE  Submits'
BY DEF Submits, Submitting

LEMMA AskFits ==
  ASSUME NEW kind \in Kinds, kind \in {"list", "create"} => route = "list",
         kind \in {"detail", "cancel"} => route = "detail"
  PROVE  True(Ask(kind)) /\ Placed(Ask(kind)) /\ ~Submitting(Ask(kind))
<1> DEFINE q == Ask(kind)
<1>1. /\ q \in Questions /\ q.kind = kind /\ q.left = Parts[kind]
      /\ q.live = TRUE /\ q.awaited = FALSE /\ q.about = {} /\ q.bell = {}
      /\ \A j \in Jobs : q.job[j] = "none"
  BY AskIs, UnseenIs
<1> HIDE DEF q
<1>2. True(q) /\ Placed(q) /\ ~Submitting(q)
  BY <1>1 DEF True, Placed, Submitting
<1> QED
  BY <1>2 DEF q

LEMMA PollKeeps ==
  ASSUME PagesInv, ListTick \/ DetailTick \/ BellTick \/ HandleMarkAllRead
  PROVE  PagesInv'
<1>1. PICK kind \in {"list", "detail", "bell", "readall"} :
        /\ Sends(Ask(kind))
        /\ kind = "list" => route = "list"
        /\ kind = "detail" => route = "detail"
  BY DEF ListTick, DetailTick, BellTick, HandleMarkAllRead
<1>2. UNCHANGED <<status, notified, committed, whole, route, here, shown, files, straddled,
                  confirm, form, bell, visits, fails>>
  BY DEF ListTick, DetailTick, BellTick, HandleMarkAllRead,
         server, record, page, detail, history
<1> DEFINE q == Ask(kind)
<1>3. True(q) /\ Placed(q) /\ ~Submitting(q) /\ q.left = Parts[q.kind]
  <2>1. kind \in Kinds
    BY PartsAre
  <2>2. q.kind = kind /\ q.left = Parts[kind]
    BY <2>1, AskIs
  <2>3. True(q) /\ Placed(q) /\ ~Submitting(q)
    BY <1>1, <2>1, AskFits
  <2> QED
    BY <2>2, <2>3
<1> HIDE DEF q
<1>4. Recorded' /\ Sized' /\ Asked' /\ Ends' /\ asked' = asked \cup {q} /\ Forward
  BY <1>1, <1>2, <1>3, AskKeeps DEF q
<1>5. Submits'
  BY <1>2, <1>3, <1>4, SubmitsStays DEF PagesInv
<1>6. Page'
  BY <1>2, <1>4, PageStays DEF PagesInv
<1> QED
  BY <1>4, <1>5, <1>6 DEF PagesInv

LEMMA CancelButtonKeeps ==
  ASSUME PagesInv, CancelButton
  PROVE  PagesInv'
<1>1. /\ UNCHANGED <<status, notified, committed, whole, route, here, shown, files, straddled,
                     form, bell, visits, fails, asked>>
      /\ confirm' = TRUE /\ route = "detail"
  BY DEF CancelButton, server, record, history
<1>2. Forward /\ Recorded'
  BY <1>1, Still DEF PagesInv
<1>3. Page'
  BY <1>1, <1>2, AllGrows DEF PagesInv, Page, Forward
<1>4. Asked'
  <2>1. \A p \in asked' : Placed(p)'
    BY <1>1 DEF PagesInv, Asked, Placed
  <2> QED
    BY <1>1, <1>2, <2>1, AllTrueStays DEF PagesInv, Asked
<1>5. Submits' /\ Sized'
  BY <1>1 DEF PagesInv, Submits, Sized
<1>6. Ends'
  BY <1>1, EndsFrame DEF PagesInv, Like
<1> QED
  BY <1>2, <1>3, <1>4, <1>5, <1>6 DEF PagesInv

LEMMA ConfirmDialogKeeps ==
  ASSUME PagesInv, ConfirmDialog
  PROVE  PagesInv'
<1>1. /\ UNCHANGED <<status, notified, committed, whole, route, here, shown, files, straddled,
                     form, bell, visits, fails>>
      /\ confirm' \in BOOLEAN /\ route = "detail"
  BY DEF ConfirmDialog, server, record, history, PagesInv, Page
<1>2. Forward /\ Recorded'
  BY <1>1, Still DEF PagesInv
<1>3. Page'
  BY <1>1, <1>2, AllGrows DEF PagesInv, Page, Forward
<1>4. CASE asked' = asked
  <2>1. Asked'
    <3>1. \A p \in asked' : Placed(p)'
      BY <1>1, <1>4 DEF PagesInv, Asked, Placed
    <3> QED
      BY <1>2, <1>4, <3>1, AllTrueStays DEF PagesInv, Asked
  <2>2. Submits' /\ Sized'
    BY <1>1, <1>4 DEF PagesInv, Submits, Sized
  <2>3. Ends'
    BY <1>1, <1>4, EndsFrame DEF PagesInv, Like
  <2> QED
    BY <1>2, <1>3, <2>1, <2>2, <2>3 DEF PagesInv
<1>5. CASE Sends([Ask("cancel") EXCEPT !.about = {here}])
  <2> DEFINE a == Ask("cancel")
             q == [a EXCEPT !.about = {here}]
  <2>1. True(a) /\ a.kind = "cancel" /\ a.left = Parts["cancel"] /\ ~a.awaited
    <3>1. "cancel" \in Kinds
      BY PartsAre
    <3> QED
      BY <1>1, <3>1, AskIs, AskFits
  <2> HIDE DEF a
  <2>2. here \in Jobs
    BY DEF PagesInv, Page
  <2>3. True(q) /\ Placed(q) /\ ~Submitting(q) /\ q.left = Parts[q.kind]
    BY <1>1, <2>1, <2>2 DEF True, Questions, Placed, Submitting
  <2> HIDE DEF q
  <2>4. Sends(q)
    BY <1>5 DEF a, q
  <2>5. Recorded' /\ Sized' /\ Asked' /\ Ends' /\ asked' = asked \cup {q}
    BY <1>1, <2>3, <2>4, AskKeeps
  <2>6. Submits'
    BY <1>1, <2>3, <2>5, SubmitsStays DEF PagesInv
  <2> QED
    BY <1>3, <2>5, <2>6 DEF PagesInv
<1> QED
  BY <1>4, <1>5 DEF ConfirmDialog

LEMMA SelectKeeps ==
  ASSUME PagesInv, HandleSelect
  PROVE  PagesInv'
<1>1. /\ UNCHANGED <<status, notified, committed, whole, route, here, shown, files, straddled,
                     confirm, form, bell, fails>>
      /\ visits' \in 0..MaxVisits
  BY PagesAssumption DEF HandleSelect, server, record, page, detail, PagesInv, Page
<1>2. PICK n \in bell : Sends([Ask("read") EXCEPT !.about = {n}, !.awaited = TRUE])
  BY DEF HandleSelect
<1> DEFINE a == Ask("read")
           q == [a EXCEPT !.about = {n}, !.awaited = TRUE]
<1>3. True(a) /\ a.kind = "read" /\ a.left = Parts["read"]
  <2>1. "read" \in Kinds
    BY PartsAre
  <2> QED
    BY <2>1, AskIs, AskFits
<1> HIDE DEF a
<1>4. n \in Notices
  BY DEF PagesInv, Page, All
<1>5. True(q) /\ Placed(q) /\ ~Submitting(q) /\ q.left = Parts[q.kind]
  BY <1>3, <1>4 DEF True, Questions, Placed, Submitting
<1> HIDE DEF q
<1>6. Sends(q)
  BY <1>2 DEF a, q
<1>7. Recorded' /\ Sized' /\ Asked' /\ Ends' /\ asked' = asked \cup {q} /\ Forward
  BY <1>1, <1>5, <1>6, AskKeeps
<1>8. Submits'
  BY <1>1, <1>5, <1>7, SubmitsStays DEF PagesInv
<1>9. Page'
  BY <1>1, <1>7, AllGrows DEF PagesInv, Page, Forward
<1> QED
  BY <1>7, <1>8, <1>9 DEF PagesInv

LEMMA JobFormKeeps ==
  ASSUME PagesInv, JobForm
  PROVE  PagesInv'
<1>1. /\ UNCHANGED <<status, notified, committed, whole, route, here, shown, files, straddled,
                     confirm, bell, visits, fails>>
      /\ form = "open" /\ form' = "submitting" /\ route = "list"
      /\ Sends([Ask("create") EXCEPT !.awaited = TRUE])
  BY DEF JobForm, server, record, detail, history
<1> DEFINE a == Ask("create")
           q == [a EXCEPT !.awaited = TRUE]
<1>2. True(a) /\ a.kind = "create" /\ a.left = Parts["create"] /\ a.live = TRUE
  <2>1. "create" \in Kinds
    BY PartsAre
  <2> QED
    BY <1>1, <2>1, AskIs, AskFits
<1> HIDE DEF a
<1>3. True(q) /\ Placed(q) /\ Submitting(q) /\ q.left = Parts[q.kind]
  BY <1>1, <1>2 DEF True, Questions, Placed, Submitting
<1> HIDE DEF q
<1>4. Sends(q)
  BY <1>1 DEF a, q
<1>5. Recorded' /\ Sized' /\ Asked' /\ Ends' /\ asked' = asked \cup {q} /\ Forward
  BY <1>1, <1>3, <1>4, AskKeeps
<1>6. Submits'
  BY <1>1, <1>3, <1>5 DEF PagesInv, Submits, Submitting
<1>7. Page'
  BY <1>1, <1>5, AllGrows DEF PagesInv, Page, Forward
<1> QED
  BY <1>5, <1>6, <1>7 DEF PagesInv

---------------------------------------------------------------------------
(* Going elsewhere, and closing the form.                                  *)

\* The images of a set's elements are no more than these.
LEMMA ImageSize ==
  ASSUME NEW S, IsFiniteSet(S), NEW f, f = [x \in S |-> f[x]], NEW T, T = {f[x] : x \in S}
  PROVE  IsFiniteSet(T) /\ Cardinality(T) <= Cardinality(S)
<1>1. f \in Surjection(S, T)
  BY DEF Surjection
<1> QED
  BY <1>1, FS_Surjection

\* The same question but for who waits for it, and whether anyone is there.
Same(p, q) == p \in Questions /\ Like(p, q) /\ p.about = q.about /\ p.bell = q.bell

LEMMA SameTrue ==
  ASSUME NEW p, NEW q, Same(p, q), True(q)
  PROVE  True(p)
BY DEF Same, Like, True

LEMMA FormGoneIs ==
  ASSUME NEW qs, IsFiniteSet(qs), \A q \in qs : True(q)
  PROVE  /\ IsFiniteSet(FormGone(qs)) /\ Cardinality(FormGone(qs)) <= Cardinality(qs)
         /\ \A p \in FormGone(qs) : \E q \in qs :
              /\ Same(p, q) /\ p.live = q.live
              /\ p.awaited <=> q.awaited /\ q.kind # "create"
<1> DEFINE f == [x \in qs |-> [x EXCEPT !.awaited = x.awaited /\ x.kind # "create"]]
           T == {f[x] : x \in qs}
<1>1. FormGone(qs) = T
  BY DEF FormGone
<1>2. f = [x \in qs |-> f[x]]
  OBVIOUS
<1>3. ASSUME NEW x \in qs
      PROVE  /\ Same(f[x], x) /\ f[x].live = x.live
             /\ f[x].awaited <=> x.awaited /\ x.kind # "create"
  <2>1. f[x] = [x EXCEPT !.awaited = x.awaited /\ x.kind # "create"]
    OBVIOUS
  <2>2. x \in Questions /\ (x.awaited /\ x.kind # "create") \in BOOLEAN
    BY DEF True
  <2> HIDE DEF f
  <2> QED
    BY <2>1, <2>2 DEF Same, Like, Questions
<1> HIDE DEF f
<1>4. IsFiniteSet(T) /\ Cardinality(T) <= Cardinality(qs)
  BY <1>2, ImageSize
<1> QED
  BY <1>1, <1>3, <1>4

LEMMA MountIs ==
  ASSUME Sized, Asked, NEW to, NEW j, NEW qs \in SUBSET asked, Mount(to, j, qs)
  PROVE  Sized' /\ \A p \in asked' : True(p) /\ ~p.live /\ p.kind \notin {"list", "detail"}
<1> DEFINE R == {r \in FormGone(qs) : r.kind \notin Polls \/ r.awaited}
           f == [x \in R |-> [x EXCEPT !.live = FALSE]]
           T == {f[x] : x \in R}
<1>1. asked' = T
  BY DEF Mount
<1>2. IsFiniteSet(qs) /\ Cardinality(qs) <= Cardinality(asked) /\ Cardinality(asked) <= MaxAsked
  BY FS_Subset DEF Sized
<1>3. IsFiniteSet(FormGone(qs)) /\ Cardinality(FormGone(qs)) <= Cardinality(qs)
  BY <1>2, FormGoneIs DEF Asked
<1>4. \A p \in FormGone(qs) : \E q \in qs :
        Same(p, q) /\ p.live = q.live /\ (p.awaited <=> q.awaited /\ q.kind # "create")
  BY <1>2, FormGoneIs DEF Asked
<1>5. IsFiniteSet(R) /\ Cardinality(R) <= Cardinality(FormGone(qs))
  BY <1>3, FS_Subset
<1>6. f = [x \in R |-> f[x]]
  OBVIOUS
<1>7. ASSUME NEW x \in R PROVE True(f[x]) /\ ~f[x].live /\ f[x].kind \notin {"list", "detail"}
  <2>1. PICK q \in qs : Same(x, q) /\ (x.awaited <=> q.awaited /\ q.kind # "create")
    BY <1>4
  <2>2. True(x) /\ x.kind = q.kind /\ Placed(q)
    BY <2>1, SameTrue DEF Asked, Same, Like
  <2>3. x.kind \notin {"list", "detail"}
    BY <2>1, <2>2 DEF Placed, Polls
  <2>4. f[x] = [x EXCEPT !.live = FALSE]
    OBVIOUS
  <2> HIDE DEF f, R
  <2>5. Same(f[x], x) /\ ~f[x].live
    BY <2>2, <2>4 DEF Same, Like, Questions, True
  <2> QED
    BY <2>2, <2>3, <2>5, SameTrue DEF Same, Like
<1> HIDE DEF f, R
<1>8. IsFiniteSet(T) /\ Cardinality(T) <= Cardinality(R)
  BY <1>5, <1>6, ImageSize
<1>9. Sized'
  <2>1. /\ Cardinality(T) \in Nat /\ Cardinality(R) \in Nat /\ Cardinality(FormGone(qs)) \in Nat
        /\ Cardinality(qs) \in Nat /\ Cardinality(asked) \in Nat
    BY <1>2, <1>3, <1>5, <1>8, FS_CardinalityType DEF Sized
  <2>2. Cardinality(T) <= MaxAsked
    BY <1>2, <1>3, <1>5, <1>8, <2>1, PagesAssumption
  <2> QED
    BY <1>1, <1>8, <2>2 DEF Sized
<1> QED
  BY <1>1, <1>7, <1>9

LEMMA MountKeeps ==
  ASSUME PagesInv,
         NEW to \in {"list", "detail"}, NEW j \in Jobs, NEW qs \in SUBSET asked,
         Mount(to, j, qs),
         UNCHANGED <<status, notified, committed, whole, fails, straddled>>,
         visits' \in 0..MaxVisits
  PROVE  PagesInv'
<1>1. /\ route' = to /\ here' = j /\ shown' = Unseen /\ files' = FALSE
      /\ confirm' = FALSE /\ form' = "closed" /\ bell' = {}
  BY DEF Mount
<1>2. Sized' /\ \A p \in asked' : True(p) /\ ~p.live /\ p.kind \notin {"list", "detail"}
  BY MountIs DEF PagesInv
<1>3. Forward /\ Recorded'
  BY Still DEF PagesInv
<1>4. Page'
  BY <1>1, UnseenIs DEF PagesInv, Page
<1>5. Asked'
  <2>1. \A p \in asked' : Placed(p)'
    BY <1>2 DEF Placed
  <2> QED
    BY <1>2, <1>3, <2>1, AllTrueStays DEF Asked
<1>6. Submits'
  BY <1>1, <1>2 DEF Submits, Submitting
<1>7. Ends'
  BY <1>1, <1>2, UnseenIs DEF Ends, Sees, Terminal
<1> QED
  BY <1>2, <1>3, <1>4, <1>5, <1>6, <1>7 DEF PagesInv

LEMMA VisitKeeps ==
  ASSUME PagesInv, Visit
  PROVE  PagesInv'
<1>1. /\ UNCHANGED <<status, notified, committed, whole, fails, straddled>>
      /\ visits' \in 0..MaxVisits /\ here \in Jobs
  BY PagesAssumption DEF Visit, server, record, PagesInv, Page
<1>2. Mount("list", here, asked) \/ \E j \in Jobs : Mount("detail", j, asked)
  BY DEF Visit
<1> QED
  BY <1>1, <1>2, MountKeeps

\* The form is gone, and with it whoever waited for a submission; one answer may
\* be taken and a question for the list asked.
LEMMA FormGoneKeeps ==
  ASSUME PagesInv, NEW qs \in SUBSET asked, NEW more,
         asked' = FormGone(qs) \cup more,
         more = {} \/ (more = {Ask("list")} /\ route = "list" /\ \E q \in asked : q \notin qs),
         UNCHANGED <<status, notified, committed, whole, route, here, shown, files, straddled,
                     confirm, bell, visits, fails>>,
         form' \in {"closed", "open"}
  PROVE  PagesInv'
<1>1. IsFiniteSet(asked) /\ IsFiniteSet(qs) /\ Cardinality(qs) <= Cardinality(asked)
      /\ Cardinality(asked) <= MaxAsked /\ (Cardinality(qs) = Cardinality(asked) => qs = asked)
  BY FS_Subset DEF Sized, PagesInv
<1>2. IsFiniteSet(FormGone(qs)) /\ Cardinality(FormGone(qs)) <= Cardinality(qs)
  BY <1>1, FormGoneIs DEF PagesInv, Asked
<1>3. \A p \in FormGone(qs) : \E q \in qs :
        Same(p, q) /\ p.live = q.live /\ (p.awaited <=> q.awaited /\ q.kind # "create")
  BY <1>1, FormGoneIs DEF PagesInv, Asked
<1>4. Forward /\ Recorded'
  BY Still DEF PagesInv
<1>5. Page'
  BY <1>4, AllGrows DEF PagesInv, Page, Forward
<1>6. Sized'
  <2>1. /\ Cardinality(qs) \in Nat /\ Cardinality(asked) \in Nat
        /\ Cardinality(FormGone(qs)) \in Nat
    BY <1>1, <1>2, FS_CardinalityType
  <2>2. CASE more = {}
    <3>1. asked' = FormGone(qs)
      BY <2>2
    <3>2. Cardinality(FormGone(qs)) <= MaxAsked
      BY <1>1, <1>2, <2>1, PagesAssumption
    <3> QED
      BY <1>2, <3>1, <3>2 DEF Sized
  <2>3. CASE more = {Ask("list")} /\ \E q \in asked : q \notin qs
    <3>1. Cardinality(qs) < Cardinality(asked)
      BY <1>1, <2>1, <2>3
    <3> DEFINE T == FormGone(qs)
               r == Ask("list")
    <3>2. /\ IsFiniteSet(T \cup {r})
          /\ Cardinality(T \cup {r}) = Cardinality(T) \/ Cardinality(T \cup {r}) = Cardinality(T) + 1
      BY <1>2, FS_AddElement
    <3>3. asked' = T \cup {r}
      BY <2>3
    <3> HIDE DEF T, r
    <3>4. Cardinality(T) \in Nat /\ Cardinality(T) < Cardinality(asked)
      BY <1>1, <1>2, <2>1, <3>1 DEF T
    <3>5. Cardinality(T \cup {r}) <= MaxAsked
      BY <1>1, <2>1, <3>2, <3>4, PagesAssumption
    <3> QED
      BY <3>2, <3>3, <3>5 DEF Sized
  <2> QED
    BY <2>2, <2>3
<1>7. \A p \in more : True(p) /\ Placed(p) /\ ~Submitting(p) /\ Sees(p)
  BY PartsAre, AskFits, AskIs, AskedSees
<1>8. \A p \in FormGone(qs) : True(p) /\ Placed(p) /\ ~Submitting(p) /\ \E q \in asked : Like(p, q)
  <2> SUFFICES ASSUME NEW p \in FormGone(qs)
               PROVE  True(p) /\ Placed(p) /\ ~Submitting(p) /\ \E q \in asked : Like(p, q)
    OBVIOUS
  <2>1. PICK q \in qs :
          Same(p, q) /\ p.live = q.live /\ (p.awaited <=> q.awaited /\ q.kind # "create")
    BY <1>3
  <2>2. True(q) /\ Placed(q) /\ q \in asked /\ Like(p, q)
    BY <2>1 DEF PagesInv, Asked, Same
  <2>3. True(p)
    BY <2>1, <2>2, SameTrue
  <2>4. Placed(p) /\ ~Submitting(p)
    BY <2>1, <2>2 DEF Placed, Submitting, Like
  <2> QED
    BY <2>2, <2>3, <2>4
<1>9. Asked'
  <2>1. \A p \in asked' : True(p) /\ Placed(p)
    BY <1>7, <1>8
  <2>2. \A p \in asked' : Placed(p)'
    BY <2>1 DEF Placed
  <2> QED
    BY <1>4, <2>1, <2>2, AllTrueStays DEF Asked
<1>10. Submits'
  BY <1>7, <1>8 DEF Submits, Submitting
<1>11. Ends'
  BY <1>7, <1>8, EndsFrame DEF PagesInv
<1> QED
  BY <1>4, <1>5, <1>6, <1>9, <1>10, <1>11 DEF PagesInv

LEMMA ToggleFormKeeps ==
  ASSUME PagesInv, ToggleForm
  PROVE  PagesInv'
<1> DEFINE more == {}
<1>1. /\ UNCHANGED <<status, notified, committed, whole, route, here, shown, files, straddled,
                     confirm, bell, visits, fails>>
      /\ form' \in {"closed", "open"} /\ asked' = FormGone(asked) \cup more
  BY DEF ToggleForm, server, record, detail, history
<1>2. more = {} \/ (more = {Ask("list")} /\ route = "list" /\ \E q \in asked : q \notin asked)
  OBVIOUS
<1>3. asked \in SUBSET asked
  OBVIOUS
<1> HIDE DEF more
<1> QED
  BY <1>1, <1>2, <1>3, FormGoneKeeps

---------------------------------------------------------------------------
(* The workers and the server.                                             *)

\* What one row's step keeps, whatever it is a step of.
LEMMA RowStep ==
  ASSUME Recorded, NEW j \in Jobs, NEW s \in Statuses \ {"none"},
         status[j] \notin Terminal, Server!Becomes(j, s),
         UNCHANGED whole
  PROVE  /\ Forward /\ Recorded' /\ status'[j] = s
         /\ \A i \in Jobs : i # j => status'[i] = status[i]
<1>1. /\ status' = [status EXCEPT ![j] = s]
      /\ committed' = [committed EXCEPT ![j] = committed[j] \cup {s}] /\ notified' = notified
  BY DEF Server!Becomes
<1>2. Recorded'
  BY <1>1 DEF Recorded
<1>3. Forward /\ status'[j] = s /\ \A i \in Jobs : i # j => status'[i] = status[i]
  BY <1>1 DEF Forward, Recorded
<1> QED
  BY <1>2, <1>3

\* What has seen a job that has not ended has not seen it end; a step that ends
\* it while a question has read only its artifacts straddles it.
LEMMA RowStepEnds ==
  ASSUME PagesInv, NEW j \in Jobs, status[j] \notin Terminal,
         \A i \in Jobs : i # j => status'[i] = status[i],
         UNCHANGED <<whole, route, here, shown, files>>,
         \A p \in asked' : p.kind = "detail" => p \in asked,
         status'[j] \in Terminal => straddled' = (straddled \/ Straddles(j)),
         status'[j] \notin Terminal => straddled' = straddled
  PROVE  Ends'
<1> SUFFICES ASSUME route = "detail", ~straddled'
             PROVE  /\ \A q \in asked' : Sees(q)'
                    /\ shown[here] \in Terminal
                         => status'[here] \in Terminal /\ files = whole[here]
  BY DEF Ends
<1>1. ~straddled /\ here \in Jobs
  BY DEF PagesInv, Page
<1>2. /\ \A q \in asked : Sees(q)
      /\ shown[here] \in Terminal
           => status[here] \in Terminal /\ files = whole[here]
  BY <1>1 DEF PagesInv, Ends
<1>3. CASE here # j
  BY <1>1, <1>2, <1>3 DEF Sees
<1>4. CASE here = j
  <2>1. shown[here] \notin Terminal
    BY <1>2, <1>4
  <2>2. ASSUME NEW q \in asked', q.kind = "detail" PROVE Sees(q)'
    <3> q \in asked
      BY <2>2
    <3>1. "job" \notin q.left => q.job[here] \notin Terminal
      BY <1>2, <1>4, <2>2 DEF Sees
    <3>2. status'[here] \in Terminal /\ "job" \in q.left => "files" \in q.left
      <4> SUFFICES ASSUME status'[here] \in Terminal, "job" \in q.left, "files" \notin q.left
                   PROVE  FALSE
        OBVIOUS
      <4>1. q.live /\ q.left # Parts.detail
        BY <2>2, PartsAre DEF PagesInv, Asked, Placed
      <4>2. Straddles(j)
        BY <1>4, <2>2, <4>1 DEF Straddles, Open
      <4> QED
        BY <1>4, <4>2
    <3> QED
      BY <3>1, <3>2 DEF Sees
  <2>3. \A q \in asked' : Sees(q)'
    BY <2>2 DEF Sees
  <2> QED
    BY <2>1, <2>3
<1> QED
  BY <1>3, <1>4

LEMMA BackgroundKeeps ==
  ASSUME PagesInv, NEW j \in Jobs, Background(j)
  PROVE  PagesInv'
<1>1. UNCHANGED <<route, here, shown, files, confirm, form, bell, visits, fails, asked, read>>
  BY DEF Background, page, detail
<1>2. Recorded
  BY DEF PagesInv
<1>3. straddled' \in BOOLEAN
  BY DEF Background, PagesInv, Page
<1>4. Forward /\ Recorded' /\ Ends'
  <2>1. CASE Server!Told(j) /\ UNCHANGED <<whole, straddled>>
    <3>1. /\ UNCHANGED <<status, committed, whole, straddled>>
          /\ \E s \in Told : notified' = [notified EXCEPT ![j] = notified[j] \cup {s}]
      BY <2>1 DEF Server!Told, Server!Ended, Told
    <3>2. Forward /\ Recorded'
      BY <1>2, <3>1 DEF Recorded, Forward
    <3>3. Ends'
      BY <1>1, <3>1, EndsFrame DEF PagesInv, Like
    <3> QED
      BY <3>2, <3>3
  <2>2. CASE status[j] = "queued" /\ Server!Started(j) /\ UNCHANGED <<whole, straddled>>
    <3>1. Server!Becomes(j, "running") /\ status[j] \notin Terminal
          /\ "running" \in Statuses \ {"none"} /\ "running" \notin Terminal
      BY <2>2 DEF Server!Started, Statuses, Live, Terminal
    <3>2. Forward /\ Recorded' /\ status'[j] = "running" /\ \A i \in Jobs : i # j => status'[i] = status[i]
      BY <1>2, <2>2, <3>1, RowStep
    <3>3. Ends'
      BY <1>1, <2>2, <3>1, <3>2, RowStepEnds
    <3> QED
      BY <3>2, <3>3
  <2>3. CASE Server!Tracked(j) /\ UNCHANGED <<whole, straddled>>
    <3>1. UNCHANGED <<status, notified, committed, whole, straddled>>
      BY <2>3 DEF Server!Tracked
    <3>2. Ends'
      BY <1>1, <3>1, EndsFrame DEF PagesInv, Like
    <3> QED
      BY <1>2, <3>1, <3>2, Still
  <2>4. CASE /\ status[j] = "running"
             /\ \E s \in Server!Ended : Server!EndedAs(j, s)
             /\ straddled' = (straddled \/ Straddles(j)) /\ UNCHANGED whole
    <3>1. PICK s \in Server!Ended : Server!Becomes(j, s)
      BY <2>4 DEF Server!EndedAs
    <3>2. s \in Statuses \ {"none"} /\ s \in Terminal /\ status[j] \notin Terminal
      BY <2>4 DEF Server!Ended, Statuses, Live, Terminal
    <3>3. Forward /\ Recorded' /\ status'[j] = s /\ \A i \in Jobs : i # j => status'[i] = status[i]
      BY <1>2, <2>4, <3>1, <3>2, RowStep
    <3>4. Ends'
      BY <1>1, <2>4, <3>2, <3>3, RowStepEnds
    <3> QED
      BY <3>3, <3>4
  <2>5. CASE /\ status[j] = "running" /\ whole' = [whole EXCEPT ![j] = TRUE]
             /\ UNCHANGED <<status, notified, committed, straddled>>
    <3>1. status[j] \notin Terminal
      BY <2>5 DEF Terminal
    <3>2. Forward /\ Recorded'
      BY <1>2, <2>5, <3>1 DEF Recorded, Forward
    <3>3. here \in Jobs /\ (status[here] \in Terminal => whole'[here] = whole[here])
      BY <3>2 DEF PagesInv, Page, Forward
    <3>4. Ends'
      <4> SUFFICES ASSUME route = "detail", ~straddled
                   PROVE  /\ \A q \in asked : Sees(q)'
                          /\ shown[here] \in Terminal
                               => status[here] \in Terminal /\ files = whole'[here]
        BY <1>1, <2>5 DEF Ends
      <4>1. /\ \A q \in asked : Sees(q)
            /\ shown[here] \in Terminal
                 => status[here] \in Terminal /\ files = whole[here]
        BY DEF PagesInv, Ends
      <4> QED
        BY <1>1, <2>5, <3>3, <4>1 DEF Sees
    <3> QED
      BY <3>2, <3>4
  <2> QED
    BY <2>1, <2>2, <2>3, <2>4, <2>5 DEF Background, record
<1>5. Page'
  BY <1>1, <1>3, <1>4, AllGrows DEF PagesInv, Page, Forward
<1>6. Asked'
  <2>1. \A p \in asked' : Placed(p)'
    BY <1>1 DEF PagesInv, Asked, Placed
  <2> QED
    BY <1>1, <1>4, <2>1, AllTrueStays DEF PagesInv, Asked
<1>7. Submits' /\ Sized'
  BY <1>1 DEF PagesInv, Submits, Sized
<1> QED
  BY <1>4, <1>5, <1>6, <1>7 DEF PagesInv

\* A question is replaced by another, or by itself with more of it answered.
LEMMA SwapKeeps ==
  ASSUME PagesInv, Forward, NEW q \in asked, NEW r, asked' = (asked \ {q}) \cup {r},
         True(r), Placed(r), Submitting(r) <=> Submitting(q), form' = form, route' = route
  PROVE  Sized' /\ Asked' /\ Submits'
<1>1. Sized'
  BY SwapSized DEF PagesInv
<1>2. Asked'
  <2>1. \A p \in asked' : True(p) /\ Placed(p)
    BY DEF PagesInv, Asked
  <2>2. \A p \in asked' : Placed(p)'
    BY <2>1 DEF Placed
  <2> QED
    BY <2>1, <2>2, AllTrueStays DEF Asked
<1>3. Submits'
  <2>1. \A p : Submitting(p)' <=> Submitting(p)
    BY DEF Submitting
  <2>2. (\E p \in asked' : Submitting(p)) <=> \E p \in asked : Submitting(p)
    OBVIOUS
  <2>3. ASSUME NEW x \in asked', NEW y \in asked', Submitting(x), Submitting(y) PROVE x = y
    <3>1. \A v, w \in asked : Submitting(v) /\ Submitting(w) => v = w
      BY DEF PagesInv, Submits
    <3>2. CASE x = r /\ y # r
      BY <2>3, <3>1, <3>2
    <3>3. CASE y = r /\ x # r
      BY <2>3, <3>1, <3>3
    <3>4. CASE x # r /\ y # r
      BY <2>3, <3>1, <3>4
    <3> QED
      BY <3>2, <3>3, <3>4
  <2> QED
    BY <2>1, <2>2, <2>3 DEF PagesInv, Submits
<1> QED
  BY <1>1, <1>2, <1>3

LEMMA EndsSwap ==
  ASSUME Ends, UNCHANGED <<status, whole, here, shown, files, straddled>>, route' = route,
         NEW q \in asked, NEW r, asked' = (asked \ {q}) \cup {r}, Sees(q) => Sees(r)
  PROVE  Ends'
<1> SUFFICES ASSUME route = "detail", ~straddled
             PROVE  /\ \A p \in asked' : Sees(p)'
                    /\ shown[here] \in Terminal
                         => status[here] \in Terminal /\ files = whole[here]
  BY DEF Ends
<1>1. \A p \in asked' : Sees(p)
  BY DEF Ends
<1>2. ASSUME NEW p \in asked' PROVE Sees(p)'
  BY <1>1 DEF Sees
<1> QED
  BY <1>2 DEF Ends

LEMMA ServePartKeeps ==
  ASSUME PagesInv, NEW q \in asked, ServeJob(q) \/ ServeFiles(q) \/ ServeBell(q)
  PROVE  PagesInv'
<1>1. UNCHANGED <<status, notified, committed, whole, route, here, shown, files, straddled,
                  confirm, form, bell, visits, fails>>
  BY DEF ServeJob, ServeFiles, ServeBell,
         server, record, page, detail, history
<1>2. Forward /\ Recorded'
  BY <1>1, Still DEF PagesInv
<1>3. Page'
  BY <1>1, <1>2, PageStays DEF PagesInv
<1>4. True(q) /\ q \in Questions /\ Placed(q) /\ here \in Jobs
  BY DEF PagesInv, Asked, True, Page
<1>5. \E r : /\ asked' = (asked \ {q}) \cup {r} /\ True(r) /\ Placed(r)
             /\ Submitting(r) <=> Submitting(q)
             /\ Sees(q) => Sees(r)
  <2>1. CASE ServeJob(q)
    <3> DEFINE r == [[q EXCEPT !.job = status] EXCEPT !.left = @ \ {"job"}]
    <3>1. asked' = (asked \ {q}) \cup {r} /\ "job" \in q.left
      BY <2>1 DEF ServeJob, Served, Replace
    <3>2. /\ r \in Questions /\ r.kind = q.kind /\ r.left = q.left \ {"job"}
          /\ r.live = q.live /\ r.awaited = q.awaited /\ r.about = q.about /\ r.bell = q.bell
          /\ r.files = q.files /\ r.job = status
      BY <1>4 DEF Questions, PagesInv, Recorded
    <3> HIDE DEF r
    <3>3. True(r) /\ Placed(r) /\ (Submitting(r) <=> Submitting(q))
      BY <1>4, <3>2 DEF True, Placed, Submitting, PagesInv, Recorded
    <3>4. Sees(q) => Sees(r)
      BY <3>1, <3>2 DEF Sees
    <3> QED
      BY <3>1, <3>3, <3>4
  <2>2. CASE ServeFiles(q)
    <3> DEFINE r == [[q EXCEPT !.files = whole[here]] EXCEPT !.left = @ \ {"files"}]
    <3>1. asked' = (asked \ {q}) \cup {r} /\ "files" \in q.left
      BY <2>2 DEF ServeFiles, Served, Replace
    <3>2. whole[here] \in BOOLEAN
      BY <1>4 DEF PagesInv, Recorded
    <3>3. /\ r \in Questions /\ r.kind = q.kind /\ r.left = q.left \ {"files"}
          /\ r.live = q.live /\ r.awaited = q.awaited /\ r.about = q.about /\ r.bell = q.bell
          /\ r.files = whole[here] /\ r.job = q.job
      BY <1>4, <3>2 DEF Questions
    <3> HIDE DEF r
    <3>4. True(r) /\ Placed(r) /\ (Submitting(r) <=> Submitting(q))
      BY <1>4, <3>3 DEF True, Placed, Submitting
    <3>5. Sees(q) => Sees(r)
      BY <3>1, <3>3 DEF Sees
    <3> QED
      BY <3>1, <3>4, <3>5
  <2>3. CASE ServeBell(q)
    <3> DEFINE r == [[q EXCEPT !.bell = Unread] EXCEPT !.left = @ \ {"items"}]
    <3>1. asked' = (asked \ {q}) \cup {r} /\ "items" \in q.left
      BY <2>3 DEF ServeBell, Served, Replace
    <3>2. Unread \subseteq All /\ All \subseteq Notices
      BY DEF Unread, All
    <3>3. /\ r \in Questions /\ r.kind = q.kind /\ r.left = q.left \ {"items"}
          /\ r.live = q.live /\ r.awaited = q.awaited /\ r.about = q.about /\ r.bell = Unread
          /\ r.files = q.files /\ r.job = q.job
      BY <1>4, <3>2 DEF Questions
    <3> HIDE DEF r
    <3>4. True(r) /\ Placed(r) /\ (Submitting(r) <=> Submitting(q))
      BY <1>4, <3>2, <3>3 DEF True, Placed, Submitting
    <3>5. Sees(q) => Sees(r)
      BY <3>1, <3>3 DEF Sees
    <3> QED
      BY <3>1, <3>4, <3>5
  <2> QED
    BY <2>1, <2>2, <2>3
<1>6. PICK r : /\ asked' = (asked \ {q}) \cup {r} /\ True(r) /\ Placed(r)
               /\ Submitting(r) <=> Submitting(q)
               /\ Sees(q) => Sees(r)
  BY <1>5
<1>7. Sized' /\ Asked' /\ Submits'
  BY <1>1, <1>2, <1>6, SwapKeeps
<1>8. Ends'
  BY <1>1, <1>6, EndsSwap DEF PagesInv
<1> QED
  BY <1>2, <1>3, <1>7, <1>8 DEF PagesInv

LEMMA ServePostKeeps ==
  ASSUME PagesInv, NEW q \in asked, ServePost(q)
  PROVE  PagesInv'
<1>1. /\ UNCHANGED <<route, here, shown, files, confirm, form, bell, visits, fails>>
      /\ q.left = {"post"}
  BY DEF ServePost, page, detail
<1>2. True(q) /\ q \in Questions /\ Placed(q) /\ Recorded
  BY DEF PagesInv, Asked, True
<1>3. q.kind \in {"create", "cancel", "read", "readall"}
  BY DEF ServePost
<1> DEFINE a == [q EXCEPT !.left = @ \ {"post"}]
           b == [[q EXCEPT !.ok = FALSE] EXCEPT !.left = @ \ {"post"}]
<1>4. PICK r \in {a, b} : asked' = (asked \ {q}) \cup {r}
  BY DEF ServePost, ServeCreate, ServeCancel, ServeRead, Served,
         Replace
<1>5. True(r) /\ Placed(r) /\ (Submitting(r) <=> Submitting(q)) /\ r.kind # "detail"
  <2>1. /\ r \in Questions /\ r.kind = q.kind /\ r.left = {}
        /\ r.live = q.live /\ r.awaited = q.awaited /\ r.about = q.about /\ r.bell = q.bell
        /\ r.files = q.files /\ r.job = q.job
    BY <1>1, <1>2 DEF Questions
  <2> QED
    BY <1>2, <1>3, <2>1 DEF True, Placed, Submitting
<1>6. \A p \in asked' : p.kind = "detail" => p \in asked
  BY <1>4, <1>5
<1> HIDE DEF a, b
<1>7. Forward /\ Recorded' /\ Ends' /\ straddled' \in BOOLEAN
  <2>1. CASE UNCHANGED <<status, notified, committed, whole, straddled>>
    <3>1. Sees(r)
      BY <1>5 DEF Sees
    <3>2. Ends'
      BY <1>1, <1>4, <2>1, <3>1, EndsSwap DEF PagesInv
    <3> QED
      BY <1>2, <2>1, <3>2, Still DEF PagesInv, Page
  <2>2. ASSUME NEW j \in Jobs, Server!Submitted(j), UNCHANGED <<whole, straddled>>
        PROVE  Forward /\ Recorded' /\ Ends' /\ straddled' \in BOOLEAN
    <3>1. /\ Server!Becomes(j, "queued") /\ status[j] \notin Terminal
          /\ "queued" \in Statuses \ {"none"} /\ "queued" \notin Terminal
      BY <2>2 DEF Server!Submitted, Statuses, Live, Terminal
    <3>2. Forward /\ Recorded' /\ status'[j] = "queued" /\ \A i \in Jobs : i # j => status'[i] = status[i]
      BY <1>2, <2>2, <3>1, RowStep
    <3>3. Ends'
      BY <1>1, <1>6, <2>2, <3>1, <3>2, RowStepEnds
    <3> QED
      BY <2>2, <3>2, <3>3 DEF PagesInv, Page
  <2>3. ASSUME NEW j \in Jobs, status[j] \in Live, Server!Cancelled(j), UNCHANGED whole,
               straddled' = (straddled \/ Straddles(j))
        PROVE  Forward /\ Recorded' /\ Ends' /\ straddled' \in BOOLEAN
    <3>1. /\ Server!Becomes(j, "cancelled") /\ status[j] \notin Terminal
          /\ "cancelled" \in Statuses \ {"none"} /\ "cancelled" \in Terminal
      BY <2>3 DEF Server!Cancelled, Statuses, Live, Terminal
    <3>2. Forward /\ Recorded' /\ status'[j] = "cancelled" /\ \A i \in Jobs : i # j => status'[i] = status[i]
      BY <1>2, <2>3, <3>1, RowStep
    <3>3. Ends'
      BY <1>1, <1>6, <2>3, <3>1, <3>2, RowStepEnds
    <3> QED
      BY <2>3, <3>2, <3>3 DEF PagesInv, Page
  <2>4. CASE q.kind = "create" /\ ServeCreate(q)
    BY <2>1, <2>2, <2>4 DEF ServeCreate, record
  <2>5. CASE q.kind = "cancel" /\ ServeCancel(q)
    <3>1. PICK j \in q.about :
            IF status[j] \in Live
            THEN Server!Cancelled(j) /\ straddled' = (straddled \/ Straddles(j))
            ELSE UNCHANGED <<status, notified, committed, straddled>>
      BY <2>5 DEF ServeCancel, record
    <3>2. j \in Jobs /\ UNCHANGED whole
      BY <1>2, <2>5 DEF True, ServeCancel
    <3> QED
      BY <2>1, <2>3, <3>1, <3>2
  <2>6. CASE q.kind \in {"read", "readall"} /\ ServeRead(q)
    BY <2>1, <2>6 DEF ServeRead, record
  <2> QED
    BY <2>4, <2>5, <2>6 DEF ServePost
<1>8. Sized' /\ Asked' /\ Submits'
  BY <1>1, <1>4, <1>5, <1>7, SwapKeeps
<1>9. Page'
  BY <1>1, <1>7, AllGrows DEF PagesInv, Page, Forward
<1> QED
  BY <1>7, <1>8, <1>9 DEF PagesInv

LEMMA RequestFailsKeeps ==
  ASSUME PagesInv, NEW q \in asked, RequestFails(q)
  PROVE  PagesInv'
<1>1. /\ UNCHANGED <<status, notified, committed, whole, route, here, shown, files, straddled,
                     confirm, form, bell, visits>>
      /\ fails' \in 0..MaxFails
  BY PagesAssumption DEF RequestFails, server, record, page, detail, PagesInv, Page
<1>2. True(q) /\ q \in Questions /\ Placed(q) /\ here \in Jobs
  BY DEF PagesInv, Asked, True, Page
<1> DEFINE a == Ask(q.kind)
           r == [a EXCEPT !.left = {}, !.ok = FALSE, !.live = q.live, !.awaited = q.awaited,
                          !.about = q.about]
<1>3. asked' = (asked \ {q}) \cup {r}
  BY DEF RequestFails, Replace
<1>4. a \in Questions /\ a.kind = q.kind /\ a.job = Unseen /\ a.bell = {}
  <2>1. q.kind \in Kinds
    BY <1>2 DEF Questions
  <2> QED
    BY <2>1, AskIs
<1> HIDE DEF a
<1>5. /\ r \in Questions /\ r.kind = q.kind /\ r.left = {} /\ r.live = q.live
      /\ r.awaited = q.awaited /\ r.about = q.about /\ r.job = Unseen /\ r.bell = {}
  BY <1>2, <1>4 DEF Questions
<1> HIDE DEF r
<1>6. True(r) /\ Placed(r) /\ (Submitting(r) <=> Submitting(q)) /\ Sees(r)
  BY <1>2, <1>5, UnseenIs DEF True, Placed, Submitting, Sees, Terminal
<1>7. Forward /\ Recorded'
  BY <1>1, Still DEF PagesInv
<1>8. Page'
  BY <1>1, <1>7, AllGrows DEF PagesInv, Page, Forward
<1>9. Sized' /\ Asked' /\ Submits'
  BY <1>1, <1>3, <1>6, <1>7, SwapKeeps
<1>10. Ends'
  BY <1>1, <1>3, <1>6, EndsSwap DEF PagesInv
<1> QED
  BY <1>7, <1>8, <1>9, <1>10 DEF PagesInv

---------------------------------------------------------------------------
(* Their answers.                                                          *)

\* A question is done with.
LEMMA DropKeeps ==
  ASSUME PagesInv, Forward, NEW q \in asked, asked' = asked \ {q},
         ~Submitting(q), form' = form, route' = route
  PROVE  Sized' /\ Asked' /\ Submits'
<1>1. Sized'
  BY LessSized DEF PagesInv
<1>2. Asked'
  <2>1. \A p \in asked' : True(p) /\ Placed(p)
    BY DEF PagesInv, Asked
  <2>2. \A p \in asked' : Placed(p)'
    BY <2>1 DEF Placed
  <2> QED
    BY <2>1, <2>2, AllTrueStays DEF Asked
<1>3. Submits'
  BY DEF PagesInv, Submits, Submitting
<1> QED
  BY <1>1, <1>2, <1>3

LEMMA PollAnsweredKeeps ==
  ASSUME PagesInv, NEW q \in asked,
         ListAnswered(q) \/ DetailAnswered(q) \/ PollFailed(q)
  PROVE  PagesInv'
<1>1. /\ UNCHANGED <<status, notified, committed, whole, route, here, confirm, form, bell, visits,
                     fails, straddled>>
      /\ asked' = asked \ {q} /\ q.kind \in {"list", "detail"}
  BY DEF ListAnswered, DetailAnswered, ShowDetail, PollFailed, Settled,
         server, record, page, detail, history
<1>2. True(q) /\ q \in Questions /\ q.kind = route /\ here \in Jobs
  BY <1>1 DEF PagesInv, Asked, True, Placed, Page
<1>3. Forward /\ Recorded'
  BY <1>1, Still DEF PagesInv
<1>4. Sized' /\ Asked' /\ Submits'
  BY <1>1, <1>3, DropKeeps DEF Submitting
<1>5. CASE UNCHANGED <<shown, files>>
  <2>1. Page'
    BY <1>1, <1>3, <1>5, PageStays DEF PagesInv
  <2>2. Ends'
    BY <1>1, <1>5, EndsFrame DEF PagesInv, Like
  <2> QED
    BY <1>3, <1>4, <2>1, <2>2 DEF PagesInv
<1>6. CASE q.kind = "list" /\ shown' = q.job /\ files' = files
  <2>1. q.job \in [Jobs -> Statuses] /\ \A j \in Jobs : q.job[j] \in {"none"} \cup committed[j]
    BY <1>2 DEF True, Questions
  <2>2. Page'
    BY <1>1, <1>3, <1>6, <2>1, AllGrows DEF PagesInv, Page, Forward
  <2>3. Ends'
    BY <1>1, <1>2, <1>6 DEF Ends
  <2> QED
    BY <1>3, <1>4, <2>2, <2>3 DEF PagesInv
<1>7. CASE /\ q.kind = "detail" /\ q.left = {} /\ files' = q.files
           /\ shown' = [Unseen EXCEPT ![here] = q.job[here]]
  <2>1. /\ q.job \in [Jobs -> Statuses] /\ q.files \in BOOLEAN
        /\ \A j \in Jobs : q.job[j] \in {"none"} \cup committed[j]
    BY <1>2 DEF True, Questions
  <2>2. shown' \in [Jobs -> Statuses] /\ shown'[here] = q.job[here]
        /\ \A j \in Jobs : j # here => shown'[j] = "none"
    BY <1>2, <1>7, <2>1, UnseenIs
  <2>3. Page'
    BY <1>1, <1>3, <1>7, <2>1, <2>2, AllGrows DEF PagesInv, Page, Forward
  <2>4. Ends'
    <3> SUFFICES ASSUME route = "detail", ~straddled
                 PROVE  /\ \A p \in asked' : Sees(p)'
                        /\ shown'[here] \in Terminal
                             => status[here] \in Terminal /\ files' = whole[here]
      BY <1>1 DEF Ends
    <3>1. \A p \in asked : Sees(p)
      BY DEF PagesInv, Ends
    <3> QED
      BY <1>1, <1>7, <2>2, <3>1 DEF Sees
  <2> QED
    BY <1>3, <1>4, <2>3, <2>4 DEF PagesInv
<1> QED
  BY <1>5, <1>6, <1>7 DEF ListAnswered, DetailAnswered, ShowDetail,
     PollFailed, page, detail

LEMMA PushKeeps ==
  ASSUME PagesInv,
         NEW q \in asked, q.kind \in {"bell", "read", "readall"}, Push(q),
         UNCHANGED <<server, history>>
  PROVE  PagesInv'
<1>1. /\ UNCHANGED <<status, notified, committed, whole, fails, straddled>>
      /\ visits' \in 0..MaxVisits
  BY DEF server, record, history, PagesInv, Page
<1>2. PICK n \in q.about : Mount("detail", n[1], asked \ {q})
  BY DEF Push
<1>3. n[1] \in Jobs
  BY DEF PagesInv, Asked, True, Notices
<1> QED
  BY <1>1, <1>2, <1>3, MountKeeps

LEMMA BellAnsweredKeeps ==
  ASSUME PagesInv, NEW q \in asked, BellAnswered(q)
  PROVE  PagesInv'
<1>1. CASE q.awaited
  BY <1>1, PushKeeps DEF BellAnswered
<1>2. CASE ~q.awaited
  <2>1. /\ UNCHANGED <<status, notified, committed, whole, route, here, shown, files, straddled,
                       confirm, form, visits, fails>>
        /\ asked' = asked \ {q} /\ q.kind = "bell"
        /\ bell' = q.bell \/ bell' = bell
    BY <1>2 DEF BellAnswered, Settled, server, record, detail,
       history
  <2>2. Forward /\ Recorded'
    BY <2>1, Still DEF PagesInv
  <2>3. Page'
    BY <2>1, <2>2, AllGrows DEF PagesInv, Page, Forward, Asked, True
  <2>4. Sized' /\ Asked' /\ Submits'
    BY <2>1, <2>2, DropKeeps DEF Submitting
  <2>5. Ends'
    BY <2>1, EndsFrame DEF PagesInv, Like
  <2> QED
    BY <2>2, <2>3, <2>4, <2>5 DEF PagesInv
<1> QED
  BY <1>1, <1>2

LEMMA CreateDoneKeeps ==
  ASSUME PagesInv, NEW q \in asked, CreateAnswered(q)
  PROVE  PagesInv'
<1>1. /\ UNCHANGED <<status, notified, committed, whole, route, here, shown, files, straddled,
                     confirm, bell, visits, fails>>
      /\ q.kind = "create"
  BY DEF CreateAnswered, server, record, detail, history
<1>2. CASE q.ok /\ q.live
  <2>1. form' = "closed" /\ asked' = FormGone(asked \ {q}) \cup {Ask("list")}
    BY <1>2 DEF CreateAnswered
  <2>2. route = "list"
    BY <1>1, <1>2 DEF PagesInv, Asked, Placed
  <2>3. asked \ {q} \in SUBSET asked /\ q \notin asked \ {q}
    OBVIOUS
  <2> QED
    BY <1>1, <2>1, <2>2, <2>3, FormGoneKeeps
<1>3. CASE ~(q.ok /\ q.live)
  <2>1. asked' = asked \ {q} /\ form' = IF q.live /\ q.awaited THEN "open" ELSE form
    BY <1>3 DEF CreateAnswered, Settled
  <2>2. Forward /\ Recorded'
    BY <1>1, Still DEF PagesInv
  <2>3. Page'
    BY <1>1, <2>1, <2>2, AllGrows DEF PagesInv, Page, Forward
  <2>4. Ends'
    BY <1>1, <2>1, EndsFrame DEF PagesInv, Like
  <2>5. Sized' /\ Asked'
    <3>1. Sized'
      BY <2>1, LessSized DEF PagesInv
    <3>2. \A p \in asked' : Placed(p)'
      BY <1>1, <2>1 DEF PagesInv, Asked, Placed
    <3> QED
      BY <2>1, <2>2, <3>1, <3>2, AllTrueStays DEF PagesInv, Asked
  <2>6. Submits'
    <3>1. CASE q.live /\ q.awaited
      <4>1. Submitting(q) /\ form' = "open"
        BY <1>1, <2>1, <3>1 DEF Submitting
      <4> QED
        BY <2>1, <4>1 DEF PagesInv, Submits, Submitting
    <3>2. CASE ~(q.live /\ q.awaited)
      <4>1. ~Submitting(q) /\ form' = form
        BY <2>1, <3>2 DEF Submitting
      <4> QED
        BY <1>1, <2>1, <2>2, <4>1, DropKeeps
    <3> QED
      BY <3>1, <3>2
  <2> QED
    BY <2>2, <2>3, <2>4, <2>5, <2>6 DEF PagesInv
<1> QED
  BY <1>2, <1>3

LEMMA CancelDoneKeeps ==
  ASSUME PagesInv, NEW q \in asked, HandleCancel(q)
  PROVE  PagesInv'
<1>1. /\ UNCHANGED <<status, notified, committed, whole, route, here, shown, files, straddled,
                     form, bell, visits, fails>>
      /\ q.kind = "cancel" /\ confirm' = (confirm /\ ~q.live)
  BY DEF HandleCancel, server, record, history
<1>2. Forward /\ Recorded' /\ ~Submitting(q)
  BY <1>1, Still DEF PagesInv, Submitting
<1>3. Page'
  BY <1>1, <1>2, AllGrows DEF PagesInv, Page, Forward
<1>4. CASE q.ok /\ q.live
  <2> DEFINE r == Ask("detail")
  <2>1. asked' = (asked \ {q}) \cup {r} /\ route = "detail"
    BY <1>1, <1>4 DEF HandleCancel, Replace, PagesInv, Asked, Placed
  <2>2. "detail" \in Kinds
    BY PartsAre
  <2>3. True(r) /\ Placed(r) /\ ~Submitting(r) /\ Sees(r)
    BY <2>1, <2>2, AskFits, AskIs, AskedSees
  <2> HIDE DEF r
  <2>4. Sized' /\ Asked' /\ Submits'
    BY <1>1, <1>2, <2>1, <2>3, SwapKeeps
  <2>5. Ends'
    BY <1>1, <2>1, <2>3, EndsSwap DEF PagesInv
  <2> QED
    BY <1>2, <1>3, <2>4, <2>5 DEF PagesInv
<1>5. CASE ~(q.ok /\ q.live)
  <2>1. asked' = asked \ {q}
    BY <1>5 DEF HandleCancel, Settled
  <2>2. Sized' /\ Asked' /\ Submits'
    BY <1>1, <1>2, <2>1, DropKeeps
  <2>3. Ends'
    BY <1>1, <2>1, EndsFrame DEF PagesInv, Like
  <2> QED
    BY <1>2, <1>3, <2>2, <2>3 DEF PagesInv
<1> QED
  BY <1>4, <1>5

LEMMA MarkAnsweredKeeps ==
  ASSUME PagesInv, NEW q \in asked, MarkAnswered(q)
  PROVE  PagesInv'
<1>1. q.kind \in {"read", "readall"} /\ UNCHANGED <<server, history>>
  BY DEF MarkAnswered
<1>2. UNCHANGED <<status, notified, committed, whole, visits, fails, straddled>>
  BY <1>1 DEF server, record, history
<1>3. Forward /\ Recorded' /\ ~Submitting(q)
  BY <1>1, <1>2, Still DEF PagesInv, Submitting
<1>4. CASE Push(q)
  BY <1>1, <1>4, PushKeeps
<1>5. CASE UNCHANGED page /\ asked' = asked \ {q}
  <2>1. UNCHANGED <<route, here, shown, files, confirm, form, bell>>
    BY <1>5 DEF page, detail
  <2>2. Sized' /\ Asked' /\ Submits'
    BY <1>3, <1>5, <2>1, DropKeeps
  <2>3. Ends'
    BY <1>2, <1>5, <2>1, EndsFrame DEF PagesInv, Like
  <2>4. Page'
    BY <1>2, <1>3, <2>1, PageStays DEF PagesInv
  <2> QED
    BY <1>3, <2>2, <2>3, <2>4 DEF PagesInv
<1>6. CASE /\ UNCHANGED page
           /\ Replace(q, [Ask("bell") EXCEPT !.awaited = q.awaited, !.about = q.about,
                                                         !.live = q.live])
  <2> DEFINE a == Ask("bell")
             r == [a EXCEPT !.awaited = q.awaited, !.about = q.about, !.live = q.live]
  <2>1. UNCHANGED <<route, here, shown, files, confirm, form, bell>>
    BY <1>6 DEF page, detail
  <2>2. True(a) /\ a.kind = "bell" /\ a.left = Parts["bell"]
    <3>1. "bell" \in Kinds
      BY PartsAre
    <3> QED
      BY <3>1, AskIs, AskFits
  <2>3. asked' = (asked \ {q}) \cup {r}
    BY <1>6 DEF Replace
  <2> HIDE DEF a
  <2>4. True(q) /\ q \in Questions /\ q.about \subseteq Notices
    BY <1>1 DEF PagesInv, Asked, True
  <2>5. True(r) /\ r.kind = "bell"
    BY <2>2, <2>4 DEF True, Questions
  <2> HIDE DEF r
  <2>6. Placed(r) /\ ~Submitting(r) /\ Sees(r)
    BY <2>5 DEF Placed, Submitting, Sees
  <2>7. Sized' /\ Asked' /\ Submits'
    BY <1>3, <2>1, <2>3, <2>5, <2>6, SwapKeeps
  <2>8. Ends'
    BY <1>2, <2>1, <2>3, <2>6, EndsSwap DEF PagesInv
  <2>9. Page'
    BY <1>2, <1>3, <2>1, PageStays DEF PagesInv
  <2> QED
    BY <1>3, <2>7, <2>8, <2>9 DEF PagesInv
<1> QED
  BY <1>4, <1>5, <1>6 DEF MarkAnswered, Settled

---------------------------------------------------------------------------

LEMMA InitHolds ==
  ASSUME Init
  PROVE  PagesInv
<1>1. Recorded
  BY DEF Init, Server!RecordInit, Recorded, Statuses
<1>2. Page
  <2>1. shown \in [Jobs -> Statuses] /\ \A j \in Jobs : shown[j] = "none"
    BY UnseenIs DEF Init
  <2>2. visits \in 0..MaxVisits /\ fails \in 0..MaxFails
    BY PagesAssumption DEF Init
  <2> QED
    BY <2>1, <2>2 DEF Init, Page
<1>3. Sized
  BY FS_EmptySet, PagesAssumption DEF Init, Sized
<1>4. Asked /\ Submits /\ Ends
  BY DEF Init, Asked, Submits, Ends
<1> QED
  BY <1>1, <1>2, <1>3, <1>4 DEF PagesInv

LEMMA StutterKeeps ==
  ASSUME PagesInv, UNCHANGED vars
  PROVE  PagesInv'
<1>1. UNCHANGED <<status, notified, committed, whole, route, here, shown, files, confirm, form, bell,
                  asked, visits, fails, straddled>>
  BY DEF vars, server, record, page, detail, history
<1>2. Forward /\ Recorded'
  BY <1>1, Still DEF PagesInv
<1>3. Page'
  BY <1>1, <1>2, PageStays DEF PagesInv
<1>4. Asked'
  <2>1. \A p \in asked' : Placed(p)'
    BY <1>1 DEF PagesInv, Asked, Placed
  <2> QED
    BY <1>1, <1>2, <2>1, AllTrueStays DEF PagesInv, Asked
<1>5. Submits' /\ Sized'
  BY <1>1 DEF PagesInv, Submits, Sized
<1>6. Ends'
  BY <1>1, EndsFrame DEF PagesInv, Like
<1> QED
  BY <1>2, <1>3, <1>4, <1>5, <1>6 DEF PagesInv

LEMMA StepKeeps ==
  ASSUME PagesInv, [Next]_vars
  PROVE  PagesInv'
<1>1. CASE \E j \in Jobs : Background(j)
  BY <1>1, BackgroundKeeps
<1>2. CASE JobsPage \/ JobDetailPage
  BY <1>2, PollKeeps, ToggleFormKeeps, JobFormKeeps, CancelButtonKeeps, ConfirmDialogKeeps
  DEF JobsPage, JobDetailPage
<1>3. CASE NotificationCenter \/ Visit
  BY <1>3, PollKeeps, SelectKeeps, VisitKeeps DEF NotificationCenter, BellControls
<1>4. ASSUME NEW q \in asked, Serve(q) \/ RequestFails(q) PROVE PagesInv'
  BY <1>4, ServePartKeeps, ServePostKeeps, RequestFailsKeeps DEF Serve
<1>5. ASSUME NEW q \in asked, Answer(q) PROVE PagesInv'
  BY <1>5, PollAnsweredKeeps, BellAnsweredKeeps, CreateDoneKeeps, CancelDoneKeeps, MarkAnsweredKeeps
  DEF Answer
<1>6. CASE UNCHANGED vars
  BY <1>6, StutterKeeps
<1> QED
  BY <1>1, <1>2, <1>3, <1>4, <1>5, <1>6 DEF Next

LEMMA PagesInvariant == Spec => []PagesInv
<1>1. Init => PagesInv
  BY InitHolds
<1>2. PagesInv /\ [Next]_vars => PagesInv'
  BY StepKeeps
<1> QED
  BY <1>1, <1>2, PTL DEF Spec

\* The state of the pages that watch jobs is of its types in every reachable state:
\* whatever crosses (a page left, a form closed while it submits, an answer that
\* comes to the next page), jobs/page.tsx, jobs/[id]/page.tsx and
\* NotificationCenter.tsx show only what was once committed or told, and the form
\* is disabled exactly while its submission is out.
THEOREM WatchingPagesAreTyped == Spec => []TypeOK
<1>1. PagesInv => TypeOK
  <2> SUFFICES ASSUME PagesInv PROVE TypeOK
    OBVIOUS
  <2>1. form = "submitting" <=> \E q \in Open("create") : q.awaited
    BY DEF PagesInv, Submits, Submitting, Open
  <2>2. Cardinality(asked) <= MaxAsked
    BY DEF PagesInv, Sized
  <2>3. \A q \in asked : /\ q.kind \in Kinds /\ q.left \subseteq Parts[q.kind]
                         /\ q.live /\ q.kind \in {"list", "detail"} => q.kind = route
    BY DEF PagesInv, Asked, True, Questions, Placed
  <2> QED
    BY <2>1, <2>2, <2>3 DEF PagesInv, Page, TypeOK
<1> QED
  BY <1>1, PagesInvariant, PTL

\* A page of a job that shows how the job ended shows its complete log and
\* checkpoints, however its three requests and those of other questions overtake
\* each other, unless one straddled the end (jobs/[id]/page.tsx, load and its
\* interval).
THEOREM EndsAreShownWhole == Spec => []EndIsWhole
<1>1. PagesInv => EndIsWhole
  BY DEF PagesInv, Ends, EndIsWhole
<1> QED
  BY <1>1, PagesInvariant, PTL

=============================================================================
