------------------------------ MODULE Account ------------------------------
(***************************************************************************)
(* Signing in and the profile: the tokens in localStorage, apiFetch with   *)
(* its one shared refresh, AuthContext and AuthGuard, the two sign-in      *)
(* forms, the profile page, and behind them api/auth.py and                *)
(* user_service.py with the avatar's row and object.                       *)
(*                                                                         *)
(* One tab, in which documents follow each other: assigning location.href  *)
(* unloads the page later, and until then its promises go on.  An action   *)
(* is a click, one step of a handler between awaits, or one answer.  A     *)
(* token stands for its account; the server may refuse any access or       *)
(* refresh token, which leaves their lifetimes open.                       *)
(***************************************************************************)
EXTENDS Naturals, FiniteSets

CONSTANTS
    Accounts,       \* email addresses
    Slots,          \* bound: requests under way at once
    MaxUploads,     \* bound: pictures picked
    MaxActs         \* bound: page loads, forms submitted and profile edits together

None == "none"

ASSUME AccountAssumption ==
    /\ None \notin Accounts
    /\ MaxUploads \in Nat /\ MaxActs \in Nat

Keys == 1..MaxUploads               \* object names, each with a uuid of its own
Owners == Accounts \cup {None}
Controls == {"sign", "save", "picture"}
Kinds == {"load", "login", "register", "save", "upload", "remove"}
Steps == {"sent", "read", "stored", "committed", "done", "error", "refused", "waiting"}

VARIABLES
    \* the browser
    tokens,     \* whose tokens localStorage holds
    \* the document
    doc,        \* blank, alive, or leaving (location.href was assigned)
    route,      \* signin (login or register), or app (any guarded page)
    user, loading,      \* AuthContext
    refresh,    \* refreshPromise: the account it refreshes
    form,       \* the request each control waits for, which disables it
    \* requests, with what the server's handler remembers
    req,
    \* the server
    registered, \* rows of users
    avatarKey,  \* users.avatar_key; 0 is NULL
    bucket,     \* objects under avatars/
    \* history
    uploads, acts,      \* so far
    session,    \* whose session it is: the last sign-in that no sign-out followed
    overlapped  \* a sign-in or sign-out came while an earlier answer was out

document == <<doc, route, user, loading, refresh, form>>
server == <<registered, avatarKey, bucket>>
history == <<uploads, acts, session, overlapped>>
vars == <<tokens, document, req, server, history>>

NoUser == [of |-> None, avatar |-> 0]
NoReq == [kind |-> None, st |-> None, who |-> None, retried |-> FALSE, after |-> FALSE,
          live |-> FALSE, key |-> 0, prev |-> 0]
NoForm == [c \in Controls |-> None]

User == [of : Owners, avatar : 0..MaxUploads]
Req == [kind : Kinds \cup {None}, st : Steps \cup {None}, who : Owners, retried : BOOLEAN,
        after : BOOLEAN, live : BOOLEAN, key : 0..MaxUploads, prev : 0..MaxUploads]

Busy == {s \in Slots : req[s].kind # None}
Live == {s \in Busy : req[s].live}
Waiting == {s \in Slots : req[s].st = "waiting"}

\* The shape of the state.  Nobody is forgotten: a request waits for a refresh
\* only while there is one, and a control only for a request that will answer it.
TypeOK ==
    /\ Waiting # {} <=> refresh # None
    /\ \A c \in Controls : form[c] # None => form[c] \in Live
    /\ tokens \in Owners /\ refresh \in Owners /\ session \in Owners
    /\ doc \in {"blank", "alive", "leaving"}
    /\ route \in {"signin", "app"}
    /\ user \in User
    /\ loading \in BOOLEAN /\ overlapped \in BOOLEAN
    /\ form \in [Controls -> Slots \cup {None}]
    /\ req \in [Slots -> Req]
    /\ registered \subseteq Accounts
    /\ avatarKey \in [Accounts -> 0..MaxUploads]
    /\ bucket \subseteq Keys
    /\ uploads \in 0..MaxUploads /\ acts \in 0..MaxActs

\* A first visit, or a later one with tokens from before.
Init ==
    /\ registered \in {r \in SUBSET Accounts : r # {}}
    /\ tokens \in registered \cup {None} /\ session = tokens
    /\ doc = "blank" /\ route \in {"signin", "app"}
    /\ user = NoUser /\ loading = TRUE
    /\ refresh = None /\ form = NoForm
    /\ req = [s \in Slots |-> NoReq]
    /\ avatarKey = [a \in Accounts |-> 0] /\ bucket = {}
    /\ uploads = 0 /\ acts = 0
    /\ overlapped = FALSE

Free == Slots \ Busy

Act == acts < MaxActs /\ acts' = acts + 1

Request(kind, who) == [NoReq EXCEPT !.kind = kind, !.st = "sent", !.who = who, !.live = TRUE]

---------------------------------------------------------------------------
(* The document.                                                           *)

\* AuthProvider mounts, and loadUser asks who this is if there is a token.
Mount ==
    /\ doc = "blank"
    /\ doc' = "alive"
    /\ Act
    /\ IF tokens = None
       THEN loading' = FALSE /\ UNCHANGED req
       ELSE /\ \E s \in Free : req' = [req EXCEPT ![s] = Request("load", tokens)]
            /\ UNCHANGED loading
    /\ UNCHANGED <<tokens, route, user, refresh, form, server, uploads, session, overlapped>>

\* The promises of a document end with it; what the server is doing does not.
Unload(to) ==
    /\ doc' = "blank" /\ route' = to
    /\ user' = NoUser /\ loading' = TRUE
    /\ refresh' = None /\ form' = NoForm
    /\ req' = [s \in Slots |-> IF req[s].st \in {"waiting", "refused", None} THEN NoReq
                               ELSE [req[s] EXCEPT !.live = FALSE]]
    /\ UNCHANGED <<tokens, server, history>>

\* location.href = "/login" takes effect.
Leaves == doc = "leaving" /\ Unload("signin")

\* The user reloads, or types an address.
Reload == doc = "alive" /\ \E to \in {"signin", "app"} : Unload(to)

\* The user follows a link or goes back: the page is another, the document is not.
Navigate ==
    /\ doc = "alive"
    /\ route' \in {"signin", "app"}
    /\ form' = NoForm
    /\ UNCHANGED <<tokens, doc, user, loading, refresh, req, server, history>>

AuthGuard ==
    /\ doc # "blank" /\ route = "app"
    /\ ~loading /\ user = NoUser
    /\ route' = "signin" /\ form' = NoForm
    /\ UNCHANGED <<tokens, doc, user, loading, refresh, req, server, history>>

---------------------------------------------------------------------------
(* What the user does.                                                     *)

\* A control sends its request and is disabled until it is answered.
Send(control, request) ==
    /\ doc = "alive"
    /\ form[control] = None
    /\ Act
    /\ \E s \in Free : /\ req' = [req EXCEPT ![s] = request]
                       /\ form' = [form EXCEPT ![control] = s]

\* Fields the form finds invalid are shown and nothing is sent.
Submit(kind, who) ==
    /\ route = "signin"
    /\ Send("sign", Request(kind, who))
    /\ UNCHANGED <<tokens, doc, route, user, loading, refresh, server,
                   uploads, session, overlapped>>

LoginForm == \E who \in Accounts : Submit("login", who)
RegisterForm == \E who \in Accounts : Submit("register", who)

SignedIn == doc = "alive" /\ route = "app" /\ ~loading /\ user # NoUser

Logout ==
    /\ SignedIn
    /\ tokens' = None /\ session' = None
    /\ user' = NoUser
    /\ doc' = "leaving"
    /\ overlapped' = (overlapped \/ refresh # None)
    /\ UNCHANGED <<route, loading, refresh, form, req, server, uploads, acts>>

\* The menu's other item, "Profile settings", is a link: Navigate.
ProfileMenu == Logout

HandleSave ==
    /\ SignedIn
    /\ Send("save", Request("save", tokens))
    /\ UNCHANGED <<tokens, doc, route, user, loading, refresh, server,
                   uploads, session, overlapped>>

\* A picture of a wrong type or over 5 MB is turned away here.
HandleAvatarPicked ==
    /\ SignedIn /\ uploads < MaxUploads
    /\ uploads' = uploads + 1
    /\ Send("picture", [Request("upload", tokens) EXCEPT !.key = uploads + 1])
    /\ UNCHANGED <<tokens, doc, route, user, loading, refresh, server, session, overlapped>>

\* The button is there only with a picture to remove.
HandleAvatarRemove ==
    /\ SignedIn /\ user.avatar # 0
    /\ Send("picture", Request("remove", tokens))
    /\ UNCHANGED <<tokens, doc, route, user, loading, refresh, server,
                   uploads, session, overlapped>>

ProfilePage == HandleSave \/ HandleAvatarPicked \/ HandleAvatarRemove

---------------------------------------------------------------------------
(* The server.                                                             *)

Goes(s, st) == req' = [req EXCEPT ![s].st = st]

\* POST /auth/login and /auth/register.  Of two that register one address the
\* users.email constraint stops the second.
SignInHandled(s) ==
    /\ req[s].st = "sent" /\ req[s].kind \in {"login", "register"}
    /\ \/ /\ req[s].kind = "login" /\ req[s].who \in registered
          /\ Goes(s, "done") /\ UNCHANGED registered
       \/ /\ req[s].kind = "register" /\ req[s].who \notin registered
          /\ Goes(s, "done") /\ registered' = registered \cup {req[s].who}
       \/ Goes(s, "error") /\ UNCHANGED registered
    /\ UNCHANGED <<tokens, document, avatarKey, bucket, history>>

\* get_current_user: no token is a 403, and a token it does not accept a 401.
\* The row is read here: set_avatar and remove_avatar take previous_key from it.
Authenticate(s) ==
    /\ req[s].st = "sent" /\ req[s].kind \in {"load", "save", "upload", "remove"}
    /\ IF req[s].who = None THEN Goes(s, "error")
       ELSE \/ Goes(s, "refused")
            \/ req' = [req EXCEPT ![s].st = IF req[s].kind = "load" THEN "done" ELSE "read",
                                  ![s].prev = avatarKey[req[s].who]]
    /\ UNCHANGED <<tokens, document, server, history>>

UpdateProfile(s) ==
    /\ req[s].st = "read" /\ req[s].kind = "save"
    /\ req' = [req EXCEPT ![s].st = "done", ![s].prev = avatarKey[req[s].who]]
    /\ UNCHANGED <<tokens, document, server, history>>

\* Mutation: the object is deleted once its replacement is uploaded, not once
\* that is committed.
UploadDiscards(s) ==
    /\ req[s].st = "read" /\ req[s].kind = "upload"
    /\ bucket' = (bucket \cup {req[s].key}) \ {req[s].prev}
    /\ Goes(s, "stored")
    /\ UNCHANGED <<tokens, document, registered, avatarKey, history>>

UploadObject(s) ==
    /\ req[s].st = "read" /\ req[s].kind = "upload"
    /\ bucket' = bucket \cup {req[s].key}
    /\ Goes(s, "stored")
    /\ UNCHANGED <<tokens, document, registered, avatarKey, history>>

\* set_avatar's and remove_avatar's commit.  A NULL over a NULL is no change, and
\* the session writes none, whatever the row holds by now.
CommitAvatar(s) ==
    /\ \/ req[s].st = "stored"
       \/ req[s].st = "read" /\ req[s].kind = "remove"
    /\ avatarKey' = IF req[s].key # req[s].prev
                    THEN [avatarKey EXCEPT ![req[s].who] = req[s].key] ELSE avatarKey
    /\ Goes(s, "committed")
    /\ UNCHANGED <<tokens, document, registered, bucket, history>>

\* refresh, then _discard of the previous object, whose failure is only logged.
\* The answer is the row as refreshed.
Discard(s) ==
    /\ req[s].st = "committed"
    /\ bucket' \in {bucket, bucket \ {req[s].prev}}
    /\ req' = [req EXCEPT ![s].st = "done", ![s].prev = avatarKey[req[s].who]]
    /\ UNCHANGED <<tokens, document, registered, avatarKey, history>>

Server(s) ==
    SignInHandled(s) \/ Authenticate(s) \/ UpdateProfile(s)
      \/ UploadObject(s) \/ CommitAvatar(s) \/ Discard(s)

\* The network fails, the handler raises, or the process dies where it is.
RequestFails(s) ==
    /\ req[s].st \in {"sent", "read", "stored", "committed", "done"}
    /\ Goes(s, "error")
    /\ UNCHANGED <<tokens, document, server, history>>

---------------------------------------------------------------------------
(* Answers.                                                                *)

Settle(S) ==
    /\ req' = [s \in Slots |-> IF s \in S THEN NoReq ELSE req[s]]
    /\ form' = [c \in Controls |-> IF form[c] \in S THEN None ELSE form[c]]

\* apiFetch throws in each request of S.  loadUser catches it, so that login
\* resolves and goes on to the dashboard all the same; the others show it.
Throws(S) ==
    LET loads == {s \in S : req[s].kind = "load"} IN
    /\ Settle(S)
    /\ user' = IF loads # {} THEN NoUser ELSE user
    /\ loading' = (loading /\ loads = {})
    /\ route' = IF \E s \in loads : req[s].after THEN "app" ELSE route

Error(s) ==
    /\ s \in Live
    /\ \/ req[s].st = "error"
       \/ req[s].st = "refused" /\ req[s].retried
    /\ Throws({s})
    /\ UNCHANGED <<tokens, doc, refresh, server, history>>

\* Mutation: the user is loaded before the new tokens are there.
LoadsBeforeStoring(s) ==
    /\ req[s].kind \in {"login", "register"}
    /\ tokens' = req[s].who /\ session' = req[s].who
    /\ req' = [req EXCEPT ![s] = [Request("load", IF tokens = None THEN req[s].who ELSE tokens)
                                  EXCEPT !.after = TRUE]]
    /\ overlapped' = (overlapped \/ Live # {s} \/ refresh # None)
    /\ UNCHANGED <<route, user, loading, form>>

\* setTokens, and then loadUser within the same login or register.
StoreTokens(s) ==
    /\ req[s].kind \in {"login", "register"}
    /\ tokens' = req[s].who /\ session' = req[s].who
    /\ req' = [req EXCEPT ![s] = [Request("load", req[s].who) EXCEPT !.after = TRUE]]
    /\ overlapped' = (overlapped \/ Live # {s} \/ refresh # None)
    /\ UNCHANGED <<route, user, loading, form>>

\* setUser(me), or applyUser with the row that an edit returned.
ShowUser(s) ==
    /\ req[s].kind \in {"load", "save", "upload", "remove"}
    /\ user' = [of |-> req[s].who, avatar |-> req[s].prev]
    /\ loading' = (loading /\ req[s].kind # "load")
    /\ route' = IF req[s].after THEN "app" ELSE route
    /\ Settle({s})
    /\ UNCHANGED <<tokens, session, overlapped>>

Answer(s) ==
    /\ s \in Live /\ req[s].st = "done"
    /\ StoreTokens(s) \/ ShowUser(s)
    /\ UNCHANGED <<doc, refresh, server, uploads, acts>>

\* No refresh to be had: every request of S gives up, and the tab goes to /login.
GiveUp(S) ==
    /\ tokens' = None /\ session' = None
    /\ doc' = "leaving"
    /\ Throws(S)

\* A first 401: refresh, or join the refresh that is under way.
TryRefresh(s) ==
    /\ s \in Live
    /\ req[s].st = "refused" /\ ~req[s].retried
    /\ IF tokens = None THEN GiveUp({s}) /\ UNCHANGED refresh
       ELSE /\ Goes(s, "waiting")
            /\ refresh' = IF refresh = None THEN tokens ELSE refresh
            /\ UNCHANGED <<tokens, session, doc, route, user, loading, form>>
    /\ UNCHANGED <<server, uploads, acts, overlapped>>

\* POST /auth/refresh is answered: every request that waits is sent once more.
Refreshed ==
    /\ refresh # None
    /\ tokens' = refresh
    /\ refresh' = None
    /\ req' = [s \in Slots |-> IF s \in Waiting
                 THEN [req[s] EXCEPT !.st = "sent", !.who = refresh, !.retried = TRUE] ELSE req[s]]
    /\ UNCHANGED <<doc, route, user, loading, form, server, history>>

\* Mutation: only one of the requests that share the refresh is told.
RefreshTellsOne ==
    /\ refresh # None
    /\ refresh' = None
    /\ \E s \in Waiting : GiveUp({s})
    /\ UNCHANGED <<server, uploads, acts, overlapped>>

\* A refused refresh token and a network error are the same to tryRefresh.
RefreshFails ==
    /\ refresh # None
    /\ refresh' = None
    /\ GiveUp(Waiting)
    /\ UNCHANGED <<server, uploads, acts, overlapped>>

\* Nobody waits for the answer to a document that is gone.
Unheard(s) ==
    /\ s \in Busy \ Live
    /\ req[s].st \in {"done", "error", "refused"}
    /\ req' = [req EXCEPT ![s] = NoReq]
    /\ UNCHANGED <<tokens, document, server, history>>

---------------------------------------------------------------------------

Next ==
    \/ Mount \/ Leaves \/ Reload \/ Navigate \/ AuthGuard
    \/ LoginForm \/ RegisterForm \/ ProfileMenu \/ ProfilePage
    \/ \E s \in Slots : \/ Server(s) \/ RequestFails(s)
                        \/ Answer(s) \/ Error(s) \/ TryRefresh(s) \/ Unheard(s)
    \/ Refreshed \/ RefreshFails

Spec == Init /\ [][Next]_vars

---------------------------------------------------------------------------
(* Properties.                                                             *)

\* The session is one account's: the tokens requests carry are those of the last
\* sign-in that no sign-out and no failed refresh followed, and once who that is
\* has been answered, a page shows that account or none.  It needs that no
\* sign-in came while an earlier answer was out, and no sign-out while a refresh
\* was: setTokens, setUser and clearTokens are applied by whoever is answered,
\* whatever has happened since (api.ts:59).
SessionIsOne ==
    ~overlapped =>
        /\ tokens = session
        /\ doc = "alive" /\ (\A s \in Live : req[s].kind # "load")
             => user.of \in {session, None}

\* A profile never names a picture that is gone, whatever uploads and removals
\* overlap and wherever they fail (user_service.py:67-68).  The converse does not
\* hold: a failed or an overlapping one leaves an object nobody names.
AvatarExists ==
    \A a \in Accounts : avatarKey[a] # 0 => avatarKey[a] \in bucket
=============================================================================
