---------------------------- MODULE AccountProofs ----------------------------
(***************************************************************************)
(* Account for any number of accounts, of requests under way and of        *)
(* pictures: type correctness, that a profile never names a picture that   *)
(* is gone, and that the browser's session is one account's (at the end).  *)
(*                                                                         *)
(* AvatarExists is not inductive.  An object is deleted as the previous    *)
(* picture of an upload or a removal that has been committed (Discard), so *)
(* what has to be known is that nobody else's profile names that object    *)
(* and nobody is about to name it: keys are used once (Unused), profiles   *)
(* share none (Apart), and whoever holds a previous key is the only one    *)
(* who might still be named by it, until the commit (Holds).               *)
(***************************************************************************)
EXTENDS Account, TLAPS

\* Only a live request waits for a refresh.
Shape == TypeOK /\ Waiting \subseteq Live

\* What a request carries: a picture if it uploads one and none if it removes one,
\* and an account in the sign-in forms and once a handler has it.
WellFormed(s) ==
    /\ req[s].kind = "upload" => req[s].key # 0
    /\ req[s].kind = "remove" => req[s].key = 0
    /\ req[s].st = "stored" => req[s].kind = "upload"
    /\ \/ req[s].kind \in {"login", "register"}
       \/ req[s].st \in {"read", "stored", "committed"}
       => req[s].who \in Accounts

\* The picture of request s has not been given to a profile.
Pending(s) ==
    /\ req[s].kind = "upload"
    /\ req[s].st \in {"sent", "refused", "waiting", "read", "stored"}

Unused(s) ==
    Pending(s) =>
        /\ req[s].key # 0
        /\ \A a \in Accounts : avatarKey[a] # req[s].key
        /\ \A t \in Slots : /\ req[t].prev # req[s].key
                            /\ t # s => req[t].key # req[s].key

Holds(s) ==
    /\ req[s].st = "stored" => req[s].key \in bucket
    /\ req[s].st \in {"read", "stored", "committed"} /\ req[s].prev # 0 =>
          \A a \in Accounts :
             avatarKey[a] = req[s].prev => a = req[s].who /\ req[s].st # "committed"

Numbered ==
    /\ \A a \in Accounts : avatarKey[a] <= uploads
    /\ \A s \in Slots : req[s].key <= uploads /\ req[s].prev <= uploads

Apart == \A a, b \in Accounts : avatarKey[a] # 0 /\ avatarKey[a] = avatarKey[b] => a = b

AvatarInv ==
    /\ Shape
    /\ Numbered
    /\ Apart
    /\ \A s \in Slots : WellFormed(s) /\ Unused(s) /\ Holds(s)
    /\ AvatarExists

---------------------------------------------------------------------------
(* Type correctness.                                                       *)


LEMMA InitReq ==
    NoReq \in Req /\ NoReq.st # "waiting" /\ NoReq.key = 0 /\ NoReq.prev = 0 /\ NoReq.kind = None
BY AccountAssumption DEF NoReq, Req, Owners, None

LEMMA InitType == Init => Shape
<1> SUFFICES ASSUME Init PROVE Shape
  OBVIOUS
<1>1. NoReq \in Req /\ NoReq.st # "waiting"
  BY InitReq
<1>2. NoUser \in User
  BY AccountAssumption DEF NoUser, User, Owners
<1>3. req \in [Slots -> Req] /\ \A s \in Slots : req[s] = NoReq
  BY <1>1 DEF Init
<1>4. Waiting = {}
  BY <1>1, <1>3 DEF Waiting
<1>5. avatarKey \in [Accounts -> 0..MaxUploads] /\ uploads \in 0..MaxUploads /\ acts \in 0..MaxActs
  BY AccountAssumption DEF Init
<1>6. form \in [Controls -> Slots \cup {None}] /\ \A c \in Controls : form[c] = None
  BY DEF Init, NoForm
<1>7. tokens \in Owners /\ session \in Owners /\ refresh \in Owners
  BY DEF Init, Owners
<1> QED
  BY <1>2, <1>3, <1>4, <1>5, <1>6, <1>7 DEF Init, TypeOK, Shape

LEMMA NewRequest ==
    ASSUME NEW kind \in Kinds, NEW who \in Owners
    PROVE  /\ Request(kind, who) \in Req
           /\ Request(kind, who).st = "sent" /\ Request(kind, who).live
           /\ Request(kind, who).kind = kind /\ Request(kind, who).who = who
           /\ Request(kind, who).key = 0 /\ Request(kind, who).prev = 0
<1>1. "sent" \in Steps
  BY DEF Steps
<1> QED
  BY <1>1, InitReq DEF Request, Req

\* A request goes on, within its document or on the server.
LEMMA StepType ==
    ASSUME Shape, NEW s \in Slots, NEW r \in Req, req' = [req EXCEPT ![s] = r],
           r.kind = req[s].kind, r.live = req[s].live,
           r.st # "waiting", req[s].st # "waiting",
           UNCHANGED <<tokens, document, uploads, acts, session, overlapped>>,
           registered' \subseteq Accounts, avatarKey' \in [Accounts -> 0..MaxUploads], bucket' \subseteq Keys
    PROVE  Shape'
<1>1. req' \in [Slots -> Req] /\ req'[s] = r /\ \A t \in Slots : t # s => req'[t] = req[t]
  BY DEF Shape, TypeOK
<1>2. Waiting' = Waiting /\ Live' = Live
  BY <1>1 DEF Waiting, Live, Busy
<1> QED
  BY <1>1, <1>2 DEF Shape, TypeOK, document

\* A free slot is taken.
LEMMA TakeType ==
    ASSUME Shape, NEW s \in Free, NEW r \in Req, req' = [req EXCEPT ![s] = r],
           r.kind # None, r.live, r.st # "waiting"
    PROVE  /\ s \in Slots /\ req' \in [Slots -> Req]
           /\ Waiting' = Waiting /\ Live' = Live \cup {s}
<1>1. /\ s \in Slots /\ s \notin Busy
      /\ req' \in [Slots -> Req] /\ req'[s] = r
      /\ \A t \in Slots : t # s => req'[t] = req[t]
  BY DEF Shape, TypeOK, Free
<1> QED
  BY <1>1 DEF Shape, Waiting, Live, Busy

LEMMA StartType ==
    ASSUME Shape, NEW control \in Controls, NEW r \in Req, Send(control, r),
           r.kind # None, r.live, r.st # "waiting",
           UNCHANGED <<tokens, doc, route, user, loading, refresh, server, session, overlapped>>,
           uploads' \in 0..MaxUploads
    PROVE  Shape'
<1>1. PICK s \in Free : /\ req' = [req EXCEPT ![s] = r]
                        /\ form' = [form EXCEPT ![control] = s]
  BY DEF Send
<1>2. /\ s \in Slots /\ req' \in [Slots -> Req]
      /\ Waiting' = Waiting /\ Live' = Live \cup {s}
  BY <1>1, TakeType
<1>3. acts' \in 0..MaxActs
  BY AccountAssumption DEF Send, Act, Shape, TypeOK
<1>4. /\ form' \in [Controls -> Slots \cup {None}]
      /\ \A c \in Controls : form'[c] # None => form'[c] \in Live'
  BY <1>1, <1>2 DEF Shape, TypeOK
<1> QED
  BY <1>2, <1>3, <1>4 DEF Shape, TypeOK, server

LEMMA SettleType ==
    ASSUME TypeOK, NEW S \in SUBSET Slots, Settle(S)
    PROVE  /\ req' \in [Slots -> Req]
           /\ form' \in [Controls -> Slots \cup {None}]
           /\ \A c \in Controls : form'[c] # None => form'[c] \in Live'
           /\ Waiting' = Waiting \ S
<1>1. NoReq \in Req /\ NoReq.st # "waiting"
  BY InitReq
<1>2. /\ req' \in [Slots -> Req]
      /\ \A t \in Slots : req'[t] = IF t \in S THEN NoReq ELSE req[t]
      /\ form' \in [Controls -> Slots \cup {None}]
      /\ \A c \in Controls : form'[c] = IF form[c] \in S THEN None ELSE form[c]
  BY <1>1 DEF TypeOK, Settle
<1>3. Waiting' = Waiting \ S
  BY <1>1, <1>2 DEF Waiting
<1>4. ASSUME NEW c \in Controls, form'[c] # None PROVE form'[c] \in Live'
  <2>1. form'[c] = form[c] /\ form[c] \notin S /\ form[c] \in Live
    BY <1>2, <1>4 DEF TypeOK
  <2> QED
    BY <1>2, <2>1 DEF Live, Busy
<1> QED
  BY <1>2, <1>3, <1>4

LEMMA ThrowsType ==
    ASSUME Shape, NEW S \in SUBSET Slots, Throws(S),
           tokens' \in Owners, session' \in Owners, doc' \in {"blank", "alive", "leaving"},
           refresh' \in Owners, Waiting' # {} <=> refresh' # None,
           UNCHANGED <<server, uploads, acts, overlapped>>
    PROVE  Shape'
<1>1. /\ req' \in [Slots -> Req]
      /\ form' \in [Controls -> Slots \cup {None}]
      /\ \A c \in Controls : form'[c] # None => form'[c] \in Live'
      /\ Waiting' = Waiting \ S
      /\ \A t \in Slots \ S : req'[t] = req[t]
  BY SettleType DEF Throws, Shape, TypeOK, Settle
<1>2. Waiting' \subseteq Live'
  BY <1>1 DEF Shape, Waiting, Live, Busy
<1>3. /\ user' \in User /\ loading' \in BOOLEAN /\ route' \in {"signin", "app"}
  <2>1. NoUser \in User
    BY AccountAssumption DEF NoUser, User, Owners
  <2> QED
    BY <2>1 DEF Throws, Shape, TypeOK
<1> QED
  BY <1>1, <1>2, <1>3 DEF Shape, TypeOK, server

LEMMA ServerAnswers ==
    ASSUME Shape, NEW s \in Slots, WellFormed(s), Server(s) \/ RequestFails(s)
    PROVE  \E r \in Req :
             /\ req' = [req EXCEPT ![s] = r]
             /\ r.kind = req[s].kind /\ r.live = req[s].live
             /\ r.st # "waiting" /\ req[s].st # "waiting"
<1>0. req \in [Slots -> Req] /\ req[s] \in Req
  BY DEF Shape, TypeOK
<1>1. ASSUME NEW st \in {"done", "error", "refused", "read", "stored", "committed"},
             Goes(s, st), req[s].st # "waiting"
      PROVE  \E r \in Req : /\ req' = [req EXCEPT ![s] = r]
                            /\ r.kind = req[s].kind /\ r.live = req[s].live
                            /\ r.st # "waiting" /\ req[s].st # "waiting"
  <2> DEFINE r == [req[s] EXCEPT !.st = st]
  <2>1. r \in Req /\ r.kind = req[s].kind /\ r.live = req[s].live /\ r.st = st
    BY <1>0 DEF Req, Steps
  <2>2. req' = [req EXCEPT ![s] = r]
    BY <1>0, <1>1 DEF Goes
  <2> HIDE DEF r
  <2> QED
    BY <1>1, <2>1, <2>2
<1>2. ASSUME NEW st \in {"done", "read"}, NEW a \in Accounts,
             req' = [req EXCEPT ![s].st = st, ![s].prev = avatarKey[a]], req[s].st # "waiting"
      PROVE  \E r \in Req : /\ req' = [req EXCEPT ![s] = r]
                            /\ r.kind = req[s].kind /\ r.live = req[s].live
                            /\ r.st # "waiting" /\ req[s].st # "waiting"
  <2> DEFINE r == [req[s] EXCEPT !.st = st, !.prev = avatarKey[a]]
  <2>1. r \in Req /\ r.kind = req[s].kind /\ r.live = req[s].live /\ r.st = st
    BY <1>0 DEF Req, Steps, Shape, TypeOK
  <2>2. req' = [req EXCEPT ![s] = r]
    BY <1>0, <1>2
  <2> HIDE DEF r
  <2> QED
    BY <1>2, <2>1, <2>2
<1>3. CASE SignInHandled(s) \/ UploadObject(s) \/ CommitAvatar(s) \/ RequestFails(s)
  BY <1>1, <1>3 DEF SignInHandled, UploadObject, CommitAvatar, RequestFails
<1>4. CASE Authenticate(s)
  <2>1. CASE Goes(s, "error") \/ Goes(s, "refused")
    BY <1>1, <1>4, <2>1 DEF Authenticate
  <2>2. CASE ~(Goes(s, "error") \/ Goes(s, "refused"))
    <3> DEFINE st == IF req[s].kind = "load" THEN "done" ELSE "read"
    <3>1. /\ req' = [req EXCEPT ![s].st = st, ![s].prev = avatarKey[req[s].who]]
          /\ req[s].who # None
      BY <1>4, <2>2 DEF Authenticate
    <3>2. req[s].who \in Accounts
      BY <1>0, <3>1 DEF Req, Owners
    <3> QED
      BY <1>2, <1>4, <3>1, <3>2 DEF Authenticate
  <2> QED
    BY <2>1, <2>2
<1>5. CASE UpdateProfile(s) \/ Discard(s)
  BY <1>2, <1>5 DEF UpdateProfile, Discard, WellFormed
<1> QED
  BY <1>3, <1>4, <1>5 DEF Server

LEMMA ShapePreserved ==
    Shape /\ (\A s \in Slots : WellFormed(s)) /\ [Next]_vars => Shape'
<1> SUFFICES ASSUME Shape, \A s \in Slots : WellFormed(s), [Next]_vars
             PROVE  Shape'
  OBVIOUS
<1>0. /\ req \in [Slots -> Req] /\ tokens \in Owners /\ session \in Owners
      /\ NoReq \in Req /\ NoUser \in User
  BY InitReq, AccountAssumption DEF Shape, TypeOK, NoUser, User, Owners
<1>1. CASE Mount
  <2>1. acts' \in 0..MaxActs
    BY <1>1, AccountAssumption DEF Mount, Act, Shape, TypeOK
  <2>2. CASE tokens = None
    BY <1>1, <2>1, <2>2 DEF Mount, Shape, TypeOK, server, Waiting, Live, Busy
  <2>3. CASE tokens # None
    <3>1. PICK s \in Free : req' = [req EXCEPT ![s] = Request("load", tokens)]
      BY <1>1, <2>3 DEF Mount
    <3>2. "load" \in Kinds /\ "load" # None
      BY DEF Kinds, None
    <3> DEFINE r == Request("load", tokens)
    <3>3. r \in Req /\ r.kind # None /\ r.live /\ r.st # "waiting"
      BY <1>0, <3>2, NewRequest
    <3> HIDE DEF r
    <3>4. req' \in [Slots -> Req] /\ Waiting' = Waiting /\ Live' = Live \cup {s}
      BY <3>1, <3>3, TakeType DEF r
    <3> QED
      BY <1>1, <2>1, <2>3, <3>4 DEF Mount, Shape, TypeOK, server
  <2> QED
    BY <2>2, <2>3
<1>2. CASE \E to \in {"signin", "app"} : Unload(to)
  <2>1. PICK to \in {"signin", "app"} : Unload(to)
    BY <1>2
  <2>2. req' \in [Slots -> Req] /\ Waiting' = {}
    <3>1. req' = [s \in Slots |-> IF req[s].st \in {"waiting", "refused", None} THEN NoReq
                                  ELSE [req[s] EXCEPT !.live = FALSE]]
      BY <2>1 DEF Unload
    <3>2. ASSUME NEW s \in Slots PROVE req'[s] \in Req /\ req'[s].st # "waiting"
      <4>1. CASE req[s].st \in {"waiting", "refused", None}
        BY <3>1, <4>1, InitReq
      <4>2. CASE req[s].st \notin {"waiting", "refused", None}
        <5>1. req[s] \in Req
          BY <1>0
        <5>2. req'[s] = [req[s] EXCEPT !.live = FALSE]
          BY <3>1, <4>2
        <5> QED
          BY <4>2, <5>1, <5>2 DEF Req
      <4> QED
        BY <4>1, <4>2
    <3> QED
      BY <3>1, <3>2 DEF Waiting
  <2>3. form' \in [Controls -> Slots \cup {None}] /\ \A c \in Controls : form'[c] = None
    BY <2>1 DEF Unload, NoForm
  <2>4. refresh' = None /\ None \in Owners
    BY <2>1 DEF Unload, Owners
  <2> QED
    BY <1>0, <2>1, <2>2, <2>3, <2>4 DEF Unload, Shape, TypeOK, server, history
<1>3. CASE Navigate \/ AuthGuard
  <2>1. form' \in [Controls -> Slots \cup {None}] /\ \A c \in Controls : form'[c] = None
    BY <1>3 DEF Navigate, AuthGuard, NoForm
  <2>2. Waiting' = Waiting /\ Live' = Live
    BY <1>3 DEF Navigate, AuthGuard, Waiting, Live, Busy
  <2> QED
    BY <1>3, <2>1, <2>2 DEF Navigate, AuthGuard, Shape, TypeOK, server, history
<1>4. CASE LoginForm \/ RegisterForm
  <2>1. PICK who \in Accounts, kind \in {"login", "register"} : Submit(kind, who)
    BY <1>4 DEF LoginForm, RegisterForm
  <2>2. kind \in Kinds /\ kind # None /\ who \in Owners /\ "sign" \in Controls
    BY DEF Kinds, None, Owners, Controls
  <2> QED
    BY <2>1, <2>2, NewRequest, StartType DEF Submit, Shape, TypeOK
<1>5. CASE Logout
  <2>1. Waiting' = Waiting /\ Live' = Live
    BY <1>5 DEF Logout, Waiting, Live, Busy
  <2> QED
    BY <1>0, <1>5, <2>1 DEF Logout, Shape, TypeOK, server, Owners
<1>6. CASE ProfilePage
  <2> DEFINE R(kind) == Request(kind, tokens)
  <2>1. /\ {"save", "upload", "remove"} \subseteq Kinds \ {None}
        /\ {"save", "picture"} \subseteq Controls
    BY DEF Kinds, None, Controls
  <2>2. \A kind \in {"save", "upload", "remove"} :
           R(kind) \in Req /\ R(kind).kind = kind /\ R(kind).live /\ R(kind).st = "sent"
    BY <1>0, <2>1, NewRequest
  <2> HIDE DEF R
  <2>3. CASE HandleSave \/ HandleAvatarRemove
    BY <2>1, <2>2, <2>3, StartType DEF HandleSave, HandleAvatarRemove, R, Shape, TypeOK
  <2>4. CASE HandleAvatarPicked
    <3>1. uploads' = uploads + 1 /\ uploads' \in 0..MaxUploads
      BY <2>4, AccountAssumption DEF HandleAvatarPicked, Shape, TypeOK
    <3> DEFINE r == [R("upload") EXCEPT !.key = uploads + 1]
    <3>2. r \in Req /\ r.kind = "upload" /\ r.live /\ r.st = "sent"
      BY <2>2, <3>1 DEF Req
    <3>3. Send("picture", r)
      BY <2>4 DEF HandleAvatarPicked, R
    <3> HIDE DEF r
    <3> QED
      BY <2>1, <2>4, <3>1, <3>2, <3>3, StartType DEF HandleAvatarPicked
  <2> QED
    BY <1>6, <2>3, <2>4 DEF ProfilePage
<1>7. ASSUME NEW s \in Slots, Server(s) \/ RequestFails(s) PROVE Shape'
  <2>1. PICK r \in Req : /\ req' = [req EXCEPT ![s] = r]
                         /\ r.kind = req[s].kind /\ r.live = req[s].live
                         /\ r.st # "waiting" /\ req[s].st # "waiting"
    BY <1>0, <1>7, ServerAnswers
  <2>2. bucket' \subseteq Keys
    <3>1. UploadObject(s) => req[s].key \in Keys
      BY <1>0, AccountAssumption DEF UploadObject, WellFormed, Req, Keys
    <3> QED
      BY <1>7, <3>1 DEF Server, RequestFails, SignInHandled, Authenticate, UpdateProfile,
         UploadObject, CommitAvatar, Discard, server, Shape, TypeOK
  <2>3. avatarKey' \in [Accounts -> 0..MaxUploads]
    BY <1>0, <1>7 DEF Server, RequestFails, SignInHandled, Authenticate, UpdateProfile,
       UploadObject, CommitAvatar, Discard, server, Shape, TypeOK, Req
  <2>4. registered' \subseteq Accounts
    BY <1>0, <1>7 DEF Server, RequestFails, SignInHandled, Authenticate, UpdateProfile,
       UploadObject, CommitAvatar, Discard, server, Shape, TypeOK, WellFormed
  <2>5. UNCHANGED <<tokens, document, uploads, acts, session, overlapped>>
    BY <1>7 DEF Server, RequestFails, SignInHandled, Authenticate, UpdateProfile,
       UploadObject, CommitAvatar, Discard, server, history
  <2> QED
    BY <2>1, <2>2, <2>3, <2>4, <2>5, StepType
<1>8. ASSUME NEW s \in Slots, Answer(s) PROVE Shape'
  <2>1. CASE StoreTokens(s)
    <3> DEFINE q == Request("load", req[s].who)
               r == [q EXCEPT !.after = TRUE]
    <3>1. "load" \in Kinds /\ "load" # None /\ req[s].who \in Owners
      BY <1>0 DEF Kinds, None, Req
    <3>2. r \in Req /\ r.kind # None /\ r.live /\ r.st = "sent"
      <4>1. q \in Req /\ q.kind = "load" /\ q.live /\ q.st = "sent"
        BY <3>1, NewRequest
      <4> HIDE DEF q
      <4> QED
        BY <3>1, <4>1 DEF Req
    <3>3. req' = [req EXCEPT ![s] = r]
      BY <2>1 DEF StoreTokens
    <3> HIDE DEF r
    <3>4. req' \in [Slots -> Req] /\ req'[s] = r /\ \A t \in Slots \ {s} : req'[t] = req[t]
      BY <1>0, <3>2, <3>3
    <3>5. Waiting' = Waiting /\ Live' = Live
      BY <1>8, <3>2, <3>4 DEF Answer, Waiting, Live, Busy
    <3>6. tokens' \in Owners /\ session' \in Owners /\ overlapped' \in BOOLEAN
      BY <2>1, <3>1 DEF StoreTokens, Shape, TypeOK
    <3> QED
      BY <1>8, <2>1, <3>4, <3>5, <3>6 DEF Answer, StoreTokens, Shape, TypeOK, server
  <2>2. CASE ShowUser(s)
    <3>1. Settle({s}) /\ {s} \in SUBSET Slots /\ s \notin Waiting
      BY <1>8, <2>2 DEF Answer, ShowUser, Waiting
    <3>2. /\ req' \in [Slots -> Req] /\ \A t \in Slots \ {s} : req'[t] = req[t]
          /\ form' \in [Controls -> Slots \cup {None}]
          /\ \A c \in Controls : form'[c] # None => form'[c] \in Live'
          /\ Waiting' = Waiting
      <4>1. Shape /\ TypeOK
        BY DEF Shape
      <4>2. \A t \in Slots \ {s} : req'[t] = req[t]
        BY <1>0, <3>1 DEF Settle
      <4> QED
        BY <3>1, <4>1, <4>2, SettleType
    <3>3. Waiting' \subseteq Live'
      BY <3>1, <3>2 DEF Shape, Waiting, Live, Busy
    <3>4. user' \in User
      BY <1>0, <2>2 DEF ShowUser, User, Req
    <3> QED
      BY <1>8, <2>2, <3>2, <3>3, <3>4 DEF Answer, ShowUser, Shape, TypeOK, server
  <2> QED
    BY <1>8, <2>1, <2>2 DEF Answer
<1>9. ASSUME NEW s \in Slots, Error(s) \/ TryRefresh(s) PROVE Shape'
  <2>1. CASE Error(s)
    <3>1. Throws({s}) /\ {s} \in SUBSET Slots /\ s \notin Waiting
      BY <2>1 DEF Error, Waiting
    <3>2. Waiting' = Waiting
      BY <3>1, SettleType DEF Shape, Throws
    <3> QED
      BY <2>1, <3>1, <3>2, ThrowsType DEF Error, Shape, TypeOK, history
  <2>2. CASE TryRefresh(s) /\ tokens = None
    <3>1. Throws({s}) /\ {s} \in SUBSET Slots /\ s \notin Waiting
      BY <2>2 DEF TryRefresh, GiveUp, Waiting
    <3>2. Waiting' = Waiting /\ None \in Owners
      BY <3>1, SettleType DEF Shape, Throws, Owners
    <3> QED
      BY <2>2, <3>1, <3>2, ThrowsType DEF TryRefresh, GiveUp, Shape, TypeOK
  <2>3. CASE TryRefresh(s) /\ tokens # None
    <3> DEFINE r == [req[s] EXCEPT !.st = "waiting"]
    <3>1. r \in Req /\ req' = [req EXCEPT ![s] = r]
          /\ r.kind = req[s].kind /\ r.live /\ r.st = "waiting"
      BY <1>0, <2>3 DEF TryRefresh, Goes, Req, Steps, Live
    <3> HIDE DEF r
    <3>2. req' \in [Slots -> Req] /\ req'[s] = r /\ \A t \in Slots \ {s} : req'[t] = req[t]
      BY <1>0, <3>1
    <3>3. Waiting' = Waiting \cup {s} /\ Live' = Live
      BY <2>3, <3>1, <3>2 DEF TryRefresh, Goes, Waiting, Live, Busy
    <3>4. refresh' \in Owners \ {None}
      BY <1>0, <2>3 DEF TryRefresh, Shape, TypeOK
    <3> QED
      BY <2>3, <3>2, <3>3, <3>4 DEF TryRefresh, Shape, TypeOK, server
  <2> QED
    BY <1>9, <2>1, <2>2, <2>3
<1>10. ASSUME NEW s \in Slots, Unheard(s) PROVE Shape'
  <2>1. req' \in [Slots -> Req] /\ req'[s] = NoReq /\ \A t \in Slots \ {s} : req'[t] = req[t]
    BY <1>0, <1>10 DEF Unheard
  <2>2. Waiting' = Waiting /\ Live \subseteq Live'
    BY <1>10, <2>1, InitReq DEF Unheard, Waiting, Live, Busy
  <2> QED
    BY <1>10, <2>1, <2>2 DEF Unheard, Shape, TypeOK, document, server, history
<1>11. CASE Refreshed
  <2>1. refresh \in Owners /\ None \in Owners
    BY DEF Shape, TypeOK, Owners
  <2>2. /\ req' \in [Slots -> Req]
        /\ \A s \in Waiting : /\ req'[s].st = "sent" /\ req'[s].live = req[s].live
                              /\ req'[s].kind = req[s].kind
        /\ \A s \in Slots \ Waiting : req'[s] = req[s]
    BY <1>0, <1>11, <2>1 DEF Refreshed, Req, Steps, Waiting
  <2>3. Waiting' = {} /\ Live' = Live
    BY <2>2 DEF Waiting, Live, Busy
  <2> QED
    BY <1>11, <2>1, <2>2, <2>3 DEF Refreshed, Shape, TypeOK, server, history
<1>12. CASE RefreshFails
  <2>1. Throws(Waiting) /\ Waiting \in SUBSET Slots
    BY <1>12 DEF RefreshFails, GiveUp, Waiting
  <2>2. Waiting' = {}
    BY <2>1, SettleType DEF Shape, Throws
  <2>3. tokens' = None /\ session' = None /\ refresh' = None /\ None \in Owners
    BY <1>12 DEF RefreshFails, GiveUp, Owners
  <2> QED
    BY <1>12, <2>1, <2>2, <2>3, ThrowsType DEF RefreshFails, GiveUp
<1>13. CASE UNCHANGED vars
  BY <1>13 DEF Shape, TypeOK, vars, document, server, history, Waiting, Live, Busy
<1> QED
  BY <1>1, <1>2, <1>3, <1>4, <1>5, <1>6, <1>7, <1>8, <1>9, <1>10, <1>11, <1>12, <1>13
     DEF Next, Leaves, Reload, ProfileMenu

---------------------------------------------------------------------------
(* The picture a profile names.                                            *)

\* The steps of user_service.py, and get_current_user before them.
Handles(s) ==
    Authenticate(s) \/ UpdateProfile(s) \/ UploadObject(s) \/ CommitAvatar(s) \/ Discard(s)

\* What any other step may do to request t: send it again, end it, or put one
\* without a picture in its place; or it is the picture that was just picked.
Beside(t) ==
    \/ /\ req'[t].kind = req[t].kind
       /\ req'[t].key = req[t].key /\ req'[t].prev = req[t].prev
       /\ req'[t].who = req[t].who \/ req'[t].who \in Accounts
       /\ \/ req'[t].st = req[t].st /\ (req[t].st # "waiting" => req'[t].who = req[t].who)
          \/ req'[t].st \in {"error", "done"}
          \/ /\ req'[t].st \in {"sent", "waiting"}
             /\ req[t].st \in {"refused", "waiting"}
    \/ /\ req'[t].kind # "upload" /\ req'[t].key = 0 /\ req'[t].prev = 0
       /\ req'[t].st \notin {"read", "stored", "committed"}
       /\ req'[t].kind \in {"login", "register"} => req'[t].who \in Accounts

Picked(t) ==
    /\ uploads' = uploads + 1
    /\ req'[t].kind = "upload" /\ req'[t].st = "sent"
    /\ req'[t].key = uploads' /\ req'[t].prev = 0
    /\ \A u \in Slots \ {t} : req'[u] = req[u]

Elsewhere ==
    /\ UNCHANGED <<avatarKey, bucket>>
    /\ \/ uploads' = uploads /\ \A t \in Slots : Beside(t)
       \/ \E t \in Slots : Picked(t)

LEMMA SendsBeside ==
    ASSUME Shape, NEW control, NEW r \in Req, Send(control, r)
    PROVE  \E s \in Slots : req'[s] = r /\ \A t \in Slots \ {s} : req'[t] = req[t]
BY DEF Send, Free, Shape, TypeOK

LEMMA NextIsElsewhere ==
    ASSUME Shape, \A s \in Slots : WellFormed(s), [Next]_vars
    PROVE  Elsewhere \/ \E s \in Slots : Handles(s)
<1>0. /\ req \in [Slots -> Req] /\ tokens \in Owners /\ session \in Owners
      /\ uploads \in Nat
  BY AccountAssumption DEF Shape, TypeOK
<1>00. \A t \in Slots : req'[t] = req[t] => Beside(t)
  BY DEF Beside
<1>01. \A t \in Slots : req'[t] = NoReq => Beside(t)
  BY InitReq DEF Beside, NoReq, None
<1>1. CASE Mount
  <2>1. CASE tokens = None
    BY <1>00, <1>1, <2>1 DEF Mount, Elsewhere, server
  <2>2. CASE tokens # None
    <3> DEFINE r == Request("load", tokens)
    <3>1. PICK s \in Free : req' = [req EXCEPT ![s] = r]
      BY <1>1, <2>2 DEF Mount
    <3>2. "load" \in Kinds
      BY DEF Kinds
    <3>3. r.kind = "load" /\ r.st = "sent" /\ r.key = 0 /\ r.prev = 0
      BY <1>0, <3>2, NewRequest
    <3> HIDE DEF r
    <3>4. req'[s] = r /\ \A t \in Slots \ {s} : req'[t] = req[t]
      BY <1>0, <3>1 DEF Free
    <3>5. Beside(s)
      BY <3>3, <3>4 DEF Beside
    <3> QED
      BY <1>00, <1>1, <3>4, <3>5 DEF Mount, Elsewhere, server
  <2> QED
    BY <2>1, <2>2
<1>2. CASE \E to \in {"signin", "app"} : Unload(to)
  <2>1. PICK to \in {"signin", "app"} : Unload(to)
    BY <1>2
  <2>2. ASSUME NEW t \in Slots PROVE Beside(t)
    <3>1. CASE req'[t] = NoReq
      BY <1>01, <3>1
    <3>2. CASE req'[t] = [req[t] EXCEPT !.live = FALSE]
      <4>1. req[t] \in Req
        BY <1>0
      <4> QED
        BY <3>2, <4>1 DEF Beside, Req
    <3> QED
      BY <1>0, <2>1, <3>1, <3>2 DEF Unload
  <2> QED
    BY <2>1, <2>2 DEF Unload, Elsewhere, server, history
<1>3. CASE Navigate \/ AuthGuard \/ Logout \/ UNCHANGED vars
  BY <1>00, <1>3 DEF Navigate, AuthGuard, Logout, Elsewhere, server, history, vars
<1>4. CASE LoginForm \/ RegisterForm
  <2>1. PICK who \in Accounts, kind \in {"login", "register"} : Submit(kind, who)
    BY <1>4 DEF LoginForm, RegisterForm
  <2> DEFINE r == Request(kind, who)
  <2>2. kind \in Kinds /\ who \in Owners
    BY DEF Kinds, Owners
  <2>3. r \in Req /\ r.kind = kind /\ r.who = who /\ r.st = "sent" /\ r.key = 0 /\ r.prev = 0
    BY <2>2, NewRequest
  <2>4. Send("sign", r)
    BY <2>1 DEF Submit
  <2> HIDE DEF r
  <2>5. PICK s \in Slots : req'[s] = r /\ \A t \in Slots \ {s} : req'[t] = req[t]
    BY <2>3, <2>4, SendsBeside
  <2>6. Beside(s)
    BY <2>1, <2>3, <2>5 DEF Beside
  <2> QED
    BY <1>00, <2>1, <2>5, <2>6 DEF Submit, Elsewhere, server
<1>6. CASE ProfilePage
  <2>1. {"save", "upload", "remove"} \subseteq Kinds
    BY DEF Kinds
  <2>2. CASE HandleSave \/ HandleAvatarRemove
    <3>1. PICK kind \in {"save", "remove"}, c \in Controls : Send(c, Request(kind, tokens))
      BY <2>2 DEF HandleSave, HandleAvatarRemove, Controls
    <3> DEFINE r == Request(kind, tokens)
    <3>2. r \in Req /\ r.kind = kind /\ r.st = "sent" /\ r.key = 0 /\ r.prev = 0
      BY <1>0, <2>1, NewRequest
    <3>3. Send(c, r)
      BY <3>1
    <3> HIDE DEF r
    <3>4. PICK s \in Slots : req'[s] = r /\ \A t \in Slots \ {s} : req'[t] = req[t]
      BY <3>2, <3>3, SendsBeside
    <3>5. Beside(s)
      BY <3>2, <3>4 DEF Beside
    <3> QED
      BY <1>00, <2>2, <3>4, <3>5 DEF HandleSave, HandleAvatarRemove, Elsewhere, server
  <2>3. CASE HandleAvatarPicked
    <3> DEFINE q == Request("upload", tokens)
               r == [q EXCEPT !.key = uploads + 1]
    <3>1. uploads' = uploads + 1 /\ uploads' \in 0..MaxUploads
      BY <2>3, AccountAssumption DEF HandleAvatarPicked, Shape, TypeOK
    <3>2. q \in Req /\ q.kind = "upload" /\ q.st = "sent" /\ q.prev = 0
      BY <1>0, <2>1, NewRequest
    <3>3. Send("picture", r)
      BY <2>3 DEF HandleAvatarPicked
    <3> HIDE DEF q
    <3>4. r \in Req /\ r.kind = "upload" /\ r.st = "sent" /\ r.key = uploads' /\ r.prev = 0
      BY <3>1, <3>2 DEF Req
    <3> HIDE DEF r
    <3>5. PICK s \in Slots : req'[s] = r /\ \A t \in Slots \ {s} : req'[t] = req[t]
      BY <3>3, <3>4, SendsBeside
    <3>6. Picked(s)
      BY <3>1, <3>4, <3>5 DEF Picked
    <3> QED
      BY <2>3, <3>6 DEF HandleAvatarPicked, Elsewhere, server
  <2> QED
    BY <1>6, <2>2, <2>3 DEF ProfilePage
<1>7. ASSUME NEW s \in Slots, SignInHandled(s) \/ RequestFails(s) PROVE Elsewhere
  <2>1. PICK st \in {"done", "error"} : Goes(s, st)
    BY <1>7 DEF SignInHandled, RequestFails
  <2>2. /\ req'[s] = [req[s] EXCEPT !.st = st] /\ req[s] \in Req
        /\ \A t \in Slots \ {s} : req'[t] = req[t]
    BY <1>0, <2>1 DEF Goes
  <2>3. Beside(s)
    BY <2>2 DEF Beside, Req
  <2> QED
    BY <1>00, <1>7, <2>2, <2>3 DEF SignInHandled, RequestFails, Elsewhere, server, history
<1>8. ASSUME NEW s \in Slots, Answer(s) PROVE Elsewhere
  <2>1. CASE StoreTokens(s)
    <3> DEFINE q == Request("load", req[s].who)
               r == [q EXCEPT !.after = TRUE]
    <3>1. "load" \in Kinds /\ req[s].who \in Owners
      BY <1>0 DEF Kinds, Req
    <3>2. q \in Req /\ q.kind = "load" /\ q.st = "sent" /\ q.key = 0 /\ q.prev = 0
      BY <3>1, NewRequest
    <3>3. req' = [req EXCEPT ![s] = r]
      BY <2>1 DEF StoreTokens
    <3> HIDE DEF q
    <3>4. r.kind = "load" /\ r.st = "sent" /\ r.key = 0 /\ r.prev = 0
      BY <3>2 DEF Req
    <3> HIDE DEF r
    <3>5. req'[s] = r /\ \A t \in Slots \ {s} : req'[t] = req[t]
      BY <1>0, <3>3
    <3>6. Beside(s)
      BY <3>4, <3>5 DEF Beside
    <3> QED
      BY <1>00, <1>8, <3>5, <3>6 DEF Answer, Elsewhere, server
  <2>2. CASE ShowUser(s)
    BY <1>0, <1>00, <1>01, <1>8, <2>2 DEF Answer, ShowUser, Settle, Elsewhere, server
  <2> QED
    BY <1>8, <2>1, <2>2 DEF Answer
<1>9. ASSUME NEW s \in Slots, Error(s) \/ TryRefresh(s) PROVE Elsewhere
  <2>1. CASE Throws({s})
    BY <1>0, <1>00, <1>01, <1>9, <2>1 DEF Error, TryRefresh, Throws, Settle, Elsewhere, server, history
  <2>2. CASE ~Throws({s})
    <3>1. Goes(s, "waiting") /\ req[s].st = "refused"
      BY <1>9, <2>2 DEF Error, TryRefresh, GiveUp
    <3>2. /\ req'[s] = [req[s] EXCEPT !.st = "waiting"] /\ req[s] \in Req
          /\ \A t \in Slots \ {s} : req'[t] = req[t]
      BY <1>0, <3>1 DEF Goes
    <3>3. Beside(s)
      BY <3>1, <3>2 DEF Beside, Req
    <3> QED
      BY <1>00, <1>9, <2>2, <3>2, <3>3 DEF Error, TryRefresh, Elsewhere, server
  <2> QED
    BY <2>1, <2>2
<1>10. ASSUME NEW s \in Slots, Unheard(s) PROVE Elsewhere
  BY <1>0, <1>00, <1>01, <1>10 DEF Unheard, Elsewhere, server, history
<1>11. CASE Refreshed
  <2>1. refresh \in Accounts
    BY <1>11 DEF Refreshed, Shape, TypeOK, Owners
  <2>2. ASSUME NEW t \in Slots PROVE Beside(t)
    <3>1. CASE t \in Waiting
      <4>1. /\ req'[t] = [req[t] EXCEPT !.st = "sent", !.who = refresh, !.retried = TRUE]
            /\ req[t] \in Req /\ req[t].st = "waiting"
        BY <1>0, <1>11, <3>1 DEF Refreshed, Waiting
      <4> QED
        BY <2>1, <4>1 DEF Beside, Req
    <3>2. CASE t \notin Waiting
      BY <1>00, <1>11, <3>2 DEF Refreshed
    <3> QED
      BY <3>1, <3>2
  <2> QED
    BY <1>11, <2>2 DEF Refreshed, Elsewhere, server, history
<1>12. CASE RefreshFails
  BY <1>0, <1>00, <1>01, <1>12 DEF RefreshFails, GiveUp, Throws, Settle, Elsewhere, server
<1> QED
  BY <1>1, <1>2, <1>3, <1>4, <1>6, <1>7, <1>8, <1>9, <1>10, <1>11, <1>12
     DEF Next, Leaves, Reload, ProfileMenu, Server, Handles

\* No such step disturbs the invariant.
LEMMA ElsewhereKeeps ==
    ASSUME AvatarInv, Elsewhere
    PROVE  /\ Numbered' /\ Apart' /\ AvatarExists'
           /\ \A s \in Slots : WellFormed(s)' /\ Unused(s)' /\ Holds(s)'
<1>0. /\ req \in [Slots -> Req] /\ uploads \in Nat /\ avatarKey \in [Accounts -> Nat]
      /\ \A t \in Slots : req[t].key \in Nat /\ req[t].prev \in Nat
  BY AccountAssumption DEF AvatarInv, Shape, TypeOK, Req
<1>1. Apart' /\ AvatarExists'
  BY DEF AvatarInv, Elsewhere, Apart, AvatarExists
<1>2. CASE uploads' = uploads /\ \A t \in Slots : Beside(t)
  <2>1. Numbered'
    BY <1>0, <1>2 DEF AvatarInv, Elsewhere, Numbered, Beside
  <2>2. ASSUME NEW s \in Slots PROVE WellFormed(s)'
    BY <1>2 DEF AvatarInv, WellFormed, Beside
  <2>3. ASSUME NEW s \in Slots PROVE Unused(s)'
    <3> SUFFICES ASSUME Pending(s)' PROVE Unused(s)'
      BY DEF Unused
    <3>1. Pending(s) /\ req'[s].key = req[s].key
      BY <1>2 DEF Pending, Beside
    <3>2. \A t \in Slots : /\ req'[t].key \in {req[t].key, 0}
                           /\ req'[t].prev \in {req[t].prev, 0}
      BY <1>2 DEF Beside
    <3> QED
      BY <3>1, <3>2 DEF AvatarInv, Elsewhere, Unused
  <2>4. ASSUME NEW s \in Slots PROVE Holds(s)'
    BY <1>2 DEF AvatarInv, Elsewhere, Holds, Beside
  <2> QED
    BY <1>1, <2>1, <2>2, <2>3, <2>4
<1>3. ASSUME NEW n \in Slots, Picked(n)
      PROVE  /\ Numbered' /\ \A s \in Slots : WellFormed(s)' /\ Unused(s)' /\ Holds(s)'
  <2>1. Numbered'
    BY <1>0, <1>3 DEF AvatarInv, Elsewhere, Numbered, Picked
  <2>2. ASSUME NEW s \in Slots PROVE WellFormed(s)'
    BY <1>0, <1>3 DEF AvatarInv, WellFormed, Picked
  <2>3. ASSUME NEW s \in Slots PROVE Unused(s)'
    BY <1>0, <1>3 DEF AvatarInv, Elsewhere, Numbered, Unused, Pending, Picked
  <2>4. ASSUME NEW s \in Slots PROVE Holds(s)'
    BY <1>3 DEF AvatarInv, Elsewhere, Holds, Picked
  <2> QED
    BY <2>1, <2>2, <2>3, <2>4
<1> QED
  BY <1>1, <1>2, <1>3 DEF Elsewhere

\* get_current_user and update_profile read the row, and change none.
LEMMA ReadingKeeps ==
    ASSUME AvatarInv, NEW s \in Slots, Authenticate(s) \/ UpdateProfile(s)
    PROVE  /\ Numbered' /\ Apart' /\ AvatarExists'
           /\ \A t \in Slots : WellFormed(t)' /\ Unused(t)' /\ Holds(t)'
<1>0. /\ req \in [Slots -> Req] /\ uploads \in Nat /\ avatarKey \in [Accounts -> Nat]
  BY AccountAssumption DEF AvatarInv, Shape, TypeOK
<1>1. /\ UNCHANGED <<avatarKey, bucket, uploads>>
      /\ \A t \in Slots \ {s} : req'[t] = req[t]
      /\ req'[s].kind = req[s].kind /\ req'[s].key = req[s].key /\ req'[s].who = req[s].who
      /\ req[s].st \in {"sent", "read"}
      /\ req[s].kind \in {"load", "save", "upload", "remove"}
  BY <1>0 DEF Authenticate, UpdateProfile, Goes, Req, server, history
<1>2. \/ req'[s].st \in {"error", "refused"} /\ req'[s].prev = req[s].prev
      \/ /\ req[s].who \in Accounts /\ req'[s].prev = avatarKey[req[s].who]
         /\ req'[s].st \in {"done", "read"}
  BY <1>0 DEF Authenticate, UpdateProfile, Goes, Req, Owners, AvatarInv, WellFormed
<1>3. ASSUME NEW t \in Slots PROVE WellFormed(t)'
  BY <1>1, <1>2 DEF AvatarInv, WellFormed
<1>4. ASSUME NEW t \in Slots PROVE Unused(t)'
  <2> SUFFICES ASSUME Pending(t)' PROVE Unused(t)'
    BY DEF Unused
  <2>1. Pending(t)
    BY <1>1, <1>2 DEF Pending
  <2> QED
    BY <1>1, <1>2, <2>1 DEF AvatarInv, Unused
<1>5. ASSUME NEW t \in Slots PROVE Holds(t)'
  BY <1>1, <1>2 DEF AvatarInv, Holds, Apart
<1>6. Numbered'
  BY <1>1, <1>2 DEF AvatarInv, Numbered
<1> QED
  BY <1>1, <1>3, <1>4, <1>5, <1>6 DEF AvatarInv, Apart, AvatarExists

LEMMA UploadKeeps ==
    ASSUME AvatarInv, NEW s \in Slots, UploadObject(s)
    PROVE  /\ Numbered' /\ Apart' /\ AvatarExists'
           /\ \A t \in Slots : WellFormed(t)' /\ Unused(t)' /\ Holds(t)'
<1>0. req \in [Slots -> Req]
  BY DEF AvatarInv, Shape, TypeOK
<1>1. /\ UNCHANGED <<avatarKey, uploads>> /\ bucket' = bucket \cup {req[s].key}
      /\ \A t \in Slots \ {s} : req'[t] = req[t]
      /\ req'[s].kind = req[s].kind /\ req'[s].key = req[s].key /\ req'[s].who = req[s].who
      /\ req'[s].prev = req[s].prev
      /\ req[s].st = "read" /\ req[s].kind = "upload" /\ req'[s].st = "stored"
  BY <1>0 DEF UploadObject, Goes, Req, history
<1>2. ASSUME NEW t \in Slots PROVE WellFormed(t)' /\ Unused(t)' /\ Holds(t)'
  BY <1>1 DEF AvatarInv, WellFormed, Unused, Pending, Holds
<1> QED
  BY <1>1, <1>2 DEF AvatarInv, Numbered, Apart, AvatarExists

\* The commit gives the profile a picture that nobody else names or holds.
LEMMA CommitKeeps ==
    ASSUME AvatarInv, NEW s \in Slots, CommitAvatar(s)
    PROVE  /\ Numbered' /\ Apart' /\ AvatarExists'
           /\ \A t \in Slots : WellFormed(t)' /\ Unused(t)' /\ Holds(t)'
<1>0. req \in [Slots -> Req] /\ avatarKey \in [Accounts -> 0..MaxUploads]
  BY DEF AvatarInv, Shape, TypeOK
<1>1. /\ UNCHANGED <<bucket, uploads>>
      /\ \A t \in Slots \ {s} : req'[t] = req[t]
      /\ req'[s].kind = req[s].kind /\ req'[s].key = req[s].key /\ req'[s].who = req[s].who
      /\ req'[s].prev = req[s].prev /\ req'[s].st = "committed"
      /\ req[s].who \in Accounts
  BY <1>0 DEF CommitAvatar, Goes, Req, history, AvatarInv, WellFormed
<1>2. \/ req[s].st = "stored" /\ Pending(s) /\ req[s].key # 0 /\ req[s].key \in bucket
      \/ req[s].st = "read" /\ req[s].kind = "remove" /\ req[s].key = 0
  BY DEF CommitAvatar, AvatarInv, WellFormed, Unused, Holds, Pending
<1>3. /\ \A a \in Accounts \ {req[s].who} : avatarKey'[a] = avatarKey[a]
      /\ avatarKey'[req[s].who] = IF req[s].key # req[s].prev THEN req[s].key
                                  ELSE avatarKey[req[s].who]
  BY <1>0, <1>1 DEF CommitAvatar
<1>4. \A a \in Accounts : avatarKey'[a] \in {avatarKey[a], req[s].key}
  BY <1>3
<1>5. req[s].key # 0 => \A a \in Accounts : avatarKey[a] # req[s].key
  BY <1>2 DEF AvatarInv, Unused
<1>6. Apart'
  BY <1>3, <1>5 DEF AvatarInv, Apart
<1>7. AvatarExists'
  BY <1>1, <1>2, <1>4 DEF AvatarInv, AvatarExists
<1>8. Numbered'
  BY <1>1, <1>4 DEF AvatarInv, Numbered
<1>9. ASSUME NEW t \in Slots PROVE WellFormed(t)'
  BY <1>1, <1>2 DEF AvatarInv, WellFormed
<1>10. ASSUME NEW t \in Slots PROVE Unused(t)'
  <2> SUFFICES ASSUME Pending(t)' PROVE Unused(t)'
    BY DEF Unused
  <2>1. t # s /\ Pending(t)
    BY <1>1 DEF Pending
  <2>2. req[s].key # req[t].key
    BY <2>1 DEF AvatarInv, Unused
  <2> QED
    BY <1>1, <1>4, <2>1, <2>2 DEF AvatarInv, Unused
<1>11. ASSUME NEW t \in Slots PROVE Holds(t)'
  <2>1. CASE t = s
    BY <1>1, <1>2, <1>3, <2>1 DEF AvatarInv, Holds, Unused
  <2>2. CASE t # s
    <3>1. req'[t] = req[t]
      BY <1>1, <2>2
    <3>2. req[t].prev # 0 => req[t].prev # req[s].key
      BY <1>2 DEF AvatarInv, Unused
    <3> QED
      BY <1>1, <1>4, <3>1, <3>2 DEF AvatarInv, Holds
  <2> QED
    BY <2>1, <2>2
<1> QED
  BY <1>6, <1>7, <1>8, <1>9, <1>10, <1>11

\* The deletion takes an object that no profile names and no upload is about to.
LEMMA DiscardKeeps ==
    ASSUME AvatarInv, NEW s \in Slots, Discard(s)
    PROVE  /\ Numbered' /\ Apart' /\ AvatarExists'
           /\ \A t \in Slots : WellFormed(t)' /\ Unused(t)' /\ Holds(t)'
<1>0. req \in [Slots -> Req]
  BY DEF AvatarInv, Shape, TypeOK
<1>1. /\ UNCHANGED <<avatarKey, uploads>> /\ bucket \ {req[s].prev} \subseteq bucket'
      /\ \A t \in Slots \ {s} : req'[t] = req[t]
      /\ req'[s].kind = req[s].kind /\ req'[s].key = req[s].key /\ req'[s].who = req[s].who
      /\ req[s].st = "committed" /\ req'[s].st = "done" /\ req[s].who \in Accounts
      /\ req'[s].prev = avatarKey[req[s].who]
  BY <1>0 DEF Discard, Req, history, AvatarInv, WellFormed
<1>2. \A a \in Accounts : avatarKey[a] # 0 => avatarKey[a] # req[s].prev
  BY <1>1 DEF AvatarInv, Holds
<1>3. AvatarExists'
  BY <1>1, <1>2 DEF AvatarInv, AvatarExists
<1>4. ASSUME NEW t \in Slots PROVE WellFormed(t)'
  BY <1>1 DEF AvatarInv, WellFormed
<1>5. ASSUME NEW t \in Slots PROVE Unused(t)'
  BY <1>1 DEF AvatarInv, Unused, Pending
<1>6. ASSUME NEW t \in Slots PROVE Holds(t)'
  <2>1. req[t].st = "stored" => req[t].key # req[s].prev
    BY DEF AvatarInv, WellFormed, Unused, Pending
  <2> QED
    BY <1>1, <2>1 DEF AvatarInv, Holds
<1>7. Numbered' /\ Apart'
  BY <1>1 DEF AvatarInv, Numbered, Apart
<1> QED
  BY <1>3, <1>4, <1>5, <1>6, <1>7

LEMMA AvatarInit == Init => AvatarInv
<1> SUFFICES ASSUME Init PROVE AvatarInv
  OBVIOUS
<1>1. Shape
  BY InitType
<1>2. /\ \A a \in Accounts : avatarKey[a] = 0 /\ uploads = 0
      /\ \A s \in Slots : req[s] = NoReq
  BY DEF Init
<1>3. NoReq.kind = "none" /\ NoReq.st = "none" /\ NoReq.key = 0 /\ NoReq.prev = 0
  BY DEF NoReq, None
<1>4. \A s \in Slots : WellFormed(s) /\ Unused(s) /\ Holds(s)
  BY <1>2, <1>3 DEF WellFormed, Unused, Pending, Holds
<1>5. uploads = 0
  BY DEF Init
<1> QED
  BY <1>1, <1>2, <1>3, <1>4, <1>5 DEF AvatarInv, Numbered, Apart, AvatarExists

LEMMA AvatarPreserved == AvatarInv /\ [Next]_vars => AvatarInv'
<1> SUFFICES ASSUME AvatarInv, [Next]_vars PROVE AvatarInv'
  OBVIOUS
<1>1. Shape /\ \A s \in Slots : WellFormed(s)
  BY DEF AvatarInv
<1>2. Shape'
  BY <1>1, ShapePreserved
<1>3. Elsewhere \/ \E s \in Slots : Handles(s)
  BY <1>1, NextIsElsewhere
<1> QED
  BY <1>2, <1>3, ElsewhereKeeps, ReadingKeeps, UploadKeeps, CommitKeeps, DiscardKeeps
     DEF AvatarInv, Handles

\* The invariant of the proofs (api.ts, AuthContext.tsx and user_service.py together).
LEMMA AvatarInvHolds == Spec => []AvatarInv
BY AvatarInit, AvatarPreserved, PTL DEF Spec

\* Type correctness, and that nobody is forgotten: a request waits for a refresh
\* only while there is one (api.ts:44-68), a control only for a live request.
THEOREM AccountTypeCorrect == Spec => []TypeOK
<1>1. AvatarInv => TypeOK
  BY DEF AvatarInv, Shape
<1> QED
  BY <1>1, AvatarInvHolds, PTL

\* A profile never names a picture that is gone (user_service.py:55-88).
THEOREM NamedPicturesExist == Spec => []AvatarExists
<1>1. AvatarInv => AvatarExists
  BY DEF AvatarInv
<1> QED
  BY <1>1, AvatarInvHolds, PTL

---------------------------------------------------------------------------
(* Whose session it is.  Unless an answer came too late, the requests of a *)
(* live document, and the refresh they wait for, carry the session's       *)
(* tokens, and a document starts with no user and no request of its own.   *)

Signed(s) == req[s].kind \notin {"login", "register"}

SessionInv ==
    /\ doc = "blank" => Live = {} /\ user = NoUser
    /\ ~overlapped =>
        /\ SessionIsOne
        /\ refresh \in {None, session}
        /\ doc = "alive" => \A s \in Live : Signed(s) => req[s].who = session

LEMMA SessionInit == Init => SessionInv
<1> SUFFICES ASSUME Init PROVE SessionInv
  OBVIOUS
<1>1. \A s \in Slots : req[s] = NoReq
  BY DEF Init
<1>2. Live = {}
  BY <1>1 DEF Live, Busy, NoReq
<1> QED
  BY <1>2 DEF Init, SessionInv, SessionIsOne

\* Requests are handled and some of them end, but for a load.
LEMMA SessionGoesOn ==
  ASSUME Shape, SessionInv, UNCHANGED <<tokens, doc, user, session, overlapped>>,
         refresh' \in {refresh, tokens},
         \A t \in Live' : t \in Live /\ req'[t].kind = req[t].kind /\ req'[t].who = req[t].who,
         \A t \in Live : req[t].kind = "load" => t \in Live' /\ req'[t].kind = "load"
  PROVE  SessionInv'
BY DEF SessionInv, SessionIsOne, Signed

\* The document is over, and nobody can tell what the page shows.
LEMMA SessionLeaves ==
  ASSUME Shape, SessionInv, doc' = "leaving",
         ~overlapped' => tokens' = session' /\ refresh' \in {None, session'}
  PROVE  SessionInv'
BY DEF SessionInv, SessionIsOne

\* A control sends a request.
LEMMA SessionSends ==
  ASSUME Shape, SessionInv, NEW control \in Controls, NEW r \in Req, Send(control, r),
         r.kind \notin {None, "load"}, r.kind \in {"login", "register"} \/ r.who = tokens,
         UNCHANGED <<tokens, doc, user, refresh, session, overlapped>>
  PROVE  SessionInv'
<1>1. PICK s \in Free : req' = [req EXCEPT ![s] = r]
  BY DEF Send
<1>2. /\ s \in Slots \ Busy /\ req'[s] = r /\ \A t \in Slots \ {s} : req'[t] = req[t]
      /\ doc = "alive"
  BY <1>1 DEF Send, Free, Shape, TypeOK
<1>3. /\ Live' \subseteq Live \cup {s}
      /\ \A t \in Live : t # s /\ t \in Live'
  BY <1>2 DEF Live, Busy
<1>4. ~overlapped' => SessionIsOne'
  BY <1>2, <1>3 DEF SessionInv, SessionIsOne, Live, Busy
<1>5. ~overlapped' => \A t \in Live' : Signed(t)' => req'[t].who = session'
  BY <1>2, <1>3 DEF SessionInv, SessionIsOne, Signed, Live, Busy
<1> QED
  BY <1>2, <1>4, <1>5 DEF SessionInv

LEMMA SessionDocument ==
  ASSUME Shape, SessionInv, Mount \/ Leaves \/ Reload \/ Navigate \/ AuthGuard
  PROVE  SessionInv'
<1>0. req \in [Slots -> Req] /\ tokens \in Owners
  BY DEF Shape, TypeOK
<1>1. CASE Mount
  <2>1. Live = {} /\ user = NoUser /\ doc' = "alive"
    BY <1>1 DEF Mount, SessionInv
  <2>2. UNCHANGED <<tokens, user, refresh, session, overlapped>>
    BY <1>1 DEF Mount
  <2>3. \A t \in Live' : req'[t].who = tokens
    <3>1. CASE tokens = None
      BY <1>1, <2>1, <3>1 DEF Mount, Live, Busy
    <3>2. CASE tokens # None
      <4>1. PICK s \in Free : req' = [req EXCEPT ![s] = Request("load", tokens)]
        BY <1>1, <3>2 DEF Mount
      <4> DEFINE r == Request("load", tokens)
      <4>2. r.who = tokens
        BY <1>0, NewRequest DEF Kinds
      <4> HIDE DEF r
      <4>3. req'[s] = r /\ \A t \in Slots \ {s} : req'[t] = req[t]
        BY <1>0, <4>1 DEF r, Free
      <4> QED
        BY <2>1, <4>2, <4>3 DEF Live, Busy
    <3> QED
      BY <3>1, <3>2
  <2> QED
    BY <2>1, <2>2, <2>3 DEF SessionInv, SessionIsOne, NoUser
<1>2. ASSUME NEW to \in {"signin", "app"}, Unload(to) PROVE SessionInv'
  <2>1. \A t \in Slots : ~req'[t].live
    BY <1>0, <1>2 DEF Unload, NoReq, Req
  <2>2. Live' = {} /\ doc' = "blank" /\ user' = NoUser /\ refresh' = None
    BY <1>2, <2>1 DEF Unload, Live, Busy
  <2> QED
    BY <1>2, <2>2 DEF Unload, history, SessionInv, SessionIsOne
<1>3. CASE Navigate \/ AuthGuard
  BY <1>3, SessionGoesOn DEF Navigate, AuthGuard, history, Live, Busy
<1> QED
  BY <1>1, <1>2, <1>3 DEF Leaves, Reload

LEMMA SessionUser ==
  ASSUME Shape, SessionInv, LoginForm \/ RegisterForm \/ ProfileMenu \/ ProfilePage
  PROVE  SessionInv'
<1>0. tokens \in Owners
  BY DEF Shape, TypeOK
<1>1. CASE LoginForm \/ RegisterForm
  <2>1. PICK who \in Accounts, kind \in {"login", "register"} : Submit(kind, who)
    BY <1>1 DEF LoginForm, RegisterForm
  <2>2. kind \in Kinds \ {None, "load"} /\ who \in Owners /\ "sign" \in Controls
    BY DEF Kinds, None, Owners, Controls
  <2> QED
    BY <2>1, <2>2, NewRequest, SessionSends DEF Submit
<1>2. CASE Logout
  BY <1>2, SessionLeaves DEF Logout, SessionInv
<1>3. CASE ProfilePage
  <2> DEFINE R(kind) == Request(kind, tokens)
  <2>1. /\ {"save", "upload", "remove"} \subseteq Kinds \ {None, "load"}
        /\ {"save", "picture"} \subseteq Controls
    BY DEF Kinds, None, Controls
  <2>2. \A kind \in {"save", "upload", "remove"} :
           R(kind) \in Req /\ R(kind).kind = kind /\ R(kind).who = tokens
    BY <1>0, <2>1, NewRequest
  <2> HIDE DEF R
  <2>3. CASE HandleSave \/ HandleAvatarRemove
    BY <2>1, <2>2, <2>3, SessionSends DEF HandleSave, HandleAvatarRemove, R
  <2>4. CASE HandleAvatarPicked
    <3> DEFINE r == [R("upload") EXCEPT !.key = uploads + 1]
    <3>1. uploads + 1 \in 0..MaxUploads
      BY <2>4, AccountAssumption DEF HandleAvatarPicked, Shape, TypeOK
    <3>2. r \in Req /\ r.kind = "upload" /\ r.who = tokens
      BY <2>2, <3>1 DEF Req
    <3>3. Send("picture", r)
      BY <2>4 DEF HandleAvatarPicked, R
    <3> HIDE DEF r
    <3> QED
      BY <2>1, <2>4, <3>2, <3>3, SessionSends DEF HandleAvatarPicked
  <2> QED
    BY <1>3, <2>3, <2>4 DEF ProfilePage
<1> QED
  BY <1>1, <1>2, <1>3 DEF ProfileMenu

LEMMA SessionServer ==
  ASSUME Shape, SessionInv, NEW s \in Slots, Server(s) \/ RequestFails(s) \/ Unheard(s)
  PROVE  SessionInv'
<1>0. req \in [Slots -> Req]
  BY DEF Shape, TypeOK
<1>1. UNCHANGED <<tokens, doc, user, session, overlapped, refresh>>
  BY DEF Server, SignInHandled, Authenticate, UpdateProfile, UploadObject, CommitAvatar, Discard,
         RequestFails, Unheard, document, history
<1>2. \A t \in Slots \ {s} : req'[t] = req[t]
  BY <1>0 DEF Server, SignInHandled, Authenticate, UpdateProfile, UploadObject, CommitAvatar,
              Discard, RequestFails, Unheard, Goes
<1>3. \/ /\ req'[s].kind = req[s].kind /\ req'[s].who = req[s].who
         /\ req'[s].live = req[s].live
      \/ s \notin Live /\ ~req'[s].live
  <2>1. CASE Server(s)
    BY <1>0, <2>1 DEF Server, SignInHandled, Authenticate, UpdateProfile, UploadObject,
                      CommitAvatar, Discard, Goes, Req
  <2>2. CASE RequestFails(s)
    BY <1>0, <2>2 DEF RequestFails, Goes, Req
  <2>3. CASE Unheard(s)
    BY <1>0, <2>3 DEF Unheard, NoReq
  <2> QED
    BY <2>1, <2>2, <2>3
<1> QED
  BY <1>1, <1>2, <1>3, SessionGoesOn DEF Live, Busy

\* An error ends requests; if one of them is a load, no user is shown.
LEMMA SessionThrows ==
  ASSUME Shape, SessionInv, NEW S \in SUBSET Slots, Throws(S),
         UNCHANGED <<tokens, doc, refresh, session, overlapped>>
  PROVE  SessionInv'
<1>1. \A t \in Slots : req'[t] = IF t \in S THEN NoReq ELSE req[t]
  BY DEF Throws, Settle
<1>2. Live' = Live \ S /\ \A t \in Live' : req'[t] = req[t]
  BY <1>1 DEF Live, Busy, NoReq
<1>3. CASE \E s \in S : req[s].kind = "load"
  <2>1. user' = NoUser
    BY <1>3 DEF Throws
  <2> QED
    BY <1>2, <2>1 DEF SessionInv, SessionIsOne, Signed, NoUser
<1>4. CASE ~\E s \in S : req[s].kind = "load"
  <2>1. user' = user
    BY <1>4 DEF Throws
  <2> QED
    BY <1>2, <1>4, <2>1, SessionGoesOn
<1> QED
  BY <1>3, <1>4

LEMMA SessionAnswer ==
  ASSUME Shape, SessionInv, NEW s \in Slots, Answer(s)
  PROVE  SessionInv'
<1>0. req \in [Slots -> Req] /\ s \in Live
  BY DEF Shape, TypeOK, Answer
<1>1. CASE StoreTokens(s)
  <2> DEFINE r == [Request("load", req[s].who) EXCEPT !.after = TRUE]
  <2>1. r.kind = "load" /\ r.who = req[s].who /\ r.live
    BY DEF Request, NoReq
  <2>2. req' = [req EXCEPT ![s] = r]
    BY <1>1 DEF StoreTokens
  <2> HIDE DEF r
  <2>3. req'[s] = r /\ \A t \in Slots \ {s} : req'[t] = req[t]
    BY <1>0, <2>2
  <2>4. Live' = Live
    BY <1>0, <2>1, <2>3 DEF Live, Busy, None
  <2>5. /\ tokens' = req[s].who /\ session' = req[s].who /\ UNCHANGED <<doc, refresh, user>>
        /\ ~overlapped' => Live = {s} /\ refresh = None
    BY <1>1 DEF Answer, StoreTokens
  <2> QED
    BY <1>0, <2>1, <2>3, <2>4, <2>5 DEF SessionInv, SessionIsOne
<1>2. CASE ShowUser(s)
  <2>1. \A t \in Slots : req'[t] = IF t = s THEN NoReq ELSE req[t]
    BY <1>2 DEF ShowUser, Settle
  <2>2. Live' = Live \ {s} /\ \A t \in Live' : req'[t] = req[t]
    BY <2>1 DEF Live, Busy, NoReq
  <2>3. Signed(s) /\ user'.of = req[s].who
    BY <1>2 DEF ShowUser, Signed
  <2>4. UNCHANGED <<tokens, doc, refresh, session, overlapped>>
    BY <1>2 DEF Answer, ShowUser
  <2> QED
    BY <1>0, <2>2, <2>3, <2>4 DEF SessionInv, SessionIsOne, Signed
<1> QED
  BY <1>1, <1>2 DEF Answer

LEMMA SessionRefresh ==
  ASSUME Shape, SessionInv,
         \/ Refreshed \/ RefreshFails
         \/ \E s \in Slots : Error(s) \/ TryRefresh(s)
  PROVE  SessionInv'
<1>0. req \in [Slots -> Req]
  BY DEF Shape, TypeOK
<1>1. ASSUME NEW s \in Slots, Error(s) PROVE SessionInv'
  BY <1>1, SessionThrows DEF Error, history
<1>2. ASSUME NEW s \in Slots, TryRefresh(s) PROVE SessionInv'
  <2>1. CASE tokens = None
    BY <1>2, <2>1, SessionLeaves DEF TryRefresh, GiveUp, SessionInv, SessionIsOne
  <2>2. CASE tokens # None
    <3>1. /\ UNCHANGED <<tokens, doc, user, session, overlapped>>
          /\ refresh' \in {refresh, tokens} /\ Goes(s, "waiting")
      BY <1>2, <2>2 DEF TryRefresh
    <3>2. /\ \A t \in Slots \ {s} : req'[t] = req[t]
          /\ req'[s].kind = req[s].kind /\ req'[s].who = req[s].who
          /\ req'[s].live = req[s].live
      BY <1>0, <3>1 DEF Goes, Req
    <3> QED
      BY <3>1, <3>2, SessionGoesOn DEF Live, Busy
  <2> QED
    BY <2>1, <2>2
<1>3. CASE Refreshed
  <2>1. \A t \in Slots : /\ req'[t].kind = req[t].kind /\ req'[t].live = req[t].live
                         /\ req'[t].who \in {req[t].who, refresh}
    BY <1>0, <1>3 DEF Refreshed, Req
  <2>2. Live' = Live
    BY <2>1 DEF Live, Busy
  <2>3. /\ refresh # None /\ refresh' = None /\ tokens' = refresh
        /\ UNCHANGED <<doc, user, session, overlapped>>
    BY <1>3 DEF Refreshed, history
  <2>4. Live \subseteq Slots
    BY DEF Live, Busy
  <2> QED
    BY <2>1, <2>2, <2>3, <2>4 DEF SessionInv, SessionIsOne, Signed
<1>4. CASE RefreshFails
  BY <1>4, SessionLeaves DEF RefreshFails, GiveUp
<1> QED
  BY <1>1, <1>2, <1>3, <1>4

LEMMA SessionPreserved == Shape /\ SessionInv /\ [Next]_vars => SessionInv'
<1> SUFFICES ASSUME Shape, SessionInv, [Next]_vars PROVE SessionInv'
  OBVIOUS
<1>1. CASE UNCHANGED vars
  BY <1>1, SessionGoesOn DEF vars, document, history, Live, Busy
<1> QED
  BY <1>1, SessionDocument, SessionUser, SessionServer, SessionAnswer, SessionRefresh DEF Next

\* The tokens in the browser and the account the page shows are one session's,
\* unless an answer was applied after a later sign-in or sign-out (api.ts:59).
THEOREM SessionsAreOne == Spec => []SessionIsOne
<1>1. AvatarInv => Shape
  BY DEF AvatarInv
<1>2. Spec => [](overlapped \/ SessionIsOne)
  <2>1. SessionInv => overlapped \/ SessionIsOne
    BY DEF SessionInv
  <2> QED
    BY <1>1, <2>1, AvatarInvHolds, SessionInit, SessionPreserved, PTL DEF Spec
<1>3. overlapped \/ SessionIsOne => SessionIsOne
  BY DEF SessionIsOne
<1> QED
  BY <1>2, <1>3, PTL
=============================================================================
