------------------------------ MODULE ApiAuth ------------------------------
(***************************************************************************)
(* The middleware every request to the API server passes before a          *)
(* controller sees it: Authentication, Impersonation, GetAPIResource and   *)
(* RBACAuthorization.  Each asks the Kubernetes API a question (a token    *)
(* review, a discovery call, subject access reviews) and keeps the answer  *)
(* in one cache that all requests share.  Requests run concurrently; the   *)
(* clock moves, and another request may read or write the cache, between   *)
(* a lookup, the question it leads to and the storing of the answer.       *)
(***************************************************************************)
EXTENDS Integers, FiniteSets, Sequences, SequencesExt

CONSTANTS
    Handler,        \* goroutines that serve requests
    Request,        \* requests a client may make (see AuthRequest)
    Token, User, Group, Uid, Extra,  \* what their headers may name
    OwnerOf,        \* OwnerOf[t]: the identity a review of token t reports
    NamespaceOf,    \* NamespaceOf[u]: of a service account, None of a user
    GroupVersion, Resource, Name,
    KindOf,         \* KindOf[gv, r]: kind discovery reports, None for none
    Authorized, Unauthorized, CacheExpirationTime,  \* lifetimes, in ticks
    Second,         \* ticks of the clock in a second
    MaxNow,         \* bound: ticks of a behaviour
    MaxRequests,    \* bound: requests of a behaviour
    None            \* an absent header, no kind, no namespace

(* An identity: the user.Info of a request                                 *)
Identity == [name : User, groups : SUBSET STRING, uid : Uid \cup {None},
             extra : SUBSET Extra]

(* What a request carries.  "token" is None when the Authorization header  *)
(* is missing or malformed; an extra is a header key with its one value.   *)
AuthRequest ==
    [token : Token \cup {None},
     user : User \cup {None}, groups : Seq(Group), uid : Uid \cup {None},
     extras : SUBSET Extra,
     gv : GroupVersion, resource : Resource, name : Name \cup {None},
     log : BOOLEAN]

ASSUME ApiAuthAssumption ==
    /\ Request \subseteq AuthRequest
    /\ KindOf \in [GroupVersion \X Resource -> STRING \cup {None}]
    /\ OwnerOf \in [Token -> Identity]
    /\ NamespaceOf \in [User -> STRING \cup {None}]
    /\ Authorized \in Nat /\ Unauthorized \in Nat /\ Second \in Nat \ {0}
    /\ CacheExpirationTime \in Nat
    /\ MaxNow \in Nat /\ MaxRequests \in Nat
    /\ \A r \in Request : IsFiniteSet(r.extras)
    /\ Group \cup {"system:serviceaccounts", "system:authenticated",
                  "system:unauthenticated"} \subseteq STRING
    /\ \A u \in User : NamespaceOf[u] # None =>
         "system:serviceaccounts:" \o NamespaceOf[u] \in STRING
    /\ None \notin Nat \cup Identity

VARIABLES
    now,            \* the clock
    impersonate,    \* AUTH_IMPERSONATE is "true"; fixed when the server starts
    cache,          \* key -> [value, expiration, stored]; "stored" is history
    requests,       \* number of requests so far
    pc, req,        \* position of each handler, and its request
    user,           \* the "user" of the handler's context
    todo,           \* access reviews the running doSarRequests has left
    kind,           \* the "apiResourceKind" of the handler's context
    answer,         \* answer of the review that is not yet stored
    status,         \* status of the last response; 200 when it is passed on
    yes, no, failed \* history: reviews answered yes and no, a call failed
vars == <<now, impersonate, cache, requests, pc, req, user, todo, kind,
          answer, status, yes, no, failed>>

(* All a handler keeps of its request but its position                     *)
handling == <<req, user, todo, kind, answer, status, yes, no, failed>>

----------------------------------------------------------------------------
(* The cache *)

Sec(t) == t \div Second

(* Get returns the value of an entry that has not expired                  *)
Fresh(k) == k \in DOMAIN cache /\ Sec(now) <= cache[k].expiration

Entry(value, duration) ==
    [value |-> value, expiration |-> Sec(now + duration), stored |-> now]

(* Set replaces whatever the cache has under k, be it a newer answer       *)
Set(k, value, duration) ==
    cache' = [j \in DOMAIN cache \cup {k} |->
                 IF j = k THEN Entry(value, duration) ELSE cache[j]]

(* Keys: a token, the text of a SubjectAccessReviewSpec, a resource name   *)
TokenKey(t) == <<"token", t>>
SarKey(identity, attribute) == <<"sar", identity, attribute>>
KindKey(r) == <<"kind", r>>

----------------------------------------------------------------------------
(* Impersonation headers *)

(* parseUser, parseGroups, parseUID and parseExtras: the attributes that   *)
(* are reviewed.  Extras come in the order Go ranges over a map.           *)
UserAttribute(r) ==
    IF r.user = None THEN <<>>
    ELSE IF NamespaceOf[r.user] # None
         THEN <<<<"impersonate", "serviceaccounts", NamespaceOf[r.user], r.user>>>>
         ELSE <<<<"impersonate", "users", None, r.user>>>>
GroupAttributes(r) ==
    [i \in DOMAIN r.groups |-> <<"impersonate", "groups", None, r.groups[i]>>]
UidAttribute(r) ==
    IF r.uid = None THEN <<>>
    ELSE <<<<"impersonate", "uids", None, r.uid>>>>
ExtraAttributes(r) ==
    {[i \in DOMAIN s |-> <<"impersonate", "userextras", None, s[i]>>] :
        s \in SetToSeqs(r.extras)}

(* Fault: the impersonated groups are taken without a review.              *)
ImpersonatedAttributes_NoGroups(r) ==
    {UserAttribute(r) \o UidAttribute(r) \o e : e \in ExtraAttributes(r)}

ImpersonatedAttributes(r) ==
    {UserAttribute(r) \o GroupAttributes(r) \o UidAttribute(r) \o e :
        e \in ExtraAttributes(r)}

(* The groups of the impersonated user: those of the headers, or those of  *)
(* the service account's namespace, and the group of (un)authenticated     *)
(* users unless the headers name it.                                       *)
ServiceAccountGroups(ns) ==
    {"system:serviceaccounts", "system:serviceaccounts:" \o ns}
ImpersonatedGroups(r) ==
    LET named == ToSet(r.groups)
        base == IF r.groups # <<>> THEN named
                ELSE IF NamespaceOf[r.user] # None
                     THEN ServiceAccountGroups(NamespaceOf[r.user])
                     ELSE {}
    IN  base \cup {IF r.user = "system:anonymous"
                   THEN "system:unauthenticated" ELSE "system:authenticated"}

ImpersonatedUser(r) ==
    [name |-> r.user, groups |-> ImpersonatedGroups(r), uid |-> r.uid,
     extra |-> r.extras]

(* Other impersonation headers without the user's are an error             *)
HeadersMalformed(r) ==
    r.user = None /\ (r.groups # <<>> \/ r.uid # None \/ r.extras # {})

(* The attributes RBACAuthorization reviews                                *)
Verb(r) == IF r.name = None THEN "list" ELSE "get"

ResourceAttributes(r) ==
    <<<<Verb(r), r.gv, r.resource, r.name>>>>
        \o IF r.log THEN <<<<"get", "v1", "pods/log", None>>>> ELSE <<>>

----------------------------------------------------------------------------
(* Steps of a handler.  Goto leaves everything else of h as it is.         *)

Goto(h, l) == pc' = [pc EXCEPT ![h] = l]

(* abort.Abort: the response is decided and no later handler runs          *)
Abort(h, s) ==
    /\ status' = [status EXCEPT ![h] = s]
    /\ todo' = [todo EXCEPT ![h] = <<>>]
    /\ Goto(h, "idle")

Saw(h, k, allowed) ==
    IF allowed THEN yes' = [yes EXCEPT ![h] = @ \cup {k}] /\ UNCHANGED no
               ELSE no' = [no EXCEPT ![h] = @ \cup {k}] /\ UNCHANGED yes

(* A request arrives.  extractBearerToken refuses a malformed header.      *)
Arrive(h, r) ==
    /\ pc[h] = "idle" /\ requests < MaxRequests
    /\ requests' = requests + 1
    /\ req' = [req EXCEPT ![h] = r]
    /\ user' = [user EXCEPT ![h] = None]
    /\ kind' = [kind EXCEPT ![h] = None]
    /\ yes' = [yes EXCEPT ![h] = {}] /\ no' = [no EXCEPT ![h] = {}]
    /\ failed' = [failed EXCEPT ![h] = FALSE]
    /\ IF r.token = None THEN Abort(h, 400)
       ELSE /\ Goto(h, "token") /\ UNCHANGED todo
            /\ status' = [status EXCEPT ![h] = None]
    /\ UNCHANGED <<now, impersonate, cache, answer>>

(* The impersonation middleware up to its reviews, entered with the user u *)
(* of the token.                                                           *)
EnterImpersonation(h, u) ==
    LET r == req[h] IN
    /\ user' = [user EXCEPT ![h] = u]
    /\ \/ /\ impersonate /\ HeadersMalformed(r)
          /\ Abort(h, 400)
       \/ /\ ~impersonate \/ (r.user = None /\ ~HeadersMalformed(r))
          /\ Goto(h, "kind") /\ UNCHANGED <<todo, status>>
       \/ /\ impersonate /\ r.user # None
          /\ \E s \in ImpersonatedAttributes(r) : todo' = [todo EXCEPT ![h] = s]
          /\ Goto(h, "impersonate") /\ UNCHANGED status

(* Authentication: the cached answer, or a review of the token             *)
CachedToken(h) ==
    LET k == TokenKey(req[h].token) IN
    /\ pc[h] = "token" /\ Fresh(k)
    /\ Saw(h, k, cache[k].value # FALSE)
    /\ IF cache[k].value = FALSE
       THEN Abort(h, 401) /\ UNCHANGED user
       ELSE EnterImpersonation(h, OwnerOf[req[h].token])
    /\ UNCHANGED <<now, impersonate, cache, requests, req, kind, answer, failed>>

TokenMiss(h) ==
    /\ pc[h] = "token" /\ ~Fresh(TokenKey(req[h].token))
    /\ Goto(h, "tokenReview")
    /\ UNCHANGED <<now, impersonate, cache, requests, handling>>

TokenReview(h, authenticated) ==
    /\ pc[h] = "tokenReview"
    /\ answer' = [answer EXCEPT ![h] = authenticated]
    /\ Saw(h, TokenKey(req[h].token), authenticated)
    /\ Goto(h, "tokenSet")
    /\ UNCHANGED <<now, impersonate, cache, requests, req, user, todo, kind,
                   status, failed>>

(* A refusal is the response before it is cached                           *)
TokenSet(h) ==
    /\ pc[h] = "tokenSet"
    /\ LET k == TokenKey(req[h].token) IN
       IF answer[h]
       THEN /\ Set(k, TRUE, Authorized)
            /\ EnterImpersonation(h, OwnerOf[req[h].token])
       ELSE /\ Set(k, FALSE, Unauthorized)
            /\ Abort(h, 401) /\ UNCHANGED user
    /\ answer' = [answer EXCEPT ![h] = None]
    /\ UNCHANGED <<now, impersonate, requests, req, kind, yes, no, failed>>

----------------------------------------------------------------------------
(* doSarRequests, run by Impersonation for the attributes of the headers   *)
(* and by RBACAuthorization for those of the request's path                *)

Reviewing == {"impersonate", "authorize"}
AwaitReview(l) == IF l = "impersonate" THEN "impersonateReview" ELSE "authorizeReview"
Stored(l) == IF l = "impersonate" THEN "impersonateSet" ELSE "authorizeSet"
Lowered(l) == IF l = "impersonate" THEN "impersonateLower" ELSE "authorizeLower"

NextKey(h) == SarKey(user[h], Head(todo[h]))

(* Fault: the requester's identity is kept for the reviews that follow.    *)
Reviewed_KeepsRequester(h, l) ==
    /\ todo[h] = <<>>
    /\ IF l = "impersonate"
       THEN Goto(h, "kind") /\ UNCHANGED <<user, todo, status>>
       ELSE Abort(h, 200) /\ UNCHANGED user

(* All reviews said yes: the user of the context becomes the impersonated  *)
(* one, or the request goes on to the controller.                          *)
Reviewed(h, l) ==
    /\ todo[h] = <<>>
    /\ IF l = "impersonate"
       THEN /\ user' = [user EXCEPT ![h] = ImpersonatedUser(req[h])]
            /\ Goto(h, "kind") /\ UNCHANGED <<todo, status>>
       ELSE Abort(h, 200) /\ UNCHANGED user

ReviewsDone(h, l) ==
    /\ pc[h] = l /\ Reviewed(h, l)
    /\ UNCHANGED <<now, impersonate, cache, requests, req, kind, answer, yes,
                   no, failed>>

CachedSar(h, l) ==
    /\ pc[h] = l /\ todo[h] # <<>> /\ Fresh(NextKey(h))
    /\ Saw(h, NextKey(h), cache[NextKey(h)].value)
    /\ IF cache[NextKey(h)].value
       THEN todo' = [todo EXCEPT ![h] = Tail(@)] /\ UNCHANGED <<pc, status>>
       ELSE Abort(h, 401)
    /\ UNCHANGED <<now, impersonate, cache, requests, req, user, kind, answer,
                   failed>>

SarMiss(h, l) ==
    /\ pc[h] = l /\ todo[h] # <<>> /\ ~Fresh(NextKey(h))
    /\ Goto(h, AwaitReview(l))
    /\ UNCHANGED <<now, impersonate, cache, requests, handling>>

Sar(h, l, allowed) ==
    /\ pc[h] = AwaitReview(l)
    /\ answer' = [answer EXCEPT ![h] = allowed]
    /\ Saw(h, NextKey(h), allowed)
    /\ Goto(h, Stored(l))
    /\ UNCHANGED <<now, impersonate, cache, requests, req, user, todo, kind,
                   status, failed>>

(* Every answer is first stored with the lifetime of a yes ...             *)
SarSet(h, l) ==
    /\ pc[h] = Stored(l)
    /\ Set(NextKey(h), answer[h], Authorized)
    /\ IF answer[h]
       THEN todo' = [todo EXCEPT ![h] = Tail(@)] /\ Goto(h, l)
       ELSE Goto(h, Lowered(l)) /\ UNCHANGED todo
    /\ answer' = [answer EXCEPT ![h] = None]
    /\ UNCHANGED <<now, impersonate, requests, req, user, kind, status, yes, no,
                   failed>>

(* Fault: the second store of a no is left out.                            *)
SarLower_Skipped(h, l) ==
    /\ pc[h] = Lowered(l)
    /\ Abort(h, 401)
    /\ UNCHANGED <<now, impersonate, cache, requests, req, user, kind, answer,
                   yes, no, failed>>

(* ... and a no is stored again, with its own                              *)
SarLower(h, l) ==
    /\ pc[h] = Lowered(l)
    /\ Set(NextKey(h), FALSE, Unauthorized)
    /\ Abort(h, 401)
    /\ UNCHANGED <<now, impersonate, requests, req, user, kind, answer, yes, no,
                   failed>>

----------------------------------------------------------------------------
(* GetAPIResource: the kind cached for the resource's name, or the one the *)
(* group version's discovery document has                                  *)

CachedKind(h) ==
    LET k == KindKey(req[h].resource) IN
    /\ pc[h] = "kind" /\ Fresh(k)
    /\ kind' = [kind EXCEPT ![h] = cache[k].value]
    /\ todo' = [todo EXCEPT ![h] = ResourceAttributes(req[h])]
    /\ Goto(h, "authorize")
    /\ UNCHANGED <<now, impersonate, cache, requests, req, user, answer, status,
                   yes, no, failed>>

KindMiss(h) ==
    /\ pc[h] = "kind" /\ ~Fresh(KindKey(req[h].resource))
    /\ Goto(h, "discover")
    /\ UNCHANGED <<now, impersonate, cache, requests, handling>>

Discover(h) ==
    LET k == KindOf[<<req[h].gv, req[h].resource>>] IN
    /\ pc[h] = "discover"
    /\ IF k = None
       THEN Abort(h, 404) /\ UNCHANGED <<cache, kind>>
       ELSE /\ Set(KindKey(req[h].resource), k, CacheExpirationTime)
            /\ kind' = [kind EXCEPT ![h] = k]
            /\ todo' = [todo EXCEPT ![h] = ResourceAttributes(req[h])]
            /\ Goto(h, "authorize") /\ UNCHANGED status
    /\ UNCHANGED <<now, impersonate, requests, req, user, answer, yes, no, failed>>

(* A call of the Kubernetes API fails.  Nothing is cached; an error while  *)
(* reviewing an impersonation is reported like a refusal, and a failed     *)
(* discovery with the status of its answer, 0 when there was none.         *)
CallFails(h) ==
    /\ pc[h] \in {"tokenReview", "impersonateReview", "discover", "authorizeReview"}
    /\ failed' = [failed EXCEPT ![h] = TRUE]
    /\ \E s \in CASE pc[h] = "impersonateReview" -> {401}
                  [] pc[h] = "discover" -> {0, 404, 500}
                  [] OTHER -> {500} :
          Abort(h, s)
    /\ UNCHANGED <<now, impersonate, cache, requests, req, user, kind, answer,
                   yes, no>>

----------------------------------------------------------------------------

Position == {"idle", "token", "tokenReview", "tokenSet", "impersonate",
             "impersonateReview", "impersonateSet", "impersonateLower", "kind",
             "discover", "authorize", "authorizeReview", "authorizeSet",
             "authorizeLower"}

(* Variables have the values the declarations say; a handler that asks for *)
(* access reviews has a user to ask about.                                 *)
TypeOK ==
    /\ now \in 0..MaxNow /\ impersonate \in BOOLEAN
    /\ requests \in 0..MaxRequests
    /\ pc \in [Handler -> Position]
    /\ req \in [Handler -> Request \cup {None}]
    /\ user \in [Handler -> Identity \cup {None}]
    /\ kind \in [Handler -> {KindOf[x] : x \in DOMAIN KindOf} \cup {None}]
    /\ answer \in [Handler -> BOOLEAN \cup {None}]
    /\ status \in [Handler -> {None, 0, 200, 400, 401, 404, 500}]
    /\ failed \in [Handler -> BOOLEAN]
    /\ \A h \in Handler : pc[h] \in Reviewing => user[h] # None
    /\ \A k \in DOMAIN cache : cache[k].stored <= now

Init ==
    /\ now = 0 /\ impersonate \in BOOLEAN
    /\ cache = [k \in {} |-> None] /\ requests = 0
    /\ pc = [h \in Handler |-> "idle"]
    /\ req = [h \in Handler |-> None]
    /\ user = [h \in Handler |-> None]
    /\ todo = [h \in Handler |-> <<>>]
    /\ kind = [h \in Handler |-> None]
    /\ answer = [h \in Handler |-> None]
    /\ status = [h \in Handler |-> None]
    /\ yes = [h \in Handler |-> {}] /\ no = [h \in Handler |-> {}]
    /\ failed = [h \in Handler |-> FALSE]

Tick ==
    /\ now < MaxNow /\ now' = now + 1
    /\ UNCHANGED <<impersonate, cache, requests, pc, handling>>

(* What h does of its own accord once a request has arrived                *)
Step(h) ==
    \/ CachedToken(h) \/ TokenMiss(h) \/ TokenSet(h)
    \/ \E b \in BOOLEAN : TokenReview(h, b)
    \/ \E l \in Reviewing :
         \/ ReviewsDone(h, l) \/ CachedSar(h, l) \/ SarMiss(h, l)
         \/ SarSet(h, l) \/ SarLower(h, l)
         \/ \E b \in BOOLEAN : Sar(h, l, b)
    \/ CachedKind(h) \/ KindMiss(h) \/ Discover(h)
    \/ CallFails(h)

Next ==
    \/ Tick
    \/ \E h \in Handler : Step(h) \/ \E r \in Request : Arrive(h, r)

Spec == Init /\ [][Next]_vars

----------------------------------------------------------------------------
(* Correctness *)

(* Whom a request speaks for, and every answer it depends on: its token's, *)
(* an impersonation review of each identity attribute it claims, asked     *)
(* about the owner of the token, and reviews of what it reads, asked about *)
(* the identity it speaks for.                                             *)
Speaker(r) ==
    IF impersonate /\ r.user # None THEN ImpersonatedUser(r)
    ELSE OwnerOf[r.token]
Claims(r) ==
    {<<"impersonate", IF NamespaceOf[r.user] = None THEN "users"
                      ELSE "serviceaccounts", NamespaceOf[r.user], r.user>>}
    \cup {<<"impersonate", "groups", None, g>> : g \in ToSet(r.groups)}
    \cup ({<<"impersonate", "uids", None, u>> : u \in {r.uid} \ {None}})
    \cup {<<"impersonate", "userextras", None, e>> : e \in r.extras}
Reads(r) ==
    {<<IF r.name = None THEN "list" ELSE "get", r.gv, r.resource, r.name>>}
    \cup {a \in {<<"get", "v1", "pods/log", None>>} : r.log}
Needed(r) ==
    {TokenKey(r.token)}
    \cup {SarKey(OwnerOf[r.token], a) :
            a \in IF impersonate /\ r.user # None THEN Claims(r) ELSE {}}
    \cup {SarKey(Speaker(r), a) : a \in Reads(r)}

(* A request reaches a controller only after a yes to every question it    *)
(* depends on, each asked for the right identity, and speaks for the       *)
(* identity those answers are about.                                       *)
PassedOnIsReviewed ==
    \A h \in Handler :
        status[h] = 200 =>
            /\ Needed(req[h]) \subseteq yes[h]
            /\ user[h] = Speaker(req[h]) /\ kind[h] # None

(* A refusal has a cause: 401 a no to a question the request depends on    *)
(* (or a failed review of an impersonation), 0 or 500 a failed call; and no *)
(* request that met either is passed on.  (Checked together with the       *)
(* types.)                                                                 *)
RefusalHasCause ==
    /\ TypeOK
    /\ \A h \in Handler :
        /\ status[h] = 401 => failed[h] \/ no[h] \cap Needed(req[h]) # {}
        /\ status[h] \in {0, 500} => failed[h]
        /\ status[h] = 200 => ~failed[h] /\ no[h] = {}

(* An answer serves for its lifetime and, because expirations are whole    *)
(* seconds, less than a second more.  A no outlives the lifetime of a no   *)
(* only while the handler that got it is between its two stores.           *)
AnswersExpire ==
    \A k \in DOMAIN cache :
        Fresh(k) =>
            IF k[1] = "kind" THEN now < cache[k].stored + CacheExpirationTime + Second
            ELSE IF cache[k].value = TRUE
            THEN now < cache[k].stored + Authorized + Second
            ELSE \/ now < cache[k].stored + Unauthorized + Second
                 \/ \E h \in Handler, l \in Reviewing :
                      pc[h] = Lowered(l) /\ NextKey(h) = k
=============================================================================
