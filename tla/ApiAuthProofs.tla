--------------------------- MODULE ApiAuthProofs ---------------------------
(***************************************************************************)
(* Proofs about the middleware of the API server, for any requests, any    *)
(* number of handlers that share the cache, and any lifetimes.  What lets a *)
(* request through is a matter of its own handler: whatever the others     *)
(* store, every answer it goes by is in its history "yes".  How long an    *)
(* answer serves is a matter of the cache: an entry's expiration is that   *)
(* of the lifetime it was stored with.                                     *)
(***************************************************************************)
EXTENDS ApiAuth, FiniteSetTheorems, FunctionTheorems, TLAPS

(* The positions of a handler within doSarRequests, called by l            *)
InReviews(h, l) == pc[h] \in {l, AwaitReview(l), Stored(l), Lowered(l)}

(* What the caller l has to have reviewed                                  *)
Duties(h, l) == IF l = "impersonate" THEN Claims(req[h]) ELSE Reads(req[h])

(* The claims of a request are reviewed about the owner of its token       *)
ClaimsReviewed(h) ==
    impersonate /\ req[h].user # None =>
        \A a \in Claims(req[h]) : SarKey(OwnerOf[req[h].token], a) \in yes[h]

(* A handler at work has a request and has not met a failure or decided    *)
Working(h) ==
    pc[h] # "idle" =>
        /\ req[h] \in Request /\ req[h].token # None
        /\ status[h] = None /\ failed[h] = FALSE

(* Past authentication there is a yes to the token                         *)
Authenticated(h) ==
    pc[h] \notin {"idle", "token", "tokenReview", "tokenSet"} =>
        TokenKey(req[h].token) \in yes[h]

(* An answer not yet stored is in the history; otherwise there is no no    *)
Answered(h) ==
    /\ pc[h] = "tokenSet" =>
         IF answer[h] = TRUE THEN TokenKey(req[h].token) \in yes[h] /\ no[h] = {}
         ELSE answer[h] = FALSE /\ TokenKey(req[h].token) \in no[h]
    /\ \A l \in Reviewing :
         /\ pc[h] = Stored(l) =>
              IF answer[h] = TRUE THEN NextKey(h) \in yes[h] /\ no[h] = {}
              ELSE answer[h] = FALSE /\ NextKey(h) \in no[h]
         /\ pc[h] = Lowered(l) => NextKey(h) \in no[h]
         /\ pc[h] \in {AwaitReview(l), Stored(l), Lowered(l)} => todo[h] # <<>>
    /\ pc[h] \notin {"idle", "tokenSet"} \cup {Stored(l) : l \in Reviewing}
                      \cup {Lowered(l) : l \in Reviewing} => no[h] = {}

(* What doSarRequests has left is all that is not answered yes             *)
Reviewable(h) ==
    \A l \in Reviewing :
        InReviews(h, l) =>
            /\ todo[h] \in Seq(Duties(h, l))
            /\ \A a \in Duties(h, l) :
                  SarKey(user[h], a) \in yes[h] \/ a \in ToSet(todo[h])

(* Whom the handler asks about                                             *)
SpeaksFor(h) ==
    /\ InReviews(h, "impersonate") =>
         /\ impersonate /\ req[h].user # None
         /\ user[h] = OwnerOf[req[h].token]
    /\ pc[h] \in {"kind", "discover"} \/ InReviews(h, "authorize") =>
         user[h] = Speaker(req[h]) /\ ClaimsReviewed(h)
    /\ InReviews(h, "authorize") => kind[h] # None

(* What an entry e under the key k was stored for: a kind, a yes, a no, or *)
(* the first of the two stores of a no.                                    *)
OfKind(k, e) ==
    /\ k[1] = "kind" /\ e.value # None
    /\ e.value \in {KindOf[x] : x \in DOMAIN KindOf}
    /\ e.expiration = Sec(e.stored + CacheExpirationTime)
OfYes(k, e) ==
    k[1] # "kind" /\ e.value = TRUE /\ e.expiration = Sec(e.stored + Authorized)
OfNo(k, e) ==
    k[1] # "kind" /\ e.value = FALSE /\ e.expiration = Sec(e.stored + Unauthorized)
OfUnlowered(k, e) ==
    k[1] # "kind" /\ e.value = FALSE /\ e.expiration = Sec(e.stored + Authorized)

AtLowered(h) == \E l \in Reviewing : pc[h] = Lowered(l)

(* Every entry is one of these, the last while a handler is between stores *)
Lifetimes ==
    \A k \in DOMAIN cache :
        /\ cache[k].stored \in Nat
        /\ \/ OfKind(k, cache[k]) \/ OfYes(k, cache[k]) \/ OfNo(k, cache[k])
           \/ /\ OfUnlowered(k, cache[k])
              /\ \E h \in Handler : AtLowered(h) /\ NextKey(h) = k

Histories ==
    /\ DOMAIN todo = Handler /\ DOMAIN yes = Handler /\ DOMAIN no = Handler

(* The two properties, handler by handler                                  *)
Passed(h) ==
    status[h] = 200 =>
        /\ Needed(req[h]) \subseteq yes[h]
        /\ user[h] = Speaker(req[h]) /\ kind[h] # None
Refused(h) ==
    /\ status[h] = 401 => failed[h] \/ no[h] \cap Needed(req[h]) # {}
    /\ status[h] \in {0, 500} => failed[h]
    /\ status[h] = 200 => ~failed[h] /\ no[h] = {}

HandlerInv(h) ==
    /\ Working(h) /\ Authenticated(h) /\ Answered(h) /\ Reviewable(h)
    /\ SpeaksFor(h) /\ Passed(h) /\ Refused(h)

IInv ==
    /\ TypeOK /\ Histories /\ Lifetimes
    /\ \A h \in Handler : HandlerInv(h)

----------------------------------------------------------------------------
(* Sequences *)

(* An element of a sequence is its first or one of the rest                *)
LEMMA HeadOrTail ==
    ASSUME NEW S, NEW s \in Seq(S), s # <<>>
    PROVE  /\ Head(s) \in S /\ Tail(s) \in Seq(S)
           /\ ToSet(s) = {Head(s)} \cup ToSet(Tail(s))
<1>1. Len(s) \in Nat \ {0} /\ DOMAIN s = 1..Len(s) /\ Head(s) = s[1]
  OBVIOUS
<1>2. Tail(s) \in Seq(S) /\ DOMAIN Tail(s) = 1..Len(s)-1
      /\ \A i \in 1..Len(s)-1 : Tail(s)[i] = s[i+1]
  OBVIOUS
<1>3. \A x \in ToSet(s) : x = Head(s) \/ x \in ToSet(Tail(s))
  <2> SUFFICES ASSUME NEW i \in 1..Len(s), i # 1
               PROVE  s[i] \in ToSet(Tail(s))
    BY <1>1 DEF ToSet
  <2>1. i - 1 \in 1..Len(s)-1 /\ Tail(s)[i-1] = s[i]
    BY <1>1, <1>2
  <2> QED
    BY <2>1, <1>2 DEF ToSet
<1>4. \A x \in ToSet(Tail(s)) : x \in ToSet(s)
  <2> SUFFICES ASSUME NEW i \in 1..Len(s)-1
               PROVE  Tail(s)[i] \in ToSet(s)
    BY <1>2 DEF ToSet
  <2>1. i + 1 \in 1..Len(s) /\ Tail(s)[i] = s[i+1]
    BY <1>1, <1>2
  <2> QED
    BY <2>1, <1>1 DEF ToSet
<1>5. Head(s) \in ToSet(s)
  BY <1>1 DEF ToSet
<1> QED
  BY <1>1, <1>2, <1>3, <1>4, <1>5

(* The elements of a concatenation                                         *)
LEMMA ToSetConcat ==
    ASSUME NEW S, NEW s \in Seq(S), NEW t \in Seq(S)
    PROVE  s \o t \in Seq(S) /\ ToSet(s \o t) = ToSet(s) \cup ToSet(t)
<1>1. \A u \in Seq(S) : DOMAIN u = 1..Len(u) /\ Len(u) \in Nat
  OBVIOUS
<1>2. s \o t \in Seq(S) /\ Len(s \o t) = Len(s) + Len(t)
  OBVIOUS
<1>3. \A i \in 1..Len(s) + Len(t) :
         (s \o t)[i] = IF i <= Len(s) THEN s[i] ELSE t[i - Len(s)]
  OBVIOUS
<1>4. \A x \in ToSet(s \o t) : x \in ToSet(s) \cup ToSet(t)
  <2> SUFFICES ASSUME NEW i \in 1..Len(s) + Len(t)
               PROVE  (s \o t)[i] \in ToSet(s) \cup ToSet(t)
    BY <1>1, <1>2 DEF ToSet
  <2>1. CASE i <= Len(s)
    <3>1. i \in 1..Len(s) /\ (s \o t)[i] = s[i]
      BY <2>1, <1>1, <1>3
    <3> QED
      BY <3>1, <1>1 DEF ToSet
  <2>2. CASE ~(i <= Len(s))
    <3>1. i - Len(s) \in 1..Len(t) /\ (s \o t)[i] = t[i - Len(s)]
      BY <2>2, <1>1, <1>3
    <3> QED
      BY <3>1, <1>1 DEF ToSet
  <2> QED
    BY <2>1, <2>2
<1>5. ASSUME NEW i \in 1..Len(s) PROVE s[i] \in ToSet(s \o t)
  <2>1. i \in 1..Len(s) + Len(t) /\ (s \o t)[i] = s[i]
    BY <1>1, <1>3
  <2> QED
    BY <2>1, <1>1, <1>2 DEF ToSet
<1>6. ASSUME NEW i \in 1..Len(t) PROVE t[i] \in ToSet(s \o t)
  <2>1. i + Len(s) \in 1..Len(s) + Len(t) /\ (s \o t)[i + Len(s)] = t[i]
    BY <1>1, <1>3
  <2> QED
    BY <2>1, <1>1, <1>2 DEF ToSet
<1>7. \A x \in ToSet(s) \cup ToSet(t) : x \in ToSet(s \o t)
  BY <1>1, <1>5, <1>6 DEF ToSet
<1> QED
  BY <1>2, <1>4, <1>7

(* A permutation of a finite set has all its elements                      *)
LEMMA PermutationIsOnto ==
    ASSUME NEW S, IsFiniteSet(S), NEW s \in SetToSeqs(S)
    PROVE  /\ s \in [1..Cardinality(S) -> S] /\ Cardinality(S) \in Nat
           /\ \A x \in S : \E i \in 1..Cardinality(S) : s[i] = x
<1> DEFINE n == Cardinality(S)
<1>1. n \in Nat
  BY FS_CardinalityType
<1>2. s \in [1..n -> S] /\ \A i, j \in 1..n : i # j => s[i] # s[j]
  BY DEF SetToSeqs
<1>3. s \in Injection(1..n, S)
  BY <1>2, Fun_IsInj
<1>4. IsFiniteSet(1..n) /\ Cardinality(1..n) = n
  BY <1>1, FS_Interval
<1>5. s \in Surjection(1..n, S)
  BY <1>3, <1>4, FS_Injection
<1> QED
  BY <1>1, <1>2, <1>5, Fun_SurjectionProperties

----------------------------------------------------------------------------
(* What is reviewed is what the properties ask for *)

(* The group attributes are one review for each group of the headers       *)
LEMMA GroupsAreSeq ==
    ASSUME NEW r \in Request
    PROVE  /\ GroupAttributes(r) \in Seq({<<"impersonate", "groups", None, g>> :
                                             g \in ToSet(r.groups)})
           /\ ToSet(GroupAttributes(r)) =
                 {<<"impersonate", "groups", None, g>> : g \in ToSet(r.groups)}
<1> DEFINE A(g) == <<"impersonate", "groups", None, g>>
<1>1. r.groups \in Seq(Group)
  BY ApiAuthAssumption DEF AuthRequest
<1>2. DOMAIN r.groups = 1..Len(r.groups) /\ Len(r.groups) \in Nat
  BY <1>1
<1>3. GroupAttributes(r) = [i \in 1..Len(r.groups) |-> A(r.groups[i])]
  BY <1>2 DEF GroupAttributes
<1> HIDE DEF A
<1>4. ToSet(r.groups) = {r.groups[i] : i \in 1..Len(r.groups)}
  BY <1>2 DEF ToSet
<1>5. ToSet(GroupAttributes(r)) = {A(g) : g \in ToSet(r.groups)}
  BY <1>3, <1>4 DEF ToSet
<1>6. \A i \in 1..Len(r.groups) : A(r.groups[i]) \in {A(g) : g \in ToSet(r.groups)}
  BY <1>4
<1>7. GroupAttributes(r) \in Seq({A(g) : g \in ToSet(r.groups)})
  BY <1>2, <1>3, <1>6
<1> QED
  BY <1>5, <1>7 DEF A

(* In whatever order Go ranges over the extras, each is reviewed           *)
LEMMA ExtrasAreSeq ==
    ASSUME NEW r \in Request, NEW e \in ExtraAttributes(r)
    PROVE  LET C == {<<"impersonate", "userextras", None, x>> : x \in r.extras}
           IN  e \in Seq(C) /\ ToSet(e) = C
<1> DEFINE A(x) == <<"impersonate", "userextras", None, x>>
           n == Cardinality(r.extras)
<1>1. PICK s \in SetToSeqs(r.extras) : e = [i \in DOMAIN s |-> A(s[i])]
  BY DEF ExtraAttributes
<1>2. IsFiniteSet(r.extras)
  BY ApiAuthAssumption
<1>3. /\ s \in [1..n -> r.extras] /\ n \in Nat
      /\ \A x \in r.extras : \E i \in 1..n : s[i] = x
  BY <1>2, PermutationIsOnto
<1> HIDE DEF A, n
<1>4. e = [i \in 1..n |-> A(s[i])]
  BY <1>1, <1>3
<1>5. ToSet(e) = {A(x) : x \in r.extras}
  <2>1. ToSet(e) = {A(s[i]) : i \in 1..n}
    BY <1>4 DEF ToSet
  <2>2. \A i \in 1..n : s[i] \in r.extras
    BY <1>3
  <2> QED
    BY <2>1, <2>2, <1>3
<1>6. e \in Seq({A(x) : x \in r.extras})
  BY <1>3, <1>4
<1> QED
  BY <1>5, <1>6 DEF A

(* Impersonation reviews exactly the claims of the headers                 *)
LEMMA AttributesAreClaims ==
    ASSUME NEW r \in Request, r.user # None, NEW s \in ImpersonatedAttributes(r)
    PROVE  s \in Seq(Claims(r)) /\ ToSet(s) = Claims(r)
<1> DEFINE U == {<<"impersonate", IF NamespaceOf[r.user] = None THEN "users"
                      ELSE "serviceaccounts", NamespaceOf[r.user], r.user>>}
           G == {<<"impersonate", "groups", None, g>> : g \in ToSet(r.groups)}
           I == {<<"impersonate", "uids", None, u>> : u \in {r.uid} \ {None}}
           E == {<<"impersonate", "userextras", None, x>> : x \in r.extras}
           C == Claims(r)
<1>1. PICK e \in ExtraAttributes(r) :
         s = UserAttribute(r) \o GroupAttributes(r) \o UidAttribute(r) \o e
  BY DEF ImpersonatedAttributes
<1>2. C = U \cup G \cup I \cup E
  BY DEF Claims
<1>3. UserAttribute(r) \in Seq(U) /\ ToSet(UserAttribute(r)) = U
  <2>1. \A x : <<x>> \in Seq({x}) /\ ToSet(<<x>>) = {x}
    BY DEF ToSet
  <2>2. PICK x : UserAttribute(r) = <<x>> /\ U = {x}
    BY DEF UserAttribute
  <2> QED
    BY <2>1, <2>2
<1>4. GroupAttributes(r) \in Seq(G) /\ ToSet(GroupAttributes(r)) = G
  BY GroupsAreSeq
<1>5. UidAttribute(r) \in Seq(I) /\ ToSet(UidAttribute(r)) = I
  <2>1. \A x : <<x>> \in Seq({x}) /\ ToSet(<<x>>) = {x}
    BY DEF ToSet
  <2>2. CASE r.uid = None
    <3>1. UidAttribute(r) = <<>> /\ I = {}
      BY <2>2 DEF UidAttribute
    <3> QED
      BY <3>1 DEF ToSet
  <2>3. CASE r.uid # None
    <3>1. PICK x : UidAttribute(r) = <<x>> /\ I = {x}
      BY <2>3 DEF UidAttribute
    <3> QED
      BY <3>1, <2>1
  <2> QED
    BY <2>2, <2>3
<1>6. e \in Seq(E) /\ ToSet(e) = E
  BY ExtrasAreSeq
<1> HIDE DEF U, G, I, E, C
<1>7. /\ UserAttribute(r) \in Seq(C) /\ GroupAttributes(r) \in Seq(C)
      /\ UidAttribute(r) \in Seq(C) /\ e \in Seq(C)
  <2>1. U \subseteq C /\ G \subseteq C /\ I \subseteq C /\ E \subseteq C
    BY <1>2
  <2>2. ASSUME NEW S, NEW T, S \subseteq T, NEW q \in Seq(S) PROVE q \in Seq(T)
    BY <2>2
  <2> QED
    BY <1>3, <1>4, <1>5, <1>6, <2>1, <2>2
<1> DEFINE ug == UserAttribute(r) \o GroupAttributes(r)
           ugi == ug \o UidAttribute(r)
<1>8. ug \in Seq(C) /\ ToSet(ug) = U \cup G
  BY <1>3, <1>4, <1>7, ToSetConcat
<1>9. s = ugi \o e
  BY <1>1
<1> HIDE DEF ug
<1>10. ugi \in Seq(C) /\ ToSet(ugi) = U \cup G \cup I
  BY <1>5, <1>7, <1>8, ToSetConcat
<1> HIDE DEF ugi
<1>11. s \in Seq(C) /\ ToSet(s) = U \cup G \cup I \cup E
  BY <1>6, <1>7, <1>9, <1>10, ToSetConcat
<1> QED
  BY <1>2, <1>11 DEF C

(* RBACAuthorization reviews exactly what the request reads                *)
LEMMA AttributesAreReads ==
    ASSUME NEW r \in Request
    PROVE  /\ ResourceAttributes(r) \in Seq(Reads(r))
           /\ ToSet(ResourceAttributes(r)) = Reads(r)
<1> DEFINE x == <<IF r.name = None THEN "list" ELSE "get", r.gv, r.resource, r.name>>
           y == <<"get", "v1", "pods/log", None>>
<1>1. Reads(r) = {x} \cup {a \in {y} : r.log}
  BY DEF Reads
<1>2. ResourceAttributes(r) = <<x>> \o (IF r.log THEN <<y>> ELSE <<>>)
  BY DEF ResourceAttributes, Verb
<1> HIDE DEF x, y
<1>3. CASE r.log
  <2>1. Reads(r) = {x, y}
    BY <1>1, <1>3, Zenon
  <2>2. ResourceAttributes(r) = <<x>> \o <<y>>
    BY <1>2, <1>3
  <2> DEFINE sx == <<x>>
             sy == <<y>>
  <2>3. /\ sx \in Seq({x, y}) /\ ToSet(sx) = {x}
        /\ sy \in Seq({x, y}) /\ ToSet(sy) = {y}
    <3>1. \A z : ToSet(<<z>>) = {z}
      BY DEF ToSet
    <3>2. sx \in Seq({x, y}) /\ sy \in Seq({x, y})
      OBVIOUS
    <3> QED
      BY <3>1, <3>2, Zenon
  <2> HIDE DEF sx, sy
  <2>4. sx \o sy \in Seq({x, y}) /\ ToSet(sx \o sy) = {x, y}
    BY <2>3, ToSetConcat
  <2> QED
    BY <2>1, <2>2, <2>4 DEF sx, sy
<1>4. CASE ~r.log
  <2>1. Reads(r) = {x} /\ ResourceAttributes(r) = <<x>>
    BY <1>1, <1>2, <1>4
  <2>2. <<x>> \in Seq({x}) /\ ToSet(<<x>>) = {x}
    BY DEF ToSet
  <2> QED
    BY <2>1, <2>2
<1> QED
  BY <1>3, <1>4

----------------------------------------------------------------------------
(* Steps *)

(* All that is kept for a handler g                                        *)
Untouched(g) ==
    /\ pc'[g] = pc[g] /\ req'[g] = req[g] /\ user'[g] = user[g]
    /\ todo'[g] = todo[g] /\ kind'[g] = kind[g] /\ answer'[g] = answer[g]
    /\ status'[g] = status[g] /\ yes'[g] = yes[g] /\ no'[g] = no[g]
    /\ failed'[g] = failed[g]

(* A handler for which nothing changes keeps its invariant                 *)
LEMMA OthersKeep ==
    ASSUME NEW g \in Handler, HandlerInv(g), impersonate' = impersonate,
           Untouched(g)
    PROVE  HandlerInv(g)'
<1> USE DEF Untouched
<1>1. Working(g)' /\ Authenticated(g)'
  BY DEF HandlerInv, Working, Authenticated
<1>2. Answered(g)'
  BY DEF HandlerInv, Answered, NextKey
<1>3. Reviewable(g)'
  BY DEF HandlerInv, Reviewable, InReviews, Duties, Claims, Reads
<1>4. SpeaksFor(g)'
  BY DEF HandlerInv, SpeaksFor, InReviews, Speaker, ClaimsReviewed, Claims,
         ImpersonatedUser, ImpersonatedGroups
<1>5. (Needed(req[g]) = Needed(req[g])') /\ (Speaker(req[g]) = Speaker(req[g])')
  BY DEF Needed, Speaker, Claims, Reads, ImpersonatedUser, ImpersonatedGroups
<1>6. Passed(g)' /\ Refused(g)'
  BY <1>5 DEF HandlerInv, Passed, Refused
<1> QED
  BY <1>1, <1>2, <1>3, <1>4, <1>6 DEF HandlerInv

(* A step of h leaves the other handlers alone                             *)
Mine(h) ==
    /\ impersonate' = impersonate
    /\ \A g \in Handler : g # h => Untouched(g)

Domains ==
    /\ DOMAIN pc = Handler /\ DOMAIN req = Handler /\ DOMAIN user = Handler
    /\ DOMAIN todo = Handler /\ DOMAIN kind = Handler /\ DOMAIN answer = Handler
    /\ DOMAIN status = Handler /\ DOMAIN yes = Handler /\ DOMAIN no = Handler
    /\ DOMAIN failed = Handler

(* The variables of the handlers are functions on Handler                  *)
LEMMA Shape == TypeOK /\ Histories => Domains
  BY DEF TypeOK, Histories, Domains

(* The three ways through the impersonation middleware                     *)
LEMMA EnterSplit ==
    ASSUME NEW h \in Handler, NEW u, EnterImpersonation(h, u)
    PROVE  /\ user' = [user EXCEPT ![h] = u]
           /\ \/ Abort(h, 400)
              \/ /\ ~impersonate \/ req[h].user = None
                 /\ Goto(h, "kind") /\ UNCHANGED <<todo, status>>
              \/ /\ impersonate /\ req[h].user # None
                 /\ \E s \in ImpersonatedAttributes(req[h]) :
                       todo' = [todo EXCEPT ![h] = s]
                 /\ Goto(h, "impersonate") /\ UNCHANGED status
  BY Zenon DEF EnterImpersonation

(* Every step is a step of one handler                                     *)
LEMMA StepIsMine ==
    ASSUME TypeOK, Histories, NEW h \in Handler,
           Step(h) \/ \E r \in Request : Arrive(h, r)
    PROVE  Mine(h)
<1> USE Shape DEF Domains, Mine, Untouched, Goto, Abort, Saw, handling
<1>1. CASE \E r \in Request : Arrive(h, r)
  BY <1>1 DEF Arrive
<1>2. CASE CachedToken(h)
  <2>1. CASE Abort(h, 401) /\ UNCHANGED user
    BY <1>2, <2>1 DEF CachedToken
  <2>2. CASE EnterImpersonation(h, OwnerOf[req[h].token])
    <3>1. /\ UNCHANGED <<now, impersonate, cache, requests, req, kind, answer, failed>>
          /\ \E k, b : Saw(h, k, b)
      BY <1>2, Zenon DEF CachedToken
    <3> QED
      BY <3>1, <2>2, EnterSplit
  <2> QED
    BY <1>2, <2>1, <2>2, Zenon DEF CachedToken
<1>3. CASE TokenMiss(h)
  BY <1>3 DEF TokenMiss
<1>4. CASE \E b \in BOOLEAN : TokenReview(h, b)
  BY <1>4 DEF TokenReview
<1>5. CASE TokenSet(h)
  <2>1. CASE Abort(h, 401) /\ UNCHANGED user
    BY <1>5, <2>1 DEF TokenSet
  <2>2. CASE EnterImpersonation(h, OwnerOf[req[h].token])
    BY <1>5, <2>2, EnterSplit DEF TokenSet
  <2> QED
    BY <1>5, <2>1, <2>2 DEF TokenSet
<1>6. ASSUME NEW l \in Reviewing, ReviewsDone(h, l) PROVE Mine(h)
  BY <1>6 DEF ReviewsDone, Reviewed
<1>7. ASSUME NEW l \in Reviewing, CachedSar(h, l) PROVE Mine(h)
  BY <1>7 DEF CachedSar
<1>8. ASSUME NEW l \in Reviewing, SarMiss(h, l) PROVE Mine(h)
  BY <1>8 DEF SarMiss
<1>9. ASSUME NEW l \in Reviewing, NEW b \in BOOLEAN, Sar(h, l, b) PROVE Mine(h)
  BY <1>9 DEF Sar
<1>10. ASSUME NEW l \in Reviewing, SarSet(h, l) PROVE Mine(h)
  BY <1>10 DEF SarSet
<1>11. ASSUME NEW l \in Reviewing, SarLower(h, l) PROVE Mine(h)
  BY <1>11 DEF SarLower
<1>12. CASE CachedKind(h) \/ KindMiss(h) \/ Discover(h)
  <2>1. CASE CachedKind(h)
    BY <2>1 DEF CachedKind
  <2>2. CASE KindMiss(h)
    BY <2>2 DEF KindMiss
  <2>3. CASE Discover(h)
    BY <2>3 DEF Discover
  <2> QED
    BY <1>12, <2>1, <2>2, <2>3
<1>13. CASE CallFails(h)
  <2>1. PICK s : Abort(h, s)
    BY <1>13, Zenon DEF CallFails
  <2>2. failed' = [failed EXCEPT ![h] = TRUE]
        /\ UNCHANGED <<now, impersonate, cache, requests, req, user, kind, answer,
                       yes, no>>
    BY <1>13, Zenon DEF CallFails
  <2> QED
    BY <2>1, <2>2
<1> QED
  BY <1>1, <1>2, <1>3, <1>4, <1>5, <1>6, <1>7, <1>8, <1>9, <1>10, <1>11,
     <1>12, <1>13 DEF Step

(* Positions, spelled out                                                  *)
LEMMA ReviewPositions ==
    /\ Reviewing = {"impersonate", "authorize"}
    /\ AwaitReview("impersonate") = "impersonateReview"
    /\ AwaitReview("authorize") = "authorizeReview"
    /\ Stored("impersonate") = "impersonateSet"
    /\ Stored("authorize") = "authorizeSet"
    /\ Lowered("impersonate") = "impersonateLower"
    /\ Lowered("authorize") = "authorizeLower"
  BY DEF Reviewing, AwaitReview, Stored, Lowered

(* A request that arrives starts with a clean history                      *)
LEMMA ArriveKeeps ==
    ASSUME IInv, NEW h \in Handler, NEW r \in Request, Arrive(h, r)
    PROVE  HandlerInv(h)'
<1> USE Shape, ReviewPositions, ApiAuthAssumption DEF IInv, Domains
<1>1. req'[h] = r /\ yes'[h] = {} /\ no'[h] = {} /\ failed'[h] = FALSE
  BY DEF Arrive
<1>2. CASE r.token = None
  <2>1. pc'[h] = "idle" /\ status'[h] = 400
    BY <1>2 DEF Arrive, Abort, Goto
  <2> QED
    BY <1>1, <2>1 DEF HandlerInv, Working, Authenticated, Answered, Reviewable, SpeaksFor,
          InReviews, Passed, Refused
<1>3. CASE r.token # None
  <2>1. pc'[h] = "token" /\ status'[h] = None
    BY <1>3 DEF Arrive, Goto
  <2> QED
    BY <1>1, <1>3, <2>1 DEF HandlerInv, Working, Authenticated, Answered, Reviewable, SpeaksFor,
          InReviews, Passed, Refused
<1> QED
  BY <1>2, <1>3

(* Leaving for good: only the properties are left to show                  *)
LEMMA AbortKeeps ==
    ASSUME Domains, NEW h \in Handler, NEW s, Abort(h, s), Passed(h)', Refused(h)'
    PROVE  HandlerInv(h)'
  BY ReviewPositions DEF Domains, Abort, Goto, HandlerInv, Working, Authenticated, Answered,
     Reviewable, SpeaksFor, InReviews

(* The way into Impersonation: a yes to the token has been seen            *)
LEMMA EnterKeeps ==
    ASSUME NEW h \in Handler, Domains, Working(h), pc[h] # "idle",
           EnterImpersonation(h, OwnerOf[req[h].token]),
           impersonate' = impersonate, req'[h] = req[h], no'[h] = {}, failed'[h] = FALSE,
           TokenKey(req[h].token) \in yes'[h]
    PROVE  HandlerInv(h)'
<1> USE ReviewPositions, ApiAuthAssumption DEF Domains
<1>1. req[h] \in Request /\ req[h].token # None /\ status[h] = None
  BY DEF Working
<1>2. user'[h] = OwnerOf[req[h].token]
  BY EnterSplit
<1>3. CASE Abort(h, 400)
  <2>1. status'[h] = 400
    BY <1>3 DEF Abort
  <2> QED
    BY <2>1, <1>3, AbortKeeps DEF Passed, Refused
<1>4. CASE /\ ~impersonate \/ req[h].user = None
           /\ Goto(h, "kind") /\ UNCHANGED <<todo, status>>
  <2>1. pc'[h] = "kind" /\ status'[h] = None
    BY <1>1, <1>4 DEF Goto
  <2> QED
    BY <1>1, <1>2, <1>4, <2>1 DEF HandlerInv, Working, Authenticated, Answered, Reviewable,
       SpeaksFor, InReviews, Passed, Refused, Speaker, ClaimsReviewed
<1>5. CASE /\ impersonate /\ req[h].user # None
           /\ \E s \in ImpersonatedAttributes(req[h]) : todo' = [todo EXCEPT ![h] = s]
           /\ Goto(h, "impersonate") /\ UNCHANGED status
  <2>1. pc'[h] = "impersonate" /\ status'[h] = None
    BY <1>1, <1>5 DEF Goto
  <2>2. todo'[h] \in Seq(Claims(req[h])) /\ ToSet(todo'[h]) = Claims(req[h])
    BY <1>1, <1>5, AttributesAreClaims
  <2>3. Reviewable(h)'
    BY <2>1, <2>2 DEF Reviewable, InReviews, Duties, Claims
  <2> QED
    BY <1>1, <1>2, <1>5, <2>1, <2>3 DEF HandlerInv, Working, Authenticated, Answered,
       SpeaksFor, InReviews, Passed, Refused
<1> QED
  BY <1>3, <1>4, <1>5, EnterSplit

(* What a request needs, in parts                                          *)
LEMMA NeededParts ==
    ASSUME NEW r
    PROVE  /\ TokenKey(r.token) \in Needed(r)
           /\ impersonate /\ r.user # None =>
                \A a \in Claims(r) : SarKey(OwnerOf[r.token], a) \in Needed(r)
           /\ \A a \in Reads(r) : SarKey(Speaker(r), a) \in Needed(r)
           /\ \A k \in Needed(r) :
                \/ k = TokenKey(r.token)
                \/ /\ impersonate /\ r.user # None
                   /\ \E a \in Claims(r) : k = SarKey(OwnerOf[r.token], a)
                \/ \E a \in Reads(r) : k = SarKey(Speaker(r), a)
  BY DEF Needed

(* What a request needs depends on nothing that a step of its handler      *)
(* changes                                                                 *)
LEMMA SameNeeds ==
    ASSUME impersonate' = impersonate, NEW h \in Handler, req'[h] = req[h]
    PROVE  /\ Needed(req[h])' = Needed(req[h])
           /\ Speaker(req[h])' = Speaker(req[h])
           /\ Claims(req[h])' = Claims(req[h])
           /\ Reads(req[h])' = Reads(req[h])
  BY DEF Needed, Speaker, Claims, Reads, ImpersonatedUser, ImpersonatedGroups

(* A no to a question the request depends on ends it                       *)
LEMMA RefusalKeeps ==
    ASSUME NEW h \in Handler, Domains, impersonate' = impersonate,
           req'[h] = req[h], Abort(h, 401),
           NEW k \in Needed(req[h]), k \in no'[h]
    PROVE  HandlerInv(h)'
<1>1. status'[h] = 401
  BY DEF Abort, Domains
<1>2. Passed(h)' /\ Refused(h)'
  BY <1>1, SameNeeds DEF Passed, Refused
<1> QED
  BY <1>2, AbortKeeps

(* A cached answer to the token review: passed on, or refused with a no    *)
LEMMA CachedTokenKeeps ==
    ASSUME IInv, NEW h \in Handler, CachedToken(h) PROVE HandlerInv(h)'
<1> DEFINE k == TokenKey(req[h].token)
<1> USE Shape, ReviewPositions DEF IInv, Domains
<1>1. /\ pc[h] = "token" /\ Working(h) /\ Answered(h)
      /\ UNCHANGED <<impersonate, req, failed>>
  BY Zenon DEF CachedToken, HandlerInv
<1>2. req[h] \in Request /\ no[h] = {} /\ failed[h] = FALSE
  BY <1>1 DEF Working, Answered
<1>3. CASE cache[k].value = FALSE
  <2>1. Saw(h, k, FALSE) /\ Abort(h, 401)
    BY <1>3, Zenon DEF CachedToken
  <2>2. k \in no'[h] /\ k \in Needed(req[h])
    BY <2>1, NeededParts DEF Saw
  <2> QED
    BY <1>1, <2>1, <2>2, RefusalKeeps
<1>4. CASE cache[k].value # FALSE
  <2>1. Saw(h, k, TRUE) /\ EnterImpersonation(h, OwnerOf[req[h].token])
    BY <1>4, Zenon DEF CachedToken
  <2>2. k \in yes'[h] /\ no'[h] = {} /\ failed'[h] = FALSE /\ req'[h] = req[h]
    BY <2>1, <1>1, <1>2 DEF Saw
  <2> QED
    BY <1>1, <2>1, <2>2, EnterKeeps
<1> QED
  BY <1>3, <1>4

(* Nothing cached for the token: the review comes next                     *)
LEMMA TokenMissKeeps ==
    ASSUME IInv, NEW h \in Handler, TokenMiss(h) PROVE HandlerInv(h)'
<1> USE Shape, ReviewPositions, ApiAuthAssumption DEF IInv, Domains
<1>1. /\ pc[h] = "token" /\ Working(h) /\ Answered(h)
      /\ pc'[h] = "tokenReview"
      /\ UNCHANGED <<impersonate, req, status, yes, no, failed>>
  BY DEF TokenMiss, HandlerInv, Goto, handling
<1> QED
  BY <1>1 DEF HandlerInv, Working, Authenticated, Answered, Reviewable, SpeaksFor,
     InReviews, Passed, Refused

(* The answer to the token review is in the history before it is stored    *)
LEMMA TokenReviewKeeps ==
    ASSUME IInv, NEW h \in Handler, NEW b \in BOOLEAN, TokenReview(h, b)
    PROVE  HandlerInv(h)'
<1> DEFINE k == TokenKey(req[h].token)
<1> USE Shape, ReviewPositions, ApiAuthAssumption DEF IInv, Domains
<1>1. /\ pc[h] = "tokenReview" /\ Working(h) /\ Answered(h)
      /\ pc'[h] = "tokenSet" /\ answer'[h] = b
      /\ UNCHANGED <<impersonate, req, status, failed>>
  BY DEF TokenReview, HandlerInv, Goto
<1>2. CASE b = TRUE
  <2>1. k \in yes'[h] /\ no'[h] = no[h]
    BY <1>2 DEF TokenReview, Saw
  <2> QED
    BY <1>1, <1>2, <2>1 DEF HandlerInv, Working, Authenticated, Answered, Reviewable,
       SpeaksFor, InReviews, Passed, Refused
<1>3. CASE b = FALSE
  <2>1. k \in no'[h]
    BY <1>3 DEF TokenReview, Saw
  <2> QED
    BY <1>1, <1>3, <2>1 DEF HandlerInv, Working, Authenticated, Answered, Reviewable,
       SpeaksFor, InReviews, Passed, Refused
<1> QED
  BY <1>2, <1>3

(* The answer is stored; a no is the response                              *)
LEMMA TokenSetKeeps ==
    ASSUME IInv, NEW h \in Handler, TokenSet(h) PROVE HandlerInv(h)'
<1> DEFINE k == TokenKey(req[h].token)
<1> USE Shape, ReviewPositions DEF IInv, Domains
<1>1. /\ pc[h] = "tokenSet" /\ Working(h) /\ Answered(h)
      /\ UNCHANGED <<impersonate, req, yes, no, failed>>
  BY Zenon DEF TokenSet, HandlerInv
<1>2. req[h] \in Request /\ failed[h] = FALSE
  BY <1>1 DEF Working
<1>3. CASE answer[h] = FALSE
  <2>1. Abort(h, 401)
    BY <1>3, Zenon DEF TokenSet
  <2>2. k \in no'[h] /\ k \in Needed(req[h])
    BY <1>1, <1>3, NeededParts DEF Answered
  <2> QED
    BY <1>1, <2>1, <2>2, RefusalKeeps
<1>4. CASE answer[h] = TRUE
  <2>1. EnterImpersonation(h, OwnerOf[req[h].token])
    BY <1>4, Zenon DEF TokenSet
  <2>2. k \in yes'[h] /\ no'[h] = {} /\ failed'[h] = FALSE
    BY <1>1, <1>2, <1>4 DEF Answered
  <2> QED
    BY <1>1, <2>1, <2>2, EnterKeeps
<1> QED
  BY <1>1, <1>3, <1>4 DEF Answered

(* The question a review asks is one the request depends on                *)
LEMMA NextKeyIsNeeded ==
    ASSUME NEW h \in Handler, HandlerInv(h), NEW l \in Reviewing,
           InReviews(h, l), todo[h] # <<>>
    PROVE  NextKey(h) \in Needed(req[h])
<1>1. todo[h] \in Seq(Duties(h, l)) /\ SpeaksFor(h)
  BY DEF HandlerInv, Reviewable
<1>2. Head(todo[h]) \in Duties(h, l)
  BY <1>1, HeadOrTail
<1>3. CASE l = "impersonate"
  BY <1>1, <1>2, <1>3, NeededParts DEF NextKey, Duties, SpeaksFor
<1>4. CASE l = "authorize"
  BY <1>1, <1>2, <1>4, NeededParts DEF NextKey, Duties, SpeaksFor
<1> QED
  BY <1>3, <1>4 DEF Reviewing

(* A yes to the first question leaves the others                           *)
LEMMA OneLess ==
    ASSUME NEW h \in Handler, Reviewable(h), NEW l \in Reviewing,
           InReviews(h, l), todo[h] # <<>>, impersonate' = impersonate,
           req'[h] = req[h], user'[h] = user[h], yes[h] \subseteq yes'[h],
           NextKey(h) \in yes'[h], todo'[h] = Tail(todo[h]), pc'[h] = l
    PROVE  Reviewable(h)'
<1> DEFINE D == Duties(h, l)
<1>1. todo[h] \in Seq(D) /\ \A a \in D : SarKey(user[h], a) \in yes[h] \/ a \in ToSet(todo[h])
  BY DEF Reviewable
<1>2. (Duties(h, l))' = D
  BY SameNeeds DEF Duties
<1> HIDE DEF D
<1>3. /\ todo'[h] \in Seq(D)
      /\ \A a \in ToSet(todo[h]) : a = Head(todo[h]) \/ a \in ToSet(todo'[h])
  BY <1>1, HeadOrTail
<1>4. \A a \in D : SarKey(user'[h], a) \in yes'[h] \/ a \in ToSet(todo'[h])
  BY <1>1, <1>3 DEF NextKey
<1>5. \A m \in Reviewing : InReviews(h, m)' => m = l
  BY ReviewPositions DEF InReviews
<1> QED
  BY <1>2, <1>3, <1>4, <1>5 DEF Reviewable

(* A step within doSarRequests that leaves its list as it is               *)
LEMMA SameReviews ==
    ASSUME NEW h \in Handler, Reviewable(h), NEW l \in Reviewing,
           InReviews(h, l), InReviews(h, l)', impersonate' = impersonate,
           req'[h] = req[h], user'[h] = user[h], yes[h] \subseteq yes'[h],
           todo'[h] = todo[h]
    PROVE  Reviewable(h)'
<1> DEFINE D == Duties(h, l)
<1>1. todo[h] \in Seq(D) /\ \A a \in D : SarKey(user[h], a) \in yes[h] \/ a \in ToSet(todo[h])
  BY DEF Reviewable
<1>2. (Duties(h, l))' = D
  BY SameNeeds DEF Duties
<1> HIDE DEF D
<1>5. \A m \in Reviewing : InReviews(h, m)' => m = l
  BY ReviewPositions DEF InReviews
<1> QED
  BY <1>1, <1>2, <1>5 DEF Reviewable

(* Whom the reviews are about                                              *)
LEMMA SameSpeaker ==
    ASSUME NEW h \in Handler, SpeaksFor(h), NEW l \in Reviewing,
           InReviews(h, l), InReviews(h, l)', impersonate' = impersonate,
           req'[h] = req[h], user'[h] = user[h], yes[h] \subseteq yes'[h],
           kind'[h] = kind[h]
    PROVE  SpeaksFor(h)'
<1>1. \A m \in Reviewing : (InReviews(h, m)' => m = l) /\ (InReviews(h, m) => m = l)
  BY ReviewPositions DEF InReviews
<1>2. InReviews(h, l)' => pc'[h] \notin {"kind", "discover"}
  BY ReviewPositions DEF InReviews
<1>3. CASE l = "impersonate"
  BY <1>1, <1>2, <1>3, ReviewPositions DEF SpeaksFor
<1>4. CASE l = "authorize"
  <2>1. ClaimsReviewed(h) => ClaimsReviewed(h)'
    BY SameNeeds DEF ClaimsReviewed
  <2> QED
    BY <1>1, <1>2, <1>4, <2>1, SameNeeds, ReviewPositions DEF SpeaksFor
<1> QED
  BY <1>3, <1>4, ReviewPositions

(* What is left to show for a step within doSarRequests                    *)
LEMMA WithinReviews ==
    ASSUME NEW h \in Handler, HandlerInv(h), NEW l \in Reviewing,
           InReviews(h, l), InReviews(h, l)', impersonate' = impersonate,
           req'[h] = req[h], user'[h] = user[h], yes[h] \subseteq yes'[h],
           kind'[h] = kind[h], status'[h] = status[h], failed'[h] = failed[h],
           Reviewable(h)', Answered(h)'
    PROVE  HandlerInv(h)'
<1>1. SpeaksFor(h)'
  BY SameSpeaker DEF HandlerInv
<1>2. pc[h] \notin {"idle", "token", "tokenReview", "tokenSet"} /\ pc'[h] # "idle"
  BY ReviewPositions DEF InReviews
<1>3. Working(h)' /\ Authenticated(h)'
  BY <1>2 DEF HandlerInv, Working, Authenticated
<1>4. Passed(h)' /\ Refused(h)'
  BY <1>2, ApiAuthAssumption DEF HandlerInv, Working, Passed, Refused
<1> QED
  BY <1>1, <1>3, <1>4 DEF HandlerInv

(* All reviews done: everything the caller had to have reviewed was        *)
(* answered yes                                                            *)
LEMMA ReviewsDoneKeeps ==
    ASSUME IInv, NEW h \in Handler, NEW l \in Reviewing, ReviewsDone(h, l)
    PROVE  HandlerInv(h)'
<1> USE Shape, ReviewPositions DEF IInv, Domains
<1>1. /\ pc[h] = l /\ todo[h] = <<>> /\ HandlerInv(h) /\ InReviews(h, l)
      /\ UNCHANGED <<impersonate, req, kind, yes, no, failed>>
  BY DEF ReviewsDone, Reviewed, InReviews
<1>2. /\ req[h] \in Request /\ req[h].token # None /\ status[h] = None
      /\ failed[h] = FALSE /\ no[h] = {} /\ TokenKey(req[h].token) \in yes[h]
  BY <1>1 DEF HandlerInv, Working, Answered, Authenticated
<1>3. \A a \in Duties(h, l) : SarKey(user[h], a) \in yes[h]
  <2>1. ToSet(todo[h]) = {}
    BY <1>1 DEF ToSet
  <2> QED
    BY <1>1, <2>1 DEF HandlerInv, Reviewable
<1>4. CASE l = "impersonate"
  <2>1. /\ user'[h] = ImpersonatedUser(req[h]) /\ pc'[h] = "kind"
        /\ status'[h] = None
    BY <1>2, <1>4 DEF ReviewsDone, Reviewed, Goto
  <2>2. impersonate /\ req[h].user # None /\ user[h] = OwnerOf[req[h].token]
    BY <1>1, <1>4 DEF HandlerInv, SpeaksFor
  <2>3. user'[h] = Speaker(req[h])
    BY <2>1, <2>2 DEF Speaker
  <2>4. ClaimsReviewed(h)'
    BY <1>1, <1>3, <1>4, <2>2, SameNeeds DEF ClaimsReviewed, Duties
  <2>5. SpeaksFor(h)'
    BY <1>1, <2>1, <2>3, <2>4, SameNeeds DEF SpeaksFor, InReviews
  <2> QED
    BY <1>1, <1>2, <2>1, <2>5, ApiAuthAssumption DEF HandlerInv, Working, Authenticated,
       Answered, Reviewable, InReviews, Passed, Refused
<1>5. CASE l = "authorize"
  <2>1. Abort(h, 200) /\ user'[h] = user[h]
    BY <1>5 DEF ReviewsDone, Reviewed
  <2>2. user[h] = Speaker(req[h]) /\ ClaimsReviewed(h) /\ kind[h] # None
    BY <1>1, <1>5 DEF HandlerInv, SpeaksFor
  <2>3. Needed(req[h]) \subseteq yes[h]
    BY <1>2, <1>3, <1>5, <2>2, NeededParts DEF ClaimsReviewed, Duties
  <2>4. Passed(h)' /\ Refused(h)'
    BY <1>1, <1>2, <2>1, <2>2, <2>3, SameNeeds DEF Passed, Refused, Abort
  <2> QED
    BY <2>1, <2>4, AbortKeeps
<1> QED
  BY <1>4, <1>5

(* A cached answer to an access review                                     *)
LEMMA CachedSarKeeps ==
    ASSUME IInv, NEW h \in Handler, NEW l \in Reviewing, CachedSar(h, l)
    PROVE  HandlerInv(h)'
<1> DEFINE k == NextKey(h)
<1> USE Shape, ReviewPositions DEF IInv, Domains
<1>1. /\ pc[h] = l /\ todo[h] # <<>> /\ HandlerInv(h) /\ InReviews(h, l)
      /\ UNCHANGED <<impersonate, req, user, kind, failed>>
  BY DEF CachedSar, InReviews
<1>2. no[h] = {}
  BY <1>1 DEF HandlerInv, Answered
<1>3. CASE ~cache[k].value
  <2>1. Saw(h, k, FALSE) /\ Abort(h, 401)
    BY <1>3, Zenon DEF CachedSar, Saw
  <2>2. k \in no'[h] /\ k \in Needed(req[h])
    BY <1>1, <2>1, NextKeyIsNeeded DEF Saw
  <2> QED
    BY <1>1, <2>1, <2>2, RefusalKeeps
<1>4. CASE cache[k].value
  <2>1. Saw(h, k, TRUE) /\ todo' = [todo EXCEPT ![h] = Tail(@)] /\ UNCHANGED <<pc, status>>
    BY <1>4, Zenon DEF CachedSar
  <2>2. /\ k \in yes'[h] /\ yes[h] \subseteq yes'[h] /\ no'[h] = {} /\ pc'[h] = l
        /\ todo'[h] = Tail(todo[h])
    BY <1>1, <1>2, <2>1 DEF Saw
  <2>3. Reviewable(h)'
    BY <1>1, <2>2, OneLess DEF HandlerInv
  <2>4. Answered(h)' /\ InReviews(h, l)'
    BY <1>1, <2>2 DEF Answered, InReviews
  <2> QED
    BY <1>1, <2>1, <2>2, <2>3, <2>4, WithinReviews
<1> QED
  BY <1>3, <1>4

(* Nothing cached for the access review                                    *)
LEMMA SarMissKeeps ==
    ASSUME IInv, NEW h \in Handler, NEW l \in Reviewing, SarMiss(h, l)
    PROVE  HandlerInv(h)'
<1> USE Shape, ReviewPositions DEF IInv, Domains
<1>1. /\ pc[h] = l /\ todo[h] # <<>> /\ HandlerInv(h)
      /\ pc'[h] = AwaitReview(l) /\ InReviews(h, l) /\ InReviews(h, l)'
      /\ UNCHANGED <<impersonate, handling>>
  BY DEF SarMiss, InReviews, Goto
<1>2. no[h] = {}
  BY <1>1 DEF HandlerInv, Answered
<1>3. Answered(h)'
  BY <1>1, <1>2 DEF Answered, handling
<1>4. Reviewable(h)'
  BY <1>1, SameReviews DEF HandlerInv, handling
<1> QED
  BY <1>1, <1>3, <1>4, WithinReviews DEF handling

(* The answer to an access review                                          *)
LEMMA SarKeeps ==
    ASSUME IInv, NEW h \in Handler, NEW l \in Reviewing, NEW b \in BOOLEAN, Sar(h, l, b)
    PROVE  HandlerInv(h)'
<1> DEFINE k == NextKey(h)
<1> USE Shape, ReviewPositions DEF IInv, Domains
<1>1. /\ pc[h] = AwaitReview(l) /\ HandlerInv(h) /\ answer'[h] = b
      /\ pc'[h] = Stored(l) /\ InReviews(h, l) /\ InReviews(h, l)'
      /\ UNCHANGED <<impersonate, req, user, todo, kind, status, failed>>
  BY DEF Sar, InReviews, Goto
<1>2. no[h] = {} /\ todo[h] # <<>> /\ NextKey(h)' = k
  BY <1>1 DEF HandlerInv, Answered, NextKey
<1>3. CASE b = TRUE
  <2>1. k \in yes'[h] /\ yes[h] \subseteq yes'[h] /\ no'[h] = {}
    BY <1>2, <1>3 DEF Sar, Saw
  <2>2. Answered(h)'
    BY <1>1, <1>2, <1>3, <2>1 DEF Answered
  <2>3. Reviewable(h)'
    BY <1>1, <2>1, SameReviews DEF HandlerInv
  <2> QED
    BY <1>1, <2>1, <2>2, <2>3, WithinReviews
<1>4. CASE b = FALSE
  <2>1. k \in no'[h] /\ yes'[h] = yes[h]
    BY <1>4 DEF Sar, Saw
  <2>2. Answered(h)'
    BY <1>1, <1>2, <1>4, <2>1 DEF Answered
  <2>3. Reviewable(h)'
    BY <1>1, <2>1, SameReviews DEF HandlerInv
  <2> QED
    BY <1>1, <2>1, <2>2, <2>3, WithinReviews
<1> QED
  BY <1>3, <1>4

(* The first store of an answer; a yes goes on with the next review        *)
LEMMA SarSetKeeps ==
    ASSUME IInv, NEW h \in Handler, NEW l \in Reviewing, SarSet(h, l)
    PROVE  HandlerInv(h)'
<1> DEFINE k == NextKey(h)
<1> USE Shape, ReviewPositions DEF IInv, Domains
<1>1. /\ pc[h] = Stored(l) /\ HandlerInv(h) /\ InReviews(h, l) /\ todo[h] # <<>>
      /\ UNCHANGED <<impersonate, req, user, kind, status, yes, no, failed>>
  BY DEF SarSet, InReviews, HandlerInv, Answered
<1>2. CASE answer[h] = TRUE
  <2>1. /\ k \in yes[h] /\ no[h] = {}
    BY <1>1, <1>2 DEF HandlerInv, Answered
  <2>2. todo'[h] = Tail(todo[h]) /\ pc'[h] = l /\ InReviews(h, l)'
    BY <1>2 DEF SarSet, Goto, InReviews
  <2>3. Reviewable(h)'
    BY <1>1, <2>1, <2>2, OneLess DEF HandlerInv
  <2>4. Answered(h)'
    BY <1>1, <2>1, <2>2 DEF Answered
  <2> QED
    BY <1>1, <2>2, <2>3, <2>4, WithinReviews
<1>3. CASE answer[h] = FALSE
  <2>1. k \in no[h]
    BY <1>1, <1>3 DEF HandlerInv, Answered
  <2>2. todo'[h] = todo[h] /\ pc'[h] = Lowered(l) /\ InReviews(h, l)' /\ NextKey(h)' = k
    BY <1>1, <1>3 DEF SarSet, Goto, InReviews, NextKey
  <2>3. Reviewable(h)'
    BY <1>1, <2>2, SameReviews DEF HandlerInv
  <2>4. Answered(h)'
    BY <1>1, <2>1, <2>2 DEF Answered
  <2> QED
    BY <1>1, <2>2, <2>3, <2>4, WithinReviews
<1> QED
  BY <1>1, <1>2, <1>3 DEF HandlerInv, Answered

(* The second store of a no, which is refused                              *)
LEMMA SarLowerKeeps ==
    ASSUME IInv, NEW h \in Handler, NEW l \in Reviewing, SarLower(h, l)
    PROVE  HandlerInv(h)'
<1> USE Shape, ReviewPositions DEF IInv, Domains
<1>1. /\ pc[h] = Lowered(l) /\ HandlerInv(h) /\ InReviews(h, l) /\ todo[h] # <<>>
      /\ UNCHANGED <<impersonate, req, no>> /\ NextKey(h) \in no[h] /\ Abort(h, 401)
  BY DEF SarLower, InReviews, HandlerInv, Answered
<1> QED
  BY <1>1, NextKeyIsNeeded, RefusalKeeps

(* The kind is known: what RBACAuthorization is to review                  *)
LEMMA KindKnown ==
    ASSUME Domains, NEW h \in Handler, HandlerInv(h), pc[h] \in {"kind", "discover"},
           impersonate' = impersonate, UNCHANGED <<req, user, status, yes, no, failed>>,
           kind'[h] # None, todo'[h] = ResourceAttributes(req[h]), pc'[h] = "authorize"
    PROVE  HandlerInv(h)'
<1> USE ReviewPositions DEF Domains
<1>1. /\ req[h] \in Request /\ req[h].token # None /\ status[h] = None
      /\ failed[h] = FALSE /\ no[h] = {} /\ TokenKey(req[h].token) \in yes[h]
      /\ user[h] = Speaker(req[h]) /\ ClaimsReviewed(h)
  BY DEF HandlerInv, Working, Answered, Authenticated, SpeaksFor
<1>2. todo'[h] \in Seq(Reads(req[h])) /\ ToSet(todo'[h]) = Reads(req[h])
  BY <1>1, AttributesAreReads
<1>3. Reviewable(h)'
  BY <1>2, SameNeeds DEF Reviewable, InReviews, Duties
<1>4. ClaimsReviewed(h)'
  BY <1>1, SameNeeds DEF ClaimsReviewed
<1>5. SpeaksFor(h)'
  BY <1>1, <1>4, SameNeeds DEF SpeaksFor, InReviews
<1> QED
  BY <1>1, <1>3, <1>5, ApiAuthAssumption DEF HandlerInv, Working, Authenticated, Answered,
     Passed, Refused

(* A cached kind is one that discovery reported                            *)
LEMMA CachedKindKeeps ==
    ASSUME IInv, NEW h \in Handler, CachedKind(h) PROVE HandlerInv(h)'
<1> DEFINE k == KindKey(req[h].resource)
<1> USE Shape DEF IInv, Domains
<1>1. k[1] = "kind"
  BY DEF KindKey
<1>2. cache[k].value # None
  BY <1>1 DEF CachedKind, Fresh, Lifetimes, OfKind, OfYes, OfNo, OfUnlowered
<1> QED
  BY <1>2, KindKnown DEF CachedKind, Goto

(* Nothing cached for the kind                                             *)
LEMMA KindMissKeeps ==
    ASSUME IInv, NEW h \in Handler, KindMiss(h) PROVE HandlerInv(h)'
<1> USE Shape, ReviewPositions DEF IInv, Domains
<1>1. /\ pc[h] = "kind" /\ HandlerInv(h) /\ pc'[h] = "discover"
      /\ UNCHANGED <<impersonate, handling>>
  BY DEF KindMiss, Goto
<1>2. /\ req[h] \in Request /\ req[h].token # None /\ status[h] = None
      /\ failed[h] = FALSE /\ no[h] = {} /\ TokenKey(req[h].token) \in yes[h]
      /\ user[h] = Speaker(req[h]) /\ ClaimsReviewed(h)
  BY <1>1 DEF HandlerInv, Working, Answered, Authenticated, SpeaksFor
<1>3. ClaimsReviewed(h)'
  BY <1>1, <1>2, SameNeeds DEF ClaimsReviewed, handling
<1>4. SpeaksFor(h)'
  BY <1>1, <1>2, <1>3, SameNeeds DEF SpeaksFor, InReviews, handling
<1> QED
  BY <1>1, <1>2, <1>4, ApiAuthAssumption DEF HandlerInv, Working, Authenticated, Answered,
     Reviewable, InReviews, Passed, Refused, handling

(* Discovery reports a kind, or the response is 404                        *)
LEMMA DiscoverKeeps ==
    ASSUME IInv, NEW h \in Handler, Discover(h) PROVE HandlerInv(h)'
<1> DEFINE k == KindOf[<<req[h].gv, req[h].resource>>]
<1> USE Shape, ReviewPositions DEF IInv, Domains
<1>1. CASE k = None
  <2>1. Abort(h, 404)
    BY <1>1, Zenon DEF Discover
  <2>2. Passed(h)' /\ Refused(h)'
    BY <2>1 DEF Abort, Passed, Refused
  <2> QED
    BY <2>1, <2>2, AbortKeeps
<1>2. CASE k # None
  BY <1>2, KindKnown DEF Discover, Goto
<1> QED
  BY <1>1, <1>2

(* A failed call decides the response                                      *)
LEMMA FailureStatus ==
    ASSUME NEW h \in Handler, CallFails(h)
    PROVE  \E s \in {0, 401, 404, 500} : Abort(h, s)
<1>1. CASE pc[h] = "impersonateReview"
  BY <1>1 DEF CallFails
<1>2. CASE pc[h] = "discover"
  BY <1>2 DEF CallFails
<1>3. CASE pc[h] \notin {"impersonateReview", "discover"}
  BY <1>3 DEF CallFails
<1> QED
  BY <1>1, <1>2, <1>3

(* A failed call is the cause of its response                              *)
LEMMA CallFailsKeeps ==
    ASSUME IInv, NEW h \in Handler, CallFails(h) PROVE HandlerInv(h)'
<1> USE Shape DEF IInv, Domains
<1>1. failed'[h] = TRUE
  BY Zenon DEF CallFails
<1>2. PICK s \in {0, 401, 404, 500} : Abort(h, s)
  BY FailureStatus
<1>3. Passed(h)' /\ Refused(h)'
  BY <1>1, <1>2 DEF Abort, Passed, Refused
<1> QED
  BY <1>2, <1>3, AbortKeeps

(* Every step of a handler keeps its own invariant                         *)
LEMMA HandlerStep ==
    ASSUME IInv, NEW h \in Handler, Step(h) \/ \E r \in Request : Arrive(h, r)
    PROVE  HandlerInv(h)'
  BY ArriveKeeps, CachedTokenKeeps, TokenMissKeeps, TokenReviewKeeps, TokenSetKeeps,
     ReviewsDoneKeeps, CachedSarKeeps, SarMissKeeps, SarKeeps, SarSetKeeps,
     SarLowerKeeps, CachedKindKeeps, KindMissKeeps, DiscoverKeeps, CallFailsKeeps
     DEF Step

----------------------------------------------------------------------------
(* Types *)

(* The impersonated user is an identity                                    *)
LEMMA ImpersonatedIsIdentity ==
    ASSUME NEW r \in Request, r.user # None
    PROVE  ImpersonatedUser(r) \in Identity
<1>1. r.user \in User /\ r.uid \in Uid \cup {None} /\ r.extras \in SUBSET Extra
      /\ r.groups \in Seq(Group)
  BY ApiAuthAssumption DEF AuthRequest
<1>2. ToSet(r.groups) \subseteq STRING
  <2>1. Group \subseteq STRING
    BY ApiAuthAssumption
  <2>2. \A i \in DOMAIN r.groups : r.groups[i] \in Group
    BY <1>1
  <2> QED
    BY <2>1, <2>2 DEF ToSet
<1>3. NamespaceOf[r.user] # None => ServiceAccountGroups(NamespaceOf[r.user]) \subseteq STRING
  <2> DEFINE g == "system:serviceaccounts:" \o NamespaceOf[r.user]
  <2>1. NamespaceOf[r.user] # None => g \in STRING
    BY <1>1, ApiAuthAssumption
  <2>2. ServiceAccountGroups(NamespaceOf[r.user]) = {"system:serviceaccounts", g}
    BY DEF ServiceAccountGroups
  <2>3. "system:serviceaccounts" \in STRING
    BY ApiAuthAssumption
  <2> HIDE DEF g
  <2>4. \A x \in ServiceAccountGroups(NamespaceOf[r.user]) :
           x = "system:serviceaccounts" \/ x = g
    BY <2>2, Zenon
  <2> QED
    BY <2>1, <2>3, <2>4, Zenon
<1>4. ImpersonatedGroups(r) \subseteq STRING
  <2> DEFINE base == IF r.groups # <<>> THEN ToSet(r.groups)
                     ELSE IF NamespaceOf[r.user] # None
                          THEN ServiceAccountGroups(NamespaceOf[r.user]) ELSE {}
             g == IF r.user = "system:anonymous"
                  THEN "system:unauthenticated" ELSE "system:authenticated"
  <2>1. base \subseteq STRING
    BY <1>2, <1>3
  <2>2. g \in STRING
    <3>1. "system:unauthenticated" \in STRING /\ "system:authenticated" \in STRING
      BY ApiAuthAssumption
    <3> QED
      BY <3>1, Zenon
  <2>3. ImpersonatedGroups(r) = base \cup {g}
    BY DEF ImpersonatedGroups
  <2> HIDE DEF base, g
  <2> QED
    BY <2>1, <2>2, <2>3
<1> QED
  BY <1>1, <1>4 DEF ImpersonatedUser, Identity

(* TypeOK but for its last two conjuncts                                   *)
Kinds == {KindOf[x] : x \in DOMAIN KindOf} \cup {None}
Answers == BOOLEAN \cup {None}
Statuses == {None, 0, 200, 400, 401, 404, 500}
Types ==
    /\ now \in 0..MaxNow /\ impersonate \in BOOLEAN
    /\ requests \in 0..MaxRequests
    /\ pc \in [Handler -> Position]
    /\ req \in [Handler -> Request \cup {None}]
    /\ user \in [Handler -> Identity \cup {None}]
    /\ kind \in [Handler -> Kinds]
    /\ answer \in [Handler -> Answers]
    /\ status \in [Handler -> Statuses]
    /\ failed \in [Handler -> BOOLEAN]

(* Values the actions assign are in the sets of the types                  *)
LEMMA Members ==
    /\ "idle" \in Position /\ "token" \in Position /\ "tokenReview" \in Position
    /\ "tokenSet" \in Position /\ "kind" \in Position /\ "discover" \in Position
    /\ "authorize" \in Position /\ "impersonate" \in Position
    /\ \A l \in Reviewing :
         l \in Position /\ AwaitReview(l) \in Position /\ Stored(l) \in Position
         /\ Lowered(l) \in Position
    /\ None \in Statuses /\ 0 \in Statuses /\ 200 \in Statuses /\ 400 \in Statuses
    /\ 401 \in Statuses /\ 404 \in Statuses /\ 500 \in Statuses
    /\ None \in Kinds /\ None \in Answers /\ \A b \in BOOLEAN : b \in Answers
  BY DEF Position, Reviewing, AwaitReview, Stored, Lowered, Statuses, Kinds, Answers

(* A step changes the entries of one handler, each to a value of its type  *)
Changes(h) ==
    /\ now' = now /\ impersonate' = impersonate
    /\ requests' = requests \/ (requests < MaxRequests /\ requests' = requests + 1)
    /\ pc' = pc \/ \E v \in Position : pc' = [pc EXCEPT ![h] = v]
    /\ req' = req \/ \E v \in Request : req' = [req EXCEPT ![h] = v]
    /\ user' = user \/ \E v \in Identity \cup {None} : user' = [user EXCEPT ![h] = v]
    /\ kind' = kind \/ \E v \in Kinds : kind' = [kind EXCEPT ![h] = v]
    /\ answer' = answer \/ \E v \in Answers : answer' = [answer EXCEPT ![h] = v]
    /\ status' = status \/ \E v \in Statuses : status' = [status EXCEPT ![h] = v]
    /\ failed' = failed \/ \E v \in BOOLEAN : failed' = [failed EXCEPT ![h] = v]
    /\ todo' = todo \/ \E v : todo' = [todo EXCEPT ![h] = v]
    /\ yes' = yes \/ \E v : yes' = [yes EXCEPT ![h] = v]
    /\ no' = no \/ \E v : no' = [no EXCEPT ![h] = v]

(* Such a step keeps the types                                             *)
LEMMA ChangesKeep ==
    ASSUME Types, Histories, NEW h \in Handler, Changes(h)
    PROVE  Types' /\ Histories'
<1>1. ASSUME NEW D, NEW R, NEW f \in [D -> R], NEW x, NEW v \in R
      PROVE  [f EXCEPT ![x] = v] \in [D -> R]
  BY <1>1
<1>2. ASSUME NEW f, NEW x, NEW v PROVE DOMAIN [f EXCEPT ![x] = v] = DOMAIN f
  BY <1>2
<1>3. now' \in 0..MaxNow /\ impersonate' \in BOOLEAN /\ requests' \in 0..MaxRequests
  BY ApiAuthAssumption DEF Types, Changes
<1>4. pc' \in [Handler -> Position]
  BY <1>1, Zenon DEF Types, Changes
<1>5. req' \in [Handler -> Request \cup {None}]
  BY <1>1 DEF Types, Changes
<1>6. user' \in [Handler -> Identity \cup {None}]
  BY <1>1, Zenon DEF Types, Changes
<1>7. kind' \in [Handler -> Kinds]
  BY <1>1, Zenon DEF Types, Changes
<1>7a. answer' \in [Handler -> Answers]
  BY <1>1, Zenon DEF Types, Changes
<1>8. status' \in [Handler -> Statuses]
  BY <1>1, Zenon DEF Types, Changes
<1>8a. failed' \in [Handler -> BOOLEAN]
  BY <1>1, Zenon DEF Types, Changes
<1>9. Histories'
  BY <1>2, Zenon DEF Histories, Changes
<1> QED
  BY <1>3, <1>4, <1>5, <1>6, <1>7, <1>7a, <1>8, <1>8a, <1>9 DEF Types

(* What abort.Abort assigns                                                *)
LEMMA AbortChanges ==
    ASSUME NEW h, NEW s \in Statuses, Abort(h, s)
    PROVE  /\ \E v \in Position : pc' = [pc EXCEPT ![h] = v]
           /\ \E v \in Statuses : status' = [status EXCEPT ![h] = v]
           /\ \E v : todo' = [todo EXCEPT ![h] = v]
  BY Members, Zenon DEF Abort, Goto

(* What the way into Impersonation assigns                                 *)
LEMMA EnterChanges ==
    ASSUME NEW h \in Handler, NEW u, EnterImpersonation(h, u)
    PROVE  /\ user' = [user EXCEPT ![h] = u]
           /\ \E v \in Position : pc' = [pc EXCEPT ![h] = v]
           /\ status' = status \/ \E v \in Statuses : status' = [status EXCEPT ![h] = v]
           /\ todo' = todo \/ \E v : todo' = [todo EXCEPT ![h] = v]
  BY Members, EnterSplit, AbortChanges, ZenonT(60) DEF Goto

(* What is recorded of an answer                                           *)
LEMMA SawChanges ==
    ASSUME NEW h, NEW k, NEW b, Saw(h, k, b)
    PROVE  /\ yes' = yes \/ \E v : yes' = [yes EXCEPT ![h] = v]
           /\ no' = no \/ \E v : no' = [no EXCEPT ![h] = v]
  BY Zenon DEF Saw

(* Every step is of that form                                              *)
LEMMA StepChanges ==
    ASSUME IInv, NEW h \in Handler, Step(h) \/ \E r \in Request : Arrive(h, r)
    PROVE  Changes(h)
<1> USE Members DEF Changes, Goto, handling
<1>0. OwnerOf[req[h].token] \in Identity \/ pc[h] = "idle"
  BY ApiAuthAssumption DEF IInv, HandlerInv, Working, AuthRequest
<1>1. ASSUME NEW r \in Request, Arrive(h, r) PROVE Changes(h)
  <2>1. CASE r.token = None
    <3>1. Abort(h, 400)
      BY <1>1, <2>1, Zenon DEF Arrive
    <3>2. /\ requests < MaxRequests /\ requests' = requests + 1
          /\ req' = [req EXCEPT ![h] = r]
          /\ user' = [user EXCEPT ![h] = None]
          /\ kind' = [kind EXCEPT ![h] = None]
          /\ yes' = [yes EXCEPT ![h] = {}] /\ no' = [no EXCEPT ![h] = {}]
          /\ failed' = [failed EXCEPT ![h] = FALSE]
          /\ UNCHANGED <<now, impersonate, answer>>
      BY <1>1, Zenon DEF Arrive
    <3> QED
      BY <3>1, <3>2, AbortChanges, Zenon
  <2>2. CASE r.token # None
    BY <1>1, <2>2, Zenon DEF Arrive
  <2> QED
    BY <2>1, <2>2
<1>2. CASE CachedToken(h)
  <2>1. /\ UNCHANGED <<now, impersonate, cache, requests, req, kind, answer, failed>>
        /\ \E k, b : Saw(h, k, b) /\ pc[h] = "token"
        /\ \/ Abort(h, 401) /\ UNCHANGED user
           \/ EnterImpersonation(h, OwnerOf[req[h].token])
    BY <1>2, Zenon DEF CachedToken
  <2>2. CASE Abort(h, 401) /\ UNCHANGED user
    BY <2>1, <2>2, AbortChanges, SawChanges, Zenon
  <2>3. CASE EnterImpersonation(h, OwnerOf[req[h].token])
    BY <1>0, <2>1, <2>3, EnterChanges, SawChanges, Zenon
  <2> QED
    BY <2>1, <2>2, <2>3
<1>3. CASE TokenMiss(h)
  BY <1>3, Zenon DEF TokenMiss
<1>4. ASSUME NEW b \in BOOLEAN, TokenReview(h, b) PROVE Changes(h)
  BY <1>4, SawChanges, Zenon DEF TokenReview
<1>5. CASE TokenSet(h)
  <2>1. /\ UNCHANGED <<now, impersonate, requests, req, kind, yes, no, failed>>
        /\ answer' = [answer EXCEPT ![h] = None] /\ pc[h] = "tokenSet"
        /\ \/ Abort(h, 401) /\ UNCHANGED user
           \/ EnterImpersonation(h, OwnerOf[req[h].token])
    BY <1>5, Zenon DEF TokenSet
  <2>2. CASE Abort(h, 401) /\ UNCHANGED user
    BY <2>1, <2>2, AbortChanges, Zenon
  <2>3. CASE EnterImpersonation(h, OwnerOf[req[h].token])
    BY <1>0, <2>1, <2>3, EnterChanges, Zenon
  <2> QED
    BY <2>1, <2>2, <2>3
<1>6. ASSUME NEW l \in Reviewing, ReviewsDone(h, l) PROVE Changes(h)
  <2>1. CASE l = "impersonate"
    <3>1. ImpersonatedUser(req[h]) \in Identity
      BY <1>6, <2>1, ImpersonatedIsIdentity
         DEF ReviewsDone, IInv, HandlerInv, Working, SpeaksFor, InReviews
    <3> QED
      BY <1>6, <2>1, <3>1, Zenon DEF ReviewsDone, Reviewed
  <2>2. CASE l # "impersonate"
    BY <1>6, <2>2, AbortChanges, Zenon DEF ReviewsDone, Reviewed
  <2> QED
    BY <2>1, <2>2
<1>7. ASSUME NEW l \in Reviewing, CachedSar(h, l) PROVE Changes(h)
  <2>1. /\ UNCHANGED <<now, impersonate, cache, requests, req, user, kind, answer, failed>>
        /\ \E k, b : Saw(h, k, b)
        /\ \/ todo' = [todo EXCEPT ![h] = Tail(@)] /\ UNCHANGED <<pc, status>>
           \/ Abort(h, 401)
    BY <1>7, Zenon DEF CachedSar
  <2> QED
    BY <2>1, AbortChanges, SawChanges, Zenon
<1>8. ASSUME NEW l \in Reviewing, SarMiss(h, l) PROVE Changes(h)
  BY <1>8, Zenon DEF SarMiss
<1>9. ASSUME NEW l \in Reviewing, NEW b \in BOOLEAN, Sar(h, l, b) PROVE Changes(h)
  BY <1>9, SawChanges, Zenon DEF Sar
<1>10. ASSUME NEW l \in Reviewing, SarSet(h, l) PROVE Changes(h)
  BY <1>10, Zenon DEF SarSet
<1>11. ASSUME NEW l \in Reviewing, SarLower(h, l) PROVE Changes(h)
  BY <1>11, AbortChanges, Zenon DEF SarLower
<1>12. CASE CachedKind(h)
  <2>1. cache[KindKey(req[h].resource)].value \in Kinds
    BY <1>12 DEF CachedKind, Fresh, IInv, Lifetimes, OfKind, OfYes, OfNo,
           OfUnlowered, KindKey, Kinds
  <2> QED
    BY <1>12, <2>1, Zenon DEF CachedKind
<1>13. CASE KindMiss(h)
  BY <1>13, Zenon DEF KindMiss
<1>14. CASE Discover(h)
  <2> DEFINE k == KindOf[<<req[h].gv, req[h].resource>>]
  <2>1. k \in Kinds
    <3>1. req[h] \in Request
      BY <1>14 DEF Discover, IInv, HandlerInv, Working
    <3>2. <<req[h].gv, req[h].resource>> \in DOMAIN KindOf
      BY <3>1, ApiAuthAssumption DEF AuthRequest
    <3> QED
      BY <3>2 DEF Kinds
  <2> HIDE DEF k
  <2>2. /\ UNCHANGED <<now, impersonate, requests, req, user, answer, yes, no, failed>>
        /\ \/ Abort(h, 404) /\ UNCHANGED kind
           \/ /\ kind' = [kind EXCEPT ![h] = k]
              /\ todo' = [todo EXCEPT ![h] = ResourceAttributes(req[h])]
              /\ Goto(h, "authorize") /\ UNCHANGED status
    BY <1>14, Zenon DEF Discover, k
  <2> QED
    BY <2>1, <2>2, AbortChanges, Zenon
<1>15. CASE CallFails(h)
  <2>1. PICK s \in Statuses : Abort(h, s)
    <3> HIDE DEF Goto
    <3>1. \A s \in {0, 401, 404, 500} : s \in Statuses
      OBVIOUS
    <3> QED
      BY <1>15, <3>1, FailureStatus, ZenonT(60)
  <2>2. /\ failed' = [failed EXCEPT ![h] = TRUE]
        /\ UNCHANGED <<now, impersonate, cache, requests, req, user, kind, answer,
                       yes, no>>
    BY <1>15, Zenon DEF CallFails
  <2> QED
    BY <2>1, <2>2, AbortChanges, Zenon
<1> QED
  BY <1>1, <1>2, <1>3, <1>4, <1>5, <1>6, <1>7, <1>8, <1>9, <1>10, <1>11,
     <1>12, <1>13, <1>14, <1>15 DEF Step

----------------------------------------------------------------------------
(* The cache *)

(* The stores a step may do: answers with their lifetimes, a kind, or the  *)
(* first of the two stores of a no.  A handler between the two stores does *)
(* nothing but the second.                                                 *)
Stores(h) ==
    \/ UNCHANGED cache /\ ~AtLowered(h)
    \/ \E k : k[1] # "kind" /\ Set(k, TRUE, Authorized) /\ ~AtLowered(h)
    \/ \E k : /\ k[1] # "kind" /\ Set(k, FALSE, Unauthorized)
              /\ AtLowered(h) => k = NextKey(h)
    \/ /\ NextKey(h)[1] # "kind" /\ Set(NextKey(h), FALSE, Authorized)
       /\ AtLowered(h)' /\ NextKey(h)' = NextKey(h) /\ ~AtLowered(h)
    \/ \E k, v : /\ k[1] = "kind" /\ v # None
                 /\ v \in {KindOf[x] : x \in DOMAIN KindOf}
                 /\ Set(k, v, CacheExpirationTime) /\ ~AtLowered(h)

(* The first component of a key tells what it is a key of                  *)
LEMMA KeyKinds ==
    /\ \A t : TokenKey(t)[1] # "kind"
    /\ \A i, a : SarKey(i, a)[1] # "kind"
    /\ \A r : KindKey(r)[1] = "kind"
  BY DEF TokenKey, SarKey, KindKey

(* Every step is one of these                                              *)
LEMMA StepStores ==
    ASSUME IInv, NEW h \in Handler, Step(h) \/ \E r \in Request : Arrive(h, r)
    PROVE  Stores(h)
<1>a. Domains
  BY Shape DEF IInv
<1> USE ReviewPositions DEF Stores, AtLowered
<1>1. ASSUME NEW r \in Request, Arrive(h, r) PROVE Stores(h)
  BY <1>1 DEF Arrive
<1>2. CASE CachedToken(h)
  <2>1. pc[h] = "token" /\ UNCHANGED cache
    BY <1>2, Zenon DEF CachedToken
  <2> QED
    BY <2>1
<1>3. CASE TokenMiss(h) \/ KindMiss(h)
  BY <1>3 DEF TokenMiss, KindMiss
<1>4. ASSUME NEW b \in BOOLEAN, TokenReview(h, b) PROVE Stores(h)
  BY <1>4 DEF TokenReview
<1>5. CASE TokenSet(h)
  <2> DEFINE k == TokenKey(req[h].token)
  <2>1. /\ pc[h] = "tokenSet"
        /\ Set(k, TRUE, Authorized) \/ Set(k, FALSE, Unauthorized)
    BY <1>5, Zenon DEF TokenSet
  <2>2. k[1] # "kind" /\ ~AtLowered(h)
    BY <2>1, KeyKinds
  <2> HIDE DEF k
  <2> QED
    BY <2>1, <2>2, Zenon
<1>6. ASSUME NEW l \in Reviewing, ReviewsDone(h, l) \/ SarMiss(h, l) PROVE Stores(h)
  BY <1>6 DEF ReviewsDone, SarMiss
<1>7. ASSUME NEW l \in Reviewing, CachedSar(h, l) PROVE Stores(h)
  <2>1. pc[h] = l /\ UNCHANGED cache
    BY <1>7, Zenon DEF CachedSar
  <2> QED
    BY <2>1
<1>9. ASSUME NEW l \in Reviewing, NEW b \in BOOLEAN, Sar(h, l, b) PROVE Stores(h)
  BY <1>9 DEF Sar
<1>10. ASSUME NEW l \in Reviewing, SarSet(h, l) PROVE Stores(h)
  <2>1. pc[h] = Stored(l) /\ Set(NextKey(h), answer[h], Authorized) /\ user' = user
    BY <1>10, Zenon DEF SarSet
  <2>2. ~AtLowered(h) /\ NextKey(h)[1] # "kind"
    BY <2>1, KeyKinds DEF NextKey
  <2>3. answer[h] = TRUE \/ answer[h] = FALSE
    BY <2>1 DEF IInv, HandlerInv, Answered
  <2>4. CASE answer[h] = TRUE
    <3>1. Set(NextKey(h), TRUE, Authorized)
      BY <2>1, <2>4
    <3> QED
      BY <3>1, <2>2, Zenon
  <2>5. CASE answer[h] = FALSE
    <3>1. Set(NextKey(h), FALSE, Authorized)
      BY <2>1, <2>5
    <3>2. pc' = [pc EXCEPT ![h] = Lowered(l)] /\ todo' = todo
      BY <1>10, <2>5, Zenon DEF SarSet, Goto
    <3>3. AtLowered(h)' /\ NextKey(h)' = NextKey(h)
      BY <1>a, <2>1, <3>2 DEF NextKey, Domains
    <3> QED
      BY <3>1, <3>3, <2>2
  <2> QED
    BY <2>3, <2>4, <2>5
<1>11. ASSUME NEW l \in Reviewing, SarLower(h, l) PROVE Stores(h)
  <2>1. Set(NextKey(h), FALSE, Unauthorized) /\ NextKey(h)[1] # "kind"
    BY <1>11, KeyKinds DEF SarLower, NextKey
  <2> QED
    BY <2>1, Zenon
<1>12. CASE CachedKind(h)
  BY <1>12 DEF CachedKind
<1>14. CASE Discover(h)
  <2> DEFINE v == KindOf[<<req[h].gv, req[h].resource>>]
             k == KindKey(req[h].resource)
  <2>1. v \in {KindOf[x] : x \in DOMAIN KindOf}
    <3>1. req[h] \in Request
      BY <1>14 DEF Discover, IInv, HandlerInv, Working
    <3>2. <<req[h].gv, req[h].resource>> \in DOMAIN KindOf
      BY <3>1, ApiAuthAssumption DEF AuthRequest
    <3> QED
      BY <3>2
  <2>2. /\ pc[h] = "discover"
        /\ UNCHANGED cache \/ (v # None /\ Set(k, v, CacheExpirationTime))
    BY <1>14, Zenon DEF Discover
  <2>3. k[1] = "kind" /\ ~AtLowered(h)
    BY <2>2, KeyKinds
  <2> HIDE DEF k, v
  <2> QED
    BY <2>1, <2>2, <2>3, Zenon
<1>15. CASE CallFails(h)
  <2>1. /\ pc[h] \in {"tokenReview", "impersonateReview", "discover", "authorizeReview"}
        /\ UNCHANGED cache
    BY <1>15, Zenon DEF CallFails
  <2> QED
    BY <2>1
<1> QED
  BY <1>1, <1>2, <1>3, <1>4, <1>5, <1>6, <1>7, <1>9, <1>10, <1>11, <1>12,
     <1>14, <1>15 DEF Step

(* What Set leaves in the cache                                            *)
LEMMA SetEntry ==
    ASSUME NEW k, NEW v, NEW d, Set(k, v, d)
    PROVE  /\ DOMAIN cache' = DOMAIN cache \cup {k}
           /\ cache'[k] = Entry(v, d)
           /\ \A j \in DOMAIN cache : j # k => cache'[j] = cache[j]
  BY DEF Set

(* A handler between its stores, other than the one that moves, stays so   *)
LEMMA StillLowered ==
    ASSUME NEW h \in Handler, Mine(h), NEW g \in Handler, g # h, AtLowered(g)
    PROVE  AtLowered(g)' /\ NextKey(g)' = NextKey(g)
  BY DEF Mine, Untouched, AtLowered, NextKey

(* A store leaves every entry with the lifetime it was stored for          *)
LEMMA LifetimesStep ==
    ASSUME TypeOK, Lifetimes, NEW h \in Handler, Mine(h), Stores(h), now' = now
    PROVE  Lifetimes' /\ \A k \in DOMAIN cache' : cache'[k].stored <= now'
<1> DEFINE Fine(k) == /\ cache'[k].stored \in Nat /\ cache'[k].stored <= now'
                      /\ \/ OfKind(k, cache'[k]) \/ OfYes(k, cache'[k])
                         \/ OfNo(k, cache'[k])
                         \/ /\ OfUnlowered(k, cache'[k])
                            /\ \E g \in Handler : AtLowered(g)' /\ NextKey(g)' = k
<1>a. now \in Nat
  BY DEF TypeOK
<1>b. \A v, d : Entry(v, d).stored = now /\ Entry(v, d).value = v
              /\ Entry(v, d).expiration = Sec(now + d)
  BY DEF Entry
<1>1. ASSUME NEW k \in DOMAIN cache, cache'[k] = cache[k], AtLowered(h) => NextKey(h) # k
      PROVE  Fine(k)
  <2>1. cache[k].stored \in Nat /\ cache[k].stored <= now
    BY DEF TypeOK, Lifetimes
  <2>2. CASE OfUnlowered(k, cache[k]) /\ \E g \in Handler : AtLowered(g) /\ NextKey(g) = k
    <3>1. PICK g \in Handler : AtLowered(g) /\ NextKey(g) = k
      BY <2>2
    <3>2. g # h
      BY <1>1, <3>1
    <3>3. AtLowered(g)' /\ NextKey(g)' = k
      BY <3>1, <3>2, StillLowered
    <3> QED
      BY <1>1, <2>1, <2>2, <3>3
  <2>3. CASE OfKind(k, cache[k]) \/ OfYes(k, cache[k]) \/ OfNo(k, cache[k])
    BY <1>1, <2>1, <2>3
  <2> QED
    BY <2>2, <2>3 DEF Lifetimes
<1>2. CASE UNCHANGED cache /\ ~AtLowered(h)
  <2>1. \A k \in DOMAIN cache' : Fine(k)
    BY <1>1, <1>2
  <2> QED
    BY <2>1 DEF Lifetimes
<1>3. ASSUME NEW k, NEW v, NEW d, Set(k, v, d), AtLowered(h) => k = NextKey(h),
             \/ OfKind(k, Entry(v, d)) \/ OfYes(k, Entry(v, d)) \/ OfNo(k, Entry(v, d))
             \/ OfUnlowered(k, Entry(v, d)) /\ AtLowered(h)' /\ NextKey(h)' = k
      PROVE  \A j \in DOMAIN cache' : Fine(j)
  <2>1. Fine(k)
    <3>1. cache'[k] = Entry(v, d)
      BY <1>3 DEF Set
    <3>2. cache'[k].stored \in Nat /\ cache'[k].stored <= now'
      BY <1>a, <1>b, <3>1
    <3> QED
      BY <1>3, <3>1, <3>2, Zenon
  <2>2. ASSUME NEW j \in DOMAIN cache, j # k PROVE Fine(j)
    BY <1>1, <1>3, <2>2, SetEntry
  <2> QED
    BY <1>3, <2>1, <2>2, SetEntry
<1>4. CASE \E k : k[1] # "kind" /\ Set(k, TRUE, Authorized) /\ ~AtLowered(h)
  <2>1. PICK k : k[1] # "kind" /\ Set(k, TRUE, Authorized) /\ ~AtLowered(h)
    BY <1>4
  <2>2. OfYes(k, Entry(TRUE, Authorized))
    BY <1>b, <2>1, Zenon DEF OfYes
  <2>3. \A j \in DOMAIN cache' : Fine(j)
    BY <1>3, <2>1, <2>2
  <2> QED
    BY <2>3 DEF Lifetimes
<1>5. CASE \E k : /\ k[1] # "kind" /\ Set(k, FALSE, Unauthorized)
                  /\ AtLowered(h) => k = NextKey(h)
  <2>1. PICK k : /\ k[1] # "kind" /\ Set(k, FALSE, Unauthorized)
                 /\ AtLowered(h) => k = NextKey(h)
    BY <1>5
  <2>2. OfNo(k, Entry(FALSE, Unauthorized))
    <3> DEFINE e == Entry(FALSE, Unauthorized)
    <3>1. e.value = FALSE /\ e.expiration = Sec(now + Unauthorized) /\ e.stored = now
      BY DEF Entry
    <3> HIDE DEF e
    <3>2. OfNo(k, e)
      BY <2>1, <3>1 DEF OfNo
    <3> QED
      BY <3>2 DEF e
  <2>3. \A j \in DOMAIN cache' : Fine(j)
    BY <1>3, <2>1, <2>2
  <2> QED
    BY <2>3 DEF Lifetimes
<1>6. CASE /\ NextKey(h)[1] # "kind" /\ Set(NextKey(h), FALSE, Authorized)
           /\ AtLowered(h)' /\ NextKey(h)' = NextKey(h) /\ ~AtLowered(h)
  <2>2. OfUnlowered(NextKey(h), Entry(FALSE, Authorized))
    BY <1>b, <1>6 DEF OfUnlowered
  <2>3. \A j \in DOMAIN cache' : Fine(j)
    BY <1>3, <1>6, <2>2
  <2> QED
    BY <2>3 DEF Lifetimes
<1>7. CASE \E k, v : /\ k[1] = "kind" /\ v # None
                     /\ v \in {KindOf[x] : x \in DOMAIN KindOf}
                     /\ Set(k, v, CacheExpirationTime) /\ ~AtLowered(h)
  <2>1. PICK k, v : /\ k[1] = "kind" /\ v # None
                    /\ v \in {KindOf[x] : x \in DOMAIN KindOf}
                    /\ Set(k, v, CacheExpirationTime) /\ ~AtLowered(h)
    BY <1>7
  <2>2. OfKind(k, Entry(v, CacheExpirationTime))
    BY <1>b, <2>1 DEF OfKind
  <2>3. \A j \in DOMAIN cache' : Fine(j)
    BY <1>3, <2>1, <2>2
  <2> QED
    BY <2>3 DEF Lifetimes
<1> QED
  BY <1>2, <1>4, <1>5, <1>6, <1>7 DEF Stores

----------------------------------------------------------------------------
(* The invariant *)

(* The invariant holds at the start                                        *)
LEMMA InitInv == Init => IInv
<1> SUFFICES ASSUME Init PROVE IInv
  OBVIOUS
<1>1. TypeOK
  <2>1. Types
    BY ApiAuthAssumption DEF Init, Types, Position, Kinds, Answers, Statuses
  <2> QED
    BY <2>1 DEF Init, TypeOK, Types, Kinds, Answers, Statuses, Reviewing
<1>2. Histories /\ Lifetimes
  BY DEF Init, Histories, Lifetimes
<1>3. ASSUME NEW h \in Handler PROVE HandlerInv(h)
  BY ReviewPositions, ApiAuthAssumption DEF Init, HandlerInv, Working, Authenticated,
     Answered, Reviewable, SpeaksFor, InReviews, Passed, Refused
<1> QED
  BY <1>1, <1>2, <1>3 DEF IInv

(* The user a handler asks about is known                                  *)
LEMMA KnownUser ==
    ASSUME NEW h \in Handler, HandlerInv(h)', pc'[h] \in Reviewing
    PROVE  user'[h] # None
<1> USE ReviewPositions
<1>1. req'[h] \in Request /\ req'[h].token # None
  BY DEF HandlerInv, Working
<1>2. OwnerOf[req'[h].token] \in Identity
  BY <1>1, ApiAuthAssumption DEF AuthRequest
<1>3. None \notin Identity
  BY ApiAuthAssumption
<1>4. CASE pc'[h] = "impersonate"
  BY <1>2, <1>3, <1>4 DEF HandlerInv, SpeaksFor, InReviews
<1>5. CASE pc'[h] = "authorize"
  <2>1. user'[h] = Speaker(req[h])'
    BY <1>5 DEF HandlerInv, SpeaksFor, InReviews
  <2>2. req'[h].user # None => ImpersonatedUser(req[h])' \in Identity
    <3> DEFINE r == req'[h]
    <3>1. ImpersonatedUser(req[h])' = ImpersonatedUser(r)
      BY DEF ImpersonatedUser, ImpersonatedGroups
    <3> HIDE DEF r
    <3>2. r \in Request
      BY <1>1 DEF r
    <3>3. r.user # None => ImpersonatedUser(r) \in Identity
      BY <3>2, ImpersonatedIsIdentity
    <3> QED
      BY <3>1, <3>3 DEF r
  <2> QED
    BY <1>2, <1>3, <2>1, <2>2 DEF Speaker
<1> QED
  BY <1>4, <1>5

(* Every step of a handler keeps it                                        *)
LEMMA StepInv ==
    ASSUME IInv, NEW h \in Handler, Step(h) \/ \E r \in Request : Arrive(h, r)
    PROVE  IInv'
<1>1. Mine(h) /\ Changes(h) /\ Stores(h)
  BY StepIsMine, StepChanges, StepStores DEF IInv
<1>2. ASSUME NEW g \in Handler PROVE HandlerInv(g)'
  <2>1. CASE g = h
    BY <2>1, HandlerStep
  <2>2. CASE g # h
    BY <1>1, <2>2, OthersKeep DEF Mine, IInv
  <2> QED
    BY <2>1, <2>2
<1>3. Types' /\ Histories'
  <2>1. Types /\ Histories
    BY DEF IInv, TypeOK, Types, Kinds, Answers, Statuses
  <2> QED
    BY <1>1, <2>1, ChangesKeep
<1>4. Lifetimes' /\ \A k \in DOMAIN cache' : cache'[k].stored <= now'
  BY <1>1, LifetimesStep DEF IInv, Changes
<1>5. \A g \in Handler : pc'[g] \in Reviewing => user'[g] # None
  BY <1>2, KnownUser
<1>6. TypeOK'
  BY <1>3, <1>4, <1>5 DEF Types, TypeOK, Kinds, Answers, Statuses
<1> QED
  BY <1>2, <1>3, <1>4, <1>6 DEF IInv

(* Nothing but the clock moves                                             *)
LEMMA QuietInv ==
    ASSUME IInv, now' \in 0..MaxNow, now <= now',
           UNCHANGED <<impersonate, cache, requests, pc, handling>>
    PROVE  IInv'
<1> USE DEF handling
<1>1. ASSUME NEW g \in Handler PROVE HandlerInv(g)'
  <2>1. Untouched(g)
    BY DEF Untouched
  <2> QED
    BY <2>1, OthersKeep DEF IInv
<1>2. TypeOK'
  <2>1. Types /\ \A g \in Handler : pc[g] \in Reviewing => user[g] # None
    BY DEF IInv, TypeOK, Types, Kinds, Answers, Statuses
  <2>2. Types'
    BY <2>1 DEF Types
  <2>3. \A k \in DOMAIN cache' : cache'[k].stored <= now'
    BY DEF IInv, TypeOK, Lifetimes
  <2> QED
    BY <2>1, <2>2, <2>3 DEF Types, TypeOK, Kinds, Answers, Statuses
<1>3. Histories' /\ Lifetimes'
  BY DEF IInv, Histories, Lifetimes, AtLowered, NextKey
<1> QED
  BY <1>1, <1>2, <1>3 DEF IInv

(* Every step keeps it                                                     *)
LEMMA NextInv == IInv /\ [Next]_vars => IInv'
<1> SUFFICES ASSUME IInv, [Next]_vars PROVE IInv'
  OBVIOUS
<1>1. now \in 0..MaxNow /\ MaxNow \in Nat
  BY ApiAuthAssumption DEF IInv, TypeOK
<1>2. CASE Tick
  BY <1>1, <1>2, QuietInv DEF Tick
<1>3. CASE UNCHANGED vars
  BY <1>1, <1>3, QuietInv DEF vars, handling
<1>4. ASSUME NEW h \in Handler, Step(h) \/ \E r \in Request : Arrive(h, r) PROVE IInv'
  BY <1>4, StepInv
<1> QED
  BY <1>2, <1>3, <1>4 DEF Next

(* The inductive invariant holds                                           *)
LEMMA Invariance == Spec => []IInv
  BY InitInv, NextInv, PTL DEF Spec

----------------------------------------------------------------------------
(* The properties *)

(* A request reaches a controller only after a yes to every question it    *)
(* depends on, each asked for the right identity: Authentication, the      *)
(* reviews of Impersonation and those of RBACAuthorization cannot be       *)
(* skipped, however the requests interleave and whatever they cache.       *)
THEOREM PassedOnIsReviewedHolds == Spec => []PassedOnIsReviewed
<1>1. IInv => PassedOnIsReviewed
  BY DEF IInv, HandlerInv, Passed, PassedOnIsReviewed
<1> QED
  BY <1>1, Invariance, PTL

(* Variables have their types, and a refusal has a cause: 401 a no to a    *)
(* question the request depends on or a failed review of an impersonation, *)
(* 0 or 500 a failed call; no request that met either is passed on.        *)
THEOREM RefusalHasCauseHolds == Spec => []RefusalHasCause
<1>1. IInv => RefusalHasCause
  BY DEF IInv, HandlerInv, Refused, RefusalHasCause
<1> QED
  BY <1>1, Invariance, PTL

(* Division rounds down by less than the divisor                           *)
LEMMA Rounding ==
    ASSUME NEW a \in Nat, NEW n \in Nat \ {0}
    PROVE  a \div n \in Nat /\ n * (a \div n) <= a /\ a < n * (a \div n) + n
  OBVIOUS

(* Multiplication keeps the order                                          *)
LEMMA Monotone ==
    ASSUME NEW p \in Nat, NEW q \in Nat, NEW n \in Nat, p <= q
    PROVE  n * p \in Nat /\ n * q \in Nat /\ n * p <= n * q
  OBVIOUS

(* A moment whose second is not past that of b is less than a second later *)
LEMMA WithinSecond ==
    ASSUME NEW a \in Nat, NEW b \in Nat, Sec(a) <= Sec(b)
    PROVE  a < b + Second
<1> DEFINE p == a \div Second
           q == b \div Second
           x == Second * p
           y == Second * q
<1>1. p \in Nat /\ q \in Nat /\ a < x + Second /\ y <= b
  BY Rounding, ApiAuthAssumption
<1>2. p <= q
  BY DEF Sec
<1> HIDE DEF p, q
<1>3. x \in Nat /\ y \in Nat /\ x <= y
  BY <1>1, <1>2, Monotone, ApiAuthAssumption
<1> HIDE DEF x, y
<1> QED
  BY <1>1, <1>3, ApiAuthAssumption

(* An answer serves for its lifetime and less than a second more; a no     *)
(* outlives the lifetime of a no only while the handler that got it is     *)
(* between the two stores of doSarRequests.                                *)
THEOREM AnswersExpireHolds == Spec => []AnswersExpire
<1>1. ASSUME IInv, NEW k \in DOMAIN cache, Fresh(k)
      PROVE  IF k[1] = "kind" THEN now < cache[k].stored + CacheExpirationTime + Second
             ELSE IF cache[k].value = TRUE
             THEN now < cache[k].stored + Authorized + Second
             ELSE \/ now < cache[k].stored + Unauthorized + Second
                  \/ \E h \in Handler, l \in Reviewing :
                       pc[h] = Lowered(l) /\ NextKey(h) = k
  <2>1. now \in Nat /\ cache[k].stored \in Nat
    BY <1>1 DEF IInv, TypeOK, Lifetimes
  <2>2. ASSUME NEW d \in Nat, cache[k].expiration = Sec(cache[k].stored + d)
        PROVE  now < cache[k].stored + d + Second
    <3>1. Sec(now) <= Sec(cache[k].stored + d) /\ cache[k].stored + d \in Nat
      BY <1>1, <2>1, <2>2 DEF Fresh
    <3> QED
      BY <3>1, <2>1, WithinSecond
  <2>3. Authorized \in Nat /\ Unauthorized \in Nat /\ CacheExpirationTime \in Nat
    BY ApiAuthAssumption
  <2>4. CASE OfKind(k, cache[k])
    BY <2>2, <2>3, <2>4 DEF OfKind
  <2>5. CASE OfYes(k, cache[k])
    BY <2>2, <2>3, <2>5 DEF OfYes
  <2>6. CASE OfNo(k, cache[k])
    BY <2>2, <2>3, <2>6 DEF OfNo
  <2>7. CASE /\ OfUnlowered(k, cache[k])
             /\ \E h \in Handler : AtLowered(h) /\ NextKey(h) = k
    BY <2>7 DEF OfUnlowered, AtLowered
  <2> QED
    BY <1>1, <2>4, <2>5, <2>6, <2>7 DEF IInv, Lifetimes
<1>2. IInv => AnswersExpire
  BY <1>1 DEF AnswersExpire
<1> QED
  BY <1>2, Invariance, PTL
=============================================================================
