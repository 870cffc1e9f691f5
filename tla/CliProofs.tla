------------------------------ MODULE CliProofs ------------------------------
(***************************************************************************)
(* Proofs about kubectl ka: about the configuration file and the           *)
(* connection its commands make, for any clusters, hosts, tokens and       *)
(* numbers of edits, and any discovery; and about the pages of get, for    *)
(* any objects, ages, command lines and lengths of a walk.                 *)
(***************************************************************************)
EXTENDS Get, CliConfig, FiniteSetTheorems, SequenceTheorems,
        WellFoundedInduction, TLAPS

-----------------------------------------------------------------------------
(* The configuration and the connection *)

\* CompleteRetriever is on its way.
Trying == {"firstTest", "load", "secondTest", "setup", "reload", "lastTest"}

\* Where the settings in use come from.
Source ==
    \/ fellBack = Unset /\ opts = env
    \/ /\ fellBack # Unset
       /\ opts.host = fellBack.host /\ opts.insecure = fellBack.insecure
       /\ opts.token \in {fellBack.token, KubeToken}

\* What CompleteRetriever has so far.
Connection ==
    /\ step \in Trying \cup {"ready"} => opts \in RetrieverOptions /\ Source
    /\ step = "ready" =>
         /\ tested = opts /\ opts.token # Unset
         /\ Consistent(opts.insecure, opts.ca)

IInv ==
    /\ FileIsUsable
    /\ Connection
    /\ ResolvedAsAsked

-----------------------------------------------------------------------------
(* A finite set of naturals that is not empty has a least member           *)
LEMMA Least ==
    ASSUME NEW S \in SUBSET Nat, NEW x \in S
    PROVE  \E i \in S : \A j \in S : i <= j
<1> DEFINE R == OpToRel(<, Nat)
<1>1. IsWellFoundedOn(R, Nat)
  BY NatLessThanWellFounded
<1>2. PICK i \in S : \A j \in S : <<j, i>> \notin R
  BY <1>1, WFMin
<1>0. R = {ss \in Nat \X Nat : ss[1] < ss[2]}
  BY DEF OpToRel
<1> HIDE DEF R
<1>3. \A j \in S : ~(j < i)
  BY <1>0, <1>2
<1> QED
  BY <1>2, <1>3

(* There is a name for a cluster: entries are for different clusters, so   *)
(* there are fewer than "-alt"s                                            *)
LEMMA FreeName ==
    ASSUME FileIsUsable, NEW s \in Server, NEW f, DOMAIN f \subseteq DOMAIN file
    PROVE  GenerateClusterName(s, f) \in EntryName \ DOMAIN f
<1> DEFINE b == BaseName[s]
           free == {i \in 0..MaxAlt : <<b, i>> \notin DOMAIN f}
           Fits(i) == /\ <<b, i>> \notin DOMAIN f
                      /\ \A j \in 0..(i - 1) : <<b, j>> \in DOMAIN f
<1>0. MaxAlt \in Nat /\ IsFiniteSet(Server) /\ MaxAlt >= Cardinality(Server)
  BY CliConfigAssumption
<1>1. \E i \in 0..MaxAlt : <<b, i>> \notin DOMAIN f
  <2> SUFFICES ASSUME \A i \in 0..MaxAlt : <<b, i>> \in DOMAIN f PROVE FALSE
    OBVIOUS
  <2> DEFINE S == 0..MaxAlt
             g == [i \in S |-> file[<<b, i>>].server]
  <2>1. g \in [S -> Server]
    BY DEF FileIsUsable, ClusterConfig
  <2>2. IsFiniteSet(S) /\ Cardinality(S) = MaxAlt + 1
    BY <1>0, FS_Interval
  <2>3. Cardinality(Server) \in Nat
    BY <1>0, FS_CardinalityType
  <2>4. Cardinality(Server) < Cardinality(S)
    BY <1>0, <2>2, <2>3
  <2>5. \A x, y \in S : g[x] = g[y] => x = y
    <3> SUFFICES ASSUME NEW x \in S, NEW y \in S, g[x] = g[y] PROVE x = y
      OBVIOUS
    <3>1. <<b, x>> \in DOMAIN file /\ <<b, y>> \in DOMAIN file
      OBVIOUS
    <3>2. file[<<b, x>>].server = file[<<b, y>>].server
      OBVIOUS
    <3>3. <<b, x>> = <<b, y>>
      BY <3>1, <3>2 DEF FileIsUsable
    <3> QED
      BY <3>3
  <2> HIDE DEF S, g
  <2> QED
    BY <1>0, <2>1, <2>2, <2>4, <2>5, FS_PigeonHole
<1>2. PICK i \in free : \A j \in free : i <= j
  <2>1. free \in SUBSET Nat /\ free # {}
    BY <1>0, <1>1
  <2> HIDE DEF free
  <2> QED
    BY <2>1, Least
<1>3. i \in 0..MaxAlt /\ Fits(i)
  <2>1. ASSUME NEW j \in 0..(i - 1) PROVE <<b, j>> \in DOMAIN f
    <3>1. j \in 0..MaxAlt /\ ~(i <= j)
      BY <1>0
    <3> QED
      BY <1>2, <3>1
  <2> QED
    BY <2>1
<1> DEFINE k == CHOOSE l \in 0..MaxAlt : Fits(l)
<1>4. GenerateClusterName(s, f) = <<b, k>>
  BY DEF GenerateClusterName
<1>5. k \in 0..MaxAlt /\ Fits(k)
  <2> HIDE DEF Fits
  <2> QED
    BY <1>3
<1> HIDE DEF k
<1> QED
  BY <1>4, <1>5 DEF EntryName

(* An entry of the cluster is changed                                      *)
LEMMA ChangeKeepsFile ==
    ASSUME FileIsUsable, NEW s, NEW n \in Current(s), NEW c \in ClusterConfig,
           c.server = s, Consistent(c.insecure, c.cert), Save(n, c)
    PROVE  /\ FileIsUsable'
           /\ \A m \in DOMAIN file : m # n => m \in DOMAIN file' /\ file'[m] = file[m]
<1>1. n \in DOMAIN file /\ file[n].server = s
  BY DEF Current
<1>2. /\ DOMAIN file' = DOMAIN file
      /\ file'[n] = c /\ \A m \in DOMAIN file : m # n => file'[m] = file[m]
  BY <1>1 DEF Save, With
<1> QED
  BY <1>1, <1>2 DEF FileIsUsable

(* An entry is removed                                                     *)
LEMMA RemovalKeepsFile ==
    ASSUME FileIsUsable, NEW n, file' = Without(file, n)
    PROVE  /\ FileIsUsable'
           /\ \A m \in DOMAIN file : m # n => m \in DOMAIN file' /\ file'[m] = file[m]
<1>1. DOMAIN file' = DOMAIN file \ {n} /\ \A m \in DOMAIN file' : file'[m] = file[m]
  BY DEF Without
<1> QED
  BY <1>1 DEF FileIsUsable

(* A new entry of a cluster without one                                    *)
LEMMA AdditionKeepsFile ==
    ASSUME FileIsUsable, NEW s \in Server, Current(s) = {}, NEW c \in ClusterConfig,
           c.server = s, Consistent(c.insecure, c.cert), NEW n \in EntryName,
           file' = With(file, n, c)
    PROVE  /\ FileIsUsable'
           /\ \A m \in DOMAIN file : m # n => m \in DOMAIN file' /\ file'[m] = file[m]
<1>1. \A m \in DOMAIN file : file[m].server # s
  BY DEF Current
<1>2. /\ DOMAIN file' = DOMAIN file \cup {n}
      /\ file'[n] = c /\ \A m \in DOMAIN file : m # n => file'[m] = file[m]
  BY DEF With
<1> QED
  BY <1>1, <1>2 DEF FileIsUsable

\* What OthersUntouched says of one step.
Untouched ==
    \A n \in DOMAIN file :
        file[n].server # server' /\ n \notin named'
            => n \in DOMAIN file' /\ file'[n] = file[n]

(* The setup replaces the entry of the cluster, and one of another only    *)
(* under a name the user gave                                              *)
LEMMA SetUpKeepsFile ==
    ASSUME FileIsUsable, NEW s, SetUp(s, file), server' = s
    PROVE  FileIsUsable' /\ Untouched
<1> DEFINE rest == IF Current(s) = {} THEN file
                   ELSE Without(file, CHOOSE m \in Current(s) : TRUE)
<1>1. PICK c \in Discovered(s), k \in 0..MaxAlt :
          /\ file' = With(rest, <<BaseName[s], k>>, c)
          /\ named' = IF <<BaseName[s], k>> = GenerateClusterName(s, rest) THEN {}
                      ELSE {<<BaseName[s], k>>}
  BY DEF SetUp
<1> DEFINE n == <<BaseName[s], k>>
<1>2. /\ c \in ClusterConfig /\ c.server = s /\ Consistent(c.insecure, c.cert) /\ s \in Server
      /\ n \in EntryName
  BY DEF Discovered, ClusterConfig, EntryName
<1>3. /\ DOMAIN rest \subseteq DOMAIN file
      /\ \A m \in DOMAIN rest : rest[m] = file[m] /\ file[m].server # s
      /\ \A m \in DOMAIN file : file[m].server # s => m \in DOMAIN rest
  <2>1. CASE Current(s) = {}
    BY <2>1 DEF Current
  <2>2. CASE Current(s) # {}
    <3>1. PICK e : e = CHOOSE m \in Current(s) : TRUE
      OBVIOUS
    <3>2. e \in Current(s)
      BY <2>2, <3>1
    <3>3. e \in DOMAIN file /\ file[e].server = s /\ rest = Without(file, e)
      BY <2>2, <3>1, <3>2 DEF Current
    <3> HIDE DEF rest
    <3>4. DOMAIN rest = DOMAIN file \ {e} /\ \A m \in DOMAIN rest : rest[m] = file[m]
      BY <3>3 DEF Without
    <3> QED
      BY <3>3, <3>4 DEF FileIsUsable
  <2> QED
    BY <2>1, <2>2
<1> HIDE DEF rest
<1>4. GenerateClusterName(s, rest) \notin DOMAIN rest
  BY <1>2, <1>3, FreeName
<1> HIDE DEF n
<1>5. /\ DOMAIN file' = DOMAIN rest \cup {n}
      /\ file'[n] = c /\ \A m \in DOMAIN rest : m # n => file'[m] = rest[m]
  BY <1>1 DEF With, n
<1>6. FileIsUsable'
  BY <1>2, <1>3, <1>5 DEF FileIsUsable
<1>7. n \in DOMAIN rest => n \in named'
  BY <1>1, <1>4 DEF n
<1> QED
  BY <1>3, <1>5, <1>6, <1>7 DEF Untouched

-----------------------------------------------------------------------------
(* What the commands that edit the file leave behind                       *)
LEMMA EditEnds ==
    ASSUME NEW s, Edit(s)
    PROVE  server' = s /\ Connection' /\ ResolvedAsAsked'
  BY DEF Edit, Connection, ResolvedAsAsked, Trying

(* Every command that edits the file keeps it usable                       *)
LEMMA EditsKeep ==
    ASSUME IInv, NEW s \in Server,
           \/ \E h \in Host : SetHost(s, h)
           \/ \E c \in Cert : SetCertificateAuthority(s, c)
           \/ \E b \in BOOLEAN : SetInsecure(s, b)
           \/ \E t \in Bearer : SetToken(s, t)
           \/ Unsetting(s) \/ RemoveEntry(s) \/ Setup(s) \/ Refuse(s)
    PROVE  IInv' /\ Untouched
<1>0. Edit(s) /\ server' = s /\ Connection' /\ ResolvedAsAsked'
  <2>1. Edit(s)
    BY Zenon DEF SetHost, SetCertificateAuthority, SetInsecure, SetToken, Unsetting,
                 RemoveEntry, Setup, Refuse
  <2> QED
    BY <2>1, EditEnds
<1>1. FileIsUsable /\ \A n \in Current(s) : n \in DOMAIN file /\ file[n] \in ClusterConfig
                            /\ file[n].server = s /\ Consistent(file[n].insecure, file[n].cert)
  BY DEF IInv, FileIsUsable, Current
<1> SUFFICES FileIsUsable' /\ Untouched
  BY <1>0 DEF IInv
<1>2. ASSUME NEW n \in Current(s), NEW c \in ClusterConfig, c.server = s,
             Consistent(c.insecure, c.cert), Save(n, c)
      PROVE  FileIsUsable' /\ Untouched
  <2>1. /\ FileIsUsable'
        /\ \A m \in DOMAIN file : m # n => m \in DOMAIN file' /\ file'[m] = file[m]
    BY <1>1, <1>2, ChangeKeepsFile
  <2> QED
    BY <1>0, <1>1, <2>1 DEF Untouched
<1>3. ASSUME NEW h \in Host, SetHost(s, h) PROVE FileIsUsable' /\ Untouched
  <2> DEFINE c == [server |-> s, host |-> h, insecure |-> FALSE, cert |-> Unset,
                   token |-> Unset]
  <2>1. CASE \E n \in Current(s) : Save(n, [file[n] EXCEPT !.host = h])
    <3>1. PICK n \in Current(s) : Save(n, [file[n] EXCEPT !.host = h])
      BY <2>1
    <3>2. file[n] \in ClusterConfig /\ file[n].server = s
          /\ Consistent(file[n].insecure, file[n].cert)
      BY <1>1
    <3>3. LET d == [file[n] EXCEPT !.host = h] IN
          d \in ClusterConfig /\ d.server = s /\ Consistent(d.insecure, d.cert)
      BY <3>2 DEF ClusterConfig
    <3> QED
      BY <1>2, <3>1, <3>3
  <2>2. CASE Current(s) = {} /\ Save(GenerateClusterName(s, file), c)
    <3>1. c \in ClusterConfig /\ c.server = s /\ Consistent(c.insecure, c.cert)
      BY DEF ClusterConfig, Consistent
    <3> HIDE DEF c
    <3>2. GenerateClusterName(s, file) \in EntryName \ DOMAIN file
      BY <1>1, FreeName
    <3>3. /\ FileIsUsable'
          /\ \A m \in DOMAIN file : m # GenerateClusterName(s, file)
                => m \in DOMAIN file' /\ file'[m] = file[m]
      BY <1>1, <2>2, <3>1, <3>2, AdditionKeepsFile DEF Save
    <3> QED
      BY <3>2, <3>3 DEF Untouched
  <2> QED
    BY <1>3, <2>1, <2>2 DEF SetHost
<1>4. ASSUME NEW a \in Cert, SetCertificateAuthority(s, a) PROVE FileIsUsable' /\ Untouched
  <2>1. PICK n \in Current(s) : Save(n, [file[n] EXCEPT !.cert = a, !.insecure = FALSE])
    BY <1>4 DEF SetCertificateAuthority
  <2>2. file[n] \in ClusterConfig /\ file[n].server = s
    BY <1>1
  <2>3. LET d == [file[n] EXCEPT !.cert = a, !.insecure = FALSE] IN
        d \in ClusterConfig /\ d.server = s /\ Consistent(d.insecure, d.cert)
    BY <2>2 DEF ClusterConfig, Consistent
  <2> QED
    BY <1>2, <2>1, <2>3
<1>5. ASSUME NEW b \in BOOLEAN, SetInsecure(s, b) PROVE FileIsUsable' /\ Untouched
  <2>1. PICK n \in Current(s) : /\ b => Consistent(b, file[n].cert)
                                /\ Save(n, [file[n] EXCEPT !.insecure = b])
    BY <1>5 DEF SetInsecure
  <2>2. file[n] \in ClusterConfig /\ file[n].server = s
    BY <1>1
  <2>3. LET d == [file[n] EXCEPT !.insecure = b] IN
        d \in ClusterConfig /\ d.server = s /\ Consistent(d.insecure, d.cert)
    BY <2>1, <2>2 DEF ClusterConfig, Consistent
  <2> QED
    BY <1>2, <2>1, <2>3
<1>6. ASSUME NEW t \in Bearer, SetToken(s, t) PROVE FileIsUsable' /\ Untouched
  <2>1. PICK n \in Current(s) : Save(n, [file[n] EXCEPT !.token = t])
    BY <1>6 DEF SetToken
  <2>2. file[n] \in ClusterConfig /\ file[n].server = s
        /\ Consistent(file[n].insecure, file[n].cert)
    BY <1>1
  <2>3. LET d == [file[n] EXCEPT !.token = t] IN
        d \in ClusterConfig /\ d.server = s /\ Consistent(d.insecure, d.cert)
    BY <2>2 DEF ClusterConfig
  <2> QED
    BY <1>2, <2>1, <2>3
<1>7. ASSUME Unsetting(s) PROVE FileIsUsable' /\ Untouched
  <2>1. PICK n \in Current(s) : \/ Save(n, [file[n] EXCEPT !.cert = Unset])
                                \/ Save(n, [file[n] EXCEPT !.token = Unset])
    BY <1>7 DEF Unsetting
  <2>2. file[n] \in ClusterConfig /\ file[n].server = s
        /\ Consistent(file[n].insecure, file[n].cert)
    BY <1>1
  <2>3. LET d == [file[n] EXCEPT !.cert = Unset] IN
        d \in ClusterConfig /\ d.server = s /\ Consistent(d.insecure, d.cert)
    BY <2>2 DEF ClusterConfig, Consistent
  <2>4. LET d == [file[n] EXCEPT !.token = Unset] IN
        d \in ClusterConfig /\ d.server = s /\ Consistent(d.insecure, d.cert)
    BY <2>2 DEF ClusterConfig
  <2> QED
    BY <1>2, <2>1, <2>3, <2>4
<1>8. ASSUME RemoveEntry(s) PROVE FileIsUsable' /\ Untouched
  <2>1. PICK n \in DOMAIN file : /\ named' = {n} \/ (n \in Current(s) /\ named' = {})
                                 /\ file' = Without(file, n)
    BY <1>8 DEF RemoveEntry
  <2>2. /\ FileIsUsable'
        /\ \A m \in DOMAIN file : m # n => m \in DOMAIN file' /\ file'[m] = file[m]
    BY <1>1, <2>1, RemovalKeepsFile
  <2> QED
    BY <1>0, <1>1, <2>1, <2>2 DEF Untouched
<1>9. ASSUME Setup(s) PROVE FileIsUsable' /\ Untouched
  BY <1>0, <1>1, <1>9, SetUpKeepsFile DEF Setup
<1>10. ASSUME Refuse(s) PROVE FileIsUsable' /\ Untouched
  BY <1>1, <1>10 DEF Refuse, FileIsUsable, Untouched
<1> QED
  BY <1>3, <1>4, <1>5, <1>6, <1>7, <1>8, <1>9, <1>10

-----------------------------------------------------------------------------
(* A command that asks KubeArchive begins                                  *)
LEMMA BeginKeeps ==
    ASSUME IInv, NEW s \in Server, NEW e \in Environment, Begin(s, e)
    PROVE  IInv' /\ Untouched
<1>1. /\ \E t \in StartToken(s, e) :
           opts' = [host |-> e.host, insecure |-> e.insecure, cert |-> e.cert,
                    token |-> t, ca |-> e.cert]
      /\ env' = opts' /\ fellBack' = Unset /\ step' = "firstTest" /\ file' = file
  BY DEF Begin
<1>2. /\ e.host \in Host \cup {Unset} /\ e.insecure \in BOOLEAN
      /\ e.cert \in Cert \cup {Unset} /\ e.token \in Bearer \cup {Unset}
  BY CliConfigAssumption DEF Setting
<1>3. StartToken(s, e) \subseteq Bearer \cup {Unset}
  <2>1. KubeToken \in Bearer \cup {Unset}
    BY CliConfigAssumption
  <2>2. \A n \in Current(s) : file[n].token \in Bearer \cup {Unset}
    BY DEF IInv, FileIsUsable, Current, ClusterConfig
  <2> QED
    BY <1>2, <2>1, <2>2 DEF StartToken
<1>4. opts' \in RetrieverOptions
  BY <1>1, <1>2, <1>3 DEF RetrieverOptions
<1>5. Connection'
  BY <1>1, <1>4 DEF Connection, Source
<1>6. FileIsUsable' /\ Untouched
  BY <1>1 DEF IInv, FileIsUsable, Untouched
<1>7. ResolvedAsAsked'
  BY <1>1 DEF ResolvedAsAsked
<1> QED
  BY <1>5, <1>6, <1>7 DEF IInv

(* A test: it can only be passed with settings that make a client          *)
LEMMA TestKeeps ==
    ASSUME IInv, step \in Trying,
           NEW passed \in {"lastTest", "ready"}, NEW failed \in {"load", "setup", "failed"},
           Test(passed, failed), UNCHANGED <<file, opts, env, fellBack>>
    PROVE  IInv' /\ Untouched
<1>1. opts \in RetrieverOptions /\ Source
  BY DEF IInv, Connection
<1>2. \/ /\ opts.token # Unset /\ Consistent(opts.insecure, opts.ca)
         /\ tested' = opts /\ step' = passed
      \/ step' = failed
  BY DEF Test
<1>3. Source'
  BY <1>1 DEF Source
<1>4. Connection'
  BY <1>1, <1>2, <1>3 DEF Connection
<1>5. FileIsUsable' /\ Untouched
  BY DEF IInv, FileIsUsable, Untouched
<1>6. ResolvedAsAsked'
  BY <1>2 DEF ResolvedAsAsked
<1> QED
  BY <1>4, <1>5, <1>6 DEF IInv

(* The settings of the file replace the others                             *)
LEMMA LoadKeeps ==
    ASSUME IInv, step \in Trying,
           NEW onward \in {"secondTest", "lastTest"}, NEW failed \in {"secondTest", "failed"},
           LoadPersistentConfig(onward, failed), UNCHANGED <<file, env>>
    PROVE  IInv' /\ Untouched
<1>1. opts \in RetrieverOptions /\ Source
  BY DEF IInv, Connection
<1>2. step' \in {onward, failed} /\ step' # "ready" /\ step' # "resolved"
  BY DEF LoadPersistentConfig
<1>3. opts' \in RetrieverOptions /\ Source'
  <2>1. CASE opts' = opts /\ fellBack' = fellBack
    BY <1>1, <2>1 DEF Source
  <2>2. CASE \E n \in Current(server), loaded \in BOOLEAN :
                opts' = Taken(n, loaded) /\ fellBack' = file[n]
    <3>1. PICK n \in Current(server), loaded \in BOOLEAN :
                  opts' = Taken(n, loaded) /\ fellBack' = file[n]
      BY <2>2
    <3>2. file[n] \in ClusterConfig
      BY DEF IInv, FileIsUsable, Current
    <3>3. /\ file[n].host \in Host \cup {Unset} /\ file[n].insecure \in BOOLEAN
          /\ file[n].cert \in Cert \cup {Unset} /\ file[n].token \in Bearer \cup {Unset}
          /\ file[n] # Unset
      BY <3>2, CliConfigAssumption DEF ClusterConfig
    <3>4. KubeToken \in Bearer \cup {Unset} /\ opts.ca \in Cert \cup {Unset}
      BY <1>1, CliConfigAssumption DEF RetrieverOptions
    <3>5. opts' = [host |-> file[n].host, insecure |-> file[n].insecure,
                   cert |-> file[n].cert,
                   token |-> IF file[n].token # Unset THEN file[n].token ELSE KubeToken,
                   ca |-> IF file[n].cert # Unset /\ loaded THEN file[n].cert ELSE opts.ca]
      BY <3>1 DEF Taken
    <3>6. opts' \in RetrieverOptions
      BY <3>3, <3>4, <3>5 DEF RetrieverOptions
    <3>7. /\ opts'.host = fellBack'.host /\ opts'.insecure = fellBack'.insecure
          /\ opts'.token \in {fellBack'.token, KubeToken} /\ fellBack' # Unset
      BY <3>1, <3>3, <3>5
    <3> QED
      BY <3>6, <3>7 DEF Source
  <2> QED
    BY <2>1, <2>2, Zenon DEF LoadPersistentConfig
<1>4. Connection'
  BY <1>2, <1>3 DEF Connection
<1>5. FileIsUsable' /\ Untouched
  BY DEF IInv, FileIsUsable, Untouched
<1>6. ResolvedAsAsked'
  BY <1>2 DEF ResolvedAsAsked
<1> QED
  BY <1>4, <1>5, <1>6 DEF IInv

(* CompleteRetriever                                                       *)
LEMMA CompleteRetrieverKeeps ==
    ASSUME IInv, CompleteRetriever PROVE IInv' /\ Untouched
<1>1. CASE FirstTest
  BY <1>1, TestKeeps DEF FirstTest, Trying
<1>2. CASE Load
  BY <1>2, LoadKeeps DEF Load, Trying
<1>3. CASE SecondTest
  BY <1>3, TestKeeps DEF SecondTest, Trying
<1>4. CASE OfferSetup
  <2>1. /\ step = "setup" /\ step' \in {"failed", "reload"}
        /\ file' = file \/ SetUp(server, file)
        /\ UNCHANGED <<server, opts, env, fellBack>>
    BY <1>4 DEF OfferSetup
  <2>2. FileIsUsable' /\ Untouched
    <3>1. CASE file' = file
      BY <3>1 DEF IInv, FileIsUsable, Untouched
    <3>2. CASE SetUp(server, file)
      BY <2>1, <3>2, SetUpKeepsFile DEF IInv
    <3> QED
      BY <2>1, <3>1, <3>2
  <2>3. Connection'
    BY <2>1 DEF IInv, Connection, Source, Trying
  <2>4. ResolvedAsAsked'
    BY <2>1 DEF ResolvedAsAsked
  <2> QED
    BY <2>2, <2>3, <2>4 DEF IInv
<1>5. CASE Reload
  BY <1>5, LoadKeeps DEF Reload, Trying
<1>6. CASE LastTest
  BY <1>6, TestKeeps DEF LastTest, Trying
<1> QED
  BY <1>1, <1>2, <1>3, <1>4, <1>5, <1>6 DEF CompleteRetriever

-----------------------------------------------------------------------------
(* The first of some places                                                *)
LEMMA FirstIsOne ==
    ASSUME NEW places \in SUBSET DOMAIN Discovery, places # {}
    PROVE  \E i \in places : First(places) = Discovery[i]
<1>1. places \in SUBSET Nat
  <2>1. DOMAIN Discovery = 1..Len(Discovery) /\ Len(Discovery) \in Nat
    BY CliConfigAssumption
  <2> QED
    BY <2>1
<1>2. \E i \in places : \A j \in places : i <= j
  BY <1>1, Least
<1> QED
  BY <1>2 DEF First

(* What is taken of the candidates is one of them, and it is of its        *)
(* group's preferred version if one of them is                             *)
LEMMA PreferredIsTaken ==
    ASSUME NEW cs \in SUBSET DOMAIN Discovery, cs # {},
           NEW info \in SelectPreferredResource(cs)
    PROVE  /\ \E i \in cs : info = Discovery[i]
           /\ \A j \in cs : /\ Discovery[j].group = info.group
                            /\ Discovery[j].version = PreferredVersion[info.group]
                            /\ PreferredVersion[info.group] # Unset
                            => info.version = PreferredVersion[info.group]
<1> DEFINE own(g) == {i \in cs : Discovery[i].group = g}
           pref(g) == {i \in own(g) : Discovery[i].version = PreferredVersion[g]}
<1>1. ASSUME NEW k \in cs, NEW x \in PickInGroup(cs, Discovery[k].group)
      PROVE  \/ \E i \in own(Discovery[k].group) : x = Discovery[i]
                 /\ Cardinality(own(Discovery[k].group)) = 1
             \/ \E i \in own(Discovery[k].group) : x = Discovery[i]
                 /\ PreferredVersion[Discovery[k].group] = Unset
             \/ \E i \in pref(Discovery[k].group) : x = Discovery[i]
  <2> DEFINE g == Discovery[k].group
  <2>1. own(g) \in SUBSET DOMAIN Discovery /\ own(g) # {} /\ pref(g) \in SUBSET DOMAIN Discovery
    OBVIOUS
  <2>2. \E i \in own(g) : First(own(g)) = Discovery[i]
    BY <2>1, FirstIsOne
  <2>3. pref(g) # {} => \E i \in pref(g) : First(pref(g)) = Discovery[i]
    BY <2>1, FirstIsOne
  <2>4. x \in IF Cardinality(own(g)) = 1 \/ PreferredVersion[g] = Unset THEN {First(own(g))}
              ELSE IF pref(g) # {} THEN {First(pref(g))} ELSE {}
    BY <1>1 DEF PickInGroup
  <2> HIDE DEF own, pref, g
  <2>5. CASE Cardinality(own(g)) = 1 \/ PreferredVersion[g] = Unset
    BY <2>2, <2>4, <2>5 DEF g
  <2>6. CASE ~(Cardinality(own(g)) = 1 \/ PreferredVersion[g] = Unset)
    BY <2>3, <2>4, <2>6 DEF g
  <2> QED
    BY <2>5, <2>6
<1>2. ASSUME NEW g, NEW i \in own(g), Cardinality(own(g)) = 1, NEW j \in own(g) PROVE i = j
  <2>1. IsFiniteSet(own(g))
    <3>1. IsFiniteSet(DOMAIN Discovery)
      <4>1. DOMAIN Discovery = 1..Len(Discovery) /\ Len(Discovery) \in Nat
        BY CliConfigAssumption
      <4> QED
        BY <4>1, FS_Interval
    <3>2. own(g) \subseteq DOMAIN Discovery
      OBVIOUS
    <3> HIDE DEF own
    <3> QED
      BY <3>1, <3>2, FS_Subset
  <2> HIDE DEF own
  <2>2. \E x : own(g) = {x}
    BY <1>2, <2>1, FS_Singleton
  <2> QED
    BY <1>2, <2>2
<1>3. CASE \E k \in cs : info \in PickInGroup(cs, Discovery[k].group)
  <2>1. PICK k \in cs : info \in PickInGroup(cs, Discovery[k].group)
    BY <1>3
  <2> DEFINE g == Discovery[k].group
  <2>2. CASE \E i \in own(g) : info = Discovery[i] /\ Cardinality(own(g)) = 1
    BY <1>2, <2>2
  <2>3. CASE \E i \in own(g) : info = Discovery[i] /\ PreferredVersion[g] = Unset
    BY <2>3
  <2>4. CASE \E i \in pref(g) : info = Discovery[i]
    BY <2>4
  <2> QED
    BY <1>1, <2>1, <2>2, <2>3, <2>4
<1>4. CASE /\ \A k \in cs : PickInGroup(cs, Discovery[k].group) = {}
           /\ info = First(cs)
  <2>1. PICK i \in cs : info = Discovery[i]
    BY <1>4, FirstIsOne
  <2>2. ASSUME NEW j \in cs, Discovery[j].group = info.group,
               Discovery[j].version = PreferredVersion[info.group]
        PROVE  FALSE
    <3>1. j \in pref(info.group)
      BY <2>2
    <3>2. PickInGroup(cs, Discovery[j].group) # {}
      BY <2>2, <3>1 DEF PickInGroup
    <3> QED
      BY <1>4, <3>2
  <2> QED
    BY <2>1, <2>2
<1> QED
  BY <1>3, <1>4, Zenon DEF SelectPreferredResource

(* A resource argument is resolved                                         *)
LEMMA ResolveKeeps ==
    ASSUME IInv, NEW spec \in ResourceSpec, ResolveResourceSpec(spec)
    PROVE  IInv' /\ Untouched
<1> DEFINE cs == Candidates(spec)
<1>1. /\ cs # {} /\ step' = "resolved" /\ file' = file
      /\ \E info \in SelectPreferredResource(cs) : resolved' = <<spec, info>>
  BY DEF ResolveResourceSpec
<1>2. PICK info \in SelectPreferredResource(cs) : resolved' = <<spec, info>>
  BY <1>1
<1>3. cs \in SUBSET DOMAIN Discovery
  BY DEF Candidates
<1>4. \A i \in DOMAIN Discovery :
        i \in cs <=> /\ spec.name \in Discovery[i].names
                     /\ spec.group # Unset => Discovery[i].group = spec.group
                     /\ spec.version # Unset => Discovery[i].version = spec.version
  BY DEF Candidates
<1> HIDE DEF cs
<1>5. /\ \E i \in cs : info = Discovery[i]
      /\ \A j \in cs : /\ Discovery[j].group = info.group
                       /\ Discovery[j].version = PreferredVersion[info.group]
                       /\ PreferredVersion[info.group] # Unset
                       => info.version = PreferredVersion[info.group]
  BY <1>1, <1>2, <1>3, PreferredIsTaken
<1>6. /\ spec.name \in info.names
      /\ spec.group \in {Unset, info.group}
      /\ spec.version \in {Unset, info.version}
  BY <1>3, <1>4, <1>5
<1>7. ASSUME spec.version = Unset, info.version # PreferredVersion[info.group],
             NEW i \in DOMAIN Discovery,
             spec.name \in Discovery[i].names, Discovery[i].group = info.group,
             Discovery[i].version = PreferredVersion[info.group]
      PROVE  FALSE
  <2>1. i \in cs
    BY <1>4, <1>6, <1>7
  <2>2. Discovery[i].version # Unset
    <3>1. Discovery \in Seq(ResourceInfo) /\ Unset \notin STRING
      BY CliConfigAssumption
    <3>2. Discovery[i] \in ResourceInfo
      BY <3>1
    <3> QED
      BY <3>1, <3>2 DEF ResourceInfo
  <2> QED
    BY <1>5, <1>7, <2>1, <2>2
<1>8. ResolvedAsAsked'
  <2>1. resolved'[1] = spec /\ resolved'[2] = info
    BY <1>2
  <2> QED
    BY <1>6, <1>7, <2>1 DEF ResolvedAsAsked
<1>9. FileIsUsable' /\ Untouched
  BY <1>1 DEF IInv, FileIsUsable, Untouched
<1>10. Connection'
  BY <1>1 DEF Connection, Trying
<1> QED
  BY <1>8, <1>9, <1>10 DEF IInv

-----------------------------------------------------------------------------
(* The invariant holds at first                                            *)
LEMMA InitInv == ConfigInit => IInv
  BY DEF ConfigInit, IInv, FileIsUsable, Connection, ResolvedAsAsked, Trying

(* No command and no step of one breaks it, or touches other entries       *)
LEMMA NextKeeps == IInv /\ [ConfigNext]_configVars => IInv' /\ [Untouched]_configVars
<1> SUFFICES ASSUME IInv, [ConfigNext]_configVars PROVE IInv' /\ [Untouched]_configVars
  OBVIOUS
<1>1. CASE UNCHANGED configVars
  <2>1. FileIsUsable' /\ Connection'
    BY <1>1 DEF configVars, IInv, FileIsUsable, Connection, Source
  <2>2. ResolvedAsAsked'
    BY <1>1 DEF configVars, IInv, ResolvedAsAsked
  <2> QED
    BY <1>1, <2>1, <2>2 DEF IInv
<1>2. CASE \E s \in Server :
             \/ \E h \in Host : SetHost(s, h)
             \/ \E c \in Cert : SetCertificateAuthority(s, c)
             \/ \E b \in BOOLEAN : SetInsecure(s, b)
             \/ \E t \in Bearer : SetToken(s, t)
             \/ Unsetting(s) \/ RemoveEntry(s) \/ Setup(s) \/ Refuse(s)
  BY <1>2, EditsKeep
<1>3. CASE \E s \in Server, e \in Environment : Begin(s, e)
  BY <1>3, BeginKeeps
<1>4. CASE CompleteRetriever
  BY <1>4, CompleteRetrieverKeeps
<1>5. CASE \E spec \in ResourceSpec : ResolveResourceSpec(spec)
  BY <1>5, ResolveKeeps
<1> QED
  BY <1>1, <1>2, <1>3, <1>4, <1>5, Zenon DEF ConfigNext

(* Behaviours keep it                                                      *)
LEMMA Inductive == ConfigSpec => []IInv
<1>1. IInv /\ [ConfigNext]_configVars => IInv'
  BY NextKeeps
<1> QED
  BY <1>1, InitInv, PTL DEF ConfigSpec

(* Whatever commands were run, the file has at most one entry for each     *)
(* cluster and none that no client could be made of (config set, unset,    *)
(* remove and setup); generateClusterName always finds a name.             *)
THEOREM FileIsUsableHolds == ConfigSpec => []FileIsUsable
<1>1. IInv => FileIsUsable
  BY DEF IInv
<1> QED
  BY <1>1, Inductive, PTL

(* No command changes the entry of a cluster other than its own unless the *)
(* user named that entry (generateClusterName, RunSetup and remove).       *)
THEOREM OthersUntouchedHolds == ConfigSpec => OthersUntouched
<1>1. IInv /\ [ConfigNext]_configVars => [Untouched]_configVars
  BY NextKeeps
<1>2. ConfigSpec => [][Untouched]_configVars
  BY <1>1, Inductive, PTL DEF ConfigSpec
<1> QED
  BY <1>2 DEF OthersUntouched, Untouched

(* CompleteRetriever ends only with settings that passed its last test,    *)
(* and these come from one place, whatever failed on the way there.        *)
THEOREM ReadyWasTestedHolds == ConfigSpec => []ReadyWasTested
<1>1. ASSUME IInv PROVE ReadyWasTested
  <2> SUFFICES ASSUME step = "ready" PROVE ReadyWasTested
    BY DEF ReadyWasTested
  <2>1. /\ opts \in RetrieverOptions /\ Source /\ tested = opts /\ opts.token # Unset
        /\ Consistent(opts.insecure, opts.ca)
    BY <1>1 DEF IInv, Connection
  <2>2. tested # Unset
    BY <2>1, CliConfigAssumption
  <2>3. (opts.insecure /\ opts.ca = Unset) = opts.insecure
    BY <2>1 DEF Consistent, RetrieverOptions
  <2> QED
    BY <2>1, <2>2, <2>3 DEF ReadyWasTested, Source, K9eRESTConfig
<1> QED
  BY <1>1, Inductive, PTL

(* ResolveResourceSpec answers with what was asked for, and with the       *)
(* preferred version when the version was left open, for any discovery.    *)
THEOREM ResolvedAsAskedHolds == ConfigSpec => []ResolvedAsAsked
<1>1. IInv => ResolvedAsAsked
  BY DEF IInv
<1> QED
  BY <1>1, Inductive, PTL

-----------------------------------------------------------------------------
(* kubectl ka get *)

Origin == {"cluster", "archive"}
Items == [obj : Object, in : SUBSET Origin]

\* What tells two objects apart for cmpResource.
Key(o) == <<created[o], NameOf[o]>>

\* The page is sorted, and no two of its items are the same object.
Ordered(r) ==
    \A i, j \in DOMAIN r : i < j => SortsBefore(r[i].obj, r[j].obj)

\* Everything on the page is before x.
AllBefore(r, x) == \A i \in DOMAIN r : SortsBefore(r[i].obj, x)

\* Object x, which source m returned, is on the page with a mark of m, or the
\* page is full without it and m is among the trimmed.
Noted(r, t, x, m, limit) ==
    \/ \E i \in DOMAIN r : Same(r[i].obj, x) /\ m \in r[i].in
    \/ m \in t /\ Len(r) = limit /\ AllBefore(r, x)

\* Every item is there because a source returned it, every mark too.
Sound(r, M) ==
    \A i \in DOMAIN r :
        /\ r[i].obj \in M["cluster"] \cup M["archive"] /\ r[i].in # {}
        /\ \A m \in r[i].in : \E x \in M[m] : Same(r[i].obj, x)

\* r and the trimmed sources t are made of M[m], what each source m returned.
Merged(r, t, M, limit) ==
    /\ Ordered(r) /\ Len(r) <= limit
    /\ Sound(r, M)
    /\ \A m \in Origin : \A x \in M[m] : Noted(r, t, x, m, limit)
    /\ t # {} => Len(r) = limit
    /\ \A m \in t : \E x \in M[m] : AllBefore(r, x)

\* What of the sources' objects matters to the command.
Fits(o) == line.name # None => NameOf[o] = line.name
InCluster == {o \in saw["cluster"] : Fits(o)}
InArchive == {o \in saw["archive"] : InBounds(o, line)}

\* P is what KubeArchive returned.
Returned(P) ==
    /\ P \subseteq InArchive
    /\ P # InArchive =>
         /\ line.name = None /\ "archive" \in more
         /\ Cardinality(P) = line.limit
         /\ \A p \in P : \A x \in InArchive \ P : created[p] >= created[x]

Answers(P) == [m \in Origin |-> IF m = "cluster" THEN InCluster ELSE P]

\* The list so far is the merge of what the sources returned.
MergedSoFar ==
    \E P \in SUBSET Object, T \in SUBSET Origin :
        /\ Returned(P) /\ Merged(list, T, Answers(P), line.limit)
        /\ T \subseteq more /\ more \subseteq T \cup {"archive"}
        /\ T # more => P # InArchive

\* The sources are asked in their order, and nothing is lost on the way.
Running == pc \in {"run", "done"}
Sourced ==
    /\ start \ lost \subseteq cluster \cup ToSet(archive)
    /\ saw["cluster"] # {} => cluster \subseteq saw["cluster"]
    /\ saw["cluster"] # {} => "cluster" \in source
    /\ saw["archive"] # {} => "archive" \in source
    /\ Origin \ source \subseteq notFound
    /\ turn = 1 => saw["cluster"] = {}
    /\ turn <= 2 => saw["archive"] = {}
    /\ turn >= 2 /\ "cluster" \notin notFound =>
         start \ lost \subseteq saw["cluster"] \cup ToSet(archive)
    /\ turn = 3 /\ notFound = {} =>
         start \ lost \subseteq saw["cluster"] \cup saw["archive"]

\* A name was one object's at a time in the cluster, and the archive
\* answered for a name with at most one.
Named ==
    /\ \A o, p \in cluster : NameOf[o] = NameOf[p] => o = p
    /\ \A o, p \in saw["cluster"] : NameOf[o] = NameOf[p] => o = p
    /\ Running /\ line.name # None => \A o, p \in InArchive : o = p

\* A later page of a walk that still asks KubeArchive: all that was shown is
\* no older than t, the second that --before names, and fewer objects of the
\* cluster than fill a page are newer.
WalkedTo(t, K) ==
    /\ Cardinality(K) < line.limit
    /\ line.name = None /\ line.before = 2 * t - 1
    /\ \A x \in shown : created[x] >= t
    /\ "cluster" \in source => \A x \in cluster : created[x] > t => Key(x) \in K
    /\ \A x \in saw["cluster"] : created[x] > t => Key(x) \in K

Walk ==
    Running /\ shown # {} /\ "archive" \in source =>
        \E t \in {created[o] : o \in Object},
           K \in SUBSET {Key(o) : o \in Object} : WalkedTo(t, K)

GetTypes ==
    /\ list \in Seq(Items) /\ archive \in Seq(Object)
    /\ saw \in [Origin -> SUBSET Object]
    /\ shown \subseteq Object /\ start \subseteq Object /\ lost \subseteq Object
    /\ pc = "shell" => list = <<>> /\ shown = {}
    /\ Running => line \in CommandLine /\ line.limit \in 1..1000
    /\ pc = "done" =>
         /\ turn = 3 /\ list # <<>>
         /\ next = IF more = {} THEN None ELSE NextLine

GetInv ==
    /\ TypeOK /\ GetTypes /\ Named
    /\ Running => MergedSoFar /\ Sourced
    /\ Walk

-----------------------------------------------------------------------------
(* The order of a page *)

\* Creation times are seconds.
Aged == created \in [Object -> Nat \ {0}]

\* cmpResource orders objects: irreflexive, transitive, total up to Same,
\* and Same objects stand at the same place.
LEMMA OrderFacts ==
    ASSUME Aged
    PROVE  /\ \A o \in Object : Same(o, o) /\ ~SortsBefore(o, o)
           /\ \A o, p \in Object :
                /\ Same(o, p) => Same(p, o) /\ ~SortsBefore(o, p) /\ created[o] = created[p]
                /\ SortsBefore(o, p) => ~SortsBefore(p, o) /\ ~Same(o, p) /\ created[o] >= created[p]
                /\ SortsBefore(o, p) \/ SortsBefore(p, o) \/ Same(o, p)
           /\ \A o, p, q \in Object :
                /\ SortsBefore(o, p) /\ SortsBefore(p, q) => SortsBefore(o, q)
                /\ SortsBefore(o, p) /\ Same(p, q) => SortsBefore(o, q)
                /\ Same(o, p) /\ SortsBefore(p, q) => SortsBefore(o, q)
                /\ Same(o, p) /\ Same(p, q) => Same(o, q)
<1>1. \A o \in Object : created[o] \in Int /\ NameOf[o] \in Int
  BY GetAssumption DEF Aged
<1> QED
  BY <1>1 DEF Same, SortsBefore

\* What an item has.
LEMMA ItemFacts ==
    ASSUME NEW x \in Items
    PROVE  x.obj \in Object /\ x.in \subseteq Origin
BY DEF Items

\* The objects before o on a sorted page are its first ones.
LEMMA Position ==
    ASSUME Aged, NEW r \in Seq(Items), Ordered(r), NEW o \in Object
    PROVE  /\ Cardinality({i \in DOMAIN r : SortsBefore(r[i].obj, o)}) \in 0..Len(r)
           /\ \A i \in DOMAIN r :
                i <= Cardinality({j \in DOMAIN r : SortsBefore(r[j].obj, o)})
                    <=> SortsBefore(r[i].obj, o)
<1> DEFINE B == {i \in DOMAIN r : SortsBefore(r[i].obj, o)}
           N == {i \in 1..(Len(r) + 1) : i \notin B}
<1>0. /\ Len(r) \in Nat /\ DOMAIN r = 1..Len(r)
      /\ \A i \in DOMAIN r : r[i].obj \in Object
  <2>1. Len(r) \in Nat /\ DOMAIN r = 1..Len(r) /\ \A i \in DOMAIN r : r[i] \in Items
    OBVIOUS
  <2> QED
    BY <2>1, ItemFacts
<1>1. N \in SUBSET Nat /\ Len(r) + 1 \in N
  BY <1>0
<1>2. PICK n \in N : \A j \in N : n <= j
  <2> HIDE DEF N
  <2> QED
    BY <1>1, Least
<1>3. n \in 1..(Len(r) + 1) /\ n - 1 \in Nat /\ n - 1 \in 0..Len(r)
  BY <1>0, <1>2
<1>4. \A i \in 1..Len(r) : i <= n - 1 => i \in B
  <2>1. SUFFICES ASSUME NEW i \in 1..Len(r), i <= n - 1, i \notin B PROVE FALSE
    OBVIOUS
  <2>2. i \in N
    BY <1>0, <2>1
  <2> QED
    BY <1>0, <1>2, <1>3, <2>1, <2>2
<1>5. \A i \in 1..Len(r) : i \in B => i <= n - 1
  <2>1. SUFFICES ASSUME NEW i \in 1..Len(r), i \in B, ~(i <= n - 1) PROVE FALSE
    OBVIOUS
  <2>2. n \in 1..Len(r) /\ n <= i /\ n # i
    BY <1>0, <1>2, <1>3, <2>1
  <2>3. SortsBefore(r[n].obj, r[i].obj)
    BY <1>0, <2>1, <2>2 DEF Ordered
  <2>4. SortsBefore(r[n].obj, o)
    BY <1>0, <2>1, <2>2, <2>3, OrderFacts
  <2>5. n \in B
    BY <1>0, <2>2, <2>4
  <2> QED
    BY <1>2, <2>5
<1>6. B = 1..(n - 1)
  <2>1. \A i : i \in 1..(n - 1) => i \in 1..Len(r) /\ i <= n - 1
    BY <1>0, <1>3
  <2>2. \A i : i \in B => i \in 1..Len(r) /\ i \in Int /\ i >= 1
    BY <1>0
  <2> HIDE DEF B
  <2>3. \A i : i \in B => i \in 1..(n - 1)
    BY <1>3, <1>5, <2>2
  <2> QED
    BY <1>4, <2>1, <2>3
<1>7. Cardinality(B) = n - 1
  <2> DEFINE k == n - 1
  <2>1. k \in Nat /\ 1 \in Nat
    BY <1>3
  <2>2. Cardinality(1..k) = IF 1 > k THEN 0 ELSE k - 1 + 1
    <3> HIDE DEF k
    <3> QED
      BY <2>1, FS_Interval
  <2>3. Cardinality(1..k) = k
    <3> HIDE DEF k
    <3> QED
      BY <2>1, <2>2
  <2> QED
    BY <1>6, <2>3
<1>8. \A i \in DOMAIN r : i \in B <=> SortsBefore(r[i].obj, o)
  OBVIOUS
<1> HIDE DEF B
<1>9. \A i \in 1..Len(r) : i <= Cardinality(B) <=> i \in B
  BY <1>4, <1>5, <1>7
<1>10. Cardinality(B) \in 0..Len(r)
  BY <1>3, <1>7
<1> QED
  BY <1>0, <1>8, <1>9, <1>10 DEF B

-----------------------------------------------------------------------------
(* One insertion *)

\* u is q with e put at k.
Inserted(u, q, k, e) ==
    /\ Len(u) = Len(q) + 1
    /\ \A j \in 1..(Len(q) + 1) :
         u[j] = IF j < k THEN q[j] ELSE IF j = k THEN e ELSE q[j - 1]

\* Where the members of InsertAt are.
LEMMA InsertAtFacts ==
    ASSUME NEW T, NEW q \in Seq(T), NEW k \in 1..(Len(q) + 1), NEW e \in T
    PROVE  InsertAt(q, k, e) \in Seq(T) /\ Inserted(InsertAt(q, k, e), q, k, e)
<1>0. Len(q) \in Nat /\ k \in Int /\ k >= 1 /\ k <= Len(q) + 1
  OBVIOUS
<1>1. PICK a : a = SubSeq(q, 1, k - 1)
  OBVIOUS
<1>2. PICK c : c = SubSeq(q, k, Len(q))
  OBVIOUS
<1>3. a \in Seq(T) /\ Len(a) = k - 1 /\ \A j \in 1..(k - 1) : a[j] = q[j]
  BY <1>0, <1>1
<1>4. c \in Seq(T) /\ Len(c) = Len(q) + 1 - k /\ \A j \in 1..(Len(q) + 1 - k) : c[j] = q[k + j - 1]
  BY <1>0, <1>2
<1>5. PICK d : d = a \o <<e>>
  OBVIOUS
<1>6. d \in Seq(T) /\ Len(d) = k /\ \A j \in 1..k : d[j] = IF j < k THEN q[j] ELSE e
  BY <1>0, <1>3, <1>5
<1>7. PICK f : f = d \o c
  OBVIOUS
<1>8. f \in Seq(T) /\ Len(f) = Len(q) + 1
  <2>1. f \in Seq(T) /\ Len(f) = Len(d) + Len(c)
    BY <1>4, <1>6, <1>7, ConcatProperties
  <2> QED
    BY <1>0, <1>4, <1>6, <2>1
<1>9. \A j \in 1..(Len(q) + 1) : f[j] = IF j <= k THEN d[j] ELSE c[j - k]
  BY <1>0, <1>4, <1>6, <1>7
<1>10. \A j \in 1..(Len(q) + 1) : j > k => c[j - k] = q[j - 1]
  <2>1. SUFFICES ASSUME NEW j \in 1..(Len(q) + 1), j > k PROVE c[j - k] = q[j - 1]
    OBVIOUS
  <2>2. j - k \in 1..(Len(q) + 1 - k) /\ k + (j - k) - 1 = j - 1
    BY <1>0, <2>1
  <2>3. c[j - k] = q[k + (j - k) - 1]
    BY <1>4, <2>2
  <2> QED
    BY <2>2, <2>3
<1>11. f = InsertAt(q, k, e)
  BY <1>1, <1>2, <1>5, <1>7 DEF InsertAt
<1>12. \A j \in 1..(Len(q) + 1) :
           f[j] = IF j < k THEN q[j] ELSE IF j = k THEN e ELSE q[j - 1]
  BY <1>0, <1>6, <1>9, <1>10
<1>13. Inserted(f, q, k, e)
  BY <1>8, <1>12 DEF Inserted
<1> QED
  BY <1>8, <1>11, <1>13

\* u is r with the mark s added to the item that is the same object as o.
MarkStep(r, u, o, s) ==
    /\ Len(u) = Len(r)
    /\ \E k \in 1..Len(r) :
         /\ Same(r[k].obj, o) /\ u[k].obj = r[k].obj /\ u[k].in = r[k].in \cup {s}
         /\ \A i \in 1..Len(r) : i # k => u[i] = r[i]

\* u is r with o put where it belongs, the last item pushed out or not.
PutStep(r, u, o, s) ==
    \E k \in 1..Len(u) :
        /\ u[k].obj = o /\ u[k].in = {s}
        /\ \A i \in 1..Len(r) : i < k => SortsBefore(r[i].obj, o)
        /\ \A i \in 1..Len(r) : i >= k => SortsBefore(o, r[i].obj)
        /\ \A i \in 1..Len(u) : i < k => i \in 1..Len(r) /\ u[i] = r[i]
        /\ \A i \in 1..Len(u) : i > k => i - 1 \in 1..Len(r) /\ u[i] = r[i - 1]

\* What an insertion into r, with t trimmed before, makes of them.
InsertStep(r, t, u, v, o, s, cap) ==
    \/ MarkStep(r, u, o, s) /\ v = t
    \/ Len(r) = cap /\ AllBefore(r, o) /\ u = r /\ v = t \cup {s}
    \/ Len(r) < cap /\ Len(u) = Len(r) + 1 /\ PutStep(r, u, o, s) /\ v = t
    \/ /\ Len(r) = cap /\ Len(u) = cap /\ PutStep(r, u, o, s)
       /\ SortsBefore(o, r[cap].obj) /\ v = t \cup r[cap].in

Accs == [list : Seq(Items), trimmed : SUBSET Origin]

\* A number above c that is at most one above b <= c.
LEMMA Squeeze ==
    ASSUME NEW a \in Int, NEW b \in Int, NEW c \in Int, a > c, a <= b + 1, b <= c
    PROVE  b = c /\ a = b + 1
OBVIOUS

\* Adding a mark to an item.
LEMMA MarkItem ==
    ASSUME NEW x \in Items, NEW m
    PROVE  [x EXCEPT !.in = @ \cup {m}] = [obj |-> x.obj, in |-> x.in \cup {m}]
BY DEF Items

\* Noting a source among the trimmed.
LEMMA TrimAcc ==
    ASSUME NEW x \in Accs, NEW m
    PROVE  [x EXCEPT !.trimmed = @ \cup {m}] = [list |-> x.list, trimmed |-> x.trimmed \cup {m}]
<1>1. PICK S : S = Seq(Items)
  OBVIOUS
<1>2. x \in [list : S, trimmed : SUBSET Origin]
  BY <1>1 DEF Accs
<1> QED
  BY <1>2

\* A place in a list that has room for one more.
LEMMA RoomAt ==
    ASSUME NEW n \in Nat, NEW c \in Nat, n <= c, n # c, NEW k \in 1..(n + 1), NEW m, m = n + 1
    PROVE  n < c /\ k \in 1..m /\ k \in Int /\ k >= 1
OBVIOUS

\* A round of insertSortedResourcesOptimized marks the item that is the same
\* object, trims the object, or puts it at its place, dropping the last one of
\* a full page.
LEMMA InsertCases ==
    ASSUME Aged, NEW acc \in Accs, Ordered(acc.list),
           NEW o \in Object, NEW s \in Origin, NEW cap \in Nat, cap >= 1,
           Len(acc.list) <= cap
    PROVE  \E u \in Seq(Items), v \in SUBSET Origin :
               /\ Insert(acc, o, s, cap) = [list |-> u, trimmed |-> v]
               /\ InsertStep(acc.list, acc.trimmed, u, v, o, s, cap)
<1>1. PICK r : r = acc.list
  OBVIOUS
<1>2. PICK t : t = acc.trimmed
  OBVIOUS
<1>3. /\ r \in Seq(Items) /\ t \in SUBSET Origin /\ acc = [list |-> r, trimmed |-> t]
  BY <1>1, <1>2 DEF Accs
<1>4. PICK n : n = Cardinality({i \in DOMAIN r : SortsBefore(r[i].obj, o)})
  OBVIOUS
<1>5. /\ n \in 0..Len(r) /\ \A i \in DOMAIN r : i <= n <=> SortsBefore(r[i].obj, o)
  BY <1>1, <1>3, <1>4, Position
<1>6. PICK k : k = 1 + n
  OBVIOUS
<1>7. /\ Len(r) \in Nat /\ DOMAIN r = 1..Len(r) /\ n \in Int /\ k \in 1..(Len(r) + 1)
      /\ Len(r) <= cap /\ \A i \in 1..Len(r) : r[i] \in Items
  BY <1>1, <1>3, <1>5, <1>6
<1>8. \A i \in 1..Len(r) : i < k <=> SortsBefore(r[i].obj, o)
  BY <1>5, <1>6, <1>7
<1>9. Insert(acc, o, s, cap) =
        IF k <= Len(r) /\ Same(r[k].obj, o)
        THEN [acc EXCEPT !.list[k].in = @ \cup {s}]
        ELSE IF k > cap THEN [acc EXCEPT !.trimmed = @ \cup {s}]
        ELSE IF Len(r) = cap
        THEN [list |-> InsertAt(Front(r), k, Item(o, s)),
              trimmed |-> t \cup Last(r).in]
        ELSE [acc EXCEPT !.list = InsertAt(r, k, Item(o, s))]
  BY <1>1, <1>2, <1>4, <1>6 DEF Insert
<1>10. Item(o, s) \in Items /\ Item(o, s).obj = o /\ Item(o, s).in = {s}
  BY DEF Item, Items
<1>11. \A i \in 1..Len(r) : r[i].obj \in Object /\ r[i].in \subseteq Origin
  BY <1>7, ItemFacts
<1>12. CASE k <= Len(r) /\ Same(r[k].obj, o)
  <2>1. k \in 1..Len(r) /\ r[k] \in Items
    BY <1>7, <1>12
  <2>2. PICK e : e = [obj |-> r[k].obj, in |-> r[k].in \cup {s}]
    OBVIOUS
  <2>3. e \in Items /\ e.obj = r[k].obj /\ e.in = r[k].in \cup {s}
    BY <1>11, <2>1, <2>2 DEF Items
  <2>4. [r[k] EXCEPT !.in = @ \cup {s}] = e
    <3>1. PICK x : x = r[k]
      OBVIOUS
    <3>2. x \in Items
      BY <2>1, <3>1
    <3>3. [x EXCEPT !.in = @ \cup {s}] = [obj |-> x.obj, in |-> x.in \cup {s}]
      BY <3>2, MarkItem
    <3> QED
      BY <2>2, <3>1, <3>3
  <2>5. PICK u : u = [r EXCEPT ![k] = e]
    OBVIOUS
  <2>6. /\ u \in Seq(Items) /\ Len(u) = Len(r) /\ u[k] = e
        /\ \A i \in 1..Len(r) : i # k => u[i] = r[i]
    BY <1>3, <1>7, <2>1, <2>3, <2>5
  <2>7. [acc EXCEPT !.list[k].in = @ \cup {s}] = [list |-> u, trimmed |-> t]
    <3>1. [r EXCEPT ![k].in = @ \cup {s}] = u
      BY <2>4, <2>5
    <3>2. [acc EXCEPT !.list[k].in = @ \cup {s}] = [acc EXCEPT !.list = [r EXCEPT ![k].in = @ \cup {s}]]
      BY <1>1
    <3>3. [acc EXCEPT !.list = u] = [list |-> u, trimmed |-> t]
      BY <1>3
    <3> QED
      BY <3>1, <3>2, <3>3
  <2>8. MarkStep(r, u, o, s)
    BY <1>12, <2>1, <2>3, <2>6 DEF MarkStep
  <2>9. Insert(acc, o, s, cap) = [list |-> u, trimmed |-> t]
    BY <1>9, <1>12, <2>7
  <2>10. InsertStep(r, t, u, t, o, s, cap)
    BY <2>8 DEF InsertStep
  <2> QED
    BY <1>1, <1>2, <1>3, <2>6, <2>9, <2>10
<1>13. CASE ~(k <= Len(r) /\ Same(r[k].obj, o)) /\ k > cap
  <2>0. k > cap /\ k <= Len(r) + 1 /\ k \in Int /\ Len(r) <= cap
    BY <1>7, <1>13
  <2>1. Len(r) = cap /\ k = Len(r) + 1
    <3>1. k \in Int /\ Len(r) \in Int /\ cap \in Int
      BY <1>7, <2>0
    <3> QED
      BY <2>0, <3>1, Squeeze
  <2>2. AllBefore(r, o)
    BY <1>7, <1>8, <2>1 DEF AllBefore
  <2>3. Insert(acc, o, s, cap) = [acc EXCEPT !.trimmed = @ \cup {s}]
    BY <1>9, <1>13
  <2>4. [acc EXCEPT !.trimmed = @ \cup {s}] = [list |-> r, trimmed |-> t \cup {s}]
    BY <1>1, <1>2, TrimAcc
  <2>5. InsertStep(r, t, r, t \cup {s}, o, s, cap)
    BY <2>1, <2>2 DEF InsertStep
  <2>6. t \cup {s} \in SUBSET Origin
    BY <1>3
  <2> QED
    BY <1>1, <1>2, <1>3, <2>3, <2>4, <2>5, <2>6
<1>14. CASE ~(k <= Len(r) /\ Same(r[k].obj, o)) /\ k <= cap
  <2>1. \A i \in 1..Len(r) : i >= k => SortsBefore(o, r[i].obj)
    <3>1. SUFFICES ASSUME NEW i \in 1..Len(r), i >= k PROVE SortsBefore(o, r[i].obj)
      OBVIOUS
    <3>2. k \in 1..Len(r) /\ k \in Int /\ k <= Len(r) /\ ~SortsBefore(r[k].obj, o)
      BY <1>7, <1>8, <3>1
    <3>3. SortsBefore(o, r[k].obj)
      BY <1>11, <1>14, <3>2, OrderFacts
    <3>4. CASE i = k
      BY <3>3, <3>4
    <3>5. CASE i # k
      <4>1. SortsBefore(r[k].obj, r[i].obj)
        BY <1>1, <1>7, <3>1, <3>2, <3>5 DEF Ordered
      <4> QED
        BY <1>11, <3>1, <3>2, <3>3, <4>1, OrderFacts
    <3> QED
      BY <3>4, <3>5
  <2>2. CASE Len(r) = cap
    <3>1. PICK f : f = Front(r)
      OBVIOUS
    <3>2. f \in Seq(Items) /\ Len(f) = Len(r) - 1 /\ \A i \in 1..(Len(r) - 1) : f[i] = r[i]
      BY <1>3, <1>7, <2>2, <3>1 DEF Front
    <3>3. PICK u : u = InsertAt(f, k, Item(o, s))
      OBVIOUS
    <3>4. k \in 1..(Len(f) + 1)
      BY <1>7, <1>14, <2>2, <3>2
    <3>5. /\ u \in Seq(Items) /\ Len(u) = Len(f) + 1
          /\ \A j \in 1..(Len(f) + 1) :
               u[j] = IF j < k THEN f[j] ELSE IF j = k THEN Item(o, s) ELSE f[j - 1]
      <4>1. u \in Seq(Items) /\ Inserted(u, f, k, Item(o, s))
        BY <1>10, <3>2, <3>3, <3>4, InsertAtFacts
      <4> QED
        BY <4>1 DEF Inserted
    <3>6. Len(u) = Len(r) /\ Len(u) = cap /\ k \in 1..Len(u) /\ k \in Int /\ k >= 1
      BY <1>7, <2>2, <3>2, <3>4, <3>5
    <3>7. u[k] = Item(o, s)
      BY <3>4, <3>5, <3>6
    <3>8. \A i \in 1..Len(u) : i < k => i \in 1..Len(r) /\ u[i] = r[i]
      <4>1. SUFFICES ASSUME NEW i \in 1..Len(u), i < k PROVE i \in 1..Len(r) /\ u[i] = r[i]
        OBVIOUS
      <4>2. i \in 1..(Len(f) + 1) /\ i \in 1..(Len(r) - 1)
        BY <1>7, <3>2, <3>6, <4>1
      <4> QED
        BY <1>7, <3>2, <3>5, <3>6, <4>1, <4>2
    <3>9. \A i \in 1..Len(u) : i > k => i - 1 \in 1..Len(r) /\ u[i] = r[i - 1]
      <4>1. SUFFICES ASSUME NEW i \in 1..Len(u), i > k PROVE i - 1 \in 1..Len(r) /\ u[i] = r[i - 1]
        OBVIOUS
      <4>2. i \in 1..(Len(f) + 1) /\ i - 1 \in 1..(Len(r) - 1) /\ ~(i < k) /\ i # k
        BY <1>7, <3>2, <3>6, <4>1
      <4>3. u[i] = f[i - 1] /\ f[i - 1] = r[i - 1]
        BY <3>2, <3>5, <4>2
      <4> QED
        BY <1>7, <4>2, <4>3
    <3>10. PutStep(r, u, o, s)
      BY <1>8, <1>10, <2>1, <3>6, <3>7, <3>8, <3>9 DEF PutStep
    <3>11. cap \in 1..Len(r) /\ cap >= k /\ Last(r) = r[cap]
      BY <1>7, <1>14, <2>2 DEF Last
    <3>12. SortsBefore(o, r[cap].obj) /\ t \cup r[cap].in \in SUBSET Origin
      BY <1>3, <1>11, <2>1, <3>11
    <3>13. Insert(acc, o, s, cap) = [list |-> u, trimmed |-> t \cup r[cap].in]
      <4>1. ~(k > cap)
        BY <1>7, <1>14
      <4> QED
        BY <1>9, <1>14, <2>2, <3>1, <3>3, <3>11, <4>1
    <3>14. InsertStep(r, t, u, t \cup r[cap].in, o, s, cap)
      BY <2>2, <3>6, <3>10, <3>12 DEF InsertStep
    <3> QED
      BY <1>1, <1>2, <3>5, <3>12, <3>13, <3>14
  <2>3. CASE Len(r) # cap
    <3>3. PICK u : u = InsertAt(r, k, Item(o, s))
      OBVIOUS
    <3>5. /\ u \in Seq(Items) /\ Len(u) = Len(r) + 1
          /\ \A j \in 1..(Len(r) + 1) :
               u[j] = IF j < k THEN r[j] ELSE IF j = k THEN Item(o, s) ELSE r[j - 1]
      <4>1. u \in Seq(Items) /\ Inserted(u, r, k, Item(o, s))
        BY <1>3, <1>7, <1>10, <3>3, InsertAtFacts
      <4> QED
        BY <4>1 DEF Inserted
    <3>6. Len(r) < cap /\ k \in 1..Len(u) /\ k \in Int /\ k >= 1
      <4>1. Len(r) \in Nat /\ k \in 1..(Len(r) + 1) /\ Len(r) <= cap
        BY <1>7
      <4>2. Len(u) = Len(r) + 1
        BY <3>5
      <4> QED
        BY <2>3, <4>1, <4>2, RoomAt
    <3>7. u[k] = Item(o, s)
      BY <1>7, <3>5, <3>6
    <3>8. \A i \in 1..Len(u) : i < k => i \in 1..Len(r) /\ u[i] = r[i]
      BY <1>7, <3>5, <3>6
    <3>9. \A i \in 1..Len(u) : i > k => i - 1 \in 1..Len(r) /\ u[i] = r[i - 1]
      <4>1. SUFFICES ASSUME NEW i \in 1..Len(u), i > k PROVE i - 1 \in 1..Len(r) /\ u[i] = r[i - 1]
        OBVIOUS
      <4>2. i \in 1..(Len(r) + 1) /\ i - 1 \in 1..Len(r) /\ ~(i < k) /\ i # k
        BY <1>7, <3>5, <3>6, <4>1
      <4> QED
        BY <3>5, <4>2
    <3>10. PutStep(r, u, o, s)
      BY <1>8, <1>10, <2>1, <3>6, <3>7, <3>8, <3>9 DEF PutStep
    <3>13. Insert(acc, o, s, cap) = [list |-> u, trimmed |-> t]
      <4>1. ~(k > cap)
        BY <1>7, <1>14
      <4>2. Insert(acc, o, s, cap) = [acc EXCEPT !.list = u]
        BY <1>9, <1>14, <2>3, <3>3, <4>1
      <4>3. [acc EXCEPT !.list = u] = [list |-> u, trimmed |-> t]
        BY <1>3
      <4> QED
        BY <4>2, <4>3
    <3>14. InsertStep(r, t, u, t, o, s, cap)
      BY <3>5, <3>6, <3>10 DEF InsertStep
    <3> QED
      BY <1>1, <1>2, <1>3, <3>5, <3>13, <3>14
  <2> QED
    BY <2>2, <2>3
<1> QED
  BY <1>7, <1>12, <1>13, <1>14

\* The page may be one item longer.
Longer(r, u) == Len(u) = Len(r) \/ Len(u) = Len(r) + 1

\* Putting an object in its place keeps the order, adds nothing else and
\* pushes out at most the last item.
LEMMA PutFacts ==
    ASSUME Aged, NEW r \in Seq(Items), NEW u \in Seq(Items), Ordered(r),
           NEW o \in Object, NEW s \in Origin, PutStep(r, u, o, s),
           Longer(r, u)
    PROVE  /\ Ordered(u)
           /\ \A i \in DOMAIN u : \/ u[i].obj = o /\ u[i].in = {s}
                                  \/ \E j \in DOMAIN r : u[i] = r[j]
           /\ \E i \in DOMAIN u : u[i].obj = o /\ u[i].in = {s}
           /\ \A j \in DOMAIN r : j < Len(u) => \E i \in DOMAIN u : u[i] = r[j]
<1>0. /\ Len(r) \in Nat /\ DOMAIN r = 1..Len(r) /\ \A i \in 1..Len(r) : r[i].obj \in Object
      /\ Len(u) \in Nat /\ DOMAIN u = 1..Len(u)
  <2>1. /\ Len(r) \in Nat /\ DOMAIN r = 1..Len(r) /\ \A i \in 1..Len(r) : r[i] \in Items
        /\ Len(u) \in Nat /\ DOMAIN u = 1..Len(u)
    OBVIOUS
  <2> QED
    BY <2>1, ItemFacts
<1>1. PICK k \in 1..Len(u) :
        /\ u[k].obj = o /\ u[k].in = {s}
        /\ \A i \in 1..Len(r) : i < k => SortsBefore(r[i].obj, o)
        /\ \A i \in 1..Len(r) : i >= k => SortsBefore(o, r[i].obj)
        /\ \A i \in 1..Len(u) : i < k => i \in 1..Len(r) /\ u[i] = r[i]
        /\ \A i \in 1..Len(u) : i > k => i - 1 \in 1..Len(r) /\ u[i] = r[i - 1]
  BY DEF PutStep
<1>2. k \in Int /\ k >= 1 /\ k <= Len(u)
  BY <1>0, <1>1
<1>3. ASSUME NEW i \in 1..Len(u), NEW j \in 1..Len(u), i < j
      PROVE  SortsBefore(u[i].obj, u[j].obj)
  <2>0. i \in Int /\ j \in Int
    BY <1>0
  <2>1. CASE i < k /\ j < k
    <3>1. i \in 1..Len(r) /\ j \in 1..Len(r) /\ u[i] = r[i] /\ u[j] = r[j]
      BY <1>1, <2>1
    <3> QED
      BY <1>0, <1>3, <3>1 DEF Ordered
  <2>2. CASE i < k /\ j = k
    <3>1. i \in 1..Len(r) /\ u[i] = r[i] /\ u[j].obj = o
      BY <1>1, <2>2
    <3> QED
      BY <1>1, <2>2, <3>1
  <2>3. CASE i < k /\ j > k
    <3>1. i \in 1..Len(r) /\ u[i] = r[i] /\ j - 1 \in 1..Len(r) /\ u[j] = r[j - 1] /\ i < j - 1
      BY <1>1, <1>2, <2>0, <2>3
    <3> QED
      BY <1>0, <3>1 DEF Ordered
  <2>4. CASE i = k
    <3>1. j > k
      BY <1>3, <2>4
    <3>2. u[i].obj = o /\ j - 1 \in 1..Len(r) /\ u[j] = r[j - 1] /\ j - 1 >= k
      BY <1>1, <1>2, <2>0, <2>4, <3>1
    <3> QED
      BY <1>1, <3>2
  <2>5. CASE i > k
    <3>1. j > k
      BY <1>2, <1>3, <2>0, <2>5
    <3>2. i - 1 \in 1..Len(r) /\ u[i] = r[i - 1] /\ j - 1 \in 1..Len(r) /\ u[j] = r[j - 1]
      BY <1>1, <2>5, <3>1
    <3>3. i - 1 < j - 1
      BY <1>3, <2>0
    <3> QED
      BY <1>0, <3>2, <3>3 DEF Ordered
  <2> QED
    BY <1>2, <2>0, <2>1, <2>2, <2>3, <2>4, <2>5
<1>4. Ordered(u)
  BY <1>0, <1>3 DEF Ordered
<1>5. ASSUME NEW i \in 1..Len(u)
      PROVE  (u[i].obj = o /\ u[i].in = {s}) \/ \E j \in DOMAIN r : u[i] = r[j]
  <2>1. i < k \/ i = k \/ i > k
    BY <1>0, <1>2
  <2> QED
    BY <1>0, <1>1, <2>1
<1>6. ASSUME NEW j \in 1..Len(r), j < Len(u)
      PROVE  \E i \in DOMAIN u : u[i] = r[j]
  <2>0. j \in Int /\ j >= 1
    BY <1>0
  <2>1. CASE j < k
    <3>1. j \in 1..Len(u)
      BY <1>0, <1>6, <2>0
    <3> QED
      BY <1>0, <1>1, <2>1, <3>1
  <2>2. CASE j >= k
    <3>1. j + 1 \in 1..Len(u) /\ j + 1 > k /\ (j + 1) - 1 = j
      BY <1>0, <1>2, <1>6, <2>0, <2>2
    <3>2. u[j + 1] = r[(j + 1) - 1]
      BY <1>1, <3>1
    <3> QED
      BY <1>0, <3>1, <3>2
  <2> QED
    BY <1>2, <2>0, <2>1, <2>2
<1> QED
  BY <1>0, <1>1, <1>4, <1>5, <1>6

\* M is what the sources had returned, N what they have with o from s.
Grown(M, N, o, s) ==
    /\ N[s] = M[s] \cup {o}
    /\ \A m \in Origin : m # s => N[m] = M[m]

\* The result has room for cap items, which are fewer than the limit only
\* when all that is returned fits.
Room(n, cap, limit) ==
    /\ cap >= 1 /\ cap <= limit /\ n <= cap
    /\ n = cap => cap = limit

\* What a page with room for another may become.
LEMMA RoomFacts ==
    ASSUME NEW n \in Nat, NEW cap \in Nat, NEW limit \in Nat, Room(n, cap, limit)
    PROVE  /\ n < cap => n # limit /\ n + 1 <= cap /\ n + 1 <= limit
           /\ n <= n + 1 /\ n <= n /\ n <= cap /\ n <= limit /\ cap \in 1..cap
           /\ n = cap => cap = limit
BY DEF Room

\* An insertion keeps the page a merge of what was returned.
LEMMA MergedStep ==
    ASSUME Aged, NEW r \in Seq(Items), NEW t \in SUBSET Origin,
           NEW u \in Seq(Items), NEW v \in SUBSET Origin,
           NEW o \in Object, NEW s \in Origin, NEW cap \in Nat, NEW limit \in Nat,
           Room(Len(r), cap, limit),
           InsertStep(r, t, u, v, o, s, cap),
           NEW M \in [Origin -> SUBSET Object], NEW N \in [Origin -> SUBSET Object],
           Merged(r, t, M, limit), Grown(M, N, o, s)
    PROVE  Merged(u, v, N, limit) /\ Len(u) <= cap /\ Len(u) <= Len(r) + 1 /\ Len(r) <= Len(u)
<1>0. /\ Len(r) \in Nat /\ DOMAIN r = 1..Len(r) /\ \A i \in 1..Len(r) : r[i].obj \in Object
      /\ \A i \in 1..Len(r) : r[i].in \subseteq Origin
      /\ Len(u) \in Nat /\ DOMAIN u = 1..Len(u) /\ \A i \in 1..Len(u) : u[i].obj \in Object
  <2>1. /\ Len(r) \in Nat /\ DOMAIN r = 1..Len(r) /\ \A i \in 1..Len(r) : r[i] \in Items
        /\ Len(u) \in Nat /\ DOMAIN u = 1..Len(u) /\ \A i \in 1..Len(u) : u[i] \in Items
    OBVIOUS
  <2> QED
    BY <2>1, ItemFacts
<1>1. /\ o \in N[s] /\ \A m \in Origin : M[m] \subseteq N[m] /\ N[m] \subseteq Object
      /\ \A m \in Origin : \A x \in N[m] : x \in M[m] \/ (m = s /\ x = o)
      /\ "cluster" \in Origin /\ "archive" \in Origin
  BY DEF Grown, Origin
<1>2. /\ Ordered(r) /\ Len(r) <= limit /\ Sound(r, M)
      /\ \A m \in Origin : \A x \in M[m] : Noted(r, t, x, m, limit)
      /\ t # {} => Len(r) = limit
      /\ \A m \in t : \E x \in M[m] : AllBefore(r, x)
  BY DEF Merged
<1>3. CASE MarkStep(r, u, o, s) /\ v = t
  <2>1. PICK k \in 1..Len(r) :
          /\ Same(r[k].obj, o) /\ u[k].obj = r[k].obj /\ u[k].in = r[k].in \cup {s}
          /\ \A i \in 1..Len(r) : i # k => u[i] = r[i]
    BY <1>3 DEF MarkStep
  <2>2. Len(u) = Len(r) /\ DOMAIN u = DOMAIN r
    BY <1>0, <1>3 DEF MarkStep
  <2>3. \A i \in DOMAIN r : u[i].obj = r[i].obj /\ r[i].in \subseteq u[i].in
    BY <1>0, <2>1
  <2>4. Ordered(u)
    <3>1. \A i, j \in DOMAIN r : i < j => SortsBefore(r[i].obj, r[j].obj)
      BY <1>2 DEF Ordered
    <3>2. \A i, j \in DOMAIN u : i < j => SortsBefore(u[i].obj, u[j].obj)
      BY <2>2, <2>3, <3>1
    <3> QED
      BY <3>2 DEF Ordered
  <2>5. \A x \in Object : AllBefore(r, x) => AllBefore(u, x)
    BY <2>2, <2>3 DEF AllBefore
  <2>6. Sound(u, N)
    <3>1. SUFFICES ASSUME NEW i \in DOMAIN u
                   PROVE  /\ u[i].obj \in N["cluster"] \cup N["archive"] /\ u[i].in # {}
                          /\ \A m \in u[i].in : \E x \in N[m] : Same(u[i].obj, x)
      BY DEF Sound
    <3>2. /\ r[i].obj \in M["cluster"] \cup M["archive"] /\ r[i].in # {}
          /\ \A m \in r[i].in : \E x \in M[m] : Same(r[i].obj, x)
      BY <1>2, <2>2, <3>1 DEF Sound
    <3>3. u[i].obj \in N["cluster"] \cup N["archive"] /\ u[i].in # {}
      BY <1>1, <2>2, <2>3, <3>1, <3>2
    <3>4. ASSUME NEW m \in u[i].in PROVE \E x \in N[m] : Same(u[i].obj, x)
      <4>1. m \in r[i].in \/ (i = k /\ m = s)
        BY <1>0, <2>1, <2>2, <3>1, <3>4
      <4>2. CASE m \in r[i].in
        <5>1. m \in Origin
          BY <1>0, <2>2, <3>1, <4>2
        <5> QED
          BY <1>1, <2>2, <2>3, <3>1, <3>2, <4>2, <5>1
      <4>3. CASE i = k /\ m = s
        BY <1>1, <2>1, <4>3
      <4> QED
        BY <4>1, <4>2, <4>3
    <3> QED
      BY <3>3, <3>4
  <2>7. ASSUME NEW m \in Origin, NEW x \in N[m] PROVE Noted(u, v, x, m, limit)
    <3>1. CASE x \in M[m]
      <4>1. Noted(r, t, x, m, limit) /\ x \in Object
        BY <1>1, <1>2, <3>1
      <4>2. CASE \E i \in DOMAIN r : Same(r[i].obj, x) /\ m \in r[i].in
        <5>1. PICK i \in DOMAIN r : Same(r[i].obj, x) /\ m \in r[i].in
          BY <4>2
        <5>2. i \in DOMAIN u /\ Same(u[i].obj, x) /\ m \in u[i].in
          BY <2>2, <2>3, <5>1
        <5> QED
          BY <5>2 DEF Noted
      <4>3. CASE m \in t /\ Len(r) = limit /\ AllBefore(r, x)
        BY <1>3, <2>2, <2>5, <4>1, <4>3 DEF Noted
      <4> QED
        BY <4>1, <4>2, <4>3 DEF Noted
    <3>2. CASE m = s /\ x = o
      <4>1. k \in DOMAIN u /\ Same(u[k].obj, x) /\ m \in u[k].in
        BY <1>0, <2>1, <2>2, <3>2
      <4> QED
        BY <4>1 DEF Noted
    <3> QED
      BY <1>1, <2>7, <3>1, <3>2
  <2>8. (v # {} => Len(u) = limit) /\ \A m \in v : \E x \in N[m] : AllBefore(u, x)
    BY <1>1, <1>2, <1>3, <2>2, <2>5
  <2>9. Merged(u, v, N, limit)
    BY <1>2, <2>2, <2>4, <2>6, <2>7, <2>8 DEF Merged
  <2> QED
    BY <1>0, <2>2, <2>9, RoomFacts
<1>4. CASE Len(r) = cap /\ AllBefore(r, o) /\ u = r /\ v = t \cup {s}
  <2>1. Sound(r, N)
    <3>1. SUFFICES ASSUME NEW i \in DOMAIN r
                   PROVE  /\ r[i].obj \in N["cluster"] \cup N["archive"] /\ r[i].in # {}
                          /\ \A m \in r[i].in : \E x \in N[m] : Same(r[i].obj, x)
      BY DEF Sound
    <3>2. /\ r[i].obj \in M["cluster"] \cup M["archive"] /\ r[i].in # {}
          /\ \A m \in r[i].in : m \in Origin /\ \E x \in M[m] : Same(r[i].obj, x)
      BY <1>0, <1>2, <3>1 DEF Sound
    <3> QED
      BY <1>1, <3>2
  <2>0. Len(r) = limit
    BY <1>0, <1>4, RoomFacts
  <2>2. ASSUME NEW m \in Origin, NEW x \in N[m] PROVE Noted(u, v, x, m, limit)
    <3>1. CASE x \in M[m]
      <4>1. Noted(r, t, x, m, limit)
        BY <1>2, <3>1
      <4> QED
        BY <1>4, <4>1 DEF Noted
    <3>2. CASE m = s /\ x = o
      BY <1>4, <2>0, <3>2 DEF Noted
    <3> QED
      BY <1>1, <2>2, <3>1, <3>2
  <2>3. (v # {} => Len(u) = limit) /\ \A m \in v : \E x \in N[m] : AllBefore(u, x)
    BY <1>1, <1>2, <1>4, <2>0
  <2>4. Merged(u, v, N, limit)
    BY <1>2, <1>4, <2>1, <2>2, <2>3 DEF Merged
  <2> QED
    BY <1>0, <1>4, <2>4, RoomFacts
<1>5. CASE PutStep(r, u, o, s) /\ Longer(r, u)
  <2>1. /\ Ordered(u)
        /\ \A i \in DOMAIN u : \/ u[i].obj = o /\ u[i].in = {s}
                               \/ \E j \in DOMAIN r : u[i] = r[j]
        /\ \E i \in DOMAIN u : u[i].obj = o /\ u[i].in = {s}
        /\ \A j \in DOMAIN r : j < Len(u) => \E i \in DOMAIN u : u[i] = r[j]
    BY <1>2, <1>5, PutFacts
  <2>2. Sound(u, N)
    <3>1. SUFFICES ASSUME NEW i \in DOMAIN u
                   PROVE  /\ u[i].obj \in N["cluster"] \cup N["archive"] /\ u[i].in # {}
                          /\ \A m \in u[i].in : \E x \in N[m] : Same(u[i].obj, x)
      BY DEF Sound
    <3>2. CASE u[i].obj = o /\ u[i].in = {s}
      <4>1. Same(o, o) /\ (s = "cluster" \/ s = "archive")
        BY OrderFacts DEF Origin
      <4> QED
        BY <1>1, <3>2, <4>1
    <3>3. CASE \E j \in DOMAIN r : u[i] = r[j]
      <4>1. PICK j \in DOMAIN r : u[i] = r[j]
        BY <3>3
      <4>2. /\ r[j].obj \in M["cluster"] \cup M["archive"] /\ r[j].in # {}
            /\ \A m \in r[j].in : m \in Origin /\ \E x \in M[m] : Same(r[j].obj, x)
        BY <1>0, <1>2, <4>1 DEF Sound
      <4> QED
        BY <1>1, <4>1, <4>2
    <3> QED
      BY <2>1, <3>1, <3>2, <3>3
  <2>3. Noted(u, v, o, s, limit)
    <3>1. PICK i \in DOMAIN u : u[i].obj = o /\ u[i].in = {s}
      BY <2>1
    <3>2. Same(u[i].obj, o) /\ s \in u[i].in
      BY <3>1, OrderFacts
    <3> QED
      BY <3>2 DEF Noted
  <2>4. CASE Len(r) < cap /\ Len(u) = Len(r) + 1 /\ v = t
    <3>1. t = {}
      <4>1. Len(r) # limit
        BY <1>0, <2>4, RoomFacts
      <4> QED
        BY <1>2, <4>1
    <3>2. ASSUME NEW m \in Origin, NEW x \in M[m] PROVE Noted(u, v, x, m, limit)
      <4>1. PICK j \in DOMAIN r : Same(r[j].obj, x) /\ m \in r[j].in
        BY <1>2, <3>1, <3>2 DEF Noted
      <4>2. j < Len(u)
        BY <1>0, <2>4
      <4>3. PICK i \in DOMAIN u : u[i] = r[j]
        BY <2>1, <4>2
      <4> QED
        BY <4>1, <4>3 DEF Noted
    <3>3. \A m \in Origin : \A x \in N[m] : Noted(u, v, x, m, limit)
      BY <1>1, <2>3, <3>2
    <3>4. Len(u) <= cap /\ Len(u) <= limit
      BY <1>0, <2>4, RoomFacts
    <3>5. Merged(u, v, N, limit)
      BY <2>1, <2>2, <2>4, <3>1, <3>3, <3>4 DEF Merged
    <3> QED
      BY <1>0, <2>4, <3>4, <3>5
  <2>5. CASE /\ Len(r) = cap /\ Len(u) = cap
             /\ SortsBefore(o, r[cap].obj) /\ v = t \cup r[cap].in
    <3>1. cap = limit /\ cap \in 1..Len(r) /\ r[cap].obj \in Object
      BY <1>0, <2>5, RoomFacts
    <3>2. AllBefore(u, r[cap].obj)
      <4>1. SUFFICES ASSUME NEW i \in DOMAIN u PROVE SortsBefore(u[i].obj, r[cap].obj)
        BY DEF AllBefore
      <4>2. PICK k \in 1..Len(u) :
              /\ u[k].obj = o
              /\ \A h \in 1..Len(u) : h < k => h \in 1..Len(r) /\ u[h] = r[h]
              /\ \A h \in 1..Len(u) : h > k => h - 1 \in 1..Len(r) /\ u[h] = r[h - 1]
        BY <1>5 DEF PutStep
      <4>3. k \in Int /\ i \in Int /\ i \in 1..Len(u) /\ k <= cap /\ i <= cap
        BY <1>0, <2>5
      <4>4. CASE i < k
        <5>1. i \in 1..Len(r) /\ u[i] = r[i] /\ i < cap
          BY <4>2, <4>3, <4>4
        <5> QED
          BY <1>0, <1>2, <3>1, <5>1 DEF Ordered
      <4>5. CASE i = k
        BY <2>5, <4>2, <4>5
      <4>6. CASE i > k
        <5>1. i - 1 \in 1..Len(r) /\ u[i] = r[i - 1] /\ i - 1 < cap
          BY <4>2, <4>3, <4>6
        <5> QED
          BY <1>0, <1>2, <3>1, <5>1 DEF Ordered
      <4> QED
        BY <4>3, <4>4, <4>5, <4>6
    <3>3. ASSUME NEW x \in Object, SortsBefore(r[cap].obj, x) \/ Same(r[cap].obj, x)
          PROVE  AllBefore(u, x)
      <4>1. \A i \in DOMAIN u : SortsBefore(u[i].obj, r[cap].obj) /\ u[i].obj \in Object
        BY <1>0, <3>2 DEF AllBefore
      <4> QED
        BY <3>1, <3>3, <4>1, OrderFacts DEF AllBefore
    <3>4. ASSUME NEW x \in Object, AllBefore(r, x) PROVE AllBefore(u, x)
      BY <1>0, <3>1, <3>3, <3>4 DEF AllBefore
    <3>5. ASSUME NEW m \in Origin, NEW x \in M[m] PROVE Noted(u, v, x, m, limit)
      <4>1. Noted(r, t, x, m, limit) /\ x \in Object
        BY <1>1, <1>2, <3>5
      <4>2. CASE m \in t /\ AllBefore(r, x)
        BY <2>5, <3>1, <3>4, <4>1, <4>2 DEF Noted
      <4>3. CASE \E i \in DOMAIN r : Same(r[i].obj, x) /\ m \in r[i].in
        <5>1. PICK j \in DOMAIN r : Same(r[j].obj, x) /\ m \in r[j].in
          BY <4>3
        <5>2. CASE j = cap
          <6>1. AllBefore(u, x) /\ m \in v
            BY <2>5, <3>3, <4>1, <5>1, <5>2
          <6> QED
            BY <2>5, <3>1, <6>1 DEF Noted
        <5>3. CASE j # cap
          <6>1. j < Len(u)
            BY <1>0, <2>5, <5>3
          <6>2. PICK i \in DOMAIN u : u[i] = r[j]
            BY <2>1, <6>1
          <6> QED
            BY <5>1, <6>2 DEF Noted
        <5> QED
          BY <5>2, <5>3
      <4> QED
        BY <4>1, <4>2, <4>3 DEF Noted
    <3>6. \A m \in Origin : \A x \in N[m] : Noted(u, v, x, m, limit)
      BY <1>1, <2>3, <3>5
    <3>7. ASSUME NEW m \in v PROVE \E x \in N[m] : AllBefore(u, x)
      <4>1. m \in Origin
        OBVIOUS
      <4>2. CASE m \in t
        <5>1. PICK x \in M[m] : AllBefore(r, x)
          BY <1>2, <4>2
        <5>2. x \in N[m] /\ x \in Object
          BY <1>1, <4>1, <5>1
        <5> QED
          BY <3>4, <5>1, <5>2
      <4>3. CASE m \in r[cap].in
        <5>1. PICK x \in M[m] : Same(r[cap].obj, x)
          BY <1>0, <1>2, <3>1, <4>3 DEF Sound
        <5>2. x \in N[m] /\ x \in Object
          BY <1>1, <4>1, <5>1
        <5> QED
          BY <3>3, <5>1, <5>2
      <4> QED
        BY <2>5, <3>7, <4>2, <4>3
    <3>8. Merged(u, v, N, limit)
      BY <1>2, <2>1, <2>2, <2>5, <3>1, <3>6, <3>7 DEF Merged
    <3> QED
      BY <1>0, <2>5, <3>8, RoomFacts
  <2>6. QED
    BY <1>0, <1>3, <1>4, <2>4, <2>5 DEF InsertStep
<1> QED
  BY <1>0, <1>3, <1>4, <1>5 DEF InsertStep, Longer

-----------------------------------------------------------------------------
(* The whole loop *)

\* Not to be unfolded: one round of the loop.
Round(acc, o, s, cap) == Insert(acc, o, s, cap)

\* f[i] is the result after i rounds, of n.
Rounds(f, n, init, res, s, cap) ==
    /\ f = [i \in 0..n |-> f[i]] /\ f[0] = [list |-> init, trimmed |-> {}]
    /\ \A i \in 1..n : f[i] = Round(f[i - 1], res[i], s, cap)

\* The rounds of the loop have results, as many as there are resources.
LEMMA RoundsExist ==
    ASSUME NEW init, NEW res, NEW s, NEW cap, NEW n \in Nat
    PROVE  \E f : Rounds(f, n, init, res, s, cap)
<1> DEFINE Bad == {i \in Nat : ~\E f : Rounds(f, i, init, res, s, cap)}
<1>1. SUFFICES ASSUME n \in Bad PROVE FALSE
  OBVIOUS
<1>2. PICK k \in Bad : \A j \in Bad : k <= j
  <2>1. Bad \in SUBSET Nat
    OBVIOUS
  <2> HIDE DEF Bad
  <2> QED
    BY <1>1, <2>1, Least
<1>3. CASE k = 0
  <2>1. PICK b : b = [list |-> init, trimmed |-> {}]
    OBVIOUS
  <2>2. PICK f : f = [i \in 0..0 |-> b]
    OBVIOUS
  <2>3. f = [i \in 0..0 |-> f[i]] /\ f[0] = b /\ 1..0 = {}
    BY <2>2
  <2>4. Rounds(f, 0, init, res, s, cap)
    BY <2>1, <2>3 DEF Rounds
  <2> QED
    BY <1>2, <1>3, <2>4
<1>4. CASE k # 0
  <2>1. k \in Nat /\ k - 1 \in Nat /\ ~(k <= k - 1)
    BY <1>2, <1>4
  <2>2. PICK f : Rounds(f, k - 1, init, res, s, cap)
    BY <1>2, <2>1
  <2>3. PICK e : e = Round(f[k - 1], res[k], s, cap)
    OBVIOUS
  <2>4. PICK g : g = [i \in 0..k |-> IF i = k THEN e ELSE f[i]]
    OBVIOUS
  <2>5. g = [i \in 0..k |-> g[i]] /\ \A i \in 0..k : g[i] = IF i = k THEN e ELSE f[i]
    BY <2>4
  <2>6. g[0] = f[0] /\ g[k - 1] = f[k - 1] /\ g[k] = e
    BY <1>4, <2>1, <2>5
  <2>7. ASSUME NEW i \in 1..k PROVE g[i] = Round(g[i - 1], res[i], s, cap)
    <3>1. CASE i = k
      BY <2>3, <2>6, <3>1
    <3>2. CASE i # k
      <4>1. i \in 1..(k - 1) /\ i \in 0..k /\ i - 1 \in 0..k /\ i - 1 # k
        BY <2>1, <3>2
      <4>2. g[i] = f[i] /\ g[i - 1] = f[i - 1]
        BY <2>5, <3>2, <4>1
      <4> QED
        BY <2>2, <4>1, <4>2 DEF Rounds
    <3> QED
      BY <3>1, <3>2
  <2>8. Rounds(g, k, init, res, s, cap)
    BY <2>2, <2>5, <2>6, <2>7 DEF Rounds
  <2> QED
    BY <1>2, <2>8
<1> QED
  BY <1>3, <1>4

\* The lesser of two numbers.
LEMMA MinOfTwo ==
    ASSUME NEW a \in Nat, NEW b \in Nat
    PROVE  /\ Min({a, b}) \in Nat /\ Min({a, b}) <= a /\ Min({a, b}) <= b
           /\ Min({a, b}) = a \/ Min({a, b}) = b
<1>1. \E x \in {a, b} : \A y \in {a, b} : x =< y
  OBVIOUS
<1>2. Min({a, b}) \in {a, b} /\ \A y \in {a, b} : Min({a, b}) =< y
  BY <1>1 DEF Min
<1> QED
  BY <1>2

\* InsertSorted is what the last round leaves.
LEMMA InsertSortedRounds ==
    ASSUME NEW init, NEW res, NEW s, NEW limit, Len(res) \in Nat
    PROVE  \E f : /\ Rounds(f, Len(res), init, res, s, Min({Len(init) + Len(res), limit}))
                  /\ InsertSorted(init, res, s, limit) = f[Len(res)]
<1> DEFINE cap == Min({Len(init) + Len(res), limit})
           Is(g) == g = [n \in 0..Len(res) |->
                           IF n = 0 THEN [list |-> init, trimmed |-> {}]
                           ELSE Insert(g[n - 1], res[n], s, cap)]
           h == CHOOSE g : Is(g)
<1>1. InsertSorted(init, res, s, limit) = h[Len(res)]
  BY DEF InsertSorted
<1> HIDE DEF cap
<1>2. PICK f : Rounds(f, Len(res), init, res, s, cap)
  BY RoundsExist
<1>3. Is(f)
  <2>1. \A n \in 0..Len(res) : f[n] = IF n = 0 THEN [list |-> init, trimmed |-> {}]
                                      ELSE Insert(f[n - 1], res[n], s, cap)
    <3>1. ASSUME NEW n \in 0..Len(res), n # 0 PROVE f[n] = Insert(f[n - 1], res[n], s, cap)
      <4>1. n \in 1..Len(res)
        BY <3>1
      <4> QED
        BY <1>2, <4>1 DEF Rounds, Round
    <3> QED
      BY <1>2, <3>1 DEF Rounds
  <2>2. f = [n \in 0..Len(res) |-> f[n]]
    BY <1>2 DEF Rounds
  <2>3. [n \in 0..Len(res) |-> f[n]] = [n \in 0..Len(res) |->
                        IF n = 0 THEN [list |-> init, trimmed |-> {}]
                        ELSE Insert(f[n - 1], res[n], s, cap)]
    BY <2>1
  <2> QED
    BY <2>2, <2>3
<1>4. Is(h)
  <2> HIDE DEF Is
  <2> QED
    BY <1>3
<1>5. Rounds(h, Len(res), init, res, s, cap)
  <2> HIDE DEF h
  <2>1. h = [n \in 0..Len(res) |-> h[n]] /\ \A n \in 0..Len(res) :
           h[n] = IF n = 0 THEN [list |-> init, trimmed |-> {}]
                  ELSE Insert(h[n - 1], res[n], s, cap)
    BY <1>4
  <2>2. h[0] = [list |-> init, trimmed |-> {}]
    BY <2>1
  <2>3. ASSUME NEW i \in 1..Len(res) PROVE h[i] = Round(h[i - 1], res[i], s, cap)
    <3>1. i \in 0..Len(res) /\ i # 0
      OBVIOUS
    <3> QED
      BY <2>1, <3>1 DEF Round
  <2> QED
    BY <2>1, <2>2, <2>3 DEF Rounds
<1> QED
  BY <1>1, <1>5 DEF cap

\* The sources that had already trimmed something stay so.
LEMMA InsertStepWith ==
    ASSUME NEW r, NEW t, NEW u, NEW v, NEW o, NEW s, NEW cap, NEW T,
           InsertStep(r, t, u, v, o, s, cap)
    PROVE  InsertStep(r, T \cup t, u, T \cup v, o, s, cap)
BY DEF InsertStep

\* What f is at 1..n.
Values(f, n) == {f[i] : i \in 1..n}

\* What the sources have returned when s has got to its n-th object.
Partly(M, s, res, n) == [M EXCEPT ![s] = Values(res, n)]

\* A round adds one object to what the source has returned.
LEMMA PartlyGrows ==
    ASSUME NEW M \in [Origin -> SUBSET Object], NEW s \in Origin,
           NEW res \in Seq(Object), NEW n \in 1..Len(res)
    PROVE  /\ Partly(M, s, res, n - 1) \in [Origin -> SUBSET Object]
           /\ Partly(M, s, res, n) \in [Origin -> SUBSET Object]
           /\ Grown(Partly(M, s, res, n - 1), Partly(M, s, res, n), res[n], s)
<1>0. Len(res) \in Nat /\ n \in Int /\ n >= 1 /\ n <= Len(res)
  OBVIOUS
<1>1. PICK A : A = {res[i] : i \in 1..(n - 1)}
  OBVIOUS
<1>2. PICK B : B = {res[i] : i \in 1..n}
  OBVIOUS
<1>3. \A i \in 1..n : i \in 1..Len(res) /\ (i \in 1..(n - 1) \/ i = n)
  BY <1>0
<1>4. n \in 1..n /\ \A i \in 1..(n - 1) : i \in 1..n
  BY <1>0
<1>5. B \subseteq Object /\ A \subseteq B /\ B = A \cup {res[n]}
  BY <1>1, <1>2, <1>3, <1>4
<1>6. Partly(M, s, res, n - 1) = [M EXCEPT ![s] = A] /\ Partly(M, s, res, n) = [M EXCEPT ![s] = B]
  BY <1>1, <1>2 DEF Partly, Values
<1> QED
  BY <1>5, <1>6 DEF Grown

\* How far the loop has got after n rounds.
After(a, n, T, M, s, init, res, limit, cap) ==
    /\ a \in Accs
    /\ Merged(a.list, T \cup a.trimmed, Partly(M, s, res, n), limit)
    /\ Len(a.list) <= cap /\ Len(a.list) <= Len(init) + n

\* The result is never longer than both the limit and all there is.
Capped(cap, a, b, limit) == limit >= 1 /\ cap = Min({a + b, limit})

\* A page is full only at the limit while there are resources left.
LEMMA RoomLeft ==
    ASSUME NEW l \in Nat, NEW a \in Nat, NEW b \in Nat, NEW limit \in Nat, NEW cap,
           NEW n \in 1..b, Capped(cap, a, b, limit), l <= cap, l <= a + (n - 1)
    PROVE  Room(l, cap, limit) /\ cap \in Nat /\ cap >= 1
<1>1. a + b \in Nat
  OBVIOUS
<1>2. cap \in Nat /\ cap <= a + b /\ cap <= limit /\ (cap = a + b \/ cap = limit)
  BY <1>1, MinOfTwo DEF Capped
<1> QED
  BY <1>2 DEF Room, Capped

\* A round of the loop keeps the page the merge of what was returned so far.
LEMMA AfterRound ==
    ASSUME Aged, NEW init \in Seq(Items), NEW res \in Seq(Object), NEW s \in Origin,
           NEW limit \in Nat, NEW cap, Capped(cap, Len(init), Len(res), limit),
           NEW M \in [Origin -> SUBSET Object], NEW T \in SUBSET Origin,
           NEW n \in 1..Len(res), NEW a, After(a, n - 1, T, M, s, init, res, limit, cap)
    PROVE  After(Round(a, res[n], s, cap), n, T, M, s, init, res, limit, cap)
<1>1. Len(init) \in Nat /\ Len(res) \in Nat /\ Len(init) + Len(res) \in Nat /\ res[n] \in Object
  OBVIOUS
<1>3. PICK r : r = a.list
  OBVIOUS
<1>4. PICK t : t = a.trimmed
  OBVIOUS
<1>5. PICK N : N = Partly(M, s, res, n - 1)
  OBVIOUS
<1>6. /\ a \in Accs /\ r \in Seq(Items) /\ t \in SUBSET Origin /\ Len(r) \in Nat
      /\ Merged(r, T \cup t, N, limit) /\ Len(r) <= cap /\ Len(r) <= Len(init) + (n - 1)
  <2>1. /\ a \in Accs /\ Merged(r, T \cup t, N, limit) /\ Len(r) <= cap
        /\ Len(r) <= Len(init) + (n - 1)
    BY <1>3, <1>4, <1>5 DEF After
  <2>2. r \in Seq(Items) /\ t \in SUBSET Origin
    BY <1>3, <1>4, <2>1 DEF Accs
  <2>3. Len(r) \in Nat
    BY <2>2
  <2> QED
    BY <2>1, <2>2, <2>3
<1>7. Room(Len(r), cap, limit) /\ cap \in Nat /\ cap >= 1
  BY <1>1, <1>6, RoomLeft
<1>8. Ordered(a.list) /\ Len(a.list) <= cap
  BY <1>3, <1>6 DEF Merged
<1>9. PICK u \in Seq(Items), v \in SUBSET Origin :
        /\ Insert(a, res[n], s, cap) = [list |-> u, trimmed |-> v]
        /\ InsertStep(a.list, a.trimmed, u, v, res[n], s, cap)
  BY <1>1, <1>6, <1>7, <1>8, InsertCases
<1>10. InsertStep(r, T \cup t, u, T \cup v, res[n], s, cap)
  BY <1>3, <1>4, <1>9, InsertStepWith
<1>11. PICK O : O = Partly(M, s, res, n)
  OBVIOUS
<1>12. N \in [Origin -> SUBSET Object] /\ O \in [Origin -> SUBSET Object] /\ Grown(N, O, res[n], s)
  BY <1>5, <1>11, PartlyGrows
<1>13. T \cup t \in SUBSET Origin /\ T \cup v \in SUBSET Origin
  BY <1>6, <1>9
<1>14. Merged(u, T \cup v, O, limit) /\ Len(u) <= cap /\ Len(u) <= Len(r) + 1
  <2>1. PICK t1 : t1 = T \cup t
    OBVIOUS
  <2>2. PICK v1 : v1 = T \cup v
    OBVIOUS
  <2>3. /\ t1 \in SUBSET Origin /\ v1 \in SUBSET Origin /\ Merged(r, t1, N, limit)
        /\ InsertStep(r, t1, u, v1, res[n], s, cap)
    BY <1>6, <1>10, <1>13, <2>1, <2>2
  <2>4. /\ r \in Seq(Items) /\ u \in Seq(Items) /\ res[n] \in Object /\ cap \in Nat
    BY <1>1, <1>6, <1>7, <1>9
  <2>5. Merged(u, v1, O, limit) /\ Len(u) <= cap /\ Len(u) <= Len(r) + 1
    BY <1>7, <1>12, <2>3, <2>4, MergedStep
  <2> QED
    BY <2>2, <2>5
<1>15. Len(u) <= Len(init) + n
  <2>1. Len(u) \in Nat /\ n \in Int
    BY <1>9
  <2> QED
    BY <1>1, <1>6, <1>14, <2>1
<1>16. PICK b : b = [list |-> u, trimmed |-> v]
  OBVIOUS
<1>17. b \in Accs /\ b.list = u /\ b.trimmed = v
  BY <1>16 DEF Accs
<1>18. After(b, n, T, M, s, init, res, limit, cap)
  BY <1>11, <1>14, <1>15, <1>17 DEF After
<1> QED
  BY <1>9, <1>16, <1>18 DEF Round

\* The loop merges what s returned into the page.
LEMMA InsertSortedMerges ==
    ASSUME Aged, NEW init \in Seq(Items), NEW res \in Seq(Object), NEW s \in Origin,
           NEW limit \in Nat, limit >= 1,
           NEW M \in [Origin -> SUBSET Object], NEW T \in SUBSET Origin,
           M[s] = {}, Merged(init, T, M, limit)
    PROVE  \E u \in Seq(Items), v \in SUBSET Origin :
               /\ InsertSorted(init, res, s, limit) = [list |-> u, trimmed |-> v]
               /\ Merged(u, T \cup v, [M EXCEPT ![s] = Values(res, Len(res))], limit)
<1>1. PICK cap : cap = Min({Len(init) + Len(res), limit})
  OBVIOUS
<1>0. Capped(cap, Len(init), Len(res), limit)
  BY <1>1 DEF Capped
<1>2. Len(init) \in Nat /\ Len(res) \in Nat /\ Len(init) + Len(res) \in Nat
  OBVIOUS
<1>3. PICK f : /\ Rounds(f, Len(res), init, res, s, cap)
               /\ InsertSorted(init, res, s, limit) = f[Len(res)]
  BY <1>1, <1>2, InsertSortedRounds
<1> DEFINE Bad == {n \in 0..Len(res) : ~After(f[n], n, T, M, s, init, res, limit, cap)}
<1>4. After(f[0], 0, T, M, s, init, res, limit, cap)
  <2>1. f[0] = [list |-> init, trimmed |-> {}]
    BY <1>3 DEF Rounds
  <2>2. f[0] \in Accs /\ f[0].list = init /\ f[0].trimmed = {}
    BY <2>1 DEF Accs
  <2>3. Partly(M, s, res, 0) = M
    <3>1. Values(res, 0) = {}
      BY DEF Values
    <3> QED
      BY <3>1 DEF Partly
  <2>4. Len(init) <= cap
    <3>1. cap \in Nat /\ (cap = Len(init) + Len(res) \/ cap = limit)
      BY <1>1, <1>2, MinOfTwo
    <3>2. Len(init) <= limit
      BY DEF Merged
    <3> QED
      BY <1>2, <3>1, <3>2
  <2>5. T \cup {} = T /\ Len(init) <= Len(init) + 0
    BY <1>2
  <2> QED
    BY <2>2, <2>3, <2>4, <2>5 DEF After
<1>5. ASSUME NEW x \in Bad PROVE FALSE
  <2>1. Bad \in SUBSET Nat
    BY <1>2
  <2>2. PICK n \in Bad : \A m \in Bad : n <= m
    <3> HIDE DEF Bad
    <3> QED
      BY <1>5, <2>1, Least
  <2>3. n # 0
    BY <1>4, <2>2
  <2>4. n \in 1..Len(res) /\ n - 1 \in 0..Len(res) /\ ~(n <= n - 1)
    BY <1>2, <2>2, <2>3
  <2>5. After(f[n - 1], n - 1, T, M, s, init, res, limit, cap)
    BY <2>2, <2>4
  <2>6. f[n] = Round(f[n - 1], res[n], s, cap)
    BY <1>3, <2>4 DEF Rounds
  <2>7. After(f[n], n, T, M, s, init, res, limit, cap)
    BY <1>0, <2>4, <2>5, <2>6, AfterRound
  <2> QED
    BY <2>2, <2>7
<1>6. Len(res) \in 0..Len(res)
  BY <1>2
<1>7. After(f[Len(res)], Len(res), T, M, s, init, res, limit, cap)
  BY <1>5, <1>6
<1>8. PICK a : a = f[Len(res)]
  OBVIOUS
<1>9. a \in Accs /\ Merged(a.list, T \cup a.trimmed, Partly(M, s, res, Len(res)), limit)
  BY <1>7, <1>8 DEF After
<1>10. a.list \in Seq(Items) /\ a.trimmed \in SUBSET Origin /\ a = [list |-> a.list, trimmed |-> a.trimmed]
  BY <1>9 DEF Accs
<1> QED
  BY <1>3, <1>8, <1>9, <1>10 DEF Partly

-----------------------------------------------------------------------------
(* What the two APIs return *)

\* 1..n has n members.
LEMMA UpTo ==
    ASSUME NEW n \in Nat
    PROVE  IsFiniteSet(1..n) /\ Cardinality(1..n) = n
<1>1. IsFiniteSet(1..n) /\ Cardinality(1..n) = IF 1 > n THEN 0 ELSE n - 1 + 1
  BY FS_Interval
<1> QED
  BY <1>1

\* How many values a function of n arguments has.
LEMMA ValuesOf ==
    ASSUME NEW n \in Nat, NEW S, NEW f \in [1..n -> S]
    PROVE  /\ IsFiniteSet(Values(f, n)) /\ Values(f, n) \subseteq S
           /\ Cardinality(Values(f, n)) \in Nat /\ Cardinality(Values(f, n)) <= n
           /\ (\A i, j \in 1..n : i # j => f[i] # f[j]) => Cardinality(Values(f, n)) = n
<1>1. PICK V : V = Values(f, n)
  OBVIOUS
<1>2. V \subseteq S /\ f \in [1..n -> V] /\ \A v \in V : \E i \in 1..n : f[i] = v
  BY <1>1 DEF Values
<1>3. f \in Surjection(1..n, V)
  BY <1>2 DEF Surjection
<1>4. /\ IsFiniteSet(V) /\ Cardinality(V) <= Cardinality(1..n)
      /\ Cardinality(V) = Cardinality(1..n) <=> f \in Injection(1..n, V)
  BY <1>3, UpTo, FS_Surjection
<1>5. Cardinality(V) \in Nat
  BY <1>4, FS_CardinalityType
<1>6. ASSUME \A i, j \in 1..n : i # j => f[i] # f[j]
      PROVE  f \in Injection(1..n, V)
  BY <1>2, <1>6 DEF Injection, IsInjective
<1> QED
  BY <1>1, <1>2, <1>4, <1>5, <1>6, UpTo

\* The cluster returns all its objects the command is about, in some order.
LEMMA ClusterListFacts ==
    ASSUME cluster \subseteq Object, NEW l, NEW res \in ClusterList(l)
    PROVE  /\ res \in Seq(Object)
           /\ Values(res, Len(res)) = {o \in cluster : l.name # None => NameOf[o] = l.name}
<1>1. PICK S : S = {o \in cluster : l.name # None => NameOf[o] = l.name}
  OBVIOUS
<1>2. S \in SUBSET Object
  BY <1>1
<1>3. IsFiniteSet(S) /\ Cardinality(S) \in Nat
  BY <1>2, GetAssumption, FS_Subset, FS_CardinalityType
<1>4. PICK n : n = Cardinality(S)
  OBVIOUS
<1>5. n \in Nat /\ res \in [1..n -> S] /\ \A i, j \in 1..n : i # j => res[i] # res[j]
  BY <1>1, <1>3, <1>4 DEF ClusterList, SetToSeqs
<1>6. Len(res) = n /\ res \in Seq(S)
  BY <1>5
<1>7. PICK V : V = {res[i] : i \in 1..n}
  OBVIOUS
<1>8. V \in SUBSET S /\ Cardinality(V) = Cardinality(S)
  <2>1. V = Values(res, n)
    BY <1>7 DEF Values
  <2> QED
    BY <1>4, <1>5, <2>1, ValuesOf
<1>9. V = S
  BY <1>3, <1>8, FS_Subset
<1>10. res \in Seq(Object)
  BY <1>2, <1>5
<1> QED
  BY <1>1, <1>6, <1>7, <1>9, <1>10 DEF Values

\* P is all of S, or as many of the newest as the limit.
Newest(P, S, limit) ==
    /\ Cardinality(S) <= limit => P = S
    /\ Cardinality(S) > limit =>
         /\ Cardinality(P) = limit /\ P # S
         /\ \A p \in P, x \in S \ P : created[p] >= created[x]

\* KubeArchive returns all it lists, or as many of the newest as the limit.
LEMMA ArchivePageFacts ==
    ASSUME Aged, archive \in Seq(Object), NEW l, l.limit \in Nat, NEW page \in ArchivePages(l)
    PROVE  \E P \in SUBSET Listed(l) :
             /\ page \in Seq(Object) /\ P = Values(page, Len(page))
             /\ Listed(l) \in SUBSET Object /\ Cardinality(Listed(l)) \in Nat
             /\ Newest(P, Listed(l), l.limit)
<1>1. PICK S : S = Listed(l)
  OBVIOUS
<1>2. S \in SUBSET Object /\ \A o \in S : o \in ToSet(archive)
  BY <1>1 DEF Listed, ToSet
<1>3. IsFiniteSet(S) /\ Cardinality(S) \in Nat
  <2>1. IsFiniteSet(S)
    BY <1>2, GetAssumption, FS_Subset
  <2> QED
    BY <2>1, FS_CardinalityType
<1>4. PICK n : n = Min({l.limit, Cardinality(S)})
  OBVIOUS
<1>5. n \in Nat /\ n <= l.limit /\ n <= Cardinality(S) /\ (n = l.limit \/ n = Cardinality(S))
  BY <1>3, <1>4, MinOfTwo
<1>6. page \in [1..n -> S] /\ IsArchivePage(page, l)
  BY <1>1, <1>4 DEF ArchivePages
<1>7. Len(page) = n /\ page \in Seq(Object) /\ DOMAIN page = 1..n
  BY <1>2, <1>5, <1>6
<1>8. \A o \in S : ~ListedBefore(o, o) /\ created[o] \in Int
  <2>1. SUFFICES ASSUME NEW o \in S PROVE ~ListedBefore(o, o) /\ created[o] \in Int
    OBVIOUS
  <2>2. \E i \in DOMAIN archive : archive[i] = o
    BY <1>2 DEF ToSet
  <2>3. IdOf(o) \in DOMAIN archive
    BY <2>2 DEF IdOf
  <2>4. IdOf(o) \in Int /\ created[o] \in Int
    BY <1>2, <2>3 DEF Aged
  <2> QED
    BY <2>4 DEF ListedBefore
<1>9. \A i, j \in 1..n : i # j => page[i] # page[j]
  <2>1. SUFFICES ASSUME NEW i \in 1..n, NEW j \in 1..n, i # j, page[i] = page[j] PROVE FALSE
    OBVIOUS
  <2>2. i < j \/ j < i
    BY <1>5, <2>1
  <2>3. ListedBefore(page[i], page[j]) \/ ListedBefore(page[j], page[i])
    BY <1>6, <1>7, <2>1, <2>2 DEF IsArchivePage
  <2>4. page[i] \in S
    BY <1>6
  <2> QED
    BY <1>8, <2>1, <2>3, <2>4
<1>10. PICK P : P = {page[i] : i \in 1..n}
  OBVIOUS
<1>11. P \in SUBSET S /\ Cardinality(P) = n
  <2>1. P = Values(page, n)
    BY <1>10 DEF Values
  <2> QED
    BY <1>5, <1>6, <1>9, <2>1, ValuesOf
<1>12. Cardinality(S) <= l.limit => P = S
  <2>1. Cardinality(S) <= l.limit => n = Cardinality(S)
    BY <1>3, <1>5
  <2> QED
    BY <1>3, <1>11, <2>1, FS_Subset
<1>13. Cardinality(S) > l.limit => Cardinality(P) = l.limit /\ P # S
  <2>1. Cardinality(S) > l.limit => n = l.limit /\ n # Cardinality(S)
    BY <1>3, <1>5
  <2> QED
    BY <1>11, <2>1
<1>14. ASSUME NEW p \in P, NEW x \in S \ P PROVE created[p] >= created[x]
  <2>1. PICK i \in 1..n : p = page[i]
    BY <1>10
  <2>2. ToSet(page) = P
    BY <1>7, <1>10 DEF ToSet
  <2>3. ListedBefore(p, x)
    BY <1>1, <1>6, <1>7, <1>14, <2>1, <2>2 DEF IsArchivePage
  <2>4. p \in S /\ created[p] \in Int /\ created[x] \in Int
    BY <1>8, <1>11, <1>14
  <2> QED
    BY <2>3, <2>4 DEF ListedBefore
<1>15. Newest(P, S, l.limit)
  BY <1>12, <1>13, <1>14 DEF Newest
<1>16. P = Values(page, Len(page))
  BY <1>7, <1>10 DEF Values
<1> QED
  BY <1>1, <1>2, <1>3, <1>7, <1>11, <1>15, <1>16

-----------------------------------------------------------------------------
(* The list so far *)

\* Creation times do not change, so neither does what is a merge.
LEMMA MergedRigid ==
    ASSUME created' = created, NEW r, NEW t, NEW M, NEW limit, Merged(r, t, M, limit)
    PROVE  Merged(r, t, M, limit)'
BY DEF Merged, Ordered, Sound, Noted, AllBefore, SortsBefore, Same

\* The list is still a merge when what it is made of did not change.
LEMMA MergedKept ==
    ASSUME UNCHANGED <<created, list, saw, line, more>>, MergedSoFar
    PROVE  MergedSoFar'
<1>1. PICK P \in SUBSET Object, T \in SUBSET Origin :
        /\ Returned(P) /\ Merged(list, T, Answers(P), line.limit)
        /\ T \subseteq more /\ more \subseteq T \cup {"archive"}
        /\ T # more => P # InArchive
  BY DEF MergedSoFar
<1>2. InArchive' = InArchive /\ InCluster' = InCluster
  BY DEF InArchive, InCluster, InBounds, Fits
<1>3. Returned(P)' /\ Answers(P)' = Answers(P)
  BY <1>1, <1>2 DEF Returned, Answers
<1>4. PICK r : r = list
  OBVIOUS
<1>5. PICK M : M = Answers(P)
  OBVIOUS
<1>6. PICK k : k = line.limit
  OBVIOUS
<1>7. Merged(r, T, M, k)'
  BY <1>1, <1>4, <1>5, <1>6, MergedRigid
<1>8. list' = r /\ Answers(P)' = M /\ line'.limit = k
  BY <1>3, <1>4, <1>5, <1>6
<1>9. Merged(list, T, Answers(P), line.limit)'
  BY <1>7, <1>8
<1> QED
  BY <1>1, <1>2, <1>3, <1>9 DEF MergedSoFar

\* A natural number is an integer from 0.
LEMMA NotNegative ==
    ASSUME NEW k \in Nat
    PROVE  k \in Int /\ 0 <= k
OBVIOUS

\* Nothing merged is nothing listed.
LEMMA MergedAtFirst ==
    ASSUME list' = <<>>, more' = {}, saw' = [s \in Origin |-> {}], line'.limit \in Nat
    PROVE  MergedSoFar'
<1>1. InArchive' = {} /\ InCluster' = {}
  BY DEF InArchive, InCluster, Origin
<1>2. Returned({})' /\ Answers({})' = [m \in Origin |-> {}]
  BY <1>1 DEF Returned, Answers
<1>3. Merged(list, {}, Answers({}), line.limit)'
  <2>0. PICK k \in Nat : k = line'.limit
    OBVIOUS
  <2>2. k \in Int /\ 0 <= k
    BY <2>0, NotNegative
  <2>3. <<>> \in Seq(Items) /\ Len(<<>>) = 0 /\ DOMAIN <<>> = {}
    OBVIOUS
  <2>1. Len(list') = 0 /\ DOMAIN list' = {} /\ 0 <= line'.limit
    BY <2>0, <2>2, <2>3
  <2> QED
    BY <1>2, <2>1 DEF Merged, Ordered, Sound
<1> QED
  BY <1>1, <1>2, <1>3 DEF MergedSoFar

\* Before KubeArchive is asked, it has returned nothing.
LEMMA MergedBefore ==
    ASSUME MergedSoFar, saw["archive"] = {}
    PROVE  Merged(list, more, Answers({}), line.limit) /\ InArchive = {}
<1>1. PICK P \in SUBSET Object, T \in SUBSET Origin :
        /\ Returned(P) /\ Merged(list, T, Answers(P), line.limit)
        /\ T \subseteq more /\ more \subseteq T \cup {"archive"}
        /\ T # more => P # InArchive
  BY DEF MergedSoFar
<1>2. InArchive = {}
  BY DEF InArchive
<1>3. P = {} /\ T = more
  BY <1>1, <1>2 DEF Returned
<1> QED
  BY <1>1, <1>2, <1>3

\* What a merge of the sources' answers leaves in the state.
LEMMA MergedAfter ==
    ASSUME NEW P \in SUBSET Object, NEW T \in SUBSET Origin, NEW M,
           created' = created, line' = line, Merged(list', T, M, line.limit),
           Answers(P)' = M, Returned(P)',
           T \subseteq more', more' \subseteq T \cup {"archive"},
           T # more' => P # InArchive'
    PROVE  MergedSoFar'
<1>1. PICK r : r = list'
  OBVIOUS
<1>2. PICK k : k = line.limit
  OBVIOUS
<1>3. Merged(r, T, M, k)
  BY <1>1, <1>2
<1>4. Merged(r, T, M, k)'
  BY <1>3, MergedRigid
<1>5. line'.limit = k /\ list' = r
  BY <1>1, <1>2
<1>6. Merged(list, T, Answers(P), line.limit)'
  BY <1>4, <1>5
<1> QED
  BY <1>6 DEF MergedSoFar

\* Asking the cluster merges its answer.
LEMMA MergedByCluster ==
    ASSUME Aged, cluster \subseteq Object, list \in Seq(Items), more \subseteq Origin,
           saw \in [Origin -> SUBSET Object], saw["cluster"] = {}, saw["archive"] = {},
           line.limit \in Nat, line.limit >= 1, MergedSoFar, AskCluster
    PROVE  MergedSoFar' /\ list' \in Seq(Items) /\ more' \subseteq Origin
<1>0. /\ created' = created /\ line' = line /\ saw' = [saw EXCEPT !["cluster"] = cluster]
      /\ "cluster" \in Origin /\ "archive" \in Origin
  BY DEF AskCluster, world, output, Origin
<1>1. Merged(list, more, Answers({}), line.limit) /\ InArchive = {}
  BY MergedBefore
<1>2. InCluster = {} /\ saw'["archive"] = {} /\ saw'["cluster"] = cluster
  BY <1>0 DEF InCluster
<1>3. PICK S : S = {o \in cluster : line.name # None => NameOf[o] = line.name}
  OBVIOUS
<1>4. InCluster' = S /\ InArchive' = {} /\ S \subseteq Object
  BY <1>0, <1>2, <1>3 DEF InCluster, InArchive, Fits
<1>5. PICK M : M = Answers({})
  OBVIOUS
<1>6. M \in [Origin -> SUBSET Object] /\ M["cluster"] = {} /\ Answers({})' = [M EXCEPT !["cluster"] = S]
  BY <1>0, <1>2, <1>4, <1>5 DEF Answers
<1>7. PICK N : N = [M EXCEPT !["cluster"] = S]
  OBVIOUS
<1>8. Returned({})'
  BY <1>4 DEF Returned
<1>9. PICK res \in ClusterList(line) :
        IF line.name # None /\ res = <<>>
        THEN notFound' = notFound \cup {"cluster"} /\ UNCHANGED <<list, more>>
        ELSE LET r == InsertSorted(list, res, "cluster", line.limit)
             IN  /\ list' = r.list /\ more' = more \cup r.trimmed
                 /\ UNCHANGED notFound
  BY DEF AskCluster
<1>10. res \in Seq(Object) /\ Values(res, Len(res)) = S
  BY <1>3, ClusterListFacts
<1>11. ASSUME NEW T \in SUBSET Origin, more' = T, Merged(list', T, N, line.limit)
       PROVE  MergedSoFar'
  <2>1. Answers({})' = N /\ {} \in SUBSET Object
    BY <1>6, <1>7
  <2>2. T \subseteq more' /\ more' \subseteq T \cup {"archive"} /\ (T # more' => {} # InArchive')
    BY <1>11
  <2> QED
    BY <1>0, <1>8, <1>11, <2>1, <2>2, MergedAfter
<1>12. CASE line.name # None /\ res = <<>>
  <2>1. list' = list /\ more' = more
    BY <1>9, <1>12
  <2>2. S = {}
    <3>1. Len(res) = 0
      BY <1>12
    <3> QED
      BY <1>10, <3>1 DEF Values
  <2>3. N = M
    BY <1>6, <1>7, <2>2
  <2> QED
    BY <1>1, <1>5, <1>11, <2>1, <2>3
<1>13. CASE ~(line.name # None /\ res = <<>>)
  <2>1. PICK a : a = InsertSorted(list, res, "cluster", line.limit)
    OBVIOUS
  <2>2. list' = a.list /\ more' = more \cup a.trimmed
    BY <1>9, <1>13, <2>1
  <2>3. PICK u \in Seq(Items), v \in SUBSET Origin :
          /\ a = [list |-> u, trimmed |-> v]
          /\ Merged(u, more \cup v, [M EXCEPT !["cluster"] = Values(res, Len(res))], line.limit)
    <3>1. M \in [Origin -> SUBSET Object] /\ M["cluster"] = {} /\ Merged(list, more, M, line.limit)
      BY <1>1, <1>5, <1>6
    <3> QED
      BY <1>0, <1>10, <2>1, <3>1, InsertSortedMerges
  <2>4. list' = u /\ more' = more \cup v
    BY <2>2, <2>3
  <2>5. Merged(list', more \cup v, N, line.limit)
    BY <1>7, <1>10, <2>3, <2>4
  <2>6. more \cup v \in SUBSET Origin
    BY <2>3
  <2> QED
    BY <1>11, <2>3, <2>4, <2>5, <2>6
<1> QED
  BY <1>12, <1>13

\* Asking KubeArchive merges its page; what the page leaves out is told.
LEMMA MergedByArchive ==
    ASSUME Aged, archive \in Seq(Object), list \in Seq(Items), more \subseteq Origin,
           saw \in [Origin -> SUBSET Object], saw["archive"] = {},
           line.limit \in Nat, line.limit >= 1, MergedSoFar, AskArchive
    PROVE  MergedSoFar' /\ list' \in Seq(Items) /\ more' \subseteq Origin
<1>0. /\ created' = created /\ line' = line /\ saw' = [saw EXCEPT !["archive"] = ToSet(archive)]
      /\ "cluster" \in Origin /\ "archive" \in Origin
  BY DEF AskArchive, world, output, Origin
<1>1. Merged(list, more, Answers({}), line.limit) /\ InArchive = {}
  BY MergedBefore
<1>2. saw'["cluster"] = saw["cluster"] /\ saw'["archive"] = ToSet(archive)
  BY <1>0 DEF Origin
<1>3. InCluster' = InCluster /\ InArchive' = Listed(line) /\ InCluster \subseteq Object
  BY <1>0, <1>2 DEF InCluster, InArchive, Fits, Listed, InBounds
<1>4. PICK M : M = Answers({})
  OBVIOUS
<1>5. /\ M \in [Origin -> SUBSET Object] /\ M["archive"] = {}
      /\ \A P : Answers(P)' = [M EXCEPT !["archive"] = P]
  BY <1>0, <1>3, <1>4 DEF Answers, Origin
<1>6. CASE line.name # None /\ Listed(line) = {}
  <2>1. list' = list /\ more' = more
    BY <1>6 DEF AskArchive
  <2>2. Answers({})' = M /\ Returned({})'
    BY <1>3, <1>5, <1>6 DEF Returned
  <2>3. Merged(list', more, M, line.limit) /\ more \subseteq more' /\ more' \subseteq more \cup {"archive"}
    BY <1>1, <1>4, <2>1
  <2>4. more # more' => {} # InArchive'
    BY <2>1
  <2>5. MergedSoFar'
    BY <1>0, <2>2, <2>3, <2>4, MergedAfter
  <2> QED
    BY <2>1, <2>5
<1>7. CASE ~(line.name # None /\ Listed(line) = {})
  <2>1. PICK page \in ArchivePages(line) :
          LET r == InsertSorted(list, page, "archive", line.limit)
          IN  /\ list' = r.list /\ UNCHANGED notFound
              /\ more' = more \cup r.trimmed \cup
                   (IF Cardinality(Listed(line)) > line.limit THEN {"archive"} ELSE {})
    BY <1>7 DEF AskArchive
  <2>2. PICK P \in SUBSET Listed(line) :
          /\ page \in Seq(Object) /\ P = Values(page, Len(page))
          /\ Listed(line) \in SUBSET Object /\ Cardinality(Listed(line)) \in Nat
          /\ Newest(P, Listed(line), line.limit)
    BY ArchivePageFacts
  <2>3. PICK a : a = InsertSorted(list, page, "archive", line.limit)
    OBVIOUS
  <2>4. PICK u \in Seq(Items), v \in SUBSET Origin :
          /\ a = [list |-> u, trimmed |-> v]
          /\ Merged(u, more \cup v, [M EXCEPT !["archive"] = Values(page, Len(page))], line.limit)
    BY <1>0, <1>1, <1>4, <1>5, <2>2, <2>3, InsertSortedMerges
  <2>5. PICK X : X = IF Cardinality(Listed(line)) > line.limit THEN {"archive"} ELSE {}
    OBVIOUS
  <2>6. list' = u /\ more' = more \cup v \cup X
    BY <2>1, <2>3, <2>4, <2>5
  <2>7. PICK T : T = more \cup v
    OBVIOUS
  <2>8. PICK N : N = [M EXCEPT !["archive"] = P]
    OBVIOUS
  <2>9. Merged(list', T, N, line.limit) /\ Answers(P)' = N
    BY <1>5, <2>2, <2>4, <2>6, <2>7, <2>8
  <2>10. T \in SUBSET Origin /\ P \in SUBSET Object /\ X \subseteq {"archive"}
    BY <2>2, <2>4, <2>5, <2>7
  <2>11. T \subseteq more' /\ more' \subseteq T \cup {"archive"} /\ more' \subseteq Origin
    BY <1>0, <2>6, <2>7, <2>10
  <2>12. CASE Cardinality(Listed(line)) > line.limit
    <3>1. P # InArchive' /\ "archive" \in more' /\ Cardinality(P) = line.limit
      BY <1>3, <2>2, <2>5, <2>6, <2>12 DEF Newest
    <3>2. line.name = None
      <4>1. line.name = None \/ Cardinality(Listed(line)) <= 1
        BY DEF AskArchive
      <4>2. ~(Cardinality(Listed(line)) <= 1)
        BY <2>2, <2>12
      <4> QED
        BY <4>1, <4>2
    <3>3. \A p \in P : \A x \in InArchive' \ P : created'[p] >= created'[x]
      BY <1>0, <1>3, <2>2, <2>12 DEF Newest
    <3>4. Returned(P)'
      BY <1>0, <1>3, <2>2, <3>1, <3>2, <3>3 DEF Returned
    <3>5. MergedSoFar'
      BY <1>0, <2>9, <2>10, <2>11, <3>1, <3>4, MergedAfter
    <3> QED
      BY <2>4, <2>6, <2>11, <3>5
  <2>13. CASE ~(Cardinality(Listed(line)) > line.limit)
    <3>1. Cardinality(Listed(line)) <= line.limit
      BY <2>2, <2>13
    <3>2. P = InArchive'
      BY <1>3, <2>2, <3>1 DEF Newest
    <3>3. more' = T
      BY <2>5, <2>6, <2>7, <2>13
    <3>4. Returned(P)'
      BY <3>2 DEF Returned
    <3>5. MergedSoFar'
      BY <1>0, <2>9, <2>10, <2>11, <3>3, <3>4, MergedAfter
    <3> QED
      BY <2>4, <2>6, <2>11, <3>5
  <2> QED
    BY <2>12, <2>13
<1> QED
  BY <1>6, <1>7

-----------------------------------------------------------------------------
(* Types *)

BaseTypes ==
    /\ created \in Ages /\ cluster \subseteq Object
    /\ ToSet(archive) \subseteq Object /\ IsInjective(archive)
    /\ pc \in {"shell", "run", "failed", "done"} /\ turn \in 1..3
    /\ line \in CommandLine \cup {None} /\ next \in CommandLine \cup {None}
    /\ notFound \cup more \cup source \subseteq Origin

\* The cluster is asked first.
LEMMA OrderIs ==
    /\ Len(Order) = 2 /\ DOMAIN Order = 1..2
    /\ Order[1] = "cluster" /\ Order[2] = "archive"
    /\ \A t \in 1..3 : t \in 1..2 => t = 1 \/ t = 2
BY DEF Order

\* All assignments of ages give seconds.
LEMMA AgesAged == created \in Ages => Aged
BY GetAssumption DEF Aged

\* The type invariant has the types of the variables.
LEMMA TypeOKBase == TypeOK => BaseTypes
<1> SUFFICES ASSUME TypeOK PROVE BaseTypes
  OBVIOUS
<1>1. Len(Order) + 1 = 3
  BY OrderIs
<1> QED
  BY <1>1 DEF TypeOK, BaseTypes, Origin

\* Marks and trimmed sources are sources the command asks.
Marked ==
    /\ Len(list) <= line.limit /\ more \subseteq source
    /\ \A i \in DOMAIN list : list[i].in # {} /\ list[i].in \subseteq source

\* Marks are of sources that were asked.
LEMMA MergedMarks ==
    MergedSoFar /\ Sourced /\ list \in Seq(Items) => Marked
<1> SUFFICES ASSUME MergedSoFar, Sourced, list \in Seq(Items) PROVE Marked
  OBVIOUS
<1>1. PICK P \in SUBSET Object, T \in SUBSET Origin :
        /\ Returned(P) /\ Merged(list, T, Answers(P), line.limit)
        /\ T \subseteq more /\ more \subseteq T \cup {"archive"}
        /\ T # more => P # InArchive
  BY DEF MergedSoFar
<1>2. \A m \in Origin : \A x \in Answers(P)[m] : m \in source
  <2>1. SUFFICES ASSUME NEW m \in Origin, NEW x \in Answers(P)[m] PROVE m \in source
    OBVIOUS
  <2>2. CASE m = "cluster"
    <3>1. x \in saw["cluster"]
      BY <2>1, <2>2 DEF Answers, InCluster
    <3> QED
      BY <2>2, <3>1 DEF Sourced
  <2>3. CASE m = "archive"
    <3>1. x \in saw["archive"]
      BY <1>1, <2>1, <2>3 DEF Answers, Returned, InArchive
    <3> QED
      BY <2>3, <3>1 DEF Sourced
  <2> QED
    BY <2>1, <2>2, <2>3 DEF Origin
<1>3. ASSUME NEW i \in DOMAIN list PROVE list[i].in # {} /\ list[i].in \subseteq source
  <2>1. list[i] \in Items
    OBVIOUS
  <2>2. list[i].in \subseteq Origin
    BY <2>1, ItemFacts
  <2>3. list[i].in # {} /\ \A m \in list[i].in : \E x \in Answers(P)[m] : TRUE
    BY <1>1 DEF Merged, Sound
  <2> QED
    BY <1>2, <2>2, <2>3
<1>4. ASSUME NEW m \in more PROVE m \in source
  <2>1. CASE m \in T
    <3>1. \E x \in Answers(P)[m] : TRUE
      BY <1>1, <2>1 DEF Merged
    <3> QED
      BY <1>2, <2>1, <3>1
  <2>2. CASE m \notin T
    <3>1. m = "archive" /\ P # InArchive
      BY <1>1, <1>4, <2>2
    <3>2. saw["archive"] # {}
      BY <1>1, <3>1 DEF Returned, InArchive
    <3> QED
      BY <3>1, <3>2 DEF Sourced
  <2> QED
    BY <2>1, <2>2
<1>5. Len(list) <= line.limit
  BY <1>1 DEF Merged
<1> QED
  BY <1>3, <1>4, <1>5 DEF Marked

\* A command line's parts.
LEMMA LineFacts ==
    ASSUME NEW l \in CommandLine
    PROVE  /\ l.limit \in Nat /\ l.name \in {NameOf[o] : o \in Object} \cup {None}
           /\ l.after \in Nat \cup {None} /\ l.before \in Nat \cup {None} /\ l # None
BY GetAssumption DEF CommandLine

\* The type invariant follows from the rest.
LEMMA TypesTogether ==
    BaseTypes /\ GetTypes /\ (Running => MergedSoFar /\ Sourced)
      /\ (pc = "failed" => \A i \in DOMAIN list : list[i].in # {} /\ list[i].in \subseteq source)
      => TypeOK
<1> SUFFICES ASSUME BaseTypes, GetTypes, Running => MergedSoFar /\ Sourced,
                    pc = "failed" => \A i \in DOMAIN list :
                                        list[i].in # {} /\ list[i].in \subseteq source
             PROVE  TypeOK
  OBVIOUS
<1>1. Len(Order) + 1 = 3
  BY OrderIs
<1>2. Running => Marked
  BY MergedMarks DEF GetTypes
<1>3. pc = "shell" => Len(list) = 0 /\ DOMAIN list = {}
  BY DEF GetTypes
<1>4. line # None /\ pc # "failed" => Len(list) <= line.limit
  <2>1. SUFFICES ASSUME line # None, pc = "shell" PROVE Len(list) <= line.limit
    BY <1>2 DEF Running, BaseTypes, Marked
  <2>2. PICK k : k = line.limit
    OBVIOUS
  <2>3. k \in Nat
    BY <2>1, <2>2, LineFacts DEF BaseTypes
  <2>4. 0 <= k
    BY <2>3, NotNegative
  <2> QED
    BY <1>3, <2>1, <2>2, <2>4
<1>5. \A i \in DOMAIN list : list[i].in # {} /\ list[i].in \subseteq source
  BY <1>2, <1>3 DEF Running, BaseTypes, Marked
<1> QED
  BY <1>1, <1>4, <1>5 DEF BaseTypes, TypeOK, Origin

\* The command line for the next page.
LEMMA NextLineFacts ==
    ASSUME Aged, line \in CommandLine, list \in Seq(Items), list # <<>>
    PROVE  /\ NextLine \in CommandLine /\ NextLine.limit = line.limit /\ NextLine.name = None
           /\ Last(list).obj \in Object
           /\ NextLine.before = 2 * created[Last(list).obj] - 1
           /\ NextLine.inCluster = IF more = {"cluster"} THEN "true" ELSE "default"
           /\ NextLine.archived = IF more = {"archive"} THEN "true" ELSE "default"
<1>1. Len(list) \in 1..Len(list) /\ DOMAIN list = 1..Len(list)
  OBVIOUS
<1>2. Last(list) \in Items
  BY <1>1 DEF Last
<1>3. PICK z : z = Last(list).obj
  OBVIOUS
<1>4. z \in Object
  BY <1>2, <1>3, ItemFacts
<1>5. PICK b : b = 2 * created[z] - 1
  OBVIOUS
<1>6. b \in Nat
  <2>1. created[z] \in Nat \ {0}
    BY <1>4 DEF Aged
  <2> QED
    BY <1>5, <2>1
<1>7. PICK ic : ic = IF more = {"cluster"} THEN "true" ELSE "default"
  OBVIOUS
<1>8. PICK ar : ar = IF more = {"archive"} THEN "true" ELSE "default"
  OBVIOUS
<1>9. ic \in Flag /\ ar \in Flag
  BY <1>7, <1>8 DEF Flag
<1>10. NextLine = [line EXCEPT !.before = b, !.name = None, !.inCluster = ic, !.archived = ar]
  BY <1>3, <1>5, <1>7, <1>8 DEF NextLine
<1>11. PICK n : n = NextLine
  OBVIOUS
<1>12. /\ n \in CommandLine /\ n.limit = line.limit /\ n.name = None /\ n.before = b
       /\ n.inCluster = ic /\ n.archived = ar
  BY <1>6, <1>9, <1>10, <1>11 DEF CommandLine
<1> QED
  BY <1>3, <1>4, <1>5, <1>7, <1>8, <1>11, <1>12

\* What a step needs to know of the state.
Inv0 == BaseTypes /\ GetTypes /\ Named /\ (Running => MergedSoFar /\ Sourced)

\* The facts about a state that most steps need.
LEMMA InvFacts ==
    ASSUME Inv0
    PROVE  /\ Aged /\ cluster \subseteq Object /\ archive \in Seq(Object) /\ list \in Seq(Items)
           /\ saw \in [Origin -> SUBSET Object] /\ more \subseteq Origin /\ turn \in 1..3
           /\ Running => /\ line \in CommandLine /\ line.limit \in Nat /\ line.limit >= 1
                         /\ MergedSoFar /\ Sourced
<1>1. Running => line \in CommandLine /\ line.limit \in 1..1000
  BY DEF Inv0, GetTypes
<1>2. \A k \in 1..1000 : k \in Nat /\ k >= 1
  OBVIOUS
<1>3. /\ Aged /\ cluster \subseteq Object /\ archive \in Seq(Object) /\ list \in Seq(Items)
      /\ saw \in [Origin -> SUBSET Object] /\ more \subseteq Origin /\ turn \in 1..3
  BY AgesAged DEF Inv0, BaseTypes, GetTypes
<1>4. Running => MergedSoFar /\ Sourced
  BY DEF Inv0
<1>5. Running => line.limit \in Nat /\ line.limit >= 1
  <2>1. PICK k : k = line.limit
    OBVIOUS
  <2>2. Running => k \in 1..1000
    BY <1>1, <2>1
  <2>3. Running => k \in Nat /\ k >= 1
    BY <1>2, <2>2
  <2> QED
    BY <2>1, <2>3
<1> QED
  BY <1>1, <1>3, <1>4, <1>5

\* Archiving and deleting keep the types.
LEMMA TypesWorld ==
    ASSUME Inv0, NEW o \in Object, Archive(o) \/ Delete(o)
    PROVE  (BaseTypes /\ GetTypes /\ Named)'
<1>0. UNCHANGED <<created, line, pc, turn, source, list, notFound, more, next, start, saw, shown>>
  BY DEF Archive, Delete, output
<1>1. /\ cluster' \subseteq cluster /\ lost' \subseteq Object
      /\ archive' \in Seq(Object) /\ ToSet(archive') \subseteq Object /\ IsInjective(archive')
  <2>1. CASE Archive(o)
    <3>1. o \notin ToSet(archive) /\ archive' = Append(archive, o) /\ cluster' = cluster /\ lost' = lost
      BY <2>1 DEF Archive
    <3>2. archive \in Seq(Object) /\ IsInjective(archive) /\ lost \subseteq Object
      BY DEF Inv0, GetTypes, BaseTypes
    <3>3. /\ archive' \in Seq(Object) /\ Len(archive') = Len(archive) + 1
          /\ DOMAIN archive' = 1..(Len(archive) + 1) /\ DOMAIN archive = 1..Len(archive)
          /\ \A i \in 1..(Len(archive) + 1) :
               archive'[i] = IF i = Len(archive) + 1 THEN o ELSE archive[i]
      BY <3>1, <3>2, AppendProperties
    <3>4. ToSet(archive') \subseteq Object
      BY <3>3 DEF ToSet
    <3>5. IsInjective(archive')
      <4>1. SUFFICES ASSUME NEW i \in DOMAIN archive', NEW j \in DOMAIN archive',
                            archive'[i] = archive'[j]
                     PROVE  i = j
        BY DEF IsInjective
      <4>2. \A k \in 1..(Len(archive) + 1) : k # Len(archive) + 1 => k \in DOMAIN archive
        BY <3>2, <3>3
      <4>3. \A k \in DOMAIN archive : archive[k] # o
        BY <3>1 DEF ToSet
      <4> QED
        BY <3>2, <3>3, <4>1, <4>2, <4>3 DEF IsInjective
    <3> QED
      BY <3>1, <3>2, <3>3, <3>4, <3>5
  <2>2. CASE Delete(o)
    BY <2>2 DEF Delete, Inv0, GetTypes, BaseTypes
  <2> QED
    BY <2>1, <2>2
<1>2. BaseTypes'
  BY <1>0, <1>1 DEF Inv0, BaseTypes
<1>3. GetTypes'
  <2>1. NextLine' = NextLine
    BY <1>0 DEF NextLine
  <2> QED
    BY <1>0, <1>1, <2>1 DEF Inv0, GetTypes, Running
<1>4. Named'
  <2>1. InArchive' = InArchive
    BY <1>0 DEF InArchive, InBounds
  <2> QED
    BY <1>0, <1>1, <2>1 DEF Inv0, Named, Running
<1> QED
  BY <1>2, <1>3, <1>4

\* What Complete decides about a command line that is not refused.
LEMMA Accepted ==
    ASSUME NEW l, ~Refused(l)
    PROVE  l.limit \in 1..1000
BY DEF Refused

\* Giving a command keeps the types.
LEMMA TypesCommand ==
    ASSUME Inv0, NEW l \in Options \cup ({next} \ {None}), Command(l)
    PROVE  (BaseTypes /\ GetTypes /\ Named)'
<1>0. /\ UNCHANGED <<created, cluster, archive, lost>> /\ line' = l /\ next' = None
      /\ list' = <<>> /\ more' = {} /\ turn' = 1
      /\ start' = cluster \cup ToSet(archive) /\ saw' = [s \in Origin |-> {}]
      /\ shown' = shown \cup {list[i].obj : i \in DOMAIN list}
      /\ IF Refused(l) THEN pc' = "failed" /\ UNCHANGED <<source, notFound>>
         ELSE /\ pc' = "run" /\ source' = Sources(l)
              /\ notFound' = {"cluster", "archive"} \ Sources(l)
  BY DEF Command, world, Origin
<1>1. l \in CommandLine
  BY GetAssumption DEF Inv0, BaseTypes
<1>2. BaseTypes'
  <2>1. notFound' \cup source' \subseteq Origin
    BY <1>0 DEF Inv0, BaseTypes, Sources, Origin
  <2>2. pc' \in {"run", "failed"} /\ 1 \in 1..3
    BY <1>0
  <2> QED
    BY <1>0, <1>1, <2>1, <2>2 DEF Inv0, BaseTypes
<1>3. GetTypes'
  <2>1. shown' \subseteq Object
    <3>1. \A i \in DOMAIN list : list[i] \in Items
      BY DEF Inv0, GetTypes
    <3>2. \A i \in DOMAIN list : list[i].obj \in Object
      BY <3>1, ItemFacts
    <3> QED
      BY <1>0, <3>2 DEF Inv0, GetTypes
  <2>2. Running' => line' \in CommandLine /\ line'.limit \in 1..1000
    <3>1. Running' => ~Refused(l)
      BY <1>0 DEF Running
    <3>2. ~Refused(l) => l.limit \in 1..1000
      BY Accepted
    <3> QED
      BY <1>0, <1>1, <3>1, <3>2
  <2>3. pc' # "shell" /\ pc' # "done"
    BY <1>0
  <2>4. saw' \in [Origin -> SUBSET Object]
    BY <1>0
  <2>5. start' \subseteq Object /\ list' \in Seq(Items)
    BY <1>0 DEF Inv0, BaseTypes
  <2> QED
    BY <1>0, <2>1, <2>2, <2>3, <2>4, <2>5 DEF Inv0, GetTypes
<1>4. Named'
  <2>1. saw'["cluster"] = {} /\ InArchive' = {}
    BY <1>0 DEF InArchive, Origin
  <2> QED
    BY <1>0, <2>1 DEF Inv0, Named
<1> QED
  BY <1>2, <1>3, <1>4

\* A step of Run that is not about the sources.
LEMMA TypesStill ==
    ASSUME Inv0, UNCHANGED <<created, cluster, archive, lost, line, source, list, more, start, saw, shown>>,
           turn' \in 1..3, notFound' \subseteq Origin, pc' \in {"run", "failed", "done"},
           next' \in CommandLine \cup {None}, Running,
           pc' = "done" => /\ turn' = 3 /\ list # <<>>
                           /\ next' = IF more = {} THEN None ELSE NextLine
    PROVE  (BaseTypes /\ GetTypes /\ Named)'
<1>1. NextLine' = NextLine /\ InArchive' = InArchive
  BY DEF NextLine, InArchive, InBounds
<1>2. BaseTypes'
  BY DEF Inv0, BaseTypes
<1>3. GetTypes'
  BY <1>1 DEF Inv0, GetTypes, Running
<1>4. Named'
  BY <1>1 DEF Inv0, Named
<1> QED
  BY <1>2, <1>3, <1>4

\* Two members of a set of at most one are equal.
LEMMA AtMostOne ==
    ASSUME NEW S, IsFiniteSet(S), Cardinality(S) <= 1, NEW o \in S, NEW p \in S
    PROVE  o = p
<1>1. SUFFICES ASSUME o # p PROVE FALSE
  OBVIOUS
<1>2. IsFiniteSet({o}) /\ Cardinality({o}) = 1
  BY FS_Singleton
<1>3. Cardinality({o} \cup {p}) = Cardinality({o}) + 1
  BY <1>1, <1>2, FS_AddElement
<1>4. {o} \cup {p} \in SUBSET S
  OBVIOUS
<1>5. Cardinality({o} \cup {p}) <= Cardinality(S) /\ Cardinality(S) \in Nat
  BY <1>4, FS_Subset, FS_CardinalityType
<1> QED
  BY <1>2, <1>3, <1>5

\* An answer keeps the types.
LEMMA TypesAsk ==
    ASSUME Inv0, AskCluster \/ AskArchive, list' \in Seq(Items), more' \subseteq Origin
    PROVE  (BaseTypes /\ GetTypes /\ Named)'
<1>0. UNCHANGED <<created, cluster, archive, lost, line, pc, source, next, start, shown>>
  BY DEF AskCluster, AskArchive, world, output
<1>1. /\ pc = "run" /\ Running /\ turn' = turn + 1
      /\ turn \in 1..3 /\ turn \in DOMAIN Order /\ notFound' \subseteq notFound \cup Origin
  BY DEF AskCluster, AskArchive, At, Asking, Running, Inv0, BaseTypes, Origin
<1>2. turn' \in 1..3
  BY <1>1, OrderIs
<1>3. saw' \in [Origin -> SUBSET Object]
  BY DEF AskCluster, AskArchive, Inv0, GetTypes, BaseTypes
<1>4. BaseTypes'
  BY <1>0, <1>1, <1>2 DEF Inv0, BaseTypes
<1>5. GetTypes'
  BY <1>0, <1>1, <1>3 DEF Inv0, GetTypes, Running
<1>6. Named'
  <2>1. CASE AskCluster
    <3>1. saw' = [saw EXCEPT !["cluster"] = cluster] /\ saw \in [Origin -> SUBSET Object]
      BY <2>1 DEF AskCluster, Inv0, GetTypes
    <3>2. saw'["cluster"] = cluster /\ saw'["archive"] = saw["archive"]
      BY <3>1 DEF Origin
    <3>3. InArchive' = InArchive
      BY <1>0, <3>2 DEF InArchive, InBounds
    <3> QED
      BY <1>0, <1>1, <3>2, <3>3 DEF Inv0, Named, Running
  <2>2. CASE AskArchive
    <3>1. saw' = [saw EXCEPT !["archive"] = ToSet(archive)] /\ saw \in [Origin -> SUBSET Object]
      BY <2>2 DEF AskArchive, Inv0, GetTypes
    <3>2. saw'["archive"] = ToSet(archive) /\ saw'["cluster"] = saw["cluster"]
      BY <3>1 DEF Origin
    <3>3. InArchive' = Listed(line)
      BY <1>0, <3>2 DEF InArchive, InBounds, Listed
    <3>4. Listed(line) \in SUBSET Object
      BY DEF Listed, Inv0, BaseTypes
    <3>5. IsFiniteSet(Listed(line))
      BY <3>4, GetAssumption, FS_Subset
    <3>6. line.name # None => \A p, q \in Listed(line) : p = q
      <4>1. line.name # None => Cardinality(Listed(line)) <= 1
        BY <2>2 DEF AskArchive
      <4> QED
        BY <3>5, <4>1, AtMostOne
    <3> QED
      BY <1>0, <1>1, <3>2, <3>3, <3>6 DEF Inv0, Named, Running
  <2> QED
    BY <2>1, <2>2
<1> QED
  BY <1>4, <1>5, <1>6

-----------------------------------------------------------------------------
(* Nothing is lost between the two requests *)

\* An object that is archived and deleted while a command runs stays
\* accounted for.
LEMMA SourcedWorld ==
    ASSUME Inv0, Sourced, NEW o \in Object, Archive(o) \/ Delete(o)
    PROVE  Sourced'
<1>0. UNCHANGED <<turn, source, notFound, start, saw>>
  BY DEF Archive, Delete, output
<1>1. CASE Archive(o)
  <2>1. archive \in Seq(Object) /\ archive' = Append(archive, o) /\ cluster' = cluster /\ lost' = lost
    BY <1>1 DEF Archive, Inv0, GetTypes
  <2>2. \A x \in ToSet(archive) : x \in ToSet(archive')
    <3>1. SUFFICES ASSUME NEW i \in DOMAIN archive PROVE archive[i] \in ToSet(archive')
      BY DEF ToSet
    <3>2. i \in DOMAIN archive' /\ archive'[i] = archive[i]
      BY <2>1, AppendProperties
    <3> QED
      BY <3>2 DEF ToSet
  <2> QED
    BY <1>0, <2>1, <2>2 DEF Sourced
<1>2. CASE Delete(o)
  <2>1. /\ archive' = archive /\ cluster' = cluster \ {o}
        /\ lost' = IF o \in ToSet(archive) THEN lost ELSE lost \cup {o}
    BY <1>2 DEF Delete
  <2> QED
    BY <1>0, <2>1 DEF Sourced
<1> QED
  BY <1>1, <1>2

\* At the start of a command all objects are accounted for.
LEMMA SourcedCommand ==
    ASSUME NEW l, Command(l), pc' = "run"
    PROVE  Sourced'
<1>1. /\ UNCHANGED <<cluster, archive, lost>> /\ turn' = 1
      /\ start' = cluster \cup ToSet(archive) /\ saw' = [s \in Origin |-> {}]
      /\ source' = Sources(l) /\ notFound' = {"cluster", "archive"} \ Sources(l)
  BY DEF Command, world, Origin
<1>2. saw'["cluster"] = {} /\ saw'["archive"] = {} /\ Origin \ source' \subseteq notFound'
  BY <1>1 DEF Origin
<1>3. turn' = 1 /\ ~(turn' >= 2) /\ turn' # 3
  BY <1>1
<1>4. start' \ lost' \subseteq cluster' \cup ToSet(archive')
  BY <1>1
<1> QED
  BY <1>2, <1>3, <1>4 DEF Sourced

\* A source that is passed over is among those not found.
LEMMA SourcedPassed ==
    ASSUME Inv0, Sourced, Asking,
           UNCHANGED <<cluster, archive, lost, source, start, saw>>,
           turn' = turn + 1, notFound \subseteq notFound', Order[turn] \in notFound'
    PROVE  Sourced'
<1>1. turn = 1 \/ turn = 2
  BY OrderIs DEF Asking, Inv0, BaseTypes
<1>2. CASE turn = 1
  <2>1. turn' = 2 /\ "cluster" \in notFound'
    BY <1>2, OrderIs
  <2> QED
    BY <1>2, <2>1 DEF Sourced
<1>3. CASE turn = 2
  <2>1. turn' = 3 /\ "archive" \in notFound'
    BY <1>3, OrderIs
  <2> QED
    BY <1>3, <2>1 DEF Sourced
<1> QED
  BY <1>1, <1>2, <1>3

\* What the cluster does not hold when it is asked is lost or archived.
LEMMA SourcedCluster ==
    ASSUME Inv0, Sourced, AskCluster
    PROVE  Sourced' /\ saw["cluster"] = {} /\ saw["archive"] = {}
<1>1. /\ UNCHANGED <<cluster, archive, lost, source, start>> /\ "cluster" \in source
      /\ saw' = [saw EXCEPT !["cluster"] = cluster] /\ saw \in [Origin -> SUBSET Object]
      /\ turn \in 1..3 /\ turn \in DOMAIN Order /\ Order[turn] = "cluster" /\ turn' = turn + 1
      /\ notFound \subseteq notFound'
  BY DEF AskCluster, At, Asking, world, output, Inv0, GetTypes, BaseTypes
<1>2. turn = 1 /\ turn' = 2
  BY <1>1, OrderIs
<1>3. saw'["cluster"] = cluster /\ saw'["archive"] = saw["archive"]
  BY <1>1 DEF Origin
<1> QED
  BY <1>1, <1>2, <1>3 DEF Sourced

\* What neither source held when it was asked is lost.
LEMMA SourcedArchive ==
    ASSUME Inv0, Sourced, AskArchive
    PROVE  Sourced' /\ saw["archive"] = {}
<1>1. /\ UNCHANGED <<cluster, archive, lost, source, start>> /\ "archive" \in source
      /\ saw' = [saw EXCEPT !["archive"] = ToSet(archive)] /\ saw \in [Origin -> SUBSET Object]
      /\ turn \in 1..3 /\ turn \in DOMAIN Order /\ Order[turn] = "archive" /\ turn' = turn + 1
      /\ notFound \subseteq notFound'
  BY DEF AskArchive, At, Asking, world, output, Inv0, GetTypes, BaseTypes
<1>2. turn = 2 /\ turn' = 3
  BY <1>1, OrderIs
<1>3. saw'["archive"] = ToSet(archive) /\ saw'["cluster"] = saw["cluster"]
  BY <1>1 DEF Origin
<1> QED
  BY <1>1, <1>2, <1>3 DEF Sourced

-----------------------------------------------------------------------------
(* A walk through the pages *)

\* While a command runs, its place in the walk is what it was.
LEMMA WalkKept ==
    ASSUME Walk, UNCHANGED <<created, shown, line, source>>, cluster' \subseteq cluster,
           Running' => Running,
           saw'["cluster"] = saw["cluster"] \/ (saw'["cluster"] = cluster /\ "cluster" \in source)
    PROVE  Walk'
<1>1. SUFFICES ASSUME Running', shown' # {}, "archive" \in source'
               PROVE  \E t \in {created'[o] : o \in Object},
                         K \in SUBSET {Key(o)' : o \in Object} : WalkedTo(t, K)'
  BY DEF Walk
<1>2. PICK t \in {created[o] : o \in Object}, K \in SUBSET {Key(o) : o \in Object} : WalkedTo(t, K)
  BY <1>1 DEF Walk
<1>3. \A o : Key(o)' = Key(o)
  BY DEF Key
<1>4. WalkedTo(t, K)'
  BY <1>2, <1>3 DEF WalkedTo
<1> QED
  BY <1>2, <1>3, <1>4

\* A command about one name leaves out an object of at most one source.
LEMMA OneNameOneTrim ==
    ASSUME Inv0, Running, line.name # None
    PROVE  ~({"cluster", "archive"} \subseteq more)
<1>1. SUFFICES ASSUME {"cluster", "archive"} \subseteq more PROVE FALSE
  OBVIOUS
<1>2. PICK P \in SUBSET Object, T \in SUBSET Origin :
        /\ Returned(P) /\ Merged(list, T, Answers(P), line.limit)
        /\ T \subseteq more /\ more \subseteq T \cup {"archive"}
        /\ T # more => P # InArchive
  BY DEF Inv0, MergedSoFar
<1>3. P = InArchive /\ "cluster" \in T /\ "archive" \in T
  BY <1>1, <1>2 DEF Returned
<1>4. Answers(P)["cluster"] = InCluster /\ Answers(P)["archive"] = InArchive
  BY <1>3 DEF Answers, Origin
<1>5. PICK x \in InCluster : AllBefore(list, x)
  BY <1>2, <1>3, <1>4 DEF Merged
<1>6. PICK y \in InArchive : AllBefore(list, y)
  BY <1>2, <1>3, <1>4 DEF Merged
<1>7. Len(list) = line.limit /\ list \in Seq(Items) /\ line.limit >= 1 /\ line.limit \in Nat
  BY <1>2, <1>3, InvFacts DEF Merged
<1>8. 1 \in DOMAIN list
  BY <1>7
<1>9. list[1].obj \in InCluster \cup InArchive
  BY <1>2, <1>4, <1>8 DEF Merged, Sound
<1>10. list[1] \in Items
  BY <1>7, <1>8
<1>11. ~SortsBefore(list[1].obj, list[1].obj)
  BY <1>10, InvFacts, OrderFacts, ItemFacts
<1>12. list[1].obj = x \/ list[1].obj = y
  <2>1. CASE list[1].obj \in InCluster
    BY <1>5, <2>1 DEF InCluster, Fits, Inv0, Named
  <2>2. CASE list[1].obj \in InArchive
    BY <1>6, <2>2 DEF Inv0, Named
  <2> QED
    BY <1>9, <2>1, <2>2
<1> QED
  BY <1>5, <1>6, <1>8, <1>11, <1>12 DEF AllBefore

\* As many keys as items.
LEMMA ManyKeys ==
    ASSUME Aged, NEW r \in Seq(Items), Ordered(r), NEW K, IsFiniteSet(K),
           \A i \in 1..Len(r) : Key(r[i].obj) \in K
    PROVE  Len(r) <= Cardinality(K) /\ Cardinality(K) \in Nat
<1>0. Len(r) \in Nat /\ DOMAIN r = 1..Len(r) /\ \A i \in 1..Len(r) : r[i] \in Items
  OBVIOUS
<1>1. \A i \in 1..Len(r) : r[i].obj \in Object
  BY <1>0, ItemFacts
<1>2. PICK f : f = [i \in 1..Len(r) |-> Key(r[i].obj)]
  OBVIOUS
<1>3. f \in [1..Len(r) -> K] /\ \A i \in 1..Len(r) : f[i] = Key(r[i].obj)
  BY <1>2
<1>4. \A i, j \in 1..Len(r) : i # j => f[i] # f[j]
  <2>1. SUFFICES ASSUME NEW i \in 1..Len(r), NEW j \in 1..Len(r), i # j, f[i] = f[j] PROVE FALSE
    OBVIOUS
  <2>2. i < j \/ j < i
    BY <1>0, <2>1
  <2>3. SortsBefore(r[i].obj, r[j].obj) \/ SortsBefore(r[j].obj, r[i].obj)
    BY <1>0, <2>2 DEF Ordered
  <2>4. Same(r[i].obj, r[j].obj)
    BY <1>3, <2>1 DEF Key, Same
  <2> QED
    BY <1>1, <2>3, <2>4, OrderFacts
<1>5. PICK V : V = Values(f, Len(r))
  OBVIOUS
<1>6. V \in SUBSET K /\ Cardinality(V) = Len(r)
  BY <1>0, <1>3, <1>4, <1>5, ValuesOf
<1>7. Cardinality(V) <= Cardinality(K)
  BY <1>6, FS_Subset
<1> QED
  BY <1>6, <1>7, FS_CardinalityType

\* Objects have finitely many keys.
LEMMA KeysFinite ==
    ASSUME NEW K \in SUBSET {Key(o) : o \in Object}
    PROVE  IsFiniteSet(K)
<1>1. PICK V : V = {Key(o) : o \in Object}
  OBVIOUS
<1>2. PICK f : f = [o \in Object |-> Key(o)]
  OBVIOUS
<1>3. f \in Surjection(Object, V)
  BY <1>1, <1>2 DEF Surjection
<1>4. IsFiniteSet(V)
  BY <1>3, GetAssumption, FS_Surjection
<1> QED
  BY <1>1, <1>4, FS_Subset

\* A number from 1 is not 0.
LEMMA AtLeastOne ==
    ASSUME NEW k \in Nat, k >= 1
    PROVE  k # 0
OBVIOUS

\* A place that is not the last is before it.
LEMMA BelowTop ==
    ASSUME NEW n \in Nat, NEW i \in 1..n, i # n
    PROVE  i < n
OBVIOUS

\* One nanosecond before second t, cut to whole seconds, is t - 1.
LEMMA HalfSecond ==
    ASSUME NEW t \in Nat \ {0}
    PROVE  2 * t - 1 \in Nat /\ (2 * t - 1) \div 2 = t - 1 /\ t - 1 < t
OBVIOUS

\* Sources of the next page.
LEMMA NextSources ==
    ASSUME Inv0, pc = "done", more # {}, "archive" \in Sources(NextLine)
    PROVE  "archive" \in more /\ ("cluster" \in Sources(NextLine) => "cluster" \in more)
<1>1. /\ NextLine.inCluster = IF more = {"cluster"} THEN "true" ELSE "default"
      /\ NextLine.archived = IF more = {"archive"} THEN "true" ELSE "default"
  BY NextLineFacts, InvFacts DEF Inv0, GetTypes, Running
<1>2. more \subseteq {"cluster", "archive"}
  BY InvFacts DEF Origin
<1>3. more # {"cluster"}
  BY <1>1 DEF Sources
<1>4. "archive" \in more
  BY <1>2, <1>3
<1>5. "cluster" \in Sources(NextLine) => more # {"archive"}
  BY <1>1 DEF Sources
<1> QED
  BY <1>2, <1>4, <1>5

\* Nothing on a page is older than its last object.
LEMMA LastIsOldest ==
    ASSUME Aged, NEW r \in Seq(Items), Ordered(r), r # <<>>
    PROVE  /\ Len(r) \in DOMAIN r /\ r[Len(r)].obj \in Object
           /\ \A i \in DOMAIN r : /\ r[i].obj \in Object
                                  /\ created[r[i].obj] >= created[r[Len(r)].obj]
<1>0. /\ Len(r) \in Nat /\ DOMAIN r = 1..Len(r) /\ \A i \in 1..Len(r) : r[i] \in Items
      /\ Len(r) \in 1..Len(r)
  OBVIOUS
<1>1. \A i \in 1..Len(r) : r[i].obj \in Object
  BY <1>0, ItemFacts
<1>2. ASSUME NEW i \in 1..Len(r) PROVE created[r[i].obj] >= created[r[Len(r)].obj]
  <2>1. CASE i = Len(r)
    <3>1. PICK k : k = created[r[i].obj]
      OBVIOUS
    <3>2. k \in Nat
      BY <1>1, <3>1 DEF Aged
    <3>3. k >= k
      BY <3>2
    <3> QED
      BY <2>1, <3>1, <3>3
  <2>2. CASE i # Len(r)
    <3>1. i < Len(r)
      BY <1>0, <2>2, BelowTop
    <3>2. SortsBefore(r[i].obj, r[Len(r)].obj)
      BY <1>0, <3>1 DEF Ordered
    <3> QED
      BY <1>0, <1>1, <3>2, OrderFacts
  <2> QED
    BY <2>1, <2>2
<1> QED
  BY <1>0, <1>1, <1>2

\* KubeArchive returns nothing of the second that --before names, or later.
LEMMA ReturnedIsOlder ==
    ASSUME Aged, NEW t \in Nat \ {0}, NEW K, WalkedTo(t, K), NEW P \in SUBSET Object, Returned(P)
    PROVE  \A p \in P : created[p] < t
<1>1. SUFFICES ASSUME NEW p \in P PROVE created[p] < t
  OBVIOUS
<1>2. InBounds(p, line)
  BY DEF Returned, InArchive
<1>3. line.name = None /\ line.before = 2 * t - 1
  BY DEF WalkedTo
<1>4. 2 * t - 1 \in Nat /\ (2 * t - 1) \div 2 = t - 1 /\ None \notin Nat
  BY HalfSecond, GetAssumption
<1>5. PICK b : b = line.before \div 2
  OBVIOUS
<1>6. created[p] < b
  BY <1>2, <1>3, <1>4, <1>5 DEF InBounds
<1>7. b = t - 1
  BY <1>3, <1>4, <1>5
<1>8. created[p] \in Nat
  BY DEF Aged
<1> QED
  BY <1>6, <1>7, <1>8

\* A page that is not the last reaches as far back as the one before it.
LEMMA NoStepForward ==
    ASSUME Inv0, pc = "done", more # {}, NEW t \in Nat \ {0},
           NEW K \in SUBSET {Key(o) : o \in Object}, WalkedTo(t, K)
    PROVE  created[list[Len(list)].obj] <= t
<1>0. /\ Running /\ Aged /\ list \in Seq(Items) /\ list # <<>> /\ MergedSoFar
      /\ line \in CommandLine /\ line.limit \in Nat /\ line.limit >= 1
  BY InvFacts DEF Running, Inv0, GetTypes
<1>1. PICK P \in SUBSET Object, T \in SUBSET Origin :
        /\ Returned(P) /\ Merged(list, T, Answers(P), line.limit)
        /\ T \subseteq more /\ more \subseteq T \cup {"archive"}
        /\ T # more => P # InArchive
  BY <1>0 DEF MergedSoFar
<1>2. Ordered(list) /\ Sound(list, Answers(P))
  BY <1>1 DEF Merged
<1>3. PICK z : z = list[Len(list)].obj
  OBVIOUS
<1>4. /\ z \in Object /\ \A i \in DOMAIN list : list[i].obj \in Object /\ created[list[i].obj] >= created[z]
  BY <1>0, <1>2, <1>3, LastIsOldest
<1>5. \A o \in Object : created[o] \in Int
  BY <1>0 DEF Aged
<1>6. SUFFICES ASSUME created[z] > t PROVE FALSE
  BY <1>3, <1>4, <1>5
<1>7. \A i \in DOMAIN list : created[list[i].obj] > t
  BY <1>4, <1>5, <1>6
<1>8. \A p \in P : created[p] < t
  BY <1>0, <1>1, ReturnedIsOlder
<1>9. \A i \in DOMAIN list : Key(list[i].obj) \in K
  <2>1. SUFFICES ASSUME NEW i \in DOMAIN list PROVE Key(list[i].obj) \in K
    OBVIOUS
  <2>2. list[i].obj \in Answers(P)["cluster"] \cup Answers(P)["archive"]
    BY <1>2 DEF Sound
  <2>3. Answers(P)["cluster"] = InCluster /\ Answers(P)["archive"] = P
    BY DEF Answers, Origin
  <2>4. ~(created[list[i].obj] < t)
    BY <1>4, <1>5, <1>7
  <2>5. list[i].obj \in saw["cluster"]
    BY <1>8, <2>2, <2>3, <2>4 DEF InCluster
  <2> QED
    BY <1>7, <2>5 DEF WalkedTo
<1>10. Len(list) <= Cardinality(K) /\ Cardinality(K) \in Nat
  <2>1. \A i \in 1..Len(list) : Key(list[i].obj) \in K
    BY <1>0, <1>9
  <2>2. IsFiniteSet(K)
    BY KeysFinite
  <2> QED
    BY <1>0, <1>2, <2>1, <2>2, ManyKeys
<1>11. Len(list) # line.limit
  <2>1. Cardinality(K) < line.limit /\ Len(list) \in Nat
    BY <1>0 DEF WalkedTo
  <2> QED
    BY <1>0, <1>10, <2>1
<1>12. T = {} /\ P # InArchive
  BY <1>1, <1>11 DEF Merged
<1>13. Cardinality(P) = line.limit
  BY <1>1, <1>12 DEF Returned
<1>14. P # {}
  <2>1. Cardinality({}) = 0
    BY FS_EmptySet
  <2> QED
    BY <1>0, <1>13, <2>1, AtLeastOne
<1>15. PICK p \in P : TRUE
  BY <1>14
<1>16. Noted(list, T, p, "archive", line.limit)
  <2>1. Answers(P)["archive"] = P /\ "archive" \in Origin
    BY DEF Answers, Origin
  <2> QED
    BY <1>1, <1>15, <2>1 DEF Merged
<1>17. PICK i \in DOMAIN list : Same(list[i].obj, p)
  BY <1>11, <1>16 DEF Noted
<1>18. created[list[i].obj] = created[p] /\ created[p] < t /\ created[p] > t
  BY <1>7, <1>8, <1>15, <1>17 DEF Same
<1> QED
  BY <1>5, <1>15, <1>18

\* The part of the cluster that is newer than the page's last object is on it.
LEMMA NewerIsShown ==
    ASSUME Inv0, pc = "done", {"cluster", "archive"} \subseteq more, NEW x \in cluster,
           created[x] > created[list[Len(list)].obj]
    PROVE  \E i \in 1..(Len(list) - 1) : Key(list[i].obj) = Key(x)
<1>0. /\ Running /\ Aged /\ list \in Seq(Items) /\ list # <<>> /\ MergedSoFar /\ Sourced
      /\ line \in CommandLine /\ cluster \subseteq Object
  BY InvFacts DEF Running, Inv0, GetTypes
<1>1. PICK P \in SUBSET Object, T \in SUBSET Origin :
        /\ Returned(P) /\ Merged(list, T, Answers(P), line.limit)
        /\ T \subseteq more /\ more \subseteq T \cup {"archive"}
        /\ T # more => P # InArchive
  BY <1>0 DEF MergedSoFar
<1>2. Answers(P)["cluster"] = InCluster /\ "cluster" \in Origin /\ "cluster" \in T
  BY <1>1 DEF Answers, Origin
<1>3. InCluster # {} /\ line.name = None
  BY <1>0, <1>1, <1>2, OneNameOneTrim DEF Merged
<1>4. x \in InCluster
  BY <1>0, <1>3 DEF InCluster, Fits, Sourced
<1>5. Noted(list, T, x, "cluster", line.limit)
  BY <1>1, <1>2, <1>4 DEF Merged
<1>6. /\ Len(list) \in DOMAIN list /\ list[Len(list)].obj \in Object
  BY <1>0, <1>1, LastIsOldest DEF Merged
<1>7. x \in Object /\ \A o \in Object : created[o] \in Int
  BY <1>0 DEF Aged
<1>8. ~AllBefore(list, x)
  <2>1. ~SortsBefore(list[Len(list)].obj, x)
    BY <1>6, <1>7 DEF SortsBefore
  <2> QED
    BY <1>6, <2>1 DEF AllBefore
<1>9. PICK i \in DOMAIN list : Same(list[i].obj, x)
  BY <1>5, <1>8 DEF Noted
<1>10. created[list[i].obj] = created[x] /\ Key(list[i].obj) = Key(x)
  BY <1>9 DEF Same, Key
<1>11. i # Len(list)
  BY <1>6, <1>7, <1>10
<1>12. i \in 1..(Len(list) - 1)
  BY <1>0, <1>11
<1> QED
  BY <1>10, <1>12

\* The keys of all but the page's last object.
LEMMA KeysBefore ==
    ASSUME NEW r \in Seq(Items), r # <<>>
    PROVE  LET K == Values([i \in 1..(Len(r) - 1) |-> Key(r[i].obj)], Len(r) - 1)
           IN  /\ K \in SUBSET {Key(o) : o \in Object} /\ Cardinality(K) \in Nat
               /\ Cardinality(K) <= Len(r) - 1
               /\ \A i \in 1..(Len(r) - 1) : Key(r[i].obj) \in K
<1>0. /\ Len(r) \in Nat /\ Len(r) - 1 \in Nat /\ DOMAIN r = 1..Len(r)
      /\ \A i \in 1..Len(r) : r[i] \in Items
      /\ \A i \in 1..(Len(r) - 1) : i \in 1..Len(r)
  OBVIOUS
<1>1. \A i \in 1..(Len(r) - 1) : r[i].obj \in Object
  BY <1>0, ItemFacts
<1>2. PICK n : n = Len(r) - 1
  OBVIOUS
<1>3. PICK f : f = [i \in 1..n |-> Key(r[i].obj)]
  OBVIOUS
<1>4. PICK A : A = {Key(o) : o \in Object}
  OBVIOUS
<1>5. n \in Nat /\ f \in [1..n -> A] /\ \A i \in 1..n : f[i] = Key(r[i].obj)
  BY <1>0, <1>1, <1>2, <1>3, <1>4
<1>6. PICK K : K = Values(f, n)
  OBVIOUS
<1>7. K \in SUBSET A /\ Cardinality(K) \in Nat /\ Cardinality(K) <= n
  BY <1>5, <1>6, ValuesOf
<1>8. \A i \in 1..n : Key(r[i].obj) \in K
  BY <1>5, <1>6 DEF Values
<1> QED
  BY <1>2, <1>3, <1>4, <1>6, <1>7, <1>8

\* The next command goes on where the page ended: all that was shown is no
\* older than its --before, and fewer objects of the cluster than fill a page
\* are newer.
LEMMA WalkCommand ==
    ASSUME Inv0, Walk, NEW l \in Options \cup ({next} \ {None}), Command(l)
    PROVE  Walk'
<1>1. SUFFICES ASSUME Running', shown' # {}, "archive" \in source'
               PROVE  \E t \in {created'[o] : o \in Object},
                         K \in SUBSET {Key(o)' : o \in Object} : WalkedTo(t, K)'
  BY DEF Walk
<1>2. /\ pc = "shell" \/ (pc = "done" /\ l = next)
      /\ UNCHANGED <<created, cluster, archive, lost>> /\ line' = l
      /\ shown' = shown \cup {list[i].obj : i \in DOMAIN list}
      /\ source' = Sources(l) /\ saw' = [s \in Origin |-> {}]
  BY <1>1 DEF Command, world, Origin, Running
<1>3. pc = "done" /\ l = next
  <2>1. pc = "shell" => shown' = {}
    <3>1. pc = "shell" => shown = {} /\ DOMAIN list = {}
      BY DEF Inv0, GetTypes
    <3> QED
      BY <1>2, <3>1
  <2> QED
    BY <1>1, <1>2, <2>1
<1>4. /\ Running /\ Aged /\ list \in Seq(Items) /\ list # <<>> /\ MergedSoFar /\ Sourced
      /\ line \in CommandLine /\ line.limit \in Nat /\ line.limit >= 1 /\ cluster \subseteq Object
  BY <1>3, InvFacts DEF Running, Inv0, GetTypes
<1>5. more # {} /\ l = NextLine
  <2>1. l # None
    BY GetAssumption
  <2> QED
    BY <1>3, <2>1 DEF Inv0, GetTypes
<1>6. PICK z : z = list[Len(list)].obj
  OBVIOUS
<1>7. PICK t : t = created[z]
  OBVIOUS
<1>8. Ordered(list) /\ Marked
  BY <1>4, MergedMarks DEF MergedSoFar, Merged
<1>9. z \in Object /\ \A i \in DOMAIN list : list[i].obj \in Object /\ created[list[i].obj] >= t
  BY <1>4, <1>6, <1>7, <1>8, LastIsOldest
<1>10. t \in Nat \ {0} /\ \A o \in Object : created[o] \in Int
  BY <1>4, <1>7, <1>9 DEF Aged
<1>11. /\ line'.limit = line.limit /\ line'.name = None /\ line'.before = 2 * t - 1
  BY <1>2, <1>4, <1>5, <1>6, <1>7, NextLineFacts DEF Last
<1>12. "archive" \in more /\ ("cluster" \in source' => "cluster" \in more)
  BY <1>1, <1>2, <1>3, <1>5, NextSources
<1>13. \A x \in shown : created[x] >= t
  <2>1. SUFFICES ASSUME NEW x \in shown PROVE created[x] >= t
    OBVIOUS
  <2>2. "archive" \in source /\ shown # {} /\ x \in Object
    BY <1>8, <1>12, <2>1 DEF Marked, Inv0, GetTypes
  <2>3. PICK t0 \in {created[o] : o \in Object}, K0 \in SUBSET {Key(o) : o \in Object} :
          WalkedTo(t0, K0)
    BY <1>4, <2>2 DEF Walk
  <2>4. t0 \in Nat \ {0}
    BY <1>4, <2>3 DEF Aged
  <2>5. t <= t0
    BY <1>3, <1>5, <1>6, <1>7, <2>3, <2>4, NoStepForward
  <2>6. created[x] >= t0
    BY <2>1, <2>3 DEF WalkedTo
  <2>7. created[x] \in Int
    BY <1>10, <2>2
  <2> QED
    BY <1>10, <2>4, <2>5, <2>6, <2>7
<1>14. \A x \in shown' : created'[x] >= t
  BY <1>2, <1>9, <1>13
<1>15. PICK K : K = Values([i \in 1..(Len(list) - 1) |-> Key(list[i].obj)], Len(list) - 1)
  OBVIOUS
<1>16. /\ K \in SUBSET {Key(o) : o \in Object} /\ Cardinality(K) \in Nat
       /\ Cardinality(K) <= Len(list) - 1
       /\ \A i \in 1..(Len(list) - 1) : Key(list[i].obj) \in K
  BY <1>4, <1>15, KeysBefore
<1>17. Cardinality(K) < line'.limit
  <2>1. Len(list) \in Nat /\ Len(list) <= line.limit
    BY <1>4, <1>8 DEF Marked
  <2> QED
    BY <1>4, <1>11, <1>16, <2>1
<1>18. \A o : Key(o)' = Key(o)
  BY <1>2 DEF Key
<1>19. "cluster" \in source' => \A x \in cluster' : created'[x] > t => Key(x)' \in K
  <2>1. SUFFICES ASSUME "cluster" \in source', NEW x \in cluster, created[x] > t
                 PROVE  Key(x) \in K
    BY <1>2, <1>18
  <2>2. {"cluster", "archive"} \subseteq more /\ created[x] > created[list[Len(list)].obj]
    BY <1>6, <1>7, <1>12, <2>1
  <2>3. PICK i \in 1..(Len(list) - 1) : Key(list[i].obj) = Key(x)
    BY <1>3, <2>1, <2>2, NewerIsShown
  <2> QED
    BY <1>16, <2>3
<1>20. saw'["cluster"] = {}
  BY <1>2 DEF Origin
<1>21. WalkedTo(t, K)'
  BY <1>11, <1>14, <1>17, <1>19, <1>20 DEF WalkedTo
<1>22. t \in {created'[o] : o \in Object} /\ K \in SUBSET {Key(o)' : o \in Object}
  BY <1>2, <1>7, <1>9, <1>16, <1>18
<1> QED
  BY <1>21, <1>22

-----------------------------------------------------------------------------
(* The invariant *)

\* Also after a failure, marks are sources that were asked.
MarksOK == \A i \in DOMAIN list : list[i].in # {} /\ list[i].in \subseteq source

\* The invariant without and with the marks.
LEMMA InvParts == GetInv => Inv0 /\ Walk /\ MarksOK
BY TypeOKBase DEF GetInv, Inv0, TypeOK, MarksOK

\* A page that was merged has marks of sources that were asked.
LEMMA InvTogether == Inv0 /\ Walk /\ (pc = "failed" => MarksOK) => GetInv
BY TypesTogether DEF GetInv, Inv0, MarksOK

\* The invariant holds before the first command.
LEMMA GetInit == Init => GetInv
<1> SUFFICES ASSUME Init PROVE GetInv
  OBVIOUS
<1>1. PICK c \in SUBSET Object, a \in SUBSET Object :
        /\ archive \in SetToSeqs(a) /\ cluster = c
        /\ \A o, p \in c : NameOf[o] = NameOf[p] => o = p
  BY DEF Init
<1>2. IsFiniteSet(a) /\ Cardinality(a) \in Nat
  <2>1. IsFiniteSet(a)
    BY GetAssumption, FS_Subset
  <2> QED
    BY <2>1, FS_CardinalityType
<1>3. PICK n \in Nat : n = Cardinality(a)
  BY <1>2
<1>4. archive \in [1..n -> a] /\ \A i, j \in 1..n : i # j => archive[i] # archive[j]
  BY <1>1, <1>3 DEF SetToSeqs
<1>5. archive \in Seq(Object) /\ ToSet(archive) \subseteq Object /\ IsInjective(archive)
  BY <1>4 DEF ToSet, IsInjective
<1>6. /\ created \in Ages /\ line = None /\ next = None /\ pc = "shell" /\ turn = 1
      /\ lost = {} /\ shown = {} /\ start = {} /\ source = {} /\ notFound = {} /\ more = {}
      /\ list = <<>> /\ saw = [s \in {"cluster", "archive"} |-> {}]
  BY DEF Init
<1>7. 1 \in 1..3 /\ <<>> \in Seq(Items) /\ ~Running
  BY <1>6 DEF Running
<1>8. BaseTypes
  BY <1>1, <1>5, <1>6, <1>7 DEF BaseTypes
<1>9. saw \in [Origin -> SUBSET Object] /\ saw["cluster"] = {}
  BY <1>6 DEF Origin
<1>10. GetTypes
  BY <1>5, <1>6, <1>7, <1>9 DEF GetTypes
<1>11. Named
  BY <1>1, <1>7, <1>9 DEF Named
<1>12. Inv0 /\ Walk /\ pc # "failed"
  BY <1>6, <1>7, <1>8, <1>10, <1>11 DEF Inv0, Walk
<1> QED
  BY <1>12, InvTogether

\* Archiving and deleting keep the invariant.
LEMMA StepWorld ==
    ASSUME Inv0, Walk, MarksOK, NEW o \in Object, Archive(o) \/ Delete(o)
    PROVE  Inv0' /\ Walk' /\ MarksOK'
<1>0. /\ UNCHANGED <<created, line, pc, turn, source, list, notFound, more, next, start, saw, shown>>
      /\ cluster' \subseteq cluster
  BY DEF Archive, Delete, output
<1>1. (BaseTypes /\ GetTypes /\ Named)'
  BY TypesWorld
<1>2. Running' => MergedSoFar' /\ Sourced'
  BY <1>0, MergedKept, SourcedWorld DEF Running, Inv0
<1>3. Walk'
  BY <1>0, WalkKept DEF Running
<1> QED
  BY <1>0, <1>1, <1>2, <1>3 DEF Inv0, MarksOK

\* Giving a command keeps the invariant.
LEMMA StepCommand ==
    ASSUME Inv0, Walk, NEW l \in Options \cup ({next} \ {None}), Command(l)
    PROVE  Inv0' /\ Walk' /\ MarksOK'
<1>0. /\ list' = <<>> /\ more' = {} /\ saw' = [s \in Origin |-> {}]
      /\ line' = l /\ pc' \in {"run", "failed"}
  BY DEF Command, Origin
<1>1. (BaseTypes /\ GetTypes /\ Named)'
  BY TypesCommand
<1>2. Running' => MergedSoFar' /\ Sourced'
  <2>1. SUFFICES ASSUME Running' PROVE MergedSoFar' /\ Sourced'
    OBVIOUS
  <2>2. pc' = "run" /\ line' \in CommandLine
    BY <1>0, <1>1, <2>1 DEF Running, GetTypes
  <2>3. line'.limit \in Nat
    BY <2>2, LineFacts
  <2> QED
    BY <1>0, <2>2, <2>3, MergedAtFirst, SourcedCommand
<1>3. Walk'
  BY WalkCommand
<1>4. MarksOK'
  <2>1. DOMAIN list' = {}
    BY <1>0
  <2> QED
    BY <2>1 DEF MarksOK
<1> QED
  BY <1>1, <1>2, <1>3, <1>4 DEF Inv0

\* An answer of a source keeps the invariant.
LEMMA StepAsk ==
    ASSUME Inv0, Walk, AskCluster \/ AskArchive
    PROVE  Inv0' /\ Walk' /\ pc' # "failed"
<1>0. /\ Running /\ pc' = pc /\ pc = "run"
      /\ UNCHANGED <<created, cluster, shown, line, source>>
  BY DEF AskCluster, AskArchive, At, Asking, world, output, Running
<1>1. /\ Aged /\ cluster \subseteq Object /\ archive \in Seq(Object) /\ list \in Seq(Items)
      /\ saw \in [Origin -> SUBSET Object] /\ more \subseteq Origin
      /\ line.limit \in Nat /\ line.limit >= 1 /\ MergedSoFar /\ Sourced
  BY <1>0, InvFacts
<1>2. CASE AskCluster
  <2>1. Sourced' /\ saw["cluster"] = {} /\ saw["archive"] = {}
    BY <1>1, <1>2, SourcedCluster
  <2>2. MergedSoFar' /\ list' \in Seq(Items) /\ more' \subseteq Origin
    BY <1>1, <1>2, <2>1, MergedByCluster
  <2>3. (BaseTypes /\ GetTypes /\ Named)'
    BY <1>2, <2>2, TypesAsk
  <2>4. saw'["cluster"] = cluster /\ "cluster" \in source
    BY <1>1, <1>2 DEF AskCluster, At, Origin
  <2>5. Walk'
    BY <1>0, <2>4, WalkKept
  <2> QED
    BY <1>0, <2>1, <2>2, <2>3, <2>5 DEF Inv0
<1>3. CASE AskArchive
  <2>1. Sourced' /\ saw["archive"] = {}
    BY <1>1, <1>3, SourcedArchive
  <2>2. MergedSoFar' /\ list' \in Seq(Items) /\ more' \subseteq Origin
    BY <1>1, <1>3, <2>1, MergedByArchive
  <2>3. (BaseTypes /\ GetTypes /\ Named)'
    BY <1>3, <2>2, TypesAsk
  <2>4. saw'["cluster"] = saw["cluster"]
    BY <1>1, <1>3 DEF AskArchive, Origin
  <2>5. Walk'
    BY <1>0, <2>4, WalkKept
  <2> QED
    BY <1>0, <2>1, <2>2, <2>3, <2>5 DEF Inv0
<1> QED
  BY <1>2, <1>3

\* A source is passed over, a request fails, or the page is printed.
LEMMA StepStill ==
    ASSUME Inv0, Walk, MarksOK, Skip \/ Finish \/ \E e \in {"notFound", "unauthorized", "other"} : AskFails(e)
    PROVE  Inv0' /\ Walk' /\ MarksOK'
<1>0. /\ UNCHANGED <<created, cluster, archive, lost, line, source, list, more, start, saw, shown>>
      /\ pc = "run" /\ Running
  BY DEF Skip, Finish, AskFails, Asking, world, output, Running
<1>1. /\ Aged /\ list \in Seq(Items) /\ line \in CommandLine /\ MergedSoFar /\ Sourced /\ turn \in 1..3
  BY <1>0, InvFacts
<1>2. notFound \subseteq Origin /\ next \in CommandLine \cup {None}
  BY DEF Inv0, BaseTypes
<1>3. ASSUME Asking PROVE Order[turn] \in Origin /\ turn + 1 \in 1..3
  BY <1>1, <1>3, OrderIs DEF Asking, Origin
<1>4. CASE Skip
  <2>1. /\ Asking /\ Order[turn] \notin source /\ turn' = turn + 1
        /\ UNCHANGED <<pc, notFound, next>>
    BY <1>4 DEF Skip, output
  <2>2. Order[turn] \in notFound'
    BY <1>1, <1>3, <2>1 DEF Sourced
  <2>3. Sourced'
    BY <1>0, <1>1, <2>1, <2>2, SourcedPassed
  <2>4. (BaseTypes /\ GetTypes /\ Named)'
    BY <1>0, <1>2, <1>3, <2>1, TypesStill
  <2> QED
    BY <1>0, <1>1, <2>1, <2>3, <2>4, MergedKept, WalkKept DEF Inv0, MarksOK
<1>5. CASE \E e \in {"notFound", "unauthorized", "other"} : AskFails(e)
  <2>1. Asking /\ next' = next
    BY <1>5 DEF AskFails, output
  <2>2. CASE pc' = pc
    <3>1. turn' = turn + 1 /\ notFound' = notFound \cup {Order[turn]}
      BY <1>0, <1>5, <2>2 DEF AskFails
    <3>2. Sourced'
      BY <1>0, <1>1, <2>1, <3>1, SourcedPassed
    <3>3. (BaseTypes /\ GetTypes /\ Named)'
      BY <1>0, <1>2, <1>3, <2>1, <2>2, <3>1, TypesStill
    <3> QED
      BY <1>0, <1>1, <2>2, <3>2, <3>3, MergedKept, WalkKept DEF Inv0, MarksOK
  <2>3. CASE pc' # pc
    <3>1. pc' = "failed" /\ UNCHANGED <<turn, notFound>>
      BY <1>5, <2>3 DEF AskFails
    <3>2. (BaseTypes /\ GetTypes /\ Named)'
      BY <1>0, <1>1, <1>2, <2>1, <3>1, TypesStill
    <3>3. ~Running' /\ Walk'
      BY <3>1 DEF Running, Walk
    <3> QED
      BY <1>0, <3>2, <3>3 DEF Inv0, MarksOK
  <2> QED
    BY <2>2, <2>3
<1>6. CASE Finish
  <2>1. /\ UNCHANGED <<turn, notFound>> /\ turn = 3
        /\ IF list = <<>> THEN pc' = "failed" /\ UNCHANGED next
           ELSE pc' = "done" /\ next' = IF more = {} THEN None ELSE NextLine
    BY <1>6, OrderIs DEF Finish
  <2>2. next' \in CommandLine \cup {None}
    BY <1>1, <1>2, <2>1, NextLineFacts
  <2>3. (BaseTypes /\ GetTypes /\ Named)'
    BY <1>0, <1>1, <1>2, <2>1, <2>2, TypesStill
  <2>4. Sourced'
    BY <1>0, <1>1, <2>1 DEF Sourced
  <2> QED
    BY <1>0, <1>1, <2>3, <2>4, MergedKept, WalkKept DEF Inv0, MarksOK
<1> QED
  BY <1>4, <1>5, <1>6

\* Every step keeps the invariant.
LEMMA GetStep == GetInv /\ [Next]_vars => GetInv'
<1> SUFFICES ASSUME GetInv, [Next]_vars PROVE GetInv'
  OBVIOUS
<1>1. Inv0 /\ Walk /\ MarksOK
  BY InvParts
<1>2. Inv0' /\ Walk' /\ (pc' = "failed" => MarksOK')
  <2>1. CASE \E o \in Object : Archive(o) \/ Delete(o)
    BY <1>1, <2>1, StepWorld
  <2>2. CASE \E l \in Options \cup ({next} \ {None}) : Command(l)
    BY <1>1, <2>2, StepCommand
  <2>3. CASE Run
    BY <1>1, <2>3, StepAsk, StepStill DEF Run
  <2>4. CASE UNCHANGED vars
    <3>1. /\ UNCHANGED <<created, cluster, archive, lost, line, pc, turn, source, list, notFound>>
          /\ UNCHANGED <<more, next, start, saw, shown>>
      BY <2>4 DEF vars
    <3>2. NextLine' = NextLine /\ InArchive' = InArchive
      BY <3>1 DEF NextLine, InArchive, InBounds
    <3>3. (BaseTypes /\ GetTypes /\ Named)' /\ MarksOK'
      BY <1>1, <3>1, <3>2 DEF Inv0, BaseTypes, GetTypes, Named, Running, MarksOK
    <3>4. Running' => MergedSoFar' /\ Sourced'
      BY <1>1, <3>1, MergedKept DEF Inv0, Sourced, Running
    <3>5. Walk'
      BY <1>1, <3>1, WalkKept DEF Running
    <3> QED
      BY <3>3, <3>4, <3>5 DEF Inv0
  <2> QED
    BY <2>1, <2>2, <2>3, <2>4 DEF Next
<1>3. (Inv0 /\ Walk /\ (pc = "failed" => MarksOK) => GetInv)'
  BY InvTogether, PTL
<1> QED
  BY <1>2, <1>3

\* The invariant always holds.
LEMMA GetInvariance == Spec => []GetInv
BY GetInit, GetStep, PTL DEF Spec

-----------------------------------------------------------------------------
(* What the page shows *)

\* How many objects a page has.
LEMMA PageSize ==
    ASSUME list \in Seq(Items)
    PROVE  /\ IsFiniteSet(Page) /\ Cardinality(Page) \in Nat /\ Cardinality(Page) <= Len(list)
           /\ Len(list) \in Nat
<1>1. Len(list) \in Nat /\ DOMAIN list = 1..Len(list) /\ \A i \in 1..Len(list) : list[i] \in Items
  OBVIOUS
<1>2. \A i \in 1..Len(list) : list[i].obj \in Object
  BY <1>1, ItemFacts
<1>3. PICK f : f = [i \in 1..Len(list) |-> list[i].obj]
  OBVIOUS
<1>4. f \in [1..Len(list) -> Object] /\ \A i \in 1..Len(list) : f[i] = list[i].obj
  BY <1>2, <1>3
<1>5. Page = Values(f, Len(list))
  BY <1>1, <1>4 DEF Page, Values
<1> QED
  BY <1>1, <1>4, <1>5, ValuesOf

\* Of what a source returned, the page shows an object or is full of others
\* that sort before it.
LEMMA ShownOrFull ==
    ASSUME Aged, list \in Seq(Items), Distinguishable, NEW x \in Object, NEW T, NEW m,
           Noted(list, T, x, m, line.limit)
    PROVE  \/ x \in Page
           \/ /\ m \in T /\ Len(list) = line.limit
              /\ \A p \in Page : p \in Object /\ SortsBefore(p, x) /\ created[x] <= created[p]
<1>0. \A i \in DOMAIN list : list[i].obj \in Object
  <2>1. \A i \in DOMAIN list : list[i] \in Items
    OBVIOUS
  <2> QED
    BY <2>1, ItemFacts
<1>1. CASE \E i \in DOMAIN list : Same(list[i].obj, x)
  BY <1>0, <1>1 DEF Page, Distinguishable
<1>2. CASE m \in T /\ Len(list) = line.limit /\ AllBefore(list, x)
  <2>1. ASSUME NEW i \in DOMAIN list
        PROVE  SortsBefore(list[i].obj, x) /\ created[x] <= created[list[i].obj]
    <3>1. SortsBefore(list[i].obj, x)
      BY <1>2 DEF AllBefore
    <3>2. created[list[i].obj] >= created[x]
      BY <1>0, <3>1, OrderFacts
    <3>3. created[list[i].obj] \in Nat /\ created[x] \in Nat
      BY <1>0 DEF Aged
    <3> QED
      BY <3>1, <3>2, <3>3
  <2> QED
    BY <1>0, <1>2, <2>1 DEF Page
<1> QED
  BY <1>1, <1>2 DEF Noted

\* When KubeArchive had more than it returned, the page is full and nothing
\* on it is older than what was not returned.
LEMMA BehindTheAnswer ==
    ASSUME Aged, list \in Seq(Items), Distinguishable, NEW T, NEW P \in SUBSET Object,
           Len(list) <= line.limit, line.limit \in Nat, Cardinality(P) = line.limit,
           \A p \in P : Noted(list, T, p, "archive", line.limit),
           NEW x \in Object, \A p \in P : created[p] >= created[x]
    PROVE  Len(list) = line.limit /\ \A p \in Page : created[x] <= created[p]
<1>0. \A o \in Object : created[o] \in Nat
  BY DEF Aged
<1>1. CASE P \subseteq Page
  <2>1. /\ IsFiniteSet(Page) /\ Cardinality(Page) \in Nat /\ Cardinality(Page) <= Len(list)
        /\ Len(list) \in Nat
    BY PageSize
  <2>2. Cardinality(P) <= Cardinality(Page) /\ (Cardinality(Page) = Cardinality(P) => Page = P)
    BY <1>1, <2>1, FS_Subset
  <2>3. PICK k : k = line.limit
    OBVIOUS
  <2>4. Len(list) = k /\ Cardinality(Page) = k
    BY <2>1, <2>2, <2>3
  <2>5. Page = P
    BY <2>2, <2>3, <2>4
  <2>6. \A p \in P : created[x] <= created[p]
    BY <1>0
  <2> QED
    BY <2>3, <2>4, <2>5, <2>6
<1>2. CASE ~(P \subseteq Page)
  <2>1. PICK p \in P : p \notin Page
    BY <1>2
  <2>2. p \in Object /\ Noted(list, T, p, "archive", line.limit) /\ created[p] >= created[x]
    BY <2>1
  <2>3. Len(list) = line.limit /\ \A q \in Page : q \in Object /\ created[p] <= created[q]
    BY <2>1, <2>2, ShownOrFull
  <2> QED
    BY <1>0, <2>2, <2>3
<1> QED
  BY <1>1, <1>2

\* The parts of the invariant that the properties below need.
LEMMA Printed ==
    ASSUME GetInv, Both
    PROVE  /\ Aged /\ list \in Seq(Items) /\ saw \in [Origin -> SUBSET Object]
           /\ line.limit \in Nat /\ Len(list) <= line.limit
           /\ start \ lost \subseteq saw["cluster"] \cup saw["archive"]
           /\ saw["cluster"] \subseteq Object /\ saw["archive"] \subseteq Object
           /\ line.name = None => InCluster = saw["cluster"] /\ InArchive = saw["archive"]
           /\ \E P \in SUBSET Object, T \in SUBSET Origin :
                /\ Returned(P) /\ T \subseteq more /\ Sound(list, Answers(P)) /\ Ordered(list)
                /\ \A x \in InCluster : Noted(list, T, x, "cluster", line.limit)
                /\ \A x \in P : Noted(list, T, x, "archive", line.limit)
<1>1. Inv0 /\ Running /\ turn = 3 /\ notFound = {}
  BY InvParts DEF Both, Running, GetInv, GetTypes
<1>2. /\ Aged /\ list \in Seq(Items) /\ saw \in [Origin -> SUBSET Object]
      /\ line.limit \in Nat /\ MergedSoFar /\ Sourced
  BY <1>1, InvFacts
<1>3. PICK P \in SUBSET Object, T \in SUBSET Origin :
        /\ Returned(P) /\ Merged(list, T, Answers(P), line.limit) /\ T \subseteq more
  BY <1>2 DEF MergedSoFar
<1>4. /\ Answers(P)["cluster"] = InCluster /\ Answers(P)["archive"] = P
      /\ "cluster" \in Origin /\ "archive" \in Origin
  BY DEF Answers, Origin
<1>5. /\ Sound(list, Answers(P)) /\ Ordered(list) /\ Len(list) <= line.limit
      /\ \A x \in InCluster : Noted(list, T, x, "cluster", line.limit)
      /\ \A x \in P : Noted(list, T, x, "archive", line.limit)
  BY <1>3, <1>4 DEF Merged
<1>6. line.name = None => InCluster = saw["cluster"] /\ InArchive = saw["archive"]
  BY DEF InCluster, InArchive, Fits, InBounds, Both
<1>7. start \ lost \subseteq saw["cluster"] \cup saw["archive"]
  BY <1>1, <1>2 DEF Sourced
<1>8. saw["cluster"] \subseteq Object /\ saw["archive"] \subseteq Object
  BY <1>2, <1>4
<1> QED
  BY <1>2, <1>3, <1>5, <1>6, <1>7, <1>8

(* Whatever is archived, deleted or both while the command runs, an object *)
(* that existed when it began and was not lost is on the page, or the page *)
(* is full of objects that are no older.                                   *)
THEOREM NothingBetween == Spec => []NothingFallsBetween
<1>1. GetInv => NothingFallsBetween
  <2>1. SUFFICES ASSUME GetInv, Both, line.name = None, Distinguishable,
                        NEW o \in start \ lost, o \notin Page
                 PROVE  Len(list) = line.limit /\ \A p \in Page : created[o] <= created[p]
    BY DEF NothingFallsBetween
  <2>2. /\ Aged /\ list \in Seq(Items) /\ line.limit \in Nat /\ Len(list) <= line.limit
        /\ o \in saw["cluster"] \cup saw["archive"] /\ o \in Object
        /\ InCluster = saw["cluster"] /\ InArchive = saw["archive"]
    BY <2>1, Printed
  <2>3. PICK P \in SUBSET Object, T \in SUBSET Origin :
          /\ Returned(P)
          /\ \A x \in InCluster : Noted(list, T, x, "cluster", line.limit)
          /\ \A x \in P : Noted(list, T, x, "archive", line.limit)
    BY <2>1, Printed
  <2>4. CASE o \in InCluster \cup P
    BY <2>1, <2>2, <2>3, <2>4, ShownOrFull
  <2>5. CASE o \in InArchive \ P
    <3>1. Cardinality(P) = line.limit /\ \A p \in P : created[p] >= created[o]
      BY <2>3, <2>5 DEF Returned
    <3> QED
      BY <2>1, <2>2, <2>3, <3>1, BehindTheAnswer
  <2> QED
    BY <2>2, <2>4, <2>5
<1> QED
  BY <1>1, GetInvariance, PTL

\* With the name of one object or with none, what a source held and is on the
\* page is what it could have returned.
LEMMA ShownFits ==
    ASSUME GetInv, Both, NEW P \in SUBSET Object, Returned(P), Sound(list, Answers(P)),
           NEW i \in DOMAIN list
    PROVE  /\ list[i].obj \in InCluster \cup P
           /\ list[i].obj \in saw["cluster"] => list[i].obj \in InCluster
           /\ list[i].obj \in saw["archive"] => list[i].obj \in InArchive
<1>1. Answers(P)["cluster"] = InCluster /\ Answers(P)["archive"] = P
  BY DEF Answers, Origin
<1>2. list[i].obj \in InCluster \cup P
  BY <1>1 DEF Sound
<1>3. PICK o : o = list[i].obj
  OBVIOUS
<1>4. CASE line.name = None
  BY <1>2, <1>4, Printed
<1>5. CASE line.name # None
  <2>1. NameOf[o] = line.name
    BY <1>2, <1>3, <1>5 DEF InCluster, Returned, InArchive, Fits, InBounds
  <2>2. Fits(o) /\ InBounds(o, line)
    BY <1>5, <2>1 DEF Fits, InBounds
  <2> QED
    BY <1>2, <1>3, <2>2 DEF InCluster, InArchive
<1> QED
  BY <1>4, <1>5

\* What a source returned and is on the page has that source's mark.
LEMMA ShownIsMarked ==
    ASSUME Aged, list \in Seq(Items), Ordered(list), Distinguishable, NEW i \in DOMAIN list,
           NEW T, NEW m, Noted(list, T, list[i].obj, m, line.limit)
    PROVE  m \in list[i].in
<1>0. \A j \in DOMAIN list : list[j].obj \in Object
  <2>1. \A j \in DOMAIN list : list[j] \in Items
    OBVIOUS
  <2> QED
    BY <2>1, ItemFacts
<1>1. ~AllBefore(list, list[i].obj)
  BY <1>0, OrderFacts DEF AllBefore
<1>2. PICK j \in DOMAIN list : Same(list[j].obj, list[i].obj) /\ m \in list[j].in
  BY <1>1 DEF Noted
<1>3. j = i
  <2>1. SUFFICES ASSUME j # i PROVE FALSE
    OBVIOUS
  <2>2. i < j \/ j < i
    BY <2>1
  <2>3. SortsBefore(list[i].obj, list[j].obj) \/ SortsBefore(list[j].obj, list[i].obj)
    BY <2>2 DEF Ordered
  <2> QED
    BY <1>0, <1>2, <2>3, OrderFacts
<1> QED
  BY <1>2, <1>3

\* An archived object on the page is among those KubeArchive returned: it
\* would have returned a page of newer ones, and there is no room for these
\* and the object.
LEMMA ShownWasReturned ==
    ASSUME Aged, list \in Seq(Items), Untied, NEW T, NEW P \in SUBSET Object,
           Len(list) <= line.limit, line.limit \in Nat, Cardinality(P) = line.limit,
           \A p \in P : Noted(list, T, p, "archive", line.limit),
           NEW x \in Page, x \in Object, \A p \in P : created[p] >= created[x]
    PROVE  x \in P
<1>0. SUFFICES ASSUME x \notin P PROVE FALSE
  OBVIOUS
<1>1. \A o \in Object : created[o] \in Nat
  BY DEF Aged
<1>2. Distinguishable
  BY DEF Untied, Distinguishable, Same
<1>3. ASSUME NEW p \in P PROVE p \in Page
  <2>1. SUFFICES ASSUME p \notin Page PROVE FALSE
    OBVIOUS
  <2>2. SortsBefore(x, p)
    BY <1>2, <2>1, ShownOrFull
  <2>3. created[x] >= created[p]
    BY <2>2, OrderFacts
  <2>4. created[x] = created[p]
    <3>1. created[x] \in Nat /\ created[p] \in Nat /\ created[p] >= created[x]
      BY <1>1
    <3> QED
      BY <2>3, <3>1
  <2> QED
    BY <1>0, <2>4 DEF Untied
<1>4. IsFiniteSet(P) /\ IsFiniteSet(Page) /\ Cardinality(Page) <= Len(list)
      /\ Cardinality(Page) \in Nat /\ Len(list) \in Nat
  BY PageSize, GetAssumption, FS_Subset
<1>5. Cardinality(P \cup {x}) = Cardinality(P) + 1 /\ IsFiniteSet(P \cup {x})
  BY <1>0, <1>4, FS_AddElement
<1>6. P \cup {x} \subseteq Page
  BY <1>3
<1>7. Cardinality(P \cup {x}) <= Cardinality(Page)
  BY <1>4, <1>6, FS_Subset
<1>8. PICK k : k = line.limit
  OBVIOUS
<1>9. k \in Nat /\ k + 1 <= Cardinality(Page) /\ Len(list) <= k
  BY <1>5, <1>7, <1>8
<1> QED
  BY <1>4, <1>9

(* When creation times tell objects apart, the two columns of a printed    *)
(* page say exactly which of the two sources held the object when it was   *)
(* asked, whatever was archived or deleted in between.                     *)
THEOREM ColumnsTrue == Spec => []ColumnsAreTrue
<1>1. GetInv => ColumnsAreTrue
  <2>1. SUFFICES ASSUME GetInv, Both, Untied, NEW i \in DOMAIN list
                 PROVE  list[i].in = {s \in {"cluster", "archive"} : list[i].obj \in saw[s]}
    BY DEF ColumnsAreTrue
  <2>2. /\ Aged /\ list \in Seq(Items) /\ line.limit \in Nat /\ Len(list) <= line.limit
    BY <2>1, Printed
  <2>3. PICK P \in SUBSET Object, T \in SUBSET Origin :
          /\ Returned(P) /\ Sound(list, Answers(P)) /\ Ordered(list)
          /\ \A x \in InCluster : Noted(list, T, x, "cluster", line.limit)
          /\ \A x \in P : Noted(list, T, x, "archive", line.limit)
    BY <2>1, Printed
  <2>4. Distinguishable
    BY <2>1 DEF Untied, Distinguishable, Same
  <2>5. list[i] \in Items
    BY <2>1, <2>2
  <2>6. list[i].obj \in Object /\ list[i].in \subseteq Origin
    BY <2>5, ItemFacts
  <2>7. Answers(P)["cluster"] = InCluster /\ Answers(P)["archive"] = P
    BY DEF Answers, Origin
  <2>8. /\ list[i].obj \in saw["cluster"] => list[i].obj \in InCluster
        /\ list[i].obj \in saw["archive"] => list[i].obj \in InArchive
    BY <2>1, <2>3, ShownFits
  <2>9. ASSUME NEW m \in list[i].in PROVE list[i].obj \in saw[m]
    <3>1. PICK x \in Answers(P)[m] : Same(list[i].obj, x)
      BY <2>1, <2>3, <2>9 DEF Sound
    <3>2. x \in saw[m] /\ x \in Object
      <4>1. m = "cluster" \/ m = "archive"
        BY <2>6, <2>9 DEF Origin
      <4>2. InCluster \subseteq saw["cluster"] /\ P \subseteq saw["archive"]
        BY <2>3 DEF InCluster, Returned, InArchive
      <4>3. saw["cluster"] \subseteq Object /\ saw["archive"] \subseteq Object
        BY <2>1, Printed
      <4> QED
        BY <2>7, <3>1, <4>1, <4>2, <4>3
    <3> QED
      BY <2>4, <2>6, <3>1, <3>2 DEF Distinguishable
  <2>10. list[i].obj \in saw["cluster"] => "cluster" \in list[i].in
    BY <2>1, <2>2, <2>3, <2>4, <2>8, ShownIsMarked
  <2>11. list[i].obj \in saw["archive"] => "archive" \in list[i].in
    <3>1. SUFFICES ASSUME list[i].obj \in InArchive PROVE list[i].obj \in P
      BY <2>1, <2>2, <2>3, <2>4, <2>8, ShownIsMarked
    <3>2. SUFFICES ASSUME list[i].obj \notin P PROVE FALSE
      OBVIOUS
    <3>3. Cardinality(P) = line.limit /\ \A p \in P : created[p] >= created[list[i].obj]
      BY <2>3, <3>1, <3>2 DEF Returned
    <3>4. list[i].obj \in Page
      BY <2>1 DEF Page
    <3> QED
      BY <2>1, <2>2, <2>3, <2>6, <3>2, <3>3, <3>4, ShownWasReturned
  <2> QED
    BY <2>6, <2>9, <2>10, <2>11 DEF Origin
<1> QED
  BY <1>1, GetInvariance, PTL

\* What an archive-only page of a walk shows is older than what was shown.
LEMMA ArchiveWalksOn ==
    ASSUME GetInv, pc = "done", source = {"archive"}
    PROVE  Page \cap shown = {}
<1>1. SUFFICES ASSUME NEW x \in Page, x \in shown PROVE FALSE
  OBVIOUS
<1>2. Inv0 /\ Running /\ Walk
  BY InvParts DEF Running
<1>3. Aged /\ MergedSoFar /\ Sourced
  BY <1>2, InvFacts
<1>4. PICK t \in {created[o] : o \in Object}, K \in SUBSET {Key(o) : o \in Object} : WalkedTo(t, K)
  BY <1>1, <1>2 DEF Walk
<1>5. t \in Nat \ {0}
  BY <1>3, <1>4 DEF Aged
<1>6. PICK P \in SUBSET Object, T \in SUBSET Origin :
        Returned(P) /\ Merged(list, T, Answers(P), line.limit)
  BY <1>3 DEF MergedSoFar
<1>7. InCluster = {}
  BY <1>3 DEF Sourced, InCluster
<1>8. x \in P
  <2>1. Answers(P)["cluster"] = InCluster /\ Answers(P)["archive"] = P
    BY DEF Answers, Origin
  <2>2. PICK i \in DOMAIN list : x = list[i].obj
    BY <1>1 DEF Page
  <2> QED
    BY <1>6, <1>7, <2>1, <2>2 DEF Merged, Sound
<1>9. created[x] < t
  BY <1>4, <1>5, <1>6, <1>3, <1>8, ReturnedIsOlder
<1>10. created[x] >= t
  BY <1>1, <1>4 DEF WalkedTo
<1>11. created[x] \in Nat
  BY <1>3, <1>8 DEF Aged
<1> QED
  BY <1>5, <1>9, <1>10, <1>11

(* A page is within the limit; the next command asks every source that     *)
(* held an object the page does not show; and a page of archived objects   *)
(* alone repeats nothing that an earlier page showed.                      *)
THEOREM OmissionsTold == Spec => []OmissionsAreTold
<1>1. GetInv => OmissionsAreTold
  <2>1. SUFFICES ASSUME GetInv PROVE OmissionsAreTold
    OBVIOUS
  <2>2. TypeOK
    BY <2>1 DEF GetInv
  <2>3. ASSUME Both, line.name = None, Distinguishable, NEW s \in {"cluster", "archive"},
               NEW x \in saw[s] \ Page
        PROVE  s \in more
    <3>1. /\ Aged /\ list \in Seq(Items)
          /\ saw["cluster"] \subseteq Object /\ saw["archive"] \subseteq Object
          /\ InCluster = saw["cluster"] /\ InArchive = saw["archive"]
      BY <2>1, <2>3, Printed
    <3>2. PICK P \in SUBSET Object, T \in SUBSET Origin :
            /\ Returned(P) /\ T \subseteq more
            /\ \A o \in InCluster : Noted(list, T, o, "cluster", line.limit)
            /\ \A o \in P : Noted(list, T, o, "archive", line.limit)
      BY <2>1, <2>3, Printed
    <3>3. x \in Object
      BY <2>3, <3>1
    <3>4. CASE s = "archive" /\ x \notin P
      BY <2>3, <3>1, <3>2, <3>4 DEF Returned
    <3>5. CASE ~(s = "archive" /\ x \notin P)
      <4>1. Noted(list, T, x, s, line.limit)
        BY <2>3, <3>1, <3>2, <3>5
      <4>2. s \in T
        BY <2>3, <3>1, <3>3, <4>1, ShownOrFull
      <4> QED
        BY <3>2, <4>2
    <3> QED
      BY <3>4, <3>5
  <2>4. pc = "done" /\ source = {"archive"} => Page \cap shown = {}
    BY <2>1, ArchiveWalksOn
  <2> QED
    BY <2>2, <2>3, <2>4 DEF OmissionsAreTold
<1> QED
  BY <1>1, GetInvariance, PTL
=============================================================================
