-------------------------------- MODULE Get --------------------------------
(***************************************************************************)
(* kubectl ka get: one list of objects made of two, the one the cluster    *)
(* returns and the one KubeArchive returns.  The two are asked one after   *)
(* the other; between them an object may be archived, and deleted from the *)
(* cluster once it is.  When more objects exist than the limit, the        *)
(* command prints the command that shows the next page, and a user runs it.*)
(***************************************************************************)
EXTENDS Integers, FiniteSets, FiniteSetsExt, Sequences, SequencesExt

CONSTANTS
    Object,     \* objects, by UID
    NameOf,     \* NameOf[o]: its name, a number: names are only compared
    Ages,       \* assignments of creation times to objects, in seconds
    Options,    \* command lines a user may start with (see CommandLine)
    MaxPages,   \* bound: commands of a walk
    None        \* no name, no bound, no result

(* A flag is given a value on the command line or has its default, TRUE.   *)
(* Times are in half seconds: 2t is the second t, 2t-1 is 1ns before it.   *)
Flag == {"default", "true", "false"}
CommandLine ==
    [name : {NameOf[o] : o \in Object} \cup {None}, selector : BOOLEAN,
     inCluster : Flag, archived : Flag, limit : Nat,
     after : Nat \cup {None}, before : Nat \cup {None}]

ASSUME GetAssumption ==
    /\ IsFiniteSet(Object) /\ NameOf \in [Object -> Nat]
    /\ Ages \subseteq [Object -> Nat \ {0}]
    /\ Options \subseteq CommandLine /\ MaxPages \in Nat
    /\ None \notin Nat \cup CommandLine

VARIABLES
    created,    \* created[o]: creation time of o, in seconds
    cluster,    \* objects in the cluster
    archive,    \* archived objects, in the order of their row ids
    lost,       \* history: objects deleted that were not archived
    line,       \* the command line
    pc,         \* "shell", "run", "failed" or "done"
    turn,       \* position of Run in Order
    source,     \* which sources Complete has decided to ask
    list,       \* sortedResources
    notFound,   \* sources that were not asked or had nothing to give
    more,       \* sources that have objects the page leaves out
    next,       \* the command line printed for the next page
    pages,      \* number of commands so far
    start,      \* history: objects that existed when Run began
    saw,        \* history: what each source held when it was asked
    shown       \* history: objects on earlier pages
world == <<created, cluster, archive, lost>>
output == <<line, source, next, pages, start, shown>>
vars == <<created, cluster, archive, lost, line, pc, turn, source, list,
          notFound, more, next, pages, start, saw, shown>>

----------------------------------------------------------------------------
(* The sorted page *)

(* cmpResource: newest first, then by name downwards.  Two objects that    *)
(* compare equal are the same one: equal times and equal UIDs or names.    *)
SortsBefore(o, p) ==
    \/ created[o] > created[p]
    \/ created[o] = created[p] /\ NameOf[o] > NameOf[p]
Same(o, p) == created[o] = created[p] /\ NameOf[o] = NameOf[p]

Item(o, s) == [obj |-> o, in |-> {s}]

(* Fault: an object both sources have keeps the mark of the first.         *)
Insert_Unmarked(acc, o, s, cap) ==
    LET r == acc.list
        idx == 1 + Cardinality({i \in DOMAIN r : SortsBefore(r[i].obj, o)})
    IN  IF idx <= Len(r) /\ Same(r[idx].obj, o) THEN acc
        ELSE IF idx > cap THEN [acc EXCEPT !.trimmed = @ \cup {s}]
        ELSE IF Len(r) = cap
        THEN [list |-> InsertAt(Front(r), idx, Item(o, s)),
              trimmed |-> acc.trimmed \cup Last(r).in]
        ELSE [acc EXCEPT !.list = InsertAt(r, idx, Item(o, s))]

(* Fault: what a full result drops from its end is not noted.              *)
Insert_DropsSilently(acc, o, s, cap) ==
    LET r == acc.list
        idx == 1 + Cardinality({i \in DOMAIN r : SortsBefore(r[i].obj, o)})
    IN  IF idx <= Len(r) /\ Same(r[idx].obj, o)
        THEN [acc EXCEPT !.list[idx].in = @ \cup {s}]
        ELSE IF idx > cap THEN [acc EXCEPT !.trimmed = @ \cup {s}]
        ELSE IF Len(r) = cap
        THEN [acc EXCEPT !.list = InsertAt(Front(r), idx, Item(o, s))]
        ELSE [acc EXCEPT !.list = InsertAt(r, idx, Item(o, s))]

(* One round of insertSortedResourcesOptimized's loop: acc is the result   *)
(* so far and the sources of what was trimmed.                             *)
Insert(acc, o, s, cap) ==
    LET r == acc.list
        idx == 1 + Cardinality({i \in DOMAIN r : SortsBefore(r[i].obj, o)})
    IN  IF idx <= Len(r) /\ Same(r[idx].obj, o)
        THEN [acc EXCEPT !.list[idx].in = @ \cup {s}]
        ELSE IF idx > cap THEN [acc EXCEPT !.trimmed = @ \cup {s}]
        ELSE IF Len(r) = cap
        THEN [list |-> InsertAt(Front(r), idx, Item(o, s)),
              trimmed |-> acc.trimmed \cup Last(r).in]
        ELSE [acc EXCEPT !.list = InsertAt(r, idx, Item(o, s))]

InsertSorted(init, resources, s, limit) ==
    LET cap == Min({Len(init) + Len(resources), limit})
        result[n \in 0..Len(resources)] ==
            IF n = 0 THEN [list |-> init, trimmed |-> {}]
            ELSE Insert(result[n - 1], resources[n], s, cap)
    IN  result[Len(resources)]

----------------------------------------------------------------------------
(* Complete: the flags.  Giving one of --in-cluster and --archived turns   *)
(* the other off.                                                          *)

Sources(l) ==
    {s \in {"cluster", "archive"} :
        IF s = "archive"
        THEN l.archived # "false"
             /\ ~(l.inCluster = "true" /\ l.archived # "true")
        ELSE l.inCluster # "false" /\ l.archived # "true"}

Refused(l) ==
    \/ l.name # None /\ l.selector
    \/ l.inCluster = "false" /\ l.archived = "false"
    \/ ~(l.limit \in 1..1000)
    \/ l.after # None /\ l.before # None /\ l.before <= l.after

(* Fault: KubeArchive is asked first.                                      *)
Order_ArchiveFirst == <<"archive", "cluster">>

(* The order in which Run asks                                             *)
Order == <<"cluster", "archive">>

----------------------------------------------------------------------------
(* What the two APIs return *)

(* The archive's page: the newest objects within the bounds, ties broken   *)
(* by the row id downwards.  Bounds are sent as RFC 3339, whole seconds,   *)
(* and refused when they leave nothing between them; with a name they do   *)
(* not count.                                                              *)
BoundsRefused(l) ==
    l.after # None /\ l.before # None /\ l.before \div 2 <= l.after \div 2
InBounds(o, l) ==
    IF l.name # None THEN NameOf[o] = l.name
    ELSE /\ l.after # None => created[o] > l.after \div 2
         /\ l.before # None => created[o] < l.before \div 2
IdOf(o) == CHOOSE i \in DOMAIN archive : archive[i] = o
Listed(l) == {o \in ToSet(archive) : InBounds(o, l)}
ListedBefore(o, p) ==
    \/ created[o] > created[p]
    \/ created[o] = created[p] /\ IdOf(o) > IdOf(p)
IsArchivePage(page, l) ==
    /\ \A i, j \in DOMAIN page : i < j => ListedBefore(page[i], page[j])
    /\ \A i \in DOMAIN page : \A o \in Listed(l) \ ToSet(page) :
           ListedBefore(page[i], o)
ArchivePages(l) ==
    {page \in [1..Min({l.limit, Cardinality(Listed(l))}) -> Listed(l)] :
        IsArchivePage(page, l)}

(* The cluster's answer knows no bounds, no limit and no useful order      *)
ClusterList(l) ==
    SetToSeqs({o \in cluster : l.name # None => NameOf[o] = l.name})

----------------------------------------------------------------------------

Init ==
    /\ created \in Ages
    /\ \E c, a \in SUBSET Object :
         /\ c \cup a = Object /\ archive \in SetToSeqs(a)
         /\ cluster = c /\ \A o, p \in c : NameOf[o] = NameOf[p] => o = p
    /\ lost = {} /\ shown = {} /\ start = {}
    /\ line = None /\ next = None /\ pages = 0
    /\ pc = "shell" /\ turn = 1
    /\ source = {} /\ notFound = {} /\ more = {} /\ list = <<>>
    /\ saw = [s \in {"cluster", "archive"} |-> {}]

(* The sink archives an object; KubeArchive or a user deletes it           *)
Archive(o) ==
    /\ o \in cluster /\ o \notin ToSet(archive)
    /\ archive' = Append(archive, o)
    /\ UNCHANGED <<created, cluster, lost, pc, turn, list, notFound, more, saw,
                   output>>

Delete(o) ==
    /\ o \in cluster
    /\ cluster' = cluster \ {o}
    /\ lost' = IF o \in ToSet(archive) THEN lost ELSE lost \cup {o}
    /\ UNCHANGED <<created, archive, pc, turn, list, notFound, more, saw,
                   output>>

(* A command is given, by the user's own choice or as the last one said    *)
Command(l) ==
    /\ pc = "shell" \/ (pc = "done" /\ l = next)
    /\ pages < MaxPages /\ pages' = pages + 1
    /\ line' = l /\ next' = None
    /\ shown' = shown \cup {list[i].obj : i \in DOMAIN list}
    /\ list' = <<>> /\ more' = {} /\ turn' = 1
    /\ IF Refused(l) THEN pc' = "failed" /\ UNCHANGED <<source, notFound>>
       ELSE /\ pc' = "run" /\ source' = Sources(l)
            /\ notFound' = {"cluster", "archive"} \ Sources(l)
    /\ start' = cluster \cup ToSet(archive)
    /\ saw' = [s \in {"cluster", "archive"} |-> {}]
    /\ UNCHANGED world

(* Run takes its sources in turn; one that is not wanted is passed over    *)
Asking == pc = "run" /\ turn \in DOMAIN Order
At(s) == Asking /\ Order[turn] = s /\ s \in source
Skip ==
    /\ Asking /\ Order[turn] \notin source
    /\ turn' = turn + 1
    /\ UNCHANGED <<world, pc, list, notFound, more, saw, output>>

AskCluster ==
    /\ At("cluster")
    /\ \E resources \in ClusterList(line) :
         IF line.name # None /\ resources = <<>>
         THEN notFound' = notFound \cup {"cluster"} /\ UNCHANGED <<list, more>>
         ELSE LET r == InsertSorted(list, resources, "cluster", line.limit)
              IN  /\ list' = r.list /\ more' = more \cup r.trimmed
                  /\ UNCHANGED notFound
    /\ saw' = [saw EXCEPT !["cluster"] = cluster]
    /\ turn' = turn + 1
    /\ UNCHANGED <<world, pc, output>>

(* The API answers with a page; with 404 to the name of an object it does  *)
(* not have, and with an error to one that several objects had.            *)
AskArchive ==
    /\ At("archive")
    /\ ~BoundsRefused(line)
    /\ line.name = None \/ Cardinality(Listed(line)) <= 1
    /\ IF line.name # None /\ Listed(line) = {}
       THEN notFound' = notFound \cup {"archive"} /\ UNCHANGED <<list, more>>
       ELSE \E page \in ArchivePages(line) :
            LET r == InsertSorted(list, page, "archive", line.limit)
            IN  /\ list' = r.list /\ UNCHANGED notFound
                /\ more' = more \cup r.trimmed \cup
                     (IF Cardinality(Listed(line)) > line.limit
                      THEN {"archive"} ELSE {})
    /\ saw' = [saw EXCEPT !["archive"] = ToSet(archive)]
    /\ turn' = turn + 1
    /\ UNCHANGED <<world, pc, output>>

(* A request fails.  "Not found" counts as nothing found.  Another failure  *)
(* of the cluster ends the command, one of KubeArchive only when it is     *)
(* about authentication or nothing else can be shown.                      *)
AskFails(error) ==
    /\ Asking /\ Order[turn] \in source
    /\ IF \/ error = "notFound"
          \/ error = "other" /\ Order[turn] = "archive" /\ list # <<>>
       THEN /\ turn' = turn + 1 /\ UNCHANGED pc
            /\ notFound' = notFound \cup {Order[turn]}
       ELSE pc' = "failed" /\ UNCHANGED <<turn, notFound>>
    /\ UNCHANGED <<world, list, more, saw, output>>

(* The oldest object of the page tells the next page's --before: one       *)
(* nanosecond earlier, so that it is not shown again.                      *)
NextLine ==
    [line EXCEPT !.before = 2 * created[Last(list).obj] - 1,
                 !.name = None,
                 !.inCluster = IF more = {"cluster"} THEN "true" ELSE "default",
                 !.archived = IF more = {"archive"} THEN "true" ELSE "default"]

Finish ==
    /\ pc = "run" /\ turn = Len(Order) + 1
    /\ IF list = <<>> THEN pc' = "failed" /\ UNCHANGED next
       ELSE pc' = "done" /\ next' = IF more = {} THEN None ELSE NextLine
    /\ UNCHANGED <<world, turn, list, notFound, more, saw, line, source, pages,
                   start, shown>>

Run ==
    \/ Skip \/ AskCluster \/ AskArchive \/ Finish
    \/ \E e \in {"notFound", "unauthorized", "other"} : AskFails(e)

Next ==
    \/ \E o \in Object : Archive(o) \/ Delete(o)
    \/ \E l \in Options \cup ({next} \ {None}) : Command(l)
    \/ Run

Spec == Init /\ [][Next]_vars

----------------------------------------------------------------------------
(* Correctness *)

Page == {list[i].obj : i \in DOMAIN list}

\* Variables have the values the declarations say; a page is within --limit.
TypeOK ==
    /\ created \in Ages /\ cluster \subseteq Object
    /\ ToSet(archive) \subseteq Object /\ IsInjective(archive)
    /\ pc \in {"shell", "run", "failed", "done"} /\ turn \in 1..(Len(Order) + 1)
    /\ line \in CommandLine \cup {None} /\ next \in CommandLine \cup {None}
    /\ line # None /\ pc # "failed" => Len(list) <= line.limit
    /\ notFound \cup more \cup source \subseteq {"cluster", "archive"}
    /\ \A i \in DOMAIN list : list[i].in # {} /\ list[i].in \subseteq source

(* Times and names tell all objects apart / times alone do                 *)
Distinguishable == \A o, p \in Object : Same(o, p) => o = p
Untied == \A o, p \in Object : created[o] = created[p] => o = p

Both == pc = "done" /\ notFound = {} /\ line.before = None /\ line.after = None

(* Because the cluster is asked before the archive, an object that is      *)
(* archived and deleted between the two requests is not missed: every      *)
(* object that existed when the command began, unless it was deleted       *)
(* without being archived, is on the page or is no newer than anything on  *)
(* a full page.                                                            *)
NothingFallsBetween ==
    Both /\ line.name = None /\ Distinguishable =>
        \A o \in start \ lost :
            \/ o \in Page
            \/ /\ Len(list) = line.limit
               /\ \A p \in Page : created[o] <= created[p]

(* The columns IN-CLUSTER and ARCHIVED are what each source held when it   *)
(* was asked, although KubeArchive returned no more than the limit: an     *)
(* archived object on the page is always among what it returned.           *)
ColumnsAreTrue ==
    Both /\ Untied =>
        \A i \in DOMAIN list :
            list[i].in = {s \in {"cluster", "archive"} : list[i].obj \in saw[s]}

(* A page is within the limit and what it leaves out is told: a source     *)
(* that held an object the page does not show is one of those the next     *)
(* command asks, and a next page of archived objects alone repeats none    *)
(* that was shown.                                                         *)
OmissionsAreTold ==
    /\ TypeOK
    /\ Both /\ line.name = None /\ Distinguishable =>
         \A s \in {"cluster", "archive"} : saw[s] \ Page # {} => s \in more
    /\ pc = "done" /\ source = {"archive"} => Page \cap shown = {}
=============================================================================
