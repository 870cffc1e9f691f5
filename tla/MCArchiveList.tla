--------------------------- MODULE MCArchiveList ---------------------------
(***************************************************************************)
(* A small instance of ArchiveList: selectors of up to two requirements,   *)
(* and every combination of name, time bounds and limit without a selector.*)
(***************************************************************************)
EXTENDS ArchiveList, TLC

CONSTANTS n1, n2, k1, k2, v1, v2

Requirements(k, values) ==
    [op : {"exists", "!"}, key : {k}, values : {{}}]
    \cup [op : {"=", "!="}, key : {k}, values : {{v} : v \in values}]
    \cup [op : {"in", "notin"}, key : {k}, values : SUBSET values \ {{}}]

First == Requirements(k1, {v1, v2})
Second == Requirements(k2, {v1})

AnyName == [kind |-> "any", names |-> {}]

\* Two requirements on one key: each two operators once, and one repeated.
OpOrder == <<"exists", "!", "=", "!=", "in", "notin">>
OnOneKey ==
    {p \in First \X First :
        \/ \E m, n \in 1..6 : m < n /\ OpOrder[m] = p[1].op /\ OpOrder[n] = p[2].op
        \/ /\ p[1].op = "in" /\ p[2].op = "in"
           /\ p[1].values = {v1} /\ p[2].values = {v2}}

BySelector ==
    {[name |-> AnyName, selector |-> s, after |-> None, before |-> None,
      limit |-> 1] :
        s \in {<<q>> : q \in First}
              \cup OnOneKey \cup (First \X Second)
              \cup {<<[op |-> "unsupported", key |-> k1, values |-> {v1}]>>}}

Bounds == {None} \cup [at : {2, 3}, zone : {0}] \cup [at : {2}, zone : {1}]

ByNameAndTime ==
    [name : {AnyName, [kind |-> "pattern", names |-> {n1}],
             [kind |-> "exact", names |-> {n1}]},
     selector : {<<>>}, after : Bounds, before : Bounds, limit : {0, 1, 2}]

MCRequest == BySelector \cup ByNameAndTime
MCNameOf == [i \in Id |-> IF i = 2 THEN n2 ELSE n1]
MCLabels == {{}, {<<k1, v1>>}, {<<k1, v2>>}, {<<k2, v1>>},
             {<<k1, v1>>, <<k2, v1>>}, {<<k1, v2>>, <<k2, v1>>}}

\* Labels vary only where the request has a selector, and then of two rows
\* with one creation timestamp, and one write less for two requirements.
SmallArchive ==
    IF req.selector = <<>>
    THEN \A i \in Id : row[i] # None => row[i].labels = {}
    ELSE /\ \A i \in Id : row[i] # None => i < 3 /\ row[i].ts = 1
         /\ Len(req.selector) = 2 => writes < MaxWrites

\* Nothing is looked at after the end of a walk.
WalkGoesOn == pc # "end"
=============================================================================
