---------------------------- MODULE ArchiveStore ----------------------------
(***************************************************************************)
(* What the archive promises, without requests, transactions or failures:  *)
(* one register per object UID.  A register is empty until the object is   *)
(* first archived, is never emptied again, and its contents are replaced   *)
(* only by a snapshot that was updated on the cluster strictly later.      *)
(* The sink writing to PostgreSQL (module Sink) implements it.             *)
(***************************************************************************)
EXTENDS Naturals

CONSTANTS
    Uid,    \* UIDs the cluster may give to objects
    NoRow   \* contents of a register no snapshot was archived in

VARIABLE row  \* row[u] is the snapshot archived for u, or NoRow

\* A snapshot: resourceVersion, time of the last update, deletion timestamp set.
Row == [rv : Nat, ts : Nat, del : BOOLEAN]

Init == row = [u \in Uid |-> NoRow]

\* Some snapshot becomes the archived one of u.
Archive(u) ==
    /\ row'[u] \in Row
    /\ row[u] # NoRow => row[u].ts < row'[u].ts
    /\ \A v \in Uid \ {u} : row'[v] = row[v]

Next ==
    /\ DOMAIN row' = Uid
    /\ \E u \in Uid : Archive(u)

Spec == Init /\ [][Next]_row

=============================================================================
