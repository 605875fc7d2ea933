------------------------------ MODULE MCObjects ------------------------------
(***************************************************************************)
(* Objects with small sets: every object belongs to cluster c1, the only   *)
(* one there is, and is of a kind of its own.                              *)
(***************************************************************************)
EXTENDS Objects

CONSTANTS c1, a, b

OneCluster == [o \in Object |-> c1]
OwnKinds == [o \in Object |-> o]
Two == [o \in Object |-> 2]
Four == [o \in Object |-> 4]
ThreeAndTwo == [o \in Object |-> IF o = a THEN 3 ELSE 2]
WatchesOne == [w \in Watcher |-> c1]
=============================================================================
