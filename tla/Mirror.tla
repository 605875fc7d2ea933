-------------------------------- MODULE Mirror --------------------------------
(***************************************************************************)
(* What the Explorer store promises about the objects of the clusters: for *)
(* each object it holds nothing or a version the object has had, it is     *)
(* moved from one moment of the object's life to another, never to an      *)
(* earlier one if what it is told arrives in order, and it drops an object *)
(* only because that moment was one at which the object was being deleted  *)
(* or gone, because a deletion that it has caught up with is older than    *)
(* the retention, or because its cluster is forgotten.                     *)
(***************************************************************************)
EXTENDS Naturals, Sequences

CONSTANTS
    Object,       \* objects, the one per cluster, kind, namespace and name
    Cluster,
    ClusterOf,    \* the cluster of an object
    Retained,     \* objects of the kinds with a retention policy
    Cleaner,      \* whether what is older than the retention is cleaned away
    Ordered       \* whether the store moves to later moments only

States == {"present", "terminating", "absent"}

VARIABLES
    hist,      \* every state an object has been in; its place is its version
    expired,   \* versions up to this one are older than the retention
    applied,   \* the version the store has caught up with
    stored     \* the version the store holds, 0 if none

mirrorVars == <<hist, expired, applied, stored>>

MirrorInit ==
    /\ hist = [o \in Object |-> <<>>]
    /\ expired = [o \in Object |-> 0]
    /\ applied = [o \in Object |-> 0]
    /\ stored = [o \in Object |-> 0]

MirrorChange(o) ==
    /\ \E s \in States : hist' = [hist EXCEPT ![o] = Append(@, s)]
    /\ UNCHANGED <<expired, applied, stored>>

MirrorExpire(o) ==
    /\ expired' = [expired EXCEPT ![o] = Len(hist[o])]
    /\ UNCHANGED <<hist, applied, stored>>

\* What the store may hold of o when it has caught up with version v.
Rows(o, v) ==
    {r \in {0, v} :
        /\ hist[o][v] = "present" => r = v
        /\ hist[o][v] # "present" /\ o \notin Retained => r = 0
        /\ r = 0 /\ hist[o][v] # "present" /\ o \in Retained => v <= expired[o]}

CatchUp(o) ==
    /\ \E v \in 1 .. Len(hist[o]) :
        /\ Ordered => v >= applied[o]
        /\ applied' = [applied EXCEPT ![o] = v]
        /\ \E r \in Rows(o, v) : stored' = [stored EXCEPT ![o] = r]
    /\ UNCHANGED <<hist, expired>>

\* An object that was kept after its deletion had begun is dropped when the
\* retention has passed, though the object may be back by then.
CleanAway(o) ==
    /\ Cleaner /\ o \in Retained
    /\ \E v \in 1 .. Len(hist[o]) :
        /\ hist[o][v] = "terminating" /\ v <= expired[o]
        /\ Ordered => v <= applied[o]
    /\ stored' = [stored EXCEPT ![o] = 0]
    /\ UNCHANGED <<hist, expired, applied>>

ForgetCluster(c) ==
    /\ stored' = [o \in Object |-> IF ClusterOf[o] = c THEN 0 ELSE stored[o]]
    /\ UNCHANGED <<hist, expired, applied>>

MirrorNext ==
    \/ \E o \in Object : MirrorChange(o) \/ MirrorExpire(o) \/ CatchUp(o) \/ CleanAway(o)
    \/ \E c \in Cluster : ForgetCluster(c)

MirrorSpec == MirrorInit /\ [][MirrorNext]_mirrorVars
=============================================================================
