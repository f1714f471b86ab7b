------------------------------- MODULE GpuLate -------------------------------
(***************************************************************************)
(* The write of a killed call, on its way: core kills a process whose Put  *)
(* is under way (call_timeout), and etcd applies it when it comes to it,   *)
(* perhaps after the lock was released.  Put compares nothing with what    *)
(* the call has read.  Otherwise all is as in GpuCluster.                  *)
(***************************************************************************)
EXTENDS GpuCluster

VARIABLE late       \* the records still on their way: sets of [node, info]

lateVars == <<vars, late>>

LateInit == Init /\ late = {}

\* The process is gone and core has its failure; what it sent is not applied
KillMidway(c) ==
    /\ phase[c] = "storing"
    /\ ValidInfo(pending[c])
    /\ Fault(c)
    /\ late' = late \cup {[node |-> request[c].node, info |-> pending[c]]}
    /\ UNCHANGED <<etcd, coreVars>>

Land ==
    \E put \in late :
        /\ etcd' = [etcd EXCEPT ![put.node] = put.info]
        /\ late' = late \ {put}
        /\ UNCHANGED <<phase, request, pending, answer, faults, coreVars>>

LateNext ==
    \/ Next /\ UNCHANGED late
    \/ \E c \in Callers : KillMidway(c)
    \/ Land

LateSpec == LateInit /\ [][LateNext]_lateVars

-----------------------------------------------------------------------------
(***************************************************************************)
(* Of two writers that core serializes none loses an update                *)
(* (docs/protocol.md: the lock "is the whole guarantee"): once nothing is  *)
(* on its way and no repair is due, the record still has in use whatever   *)
(* the workloads were booked with.  That it has no more in use is not      *)
(* asked here: a late booking of a failed deploy that nobody overwrote is  *)
(* in the record without its workload.                                     *)
(***************************************************************************)
NoUpdateIsLost ==
    \A n \in Nodes : lock[n] = Nil /\ n \notin repair /\ late = {} =>
        \A prod \in Products : Used(n, prod) >= CountOf(Held(n), prod)
=============================================================================
