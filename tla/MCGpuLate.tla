----------------------------- MODULE MCGpuLate -----------------------------
(***************************************************************************)
(* One worker is enough: the late write is the other writer.               *)
(***************************************************************************)
EXTENDS GpuLate, MCGpuCluster
=============================================================================
