------------------------------ MODULE MCCpuLoop ------------------------------
(***************************************************************************)
(* Instances of CpuLoop for TLC: two vCPUs and the I/O thread.             *)
(***************************************************************************)
EXTENDS CpuLoop
=============================================================================
