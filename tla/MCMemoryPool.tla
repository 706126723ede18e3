---------------------------- MODULE MCMemoryPool ----------------------------
(***************************************************************************)
(* Pools with one and with two allocating threads.                         *)
(***************************************************************************)
EXTENDS MemoryPool

CONSTANTS t1, t2, t3

MCThread == {t1, t2, t3}
MCOneAllocator == {t1}
MCTwoThreads == {t1, t2}
=============================================================================
