---------------------------- MODULE MCFreeList ----------------------------
(* Instances of the boot allocator and its clients for TLC. *)
EXTENDS FreeListClients
=============================================================================
