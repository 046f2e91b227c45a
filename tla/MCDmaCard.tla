----------------------------- MODULE MCDmaCard -----------------------------
(* Instance of DmaCard: two buffers, so that the pointers wrap after four  *)
(* transfers, and calls that ask for more words than a buffer holds.       *)
EXTENDS DmaCard
============================================================================
