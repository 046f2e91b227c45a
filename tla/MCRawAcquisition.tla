-------------------------- MODULE MCRawAcquisition --------------------------
(***************************************************************************)
(* Instance for TLC: a ring of two slots, and two acquisitions of up to    *)
(* five frames each, so that the pointers wrap, the ring fills both before *)
(* and after that, one is restarted with a frame in flight, and a frame    *)
(* too long for its slot reaches the other or the end of the memory.       *)
(***************************************************************************)
EXTENDS RawAcquisition

============================================================================
