----------------------------- MODULE MCUdpDaqd -----------------------------
(* UdpDaqd for TLC: behaviours that are long in one respect or another.     *)
EXTENDS UdpDaqd

B(r, f, g, s, c, h) ==
  [runs |-> r, frames |-> f, garbled |-> g, socket |-> s, commands |-> c, hangups |-> h]
SmallBounds == {B(2, 2, 2, 1, 0, 1), B(1, 5, 0, 1, 0, 0), B(1, 3, 2, 1, 0, 0), B(1, 1, 1, 1, 1, 1),
                B(0, 0, 0, 2, 3, 0)}
=============================================================================
