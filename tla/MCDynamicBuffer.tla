-------------------------- MODULE MCDynamicBuffer ---------------------------
(* A small instance of DynamicBuffer: regions up to the whole limit, and     *)
(* enough bytes to fill it more than twice.                                  *)
EXTENDS DynamicBuffer
MCLimits == {0, 3, 4}
MCInitials == {1, 2}
=============================================================================
