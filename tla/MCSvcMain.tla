----------------------------- MODULE MCSvcMain -----------------------------
(***************************************************************************)
(* A small instance of SvcMain: two connections from two domains, three    *)
(* listening sockets.  Both domains share dB on the first socket, which is *)
(* missing and can be created; dC is missing and cannot; dA is there.  The *)
(* second domain has an empty and then no further field.                   *)
(***************************************************************************)
EXTENDS SvcMain, TLC

CONSTANTS c1, c2, dA, dB, dC

\* 1.0.0.1 and 1.0.0.2, as V4V hands them out.
MCAddr == c1 :> 16777217 @@ c2 :> 16777218

MCIcbinnPath == 1 :> <<dB, dC, dA>> @@ 2 :> <<dB, Empty>>

MCInitDirs == {dA}
MCCreatable == {dA, dB}
=============================================================================
