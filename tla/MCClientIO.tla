----------------------------- MODULE MCClientIO -----------------------------
(***************************************************************************)
(* Two clients with one call each on a file of up to five units, by        *)
(* requests of two.                                                        *)
(***************************************************************************)
EXTENDS ClientIO

CONSTANTS x, y

MCModes == {{"RDWR", "CREAT"}}
MCContents == {<<>>, <<x, y, x>>, <<y, x, y, x>>}
MCPayload == {<<>>, <<y>>, <<x, y, y>>, <<y, x, x, y>>}
=============================================================================
