--------------------------- MODULE MCServerNames ---------------------------
(***************************************************************************)
(* A small instance of ServerNames: one listing, three names that the      *)
(* others change, "." before and ".." between them in the host's order,    *)
(* and a C library that reads two entries at a time.                       *)
(***************************************************************************)
EXTENDS ServerNames

MCName == {1, 2, 4}
MCDots == {0, 3}
=============================================================================
