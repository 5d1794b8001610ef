------------------------------ MODULE MCGetPut ------------------------------
(***************************************************************************)
(* Two clients, two commands each, one remote file; files of up to two     *)
(* requests.                                                               *)
(***************************************************************************)
EXTENDS GetPut

CONSTANTS x, y

MCModes == {{}, {"WRONLY", "CREAT", "TRUNC"}}
MCSource == {<<>>, <<x, y, x>>}

\* What later steps depend on.  A command sets the variables of its own when
\* it begins, and no step reads the last reply or what was told.
MCView ==
    <<up, inode, content, fdtable, locked, pc, cmds, lost,
      [c \in Conn |-> IF pc[c] = "idle" THEN <<>>
                      ELSE <<ifd[c], off[c], file[c], outcome[c],
                             disturbed[c], short[c]>>]>>
=============================================================================
