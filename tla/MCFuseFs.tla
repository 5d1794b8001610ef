------------------------------ MODULE MCFuseFs ------------------------------
(***************************************************************************)
(* A mount and one other connection on two files of at most two units,     *)
(* with two open files and as many descriptors.                            *)
(***************************************************************************)
EXTENDS FuseFs, TLC

MCModes == {{}}
Symmetry == Permutations(Inode) \cup Permutations(Handle) \cup Permutations(Name)

\* Once a callback has ended, its argument, the reply and the target shown
\* are not looked at again: only the step that ends it is about them.
MCView ==
    <<up, inode, content, fdtable, locked, told, node, handle, pc, fd, rv, ret,
      meant, lost, quiet, requests,
      IF pc = "reply" THEN <<asked.op, asked.name, asked.h>>
      ELSE <<asked, reply, shown>>>>
=============================================================================
