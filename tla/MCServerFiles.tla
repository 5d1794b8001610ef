--------------------------- MODULE MCServerFiles ---------------------------
(***************************************************************************)
(* Small instances of ServerFiles: two connections, one or two names, two  *)
(* inodes and, beside the server's own descriptor, two for files.          *)
(***************************************************************************)
EXTENDS ServerFiles, TLC

\* Read-only, read and write creating, and the mode 3, whose descriptor may
\* neither read nor write, truncating.
MCModes == {{}, {"RDWR", "CREAT"}, {"WRONLY", "RDWR", "TRUNC"}}
MCWriteModes == MCModes \ {{}}

Symmetry ==
    Permutations(Conn) \cup Permutations(Name) \cup Permutations(Inode)

\* No handler looks at reply, and only locking clients at told.
ServerView == <<up, inode, content, fdtable, locked>>
ClientView == <<ServerView, told>>
=============================================================================
