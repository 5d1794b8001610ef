----------------------------- MODULE ServerNames -----------------------------
(***************************************************************************)
(* The procedures of libicbinn/server/server.c that work on names, and the *)
(* listing of a directory by a client while other clients change it.       *)
(*                                                                         *)
(* Nothing is kept open between the calls of a listing: each icbinn_readent*)
(* (src/readdir.c) asks for the entry at an offset, and the server opens   *)
(* the directory again and counts that many entries (server.c).  A listing *)
(* is therefore many requests, and one request is many system calls, with  *)
(* the other connections' requests in between.                             *)
(*                                                                         *)
(* The host returns the entries of a directory in a fixed order, here that *)
(* of the numbers that stand for the names, a buffer of them at a time.    *)
(***************************************************************************)
EXTENDS Integers, Sequences, FiniteSets

CONSTANTS
    Name,       \* names in the directory that is listed
    Dots,       \* "." and "..": always there, never listed
    Batch,      \* entries the C library gets from the kernel at a time
    Lister,     \* clients that list the directory
    None

Program == {"ls", "fuse"}        \* client/ls.c and icbinn-fuse
Type == {"FILE", "DIRECTORY", "LINK", "UNKNOWN"}
Entry == Name \cup Dots

ASSUME EntryAssumption ==
    /\ Name \subseteq Nat /\ Dots \subseteq Nat /\ Name \cap Dots = {}
    /\ IsFiniteSet(Name) /\ IsFiniteSet(Dots)
ASSUME BatchAssumption == Batch \in Nat \ {0}
ASSUME NoneAssumption == None \notin Type

VARIABLES
    dir,        \* the type of the object each name refers to, or None
    pc,         \* where the listing is
    program,    \* which of the two clients is listing
    i,          \* its i, the offset of the request
    cursor,     \* the handler: the last entry readdir returned
    buffer,     \* the handler: entries read from the kernel and not returned
    doffset,    \* the handler: valid entries skipped or taken so far
    entries,    \* the handler: the entries of the reply
    out,        \* the names listed so far
    stayed,     \* history: names that have been there since the listing began
    changed,    \* history: kinds of changes since then
    failed      \* history: a request, or the caller of FUSE, failed

listing == <<pc, program, i, cursor, buffer, doffset, entries, out, failed>>
vars == <<dir, listing, stayed, changed>>

Present == {n \in Name : dir[n] # None}

Init ==
    /\ dir \in [Name -> Type \cup {None}]
    /\ pc = [l \in Lister |-> "idle"]
    /\ program = [l \in Lister |-> "ls"]
    /\ i = [l \in Lister |-> 0]
    /\ cursor = [l \in Lister |-> -1]
    /\ buffer = [l \in Lister |-> {}]
    /\ doffset = [l \in Lister |-> 0]
    /\ entries = [l \in Lister |-> <<>>]
    /\ out = [l \in Lister |-> <<>>]
    /\ stayed = [l \in Lister |-> {}]
    /\ changed = [l \in Lister |-> {}]
    /\ failed = [l \in Lister |-> FALSE]

-----------------------------------------------------------------------------
(* The other procedures.  One that fails changes nothing, and is no step.  *)

\* What a change means to the listings under way.
Watch(kinds) ==
    /\ stayed' = [l \in Lister |-> {n \in stayed[l] : dir'[n] # None}]
    /\ changed' = [l \in Lister |-> changed[l] \cup kinds]
    /\ UNCHANGED listing

\* open with O_CREAT of a name that is not there.
Create(n) ==
    /\ dir[n] = None
    /\ dir' = [dir EXCEPT ![n] = "FILE"]
    /\ Watch({"created"})

Symlink(n) ==
    /\ dir[n] = None
    /\ dir' = [dir EXCEPT ![n] = "LINK"]
    /\ Watch({"created"})

Mkdir(n) ==
    /\ dir[n] = None
    /\ dir' = [dir EXCEPT ![n] = "DIRECTORY"]
    /\ Watch({"created"})

Rmdir(n) ==
    /\ dir[n] = "DIRECTORY"
    /\ dir' = [dir EXCEPT ![n] = None]
    /\ Watch({"removed"})

Unlink(n) ==
    /\ dir[n] \notin {"DIRECTORY", None}
    /\ dir' = [dir EXCEPT ![n] = None]
    /\ Watch({"removed"})

\* A directory replaces only a directory, and anything else only what is not
\* one; the name that is replaced is there before and after.
Rename(from, to) ==
    /\ dir[from] # None /\ from # to
    /\ dir[to] # None => (dir[from] = "DIRECTORY") = (dir[to] = "DIRECTORY")
    /\ dir' = [dir EXCEPT ![to] = dir[from], ![from] = None]
    /\ Watch({"removed"} \cup (IF dir[to] = None THEN {"created"} ELSE {}))

-----------------------------------------------------------------------------
(* icbinn_prot_readdir_1_svc, one system call at a time, as called for     *)
(* icbinn_readent: the count is 1.                                         *)

Count == 1

\* The kernel's next entries after the cursor.
Getdents(l) ==
    LET rest == {n \in Present \cup Dots : n > cursor[l]}
    IN  {n \in rest : Cardinality({m \in rest : m < n}) < Batch}

\* Mutant: the loop's test allows one entry more.
WantedOneMore(l) == Len(entries[l]) <= Count

\* The loop goes on: dcount < argp->count.
Wanted(l) == Len(entries[l]) < Count

\* stat and opendir; a failure is an error reply.
Opendir(l) ==
    /\ pc[l] = "call"
    /\ \/ /\ pc' = [pc EXCEPT ![l] = "scan"]
          /\ UNCHANGED failed
       \/ /\ pc' = [pc EXCEPT ![l] = "return"]
          /\ failed' = [failed EXCEPT ![l] = TRUE]
    /\ cursor' = [cursor EXCEPT ![l] = -1]
    /\ buffer' = [buffer EXCEPT ![l] = {}]
    /\ doffset' = [doffset EXCEPT ![l] = 0]
    /\ entries' = [entries EXCEPT ![l] = <<>>]
    /\ UNCHANGED <<dir, program, i, out, stayed, changed>>

\* readdir with nothing left in its buffer asks the kernel for more.
Refill(l) ==
    /\ pc[l] = "scan" /\ Wanted(l) /\ buffer[l] = {} /\ Getdents(l) # {}
    /\ buffer' = [buffer EXCEPT ![l] = Getdents(l)]
    /\ UNCHANGED <<dir, pc, program, i, cursor, doffset, entries, out, failed,
                   stayed, changed>>

\* Mutant: the entry at the offset is skipped too.
SkippedOneMore(l) == doffset[l] <= i[l]

\* The entry is before the one asked for.
Skipped(l) == doffset[l] < i[l]

\* Mutant: entries that are not listed count.
ReaddirCountsAll(l) ==
    /\ pc[l] = "scan" /\ Wanted(l)
    /\ \E n \in buffer[l] :
        /\ \A m \in buffer[l] : n <= m
        /\ cursor' = [cursor EXCEPT ![l] = n]
        /\ buffer' = [buffer EXCEPT ![l] = @ \ {n}]
        /\ doffset' = [doffset EXCEPT ![l] = @ + 1]
        /\ entries' = IF Skipped(l) \/ n \notin Present THEN entries
                      ELSE [entries EXCEPT ![l] = Append(@, n)]
    /\ UNCHANGED <<dir, pc, program, i, out, failed, stayed, changed>>

\* Mutant: lstat of an entry that has gone is tried again.
ReaddirRetries(l) ==
    /\ pc[l] = "scan" /\ Wanted(l)
    /\ \E n \in buffer[l] :
        /\ \A m \in buffer[l] : n <= m
        /\ n \in Present \cup Dots
        /\ cursor' = [cursor EXCEPT ![l] = n]
        /\ buffer' = [buffer EXCEPT ![l] = @ \ {n}]
        /\ IF n \in Dots
           THEN UNCHANGED <<doffset, entries>>
           ELSE /\ doffset' = [doffset EXCEPT ![l] = @ + 1]
                /\ entries' = IF Skipped(l) THEN entries
                              ELSE [entries EXCEPT ![l] = Append(@, n)]
    /\ UNCHANGED <<dir, pc, program, i, out, failed, stayed, changed>>

\* One round of the loop: the next entry, unless it is "." or "..", and
\* unless lstat finds that it has gone since.  The names of the host have at
\* most 255 bytes, so none is passed over for its length.
Readdir(l) ==
    /\ pc[l] = "scan" /\ Wanted(l)
    /\ \E n \in buffer[l] :
        /\ \A m \in buffer[l] : n <= m
        /\ cursor' = [cursor EXCEPT ![l] = n]
        /\ buffer' = [buffer EXCEPT ![l] = @ \ {n}]
        /\ IF n \notin Present
           THEN UNCHANGED <<doffset, entries>>
           ELSE /\ doffset' = [doffset EXCEPT ![l] = @ + 1]
                /\ entries' = IF Skipped(l) THEN entries
                              ELSE [entries EXCEPT ![l] = Append(@, n)]
    /\ UNCHANGED <<dir, pc, program, i, out, failed, stayed, changed>>

\* Enough entries, or readdir returned NULL; nobody looks at eof.
Closedir(l) ==
    /\ pc[l] = "scan"
    /\ ~Wanted(l) \/ (buffer[l] = {} /\ Getdents(l) = {})
    /\ pc' = [pc EXCEPT ![l] = "return"]
    /\ UNCHANGED <<dir, program, i, cursor, buffer, doffset, entries, out,
                   failed, stayed, changed>>

-----------------------------------------------------------------------------
(* The clients' loops.                                                     *)

Start(l) ==
    /\ pc[l] = "idle"
    /\ pc' = [pc EXCEPT ![l] = "call"]
    /\ \E p \in Program : program' = [program EXCEPT ![l] = p]
    /\ stayed' = [stayed EXCEPT ![l] = Present]
    /\ changed' = [changed EXCEPT ![l] = {}]
    /\ UNCHANGED <<dir, i, cursor, buffer, doffset, entries, out, failed>>

\* icbinn_readent is 0: the reply came, was no error and has one entry.  No
\* reply at all looks like no entry.
Readent(l) == Len(entries[l]) = 1

\* Mutant: i is advanced twice in a round.
AdvanceTwice(l) == i[l] + 2

Advance(l) == i[l] + 1

\* The listing goes on with the next offset.
More(l) ==
    /\ pc' = [pc EXCEPT ![l] = "call"]
    /\ i' = [i EXCEPT ![l] = Advance(l)]
    /\ out' = [out EXCEPT ![l] = @ \o entries[l]]

Stop(l) == pc' = [pc EXCEPT ![l] = "done"] /\ UNCHANGED <<i, out>>

Ls(l) ==
    /\ pc[l] = "return" /\ program[l] = "ls"
    /\ IF Readent(l) THEN More(l) ELSE Stop(l)
    /\ UNCHANGED <<dir, program, cursor, buffer, doffset, entries, failed,
                   stayed, changed>>

\* icbinnfs_readdir asks for the attributes, does without them when the name
\* has gone, and gives up when FUSE does not take the entry.
Icbinnfs_readdir(l) ==
    /\ pc[l] = "return" /\ program[l] = "fuse"
    /\ \/ (IF Readent(l) THEN More(l) ELSE Stop(l)) /\ UNCHANGED failed
       \/ /\ Readent(l) /\ Stop(l)
          /\ failed' = [failed EXCEPT ![l] = TRUE]
    /\ UNCHANGED <<dir, program, cursor, buffer, doffset, entries,
                   stayed, changed>>

-----------------------------------------------------------------------------
Listing(l) ==
    \/ Opendir(l) \/ Refill(l) \/ Readdir(l) \/ Closedir(l)
    \/ Ls(l) \/ Icbinnfs_readdir(l)

Change ==
    \/ \E n \in Name :
          Create(n) \/ Symlink(n) \/ Mkdir(n) \/ Rmdir(n) \/ Unlink(n)
    \/ \E m, n \in Name : Rename(m, n)

Next == Change \/ \E l \in Lister : Start(l) \/ Listing(l)

Spec == Init /\ [][Next]_vars

\* A listing once started runs on, and the server answers.
FairSpec == Spec /\ \A l \in Lister : WF_vars(Listing(l))

-----------------------------------------------------------------------------
(* Properties.                                                             *)

Listed(l) == {out[l][k] : k \in 1 .. Len(out[l])}

\* Every variable stays within the values the code can give it; a reply has
\* no more entries than the caller's buffer has room for.
TypeOK ==
    /\ dir \in [Name -> Type \cup {None}]
    /\ pc \in [Lister -> {"idle", "call", "scan", "return", "done"}]
    /\ program \in [Lister -> Program]
    /\ i \in [Lister -> Nat]
    /\ cursor \in [Lister -> Entry \cup {-1}]
    /\ buffer \in [Lister -> SUBSET Entry]
    /\ doffset \in [Lister -> Nat]
    /\ entries \in [Lister -> Seq(Name)]
    /\ \A l \in Lister : Len(entries[l]) <= Count
    /\ out \in [Lister -> Seq(Name)]
    /\ stayed \in [Lister -> SUBSET Name]
    /\ changed \in [Lister -> SUBSET {"created", "removed"}]
    /\ failed \in [Lister -> BOOLEAN]

\* A listing of a directory nobody changes shows each entry exactly once, in
\* the host's order, although every entry is found by a scan of its own.
QuietListingExact ==
    \A l \in Lister :
        pc[l] = "done" /\ ~failed[l] /\ changed[l] = {} =>
            /\ Listed(l) = Present
            /\ \A j, k \in 1 .. Len(out[l]) : j < k => out[l][j] < out[l][k]

\* While names are only added, no listing that ends without a failure misses
\* an entry that was there all the time, wherever the new names come in.
CreationsHideNothing ==
    \A l \in Lister :
        pc[l] = "done" /\ ~failed[l] /\ "removed" \notin changed[l] =>
            stayed[l] \subseteq Listed(l)

\* While names are only removed, no listing shows an entry twice, not even
\* when one goes between readdir and lstat.
RemovalsRepeatNothing ==
    \A l \in Lister :
        "created" \notin changed[l] =>
            \A j, k \in 1 .. Len(out[l]) : out[l][j] = out[l][k] => j = k

\* A listing ends, however the directory changes meanwhile.
ListingEnds == \A l \in Lister : pc[l] = "call" ~> pc[l] = "done"
=============================================================================
