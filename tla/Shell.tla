-------------------------------- MODULE Shell --------------------------------
(***************************************************************************)
(* The command line client, libicbinn/client/client.c: its options, the    *)
(* loop that reads commands, the splitting of a line into words and the    *)
(* search for the command.  Lines are sequences of characters, because     *)
(* prefixes and spaces are what the code is about.  What the handlers do   *)
(* is in GetPut and ServerNames, or one call of the library; here one      *)
(* returns 0 or an error.                                                  *)
(***************************************************************************)
EXTENDS Integers, FiniteSets, SequencesExt

CONSTANTS
    Lines,      \* what a user may type, without the newline
    Blank,      \* the characters isspace accepts, newline aside
    NewLine,
    LineSize,   \* sizeof (line)
    MaxLines    \* bound: the lines typed

Char(s) == {s[i] : i \in DOMAIN s}
isspace(c) == c \in Blank \cup {NewLine}

ASSUME LineAssumption ==
    /\ LineSize \in Nat \ {0, 1} /\ MaxLines \in Nat
    /\ \A l \in Lines : l \in Seq(Char(l)) /\ NewLine \notin Char(l)

cmd_tab ==
    << [name |-> <<"g", "e", "t">>,                nargs |-> 3],
       [name |-> <<"h", "e", "l", "p">>,           nargs |-> 1],
       [name |-> <<"l", "s">>,                     nargs |-> 2],
       [name |-> <<"m", "k", "d", "i", "r">>,      nargs |-> 2],
       [name |-> <<"n", "u", "l", "l">>,           nargs |-> 1],
       [name |-> <<"p", "u", "t">>,                nargs |-> 3],
       [name |-> <<"q", "u", "i", "t">>,           nargs |-> 1],
       [name |-> <<"r", "e", "n", "a", "m", "e">>, nargs |-> 3],
       [name |-> <<"r", "m">>,                     nargs |-> 2],
       [name |-> <<"r", "m", "d", "i", "r">>,      nargs |-> 2],
       [name |-> <<"s", "t", "a", "t">>,           nargs |-> 2] >>

help == 2
quit == 7

VARIABLES
    pc,
    opts,     \* what getopt found
    icb,      \* the connection
    stdin,    \* characters waiting to be read
    eof,      \* no more will come
    broken,   \* standard input fails, but not at its end
    line, argv, cmd,
    said,     \* what was last printed about a command
    typed,    \* history: the line stdin is the rest of
    lines     \* the lines typed so far

vars == <<pc, opts, icb, stdin, eof, broken, line, argv, cmd, said, typed, lines>>

NoOpts == [d |-> 0, h |-> 0, c |-> FALSE]

Init ==
    /\ pc = "getopt" /\ opts = NoOpts /\ icb = "none"
    /\ stdin = <<>> /\ eof = FALSE /\ broken = FALSE
    /\ line = <<>> /\ argv = <<>> /\ cmd = 0 /\ said = "nothing"
    /\ typed = <<>> /\ lines = 0

-----------------------------------------------------------------------------
(* The algorithms.                                                         *)

\* The first place from p on whose character is a space, or is not one; the
\* place behind the end, where the NUL is, if there is none.
FirstFrom(s, p, space) ==
    LET hits == {i \in p .. Len(s) : isspace(s[i]) = space}
    IN  IF hits = {} THEN Len(s) + 1 ELSE CHOOSE i \in hits : \A j \in hits : i <= j

\* Mutant: the place behind a word is passed over twice.
SplitSkips(s) ==
    LET from[p \in 1 .. Len(s) + 2] ==
            LET i == FirstFrom(s, p, FALSE)
                j == FirstFrom(s, i, TRUE)
            IN  IF i > Len(s) THEN <<>>
                ELSE <<SubSeq(s, i, j - 1)>>
                       \o (IF j > Len(s) THEN <<>> ELSE from[j + 2])
    IN  from[1]

\* The words of a line: from[p] are those the loop finds from ptr = p on.
Split(s) ==
    LET from[p \in 1 .. Len(s) + 1] ==
            LET i == FirstFrom(s, p, FALSE)
                j == FirstFrom(s, i, TRUE)
            IN  IF i > Len(s) THEN <<>>
                ELSE <<SubSeq(s, i, j - 1)>>
                       \o (IF j > Len(s) THEN <<>> ELSE from[j + 1])
    IN  from[1]

NoMatch == [exact |-> 0, num |-> 0, best |-> 0]

\* Mutant: a match in full is counted like a prefix.
MatchPrefix(s, i, name) ==
    IF IsPrefix(name, cmd_tab[i].name)
    THEN [s EXCEPT !.num = @ + 1, !.best = IF @ = 0 THEN i ELSE @] ELSE s

\* One turn of the loop over cmd_tab.  What matches is always the whole word,
\* so most_matched only tells whether something did before; the turns behind
\* a match in full, which the code leaves out, change nothing that is used.
Match(s, i, name) ==
    IF cmd_tab[i].name = name THEN [s EXCEPT !.exact = i]
    ELSE IF IsPrefix(name, cmd_tab[i].name)
    THEN [s EXCEPT !.num = @ + 1, !.best = IF @ = 0 THEN i ELSE @] ELSE s

find_command(name) ==
    LET after[i \in 0 .. Len(cmd_tab)] ==
            IF i = 0 THEN NoMatch ELSE Match(after[i - 1], i, name)
        s == after[Len(cmd_tab)]
    IN  IF s.exact # 0 THEN [cmd |-> s.exact, said |-> "nothing"]
        ELSE CASE s.num = 0 -> [cmd |-> 0, said |-> "Invalid"]
               [] s.num = 1 -> [cmd |-> s.best, said |-> "nothing"]
               [] OTHER     -> [cmd |-> 0, said |-> "Ambiguous"]

-----------------------------------------------------------------------------
(* The program.                                                            *)

\* !dflag ^ !!hflag.
Usage(o) == (o.d = 0) # (o.h # 0)

\* Exactly one of -d and -h, however often; -c stores the command, which is
\* cut to what line holds before it is parsed.
Getopt ==
    /\ pc = "getopt"
    /\ \E d, h \in 0 .. 2, c, bad \in BOOLEAN :
          /\ opts' = [d |-> d, h |-> h, c |-> c]
          /\ pc' = IF bad \/ Usage(opts') THEN "exit" ELSE "create"
          /\ line' \in IF c /\ pc' = "create" THEN Lines ELSE {<<>>}
    /\ UNCHANGED <<icb, stdin, eof, broken, argv, cmd, said, typed, lines>>

Create ==
    /\ pc = "create"
    /\ \/ icb' = "connected" /\ pc' = (IF opts.c THEN "parse" ELSE "fgets")
       \/ pc' = "exit" /\ UNCHANGED icb
    /\ line' = SubSeq(line, 1, IF Len(line) < LineSize THEN Len(line) ELSE LineSize - 1)
    /\ UNCHANGED <<opts, stdin, eof, broken, argv, cmd, said, typed, lines>>

Room == LineSize - 1

\* What fgets takes: to the newline, the end or the size of the buffer.
Chunk ==
    LET n == CHOOSE i \in 0 .. Len(stdin) :
                /\ \A j \in 1 .. i - 1 : stdin[j] # NewLine
                /\ i \in {Len(stdin), Room} \/ (i > 0 /\ stdin[i] = NewLine)
                /\ i <= Room
    IN  SubSeq(stdin, 1, n)

\* An empty line is passed over.  The other test, for a line that is empty
\* from the start, needs a NUL to be typed, and what is typed here is text.
Fgets ==
    /\ pc = "fgets" /\ stdin # <<>>
    /\ line' = Chunk
    /\ stdin' = SubSeq(stdin, Len(Chunk) + 1, Len(stdin))
    /\ pc' = IF line'[1] = NewLine THEN "fgets" ELSE "parse"
    /\ UNCHANGED <<opts, icb, eof, broken, argv, cmd, said, typed, lines>>

\* Mutant: the end of the input is waited out like an error.
FgetsEofContinues ==
    /\ pc = "fgets" /\ stdin = <<>> /\ eof
    /\ UNCHANGED vars

FgetsEof ==
    /\ pc = "fgets" /\ stdin = <<>> /\ eof
    /\ pc' = "destroy"
    /\ UNCHANGED <<opts, icb, stdin, eof, broken, line, argv, cmd, said, typed, lines>>

Next_line == IF opts.c THEN "destroy" ELSE "fgets"

\* parse_cmd up to the call of the handler.  It does not count what it stores
\* in its argv of 32 entries; here argv has room for the words of any line.
Parse ==
    /\ pc = "parse"
    /\ argv' = Split(line)
    /\ IF argv' = <<>>
       THEN pc' = Next_line /\ cmd' = 0 /\ said' = "nothing"
       ELSE LET f == find_command(argv'[1])
            IN  /\ cmd' = f.cmd
                /\ IF f.cmd # 0 /\ cmd_tab[f.cmd].nargs = Len(argv')
                   THEN pc' = "handler" /\ said' = "nothing"
                   ELSE /\ pc' = Next_line
                        /\ said' = IF f.cmd = 0 THEN f.said ELSE "Incorrect number"
    /\ UNCHANGED <<opts, icb, stdin, eof, broken, line, typed, lines>>

Handler ==
    /\ pc = "handler" /\ cmd # quit
    /\ \E ret \in (IF cmd = help THEN {0} ELSE {0, -1}) :
          said' = IF ret = 0 THEN "succeeded" ELSE "error"
    /\ pc' = Next_line
    /\ UNCHANGED <<opts, icb, stdin, eof, broken, line, argv, cmd, typed, lines>>

\* Mutant: quit just exits.
QuitExits ==
    /\ pc = "handler" /\ cmd = quit
    /\ pc' = "exit"
    /\ UNCHANGED <<opts, icb, stdin, eof, broken, line, argv, cmd, said, typed, lines>>

Quit ==
    /\ pc = "handler" /\ cmd = quit
    /\ icb' = "destroyed" /\ pc' = "exit"
    /\ UNCHANGED <<opts, stdin, eof, broken, line, argv, cmd, said, typed, lines>>

Destroy ==
    /\ pc = "destroy"
    /\ icb' = "destroyed" /\ pc' = "exit"
    /\ UNCHANGED <<opts, stdin, eof, broken, line, argv, cmd, said, typed, lines>>

-----------------------------------------------------------------------------
(* The user.                                                               *)

Type ==
    /\ stdin = <<>> /\ ~eof /\ ~broken /\ lines < MaxLines /\ pc = "fgets"
    /\ \E l \in Lines, last \in BOOLEAN :
          /\ last => l # <<>>
          /\ stdin' = IF last THEN l ELSE Append(l, NewLine)
          /\ eof' = last
          /\ typed' = stdin'
    /\ lines' = lines + 1
    /\ line' = <<>> /\ argv' = <<>> /\ cmd' = 0 /\ said' = "nothing"
    /\ UNCHANGED <<pc, opts, icb, broken>>

CloseStdin ==
    /\ pc = "fgets" /\ ~eof /\ ~broken
    /\ eof' = TRUE
    /\ UNCHANGED <<pc, opts, icb, stdin, broken, line, argv, cmd, said, typed, lines>>

\* fgets fails and feof does not hold: the loop tries again for ever.
BreakStdin ==
    /\ pc = "fgets" /\ stdin = <<>> /\ ~eof /\ ~broken
    /\ broken' = TRUE
    /\ UNCHANGED <<pc, opts, icb, stdin, eof, line, argv, cmd, said, typed, lines>>

Program ==
    \/ Getopt \/ Create \/ Fgets \/ FgetsEof \/ Parse \/ Handler \/ Quit \/ Destroy

Next == Program \/ Type \/ CloseStdin \/ BreakStdin

\* The program goes on by itself; handlers return (see GetPut, ClientIO).
Spec == Init /\ [][Next]_vars /\ WF_vars(Program)

-----------------------------------------------------------------------------
(* What a line means, without the code's loops.                            *)

\* The longest stretches of a line without a space.
Words(s) ==
    {w \in (1 .. Len(s)) \X (1 .. Len(s)) :
        /\ w[1] <= w[2]
        /\ \A i \in w[1] .. w[2] : ~isspace(s[i])
        /\ w[1] > 1 => isspace(s[w[1] - 1])
        /\ w[2] < Len(s) => isspace(s[w[2] + 1])}

Named(name) == {i \in DOMAIN cmd_tab : cmd_tab[i].name = name}
Abbreviated(name) == {i \in DOMAIN cmd_tab : IsPrefix(name, cmd_tab[i].name)}

-----------------------------------------------------------------------------
(* Properties.                                                             *)

\* Every variable stays within the values the program can give it.  It has a
\* connection only if it was told exactly one way to make it, and does not
\* exit before it has destroyed it: by quit, at the end of the input or
\* after a -c command.  A line has room in its buffer, whatever is typed or
\* given with -c, and so has at most half as many words as that has bytes:
\* as many as parse_cmd may store in argv.
TypeOK ==
    /\ pc \in {"getopt", "create", "fgets", "parse", "handler", "destroy", "exit"}
    /\ icb \in {"none", "connected", "destroyed"}
    /\ icb # "none" => (opts.d > 0) # (opts.h > 0)
    /\ pc = "exit" => icb # "connected"
    /\ Len(line) < LineSize \/ pc = "create"
    /\ 2 * Len(argv) <= LineSize /\ cmd \in 0 .. Len(cmd_tab)
    /\ said \in {"nothing", "Invalid", "Ambiguous", "Incorrect number",
                 "succeeded", "error"}
    /\ eof \in BOOLEAN /\ broken \in BOOLEAN /\ lines \in 0 .. MaxLines

\* A handler is called with the words of the line, all of them and in order,
\* wherever spaces are, and with as many as it takes from argv.  The line is
\* the one that was typed, all of it, or a piece of one that is too long for
\* the buffer; no character is lost or read twice.
HandlerGetsWords ==
    /\ pc = "handler" =>
        /\ Len(argv) = cmd_tab[cmd].nargs
        /\ Len(argv) = Cardinality(Words(line))
        /\ \A w \in Words(line) :
              argv[Cardinality({v \in Words(line) : v[1] <= w[1]})]
                = SubSeq(line, w[1], w[2])
    /\ pc = "parse" /\ ~opts.c =>
        LET taken == Len(typed) - Len(stdin)
        IN  /\ line = SubSeq(typed, taken - Len(line) + 1, taken)
            /\ stdin = SubSeq(typed, taken + 1, Len(typed))
            /\ Len(typed) < LineSize => line = typed

\* The command that is run is the one named in full, or else the only one
\* the word is the beginning of; rm is not ambiguous because of rmdir.  What
\* is refused is really unknown or ambiguous.
CommandMeant ==
    argv # <<>> =>
        LET name == argv[1]
        IN  /\ cmd # 0 => \/ cmd \in Named(name)
                          \/ Named(name) = {} /\ Abbreviated(name) = {cmd}
            /\ said = "Invalid" => Abbreviated(name) = {}
            /\ said = "Ambiguous" =>
                 Named(name) = {} /\ Cardinality(Abbreviated(name)) > 1
            /\ cmd = 0 => said \in {"Invalid", "Ambiguous"}

\* The program exits once its input ends or its -c command is done.
SessionEnds == (eof \/ opts.c) ~> pc = "exit"
=============================================================================
