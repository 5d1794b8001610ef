------------------------------- MODULE MCShell -------------------------------
(***************************************************************************)
(* Every beginning of every command, alone, longer by a letter, and with   *)
(* one or two arguments, between spaces of several kinds; lines that are   *)
(* too long; blank lines.                                                  *)
(***************************************************************************)
EXTENDS Shell

Beginnings == UNION {{SubSeq(cmd_tab[i].name, 1, n) : n \in 1 .. Len(cmd_tab[i].name)}
                       : i \in DOMAIN cmd_tab}
A == <<"a">>
S == <<" ">>
MCLines ==
    {<<>>, S, S \o S, <<"x">>, <<"x", "x", "x", "x", " ", "l", "s", " ", "a", "a", " ", "q", "u">>}
      \cup Beginnings
      \cup {w \o A : w \in Beginnings}
      \cup {w \o S \o A : w \in Beginnings}
      \cup {S \o w \o S \o S \o A \o S : w \in Beginnings}
      \cup {w \o S \o A \o S \o A : w \in Beginnings}
=============================================================================
