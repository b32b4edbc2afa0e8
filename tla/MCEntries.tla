------------------------------- MODULE MCEntries -------------------------------
(***************************************************************************)
(* An instance of Entries for TLC: every two arguments in the file of      *)
(* which one has up to two symbols and the other up to one, and every text *)
(* of up to three for an administrator to type.                            *)
(***************************************************************************)
EXTENDS Entries, TLC

UpToLength(S, n) == UNION {[1 .. m -> S] : m \in 0 .. n}

Letters == {"a"}

(* Bare, quoted, padded, not closed, and not a slug. *)
Names ==
  {<<"a">>, <<"a", "-", "a">>, <<Quote, "a", Quote>>, <<Quote, "a", Quote, "a">>,
   <<Quote, Blank, "a", Blank, Quote>>, <<Quote, "a">>, <<"-", "a">>,
   <<Quote, Quote>>, <<Blank, "a", Tab>>, <<"a", Tab, "a">>}

Commands == {<<"a">>, <<"a", Blank, "a">>, <<Http, "a">>, <<Blank>>}

Texts == UpToLength({"a", Blank, Comma, Quote, Backslash}, 3) \cup
         UpToLength({"a", Tab, Apostrophe, Comma}, 2) \cup
         UpToLength({"a", "<", ">", "[", "]"}, 2) \cup
         {<<"<", "[", "a", "]", ">">>, <<"[", "<", "a", ">", "]">>}

Dirs == {<<>>, <<Blank>> \o Undefined}

Usual == {"a", Blank, Comma, Quote, Backslash, "]"}
Words == UpToLength(Usual, 2)
Letter == UpToLength(Usual, 1)
Symbols1 == {<<c>> : c \in {"a", Tab, Newline, Control, Apostrophe, Blank, Quote}}
RareWords == {u \o v : u, v \in Symbols1}

(* What a file may have for a directory. *)
Given ==
  {<<>>} \cup
  {<<d>> : d \in {<<>>, Undefined, <<Tab, "a">>, <<"a", Newline, "a">>, <<Apostrophe>>}}

(* An empty file, and files with one server: arguments of the usual        *)
(* symbols, or of the unusual ones and any directory; and a command that   *)
(* is not one word.                                                        *)
Files ==
  {EmptyTable}
  \cup {(<<"a">> :> Entry(<<"a">>, args, TRUE, <<<<"a">>>>)) :
          args \in UpToLength(Words, 1) \cup (Words \X Letter)
                   \cup (Letter \X Words)}
  \cup {(<<"a">> :> Entry(<<"a">>, <<w, <<"a", Quote>>>>, TRUE, cwd)) :
          w \in RareWords, cwd \in Given}
  \cup {(<<"a">> :> Entry(command, args, FALSE, <<>>)) :
          args \in UpToLength(Words, 1),
          command \in {<<"a", Blank, "a">>, <<"a", Tab>>, <<Newline>>, <<>>}}
=============================================================================
