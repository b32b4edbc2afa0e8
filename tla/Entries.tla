-------------------------------- MODULE Entries --------------------------------
(***************************************************************************)
(* main.rs, config.rs and the page of routes.rs: how the text of an        *)
(* administrator becomes an entry of the configuration, and how an entry   *)
(* is shown as text that is edited, or typed, again.                       *)
(*                                                                         *)
(* The console has `/mcp add` and `/mcp disable`, whose words may be       *)
(* quoted, and lists entries in the format Rust prints for debugging.  The *)
(* page has a form with the arguments joined by commas.  AppState has what *)
(* these commands do among others; here they come one at a time.           *)
(*                                                                         *)
(* A text is a sequence of symbols: a character that some rule names, or   *)
(* one that stands for all that are treated alike.                         *)
(***************************************************************************)
EXTENDS Integers, Sequences, FiniteSets, Table

CONSTANTS
  Alnum,     \* the letters and digits
  Word,      \* what is typed for the name of a server
  Command,   \* what is typed for its command
  Text,      \* what is typed for its arguments
  Dir,       \* what is typed for its directory
  Initial    \* configurations the program may be started with

Seqs == INSTANCE SequencesExt

VARIABLES
  config,    \* Config::mcp, slug -> entry
  form,      \* the page's form, or NoForm
  typed      \* history: the last `/mcp add` that was accepted, or NoAdd

vars == <<config, form, typed>>

Blank == " "
Tab == "\t"          \* and all white space that is neither Blank nor Newline
Newline == "\n"
Control == "control" \* what is printed escaped and is no white space
Code == "code"       \* the letters that stand for one that is printed escaped
Apostrophe == "'"
Underscore == "_"
Comma == ","
Quote == "\""
Backslash == "\\"
Less == "<"
Greater == ">"
Open == "["
Close == "]"
Http == "http://"    \* the prefix http:// or https://

White == {Blank, Tab, Newline}
Separators == White \cup {Comma}

(* All of these are strings, and a text is a sequence of such.             *)
Symbols ==
  STRING \cup White \cup
  {Comma, Quote, Backslash, Less, Greater, Open, Close, Apostrophe,
   Code}
Chars == Seq(Symbols)

Undefined == <<"undefined">>   \* the text undefined

(* A line of the console has no end of line, nor has a field of the page.  *)
ASSUME TextsAssumption ==
  Word \cup Command \cup Text \cup Dir \subseteq Seq(Symbols \ {Newline})
ASSUME AlnumAssumption ==
  Alnum \subseteq STRING \ {"-", Underscore, Blank, Tab, Newline, Comma, Quote,
                           Backslash, Less, Greater, Open, Close, Http,
                           Apostrophe}

-----------------------------------------------------------------------------
(* Texts.                                                                  *)

(* The position of the first symbol in S, 0 if there is none. *)
Find(t, S) == Seqs!SelectInSeq(t, LAMBDA c : c \in S)

TrimStart(t, S) ==
  LET i == Seqs!SelectInSeq(t, LAMBDA c : c \notin S) IN
  IF i = 0 THEN <<>> ELSE SubSeq(t, i, Len(t))
TrimEnd(t, S) ==
  SubSeq(t, 1, Seqs!SelectLastInSeq(t, LAMBDA c : c \notin S))
Trim(t) == TrimEnd(TrimStart(t, White), White)

(* The text up to the first symbol in S, and what comes after it. *)
UpTo(t, S) ==
  IF Find(t, S) = 0 THEN t ELSE SubSeq(t, 1, Find(t, S) - 1)
After(t, S) ==
  IF Find(t, S) = 0 THEN <<>> ELSE SubSeq(t, Find(t, S) + 1, Len(t))

(* split: what lies between symbols in S, empty pieces included. *)
Extend(ws, c) == [ws EXCEPT ![Len(ws)] = Append(@, c)]
Cut(ws, c, S) == IF c \in S THEN Append(ws, <<>>) ELSE Extend(ws, c)
Split(t, S) ==
  LET f[n \in 0 .. Len(t)] ==
        IF n = 0 THEN <<<<>>>> ELSE Cut(f[n - 1], t[n], S)
  IN f[Len(t)]

Keep(ws, w) == IF w = <<>> THEN ws ELSE Append(ws, w)
NonEmpty(ws) ==
  LET f[n \in 0 .. Len(ws)] == IF n = 0 THEN <<>> ELSE Keep(f[n - 1], ws[n])
  IN f[Len(ws)]

(* One text after the other, and join(", "). *)
Flat(ws) ==
  LET f[n \in 0 .. Len(ws)] == IF n = 0 THEN <<>> ELSE f[n - 1] \o ws[n]
  IN f[Len(ws)]
Join(ws) ==
  Flat([i \in 1 .. Len(ws) |->
          IF i = 1 THEN ws[i] ELSE <<Comma, Blank>> \o ws[i]])

-----------------------------------------------------------------------------
(* config.rs                                                               *)

ValidSlug(s) ==
  /\ s # <<>> /\ Head(s) \in Alnum
  /\ \A i \in 2 .. Len(s) : s[i] \in Alnum \cup {"-", Underscore}

(* What both ways of adding an entry say of its kind. *)
IsHttp(command) == command # <<>> /\ Head(command) = Http

(* env is reduced to whether there is any; cwd is the sequence of the      *)
(* directories given, none or one.                                         *)
Entry(command, args, env, cwd) ==
  [command |-> command, args |-> args, env |-> env, cwd |-> cwd,
   http |-> IsHttp(command)]

(* What the program is configured with: a file with a name that is no slug *)
(* is refused when it is loaded.                                           *)
Configured(c) ==
  \A slug \in DOMAIN c :
    /\ slug \in Chars /\ ValidSlug(slug)
    /\ c[slug] \in [command : Chars, args : Seq(Chars), env : BOOLEAN,
                    cwd : Seq(Chars), http : BOOLEAN]
    /\ Len(c[slug].cwd) <= 1

ASSUME InitialAssumption == \A c \in Initial : Configured(c)

-----------------------------------------------------------------------------
(* The console.                                                            *)

(* Where the tokenizer is: between words, in a bare or in a quoted one,    *)
(* or behind a backslash in a quoted one.                                  *)
Begin(m, w, in) == [words |-> Append(m.words, w), in |-> in]
Put(m, c, in) ==
  [words |-> [m.words EXCEPT ![Len(m.words)] = Append(@, c)], in |-> in]
Pass(m, in) == [m EXCEPT !.in = in]

(* Mutant: a backslash is a symbol like any other. *)
StepPlain(m, c) ==
  CASE m.in = "quoted" /\ c = Quote -> Pass(m, "between")
    [] m.in = "quoted" -> Put(m, c, "quoted")
    [] m.in # "quoted" /\ c \in Separators -> Pass(m, "between")
    [] m.in # "quoted" /\ c = Quote -> Begin(m, <<>>, "quoted")
    [] m.in = "between" /\ c \notin Separators \cup {Quote} -> Begin(m, <<c>>, "bare")
    [] m.in = "bare" /\ c \notin Separators \cup {Quote} -> Put(m, c, "bare")

(* Mutant: only white space separates bare words. *)
StepBlank(m, c) ==
  CASE m.in = "escaped" -> Put(m, c, "quoted")
    [] m.in = "quoted" /\ c = Backslash -> Pass(m, "escaped")
    [] m.in = "quoted" /\ c = Quote -> Pass(m, "between")
    [] m.in = "quoted" /\ c \notin {Backslash, Quote} -> Put(m, c, "quoted")
    [] m.in \in {"between", "bare"} /\ c \in White -> Pass(m, "between")
    [] m.in \in {"between", "bare"} /\ c = Quote -> Begin(m, <<>>, "quoted")
    [] m.in = "between" /\ c \notin White \cup {Quote} -> Begin(m, <<c>>, "bare")
    [] m.in = "bare" /\ c \notin White \cup {Quote} -> Put(m, c, "bare")

(* One symbol of the arguments. *)
Step(m, c) ==
  CASE m.in = "escaped" -> Put(m, c, "quoted")
    [] m.in = "quoted" /\ c = Backslash -> Pass(m, "escaped")
    [] m.in = "quoted" /\ c = Quote -> Pass(m, "between")
    [] m.in = "quoted" /\ c \notin {Backslash, Quote} -> Put(m, c, "quoted")
    [] m.in \in {"between", "bare"} /\ c \in Separators -> Pass(m, "between")
    [] m.in \in {"between", "bare"} /\ c = Quote -> Begin(m, <<>>, "quoted")
    [] m.in = "between" /\ c \notin Separators \cup {Quote} -> Begin(m, <<c>>, "bare")
    [] m.in = "bare" /\ c \notin Separators \cup {Quote} -> Put(m, c, "bare")

Scan(t) ==
  LET f[n \in 0 .. Len(t)] ==
        IF n = 0 THEN [words |-> <<>>, in |-> "between"] ELSE Step(f[n - 1], t[n])
  IN f[Len(t)]
Tokens(t) == Scan(t).words

(* Brackets around all the arguments are taken off, these in this order. *)
Unbracket(t) ==
  Trim(TrimEnd(TrimStart(TrimEnd(TrimStart(t, {Less}), {Greater}), {Open}), {Close}))

(* The name of a server, and the rest of the line: in quotes, which must   *)
(* be closed, or up to the first blank.                                    *)
Quoted(line) == line # <<>> /\ Head(line) = Quote
Closed(line) == Quoted(line) => Find(Tail(line), {Quote}) # 0
Name(line) ==
  Trim(IF Quoted(line) THEN UpTo(Tail(line), {Quote}) ELSE UpTo(line, {Blank}))
Rest(line) ==
  Trim(IF Quoted(line) THEN After(Tail(line), {Quote}) ELSE After(line, {Blank}))

(* Mutant: the name is not looked at. *)
AcceptedAny(line) ==
  /\ Closed(line) /\ Name(line) # <<>>
  /\ Trim(UpTo(Rest(line), {Blank})) # <<>>

Accepted(line) ==
  /\ Closed(line) /\ Name(line) # <<>>
  /\ Trim(UpTo(Rest(line), {Blank})) # <<>>
  /\ ValidSlug(Name(line))

Added(line) ==
  Entry(Trim(UpTo(Rest(line), {Blank})),
        Tokens(Unbracket(Trim(After(Rest(line), {Blank})))), FALSE, <<>>)

(* Mutant: quotes belong to the name. *)
ToDisableQuoted(word) == word

(* The name that `/mcp disable` takes a word for. *)
ToDisable(word) ==
  IF Len(word) >= 2 /\ Head(word) = Quote /\ word[Len(word)] = Quote
  THEN SubSeq(word, 2, Len(word) - 1) ELSE word

(* {:?} of the arguments, as /list prints them: what is not printable, and *)
(* all white space but the blank, as a backslash and a code.               *)
Coded == {Tab, Newline, Control}
Escape(c) ==
  CASE c \in Coded -> <<Backslash, Code>>
    [] c \in {Quote, Backslash} -> <<Backslash, c>>
    [] OTHER -> <<c>>
Debug(w) ==
  <<Quote>> \o Flat([i \in 1 .. Len(w) |-> Escape(w[i])]) \o <<Quote>>
Listed(args) ==
  <<Open>> \o Join([i \in 1 .. Len(args) |-> Debug(args[i])]) \o <<Close>>

-----------------------------------------------------------------------------
(* The page.                                                               *)

NoForm == [open |-> FALSE]

(* A field of one line drops the ends of line in what it is given. *)
Field(t) ==
  Flat([i \in 1 .. Len(t) |-> IF t[i] = Newline THEN <<>> ELSE <<t[i]>>])

(* The directory as it is given to the field, none if there is none. *)
Directory(cwd) == IF cwd \in {<<>>, <<Undefined>>} THEN <<>> ELSE cwd[1]

(* Mutant: arguments are shown with blanks between them. *)
FormOfBlanks(slug, e) ==
  [open |-> TRUE, slug |-> slug, command |-> Field(e.command),
   args |-> Field(Flat([i \in DOMAIN e.args |-> <<Blank>> \o e.args[i]])),
   cwd |-> Field(Directory(e.cwd))]

(* editServer, with what fetchConfig has got. *)
FormOf(slug, e) ==
  [open |-> TRUE, slug |-> slug, command |-> Field(e.command),
   args |-> Field(Join(e.args)), cwd |-> Field(Directory(e.cwd))]

(* The button that calls it has what it passes between apostrophes, and    *)
(* does not work if it has any itself.                                     *)
Editable(e) ==
  /\ Find(e.command, {Apostrophe}) = 0
  /\ \A i \in DOMAIN e.args : Find(e.args[i], {Apostrophe}) = 0
  /\ e.cwd # <<>> => Find(e.cwd[1], {Apostrophe}) = 0

(* What is left of a directory without the blanks around it, if anything.  *)
DirectoryOf(field) == IF Trim(field) = <<>> THEN <<>> ELSE <<Trim(field)>>

(* Mutant: the pieces are taken as they are. *)
SavedUntrimmed(f) ==
  Entry(Trim(f.command), NonEmpty(Split(f.args, {Comma})), FALSE,
        DirectoryOf(f.cwd))

(* submitServerForm and post_api_server: the arguments are split at        *)
(* commas, and the environment is an empty one.                            *)
Saved(f) ==
  LET pieces == Split(f.args, {Comma}) IN
  Entry(Trim(f.command),
        NonEmpty([i \in 1 .. Len(pieces) |-> Trim(pieces[i])]), FALSE,
        DirectoryOf(f.cwd))

-----------------------------------------------------------------------------
NoAdd == [word |-> <<>>, name |-> <<>>]

Init == config \in Initial /\ form = NoForm /\ typed = NoAdd

(* Bound: a text is typed where nothing is configured. *)
Fresh == config = EmptyTable /\ form = NoForm

(* `/mcp add` and what follows it. *)
TypeAdd(word, command, text) ==
  LET line == Trim(word \o <<Blank>> \o command \o <<Blank>> \o text) IN
  /\ Fresh /\ Accepted(line)
  /\ config' = Insert(config, Name(line), Added(line))
  /\ typed' = [word |-> word, name |-> Name(line), command |-> command,
               text |-> text]
  /\ UNCHANGED form

(* `/mcp disable` and what follows it. *)
TypeDisable(word) ==
  /\ ToDisable(Trim(word)) \in DOMAIN config
  /\ config' = Remove(config, ToDisable(Trim(word)))
  /\ typed' = NoAdd
  /\ UNCHANGED form

(* openAddModal, and what is filled in. *)
FillForm(word, command, text, dir) ==
  /\ Fresh
  /\ form' = [open |-> TRUE, slug |-> Trim(word), command |-> command,
              args |-> text, cwd |-> dir]
  /\ UNCHANGED <<config, typed>>

OpenForm(slug) ==
  /\ slug \in DOMAIN config /\ Editable(config[slug])
  /\ form' = FormOf(slug, config[slug])
  /\ UNCHANGED <<config, typed>>

(* The page asks for a command.  A name that is no slug is refused, and    *)
(* the form stays open.                                                    *)
SaveForm ==
  /\ form.open /\ form.command # <<>> /\ ValidSlug(form.slug)
  /\ config' = Insert(config, form.slug, Saved(form))
  /\ form' = NoForm
  /\ typed' = NoAdd

CloseForm == form.open /\ form' = NoForm /\ UNCHANGED <<config, typed>>

Next ==
  \/ \E word \in Word : TypeDisable(word)
  \/ \E word \in Word, command \in Command, text \in Text :
       \/ TypeAdd(word, command, text)
       \/ \E dir \in Dir : FillForm(word, command, text, dir)
  \/ \E slug \in DOMAIN config : OpenForm(slug)
  \/ SaveForm \/ CloseForm

Spec == Init /\ [][Next]_vars

-----------------------------------------------------------------------------
(* What an administrator may count on.                                     *)

(* The configuration is one that could be loaded, by whatever way its      *)
(* entries came: it is saved to the file the program starts with again.    *)
TypeOK ==
  /\ Configured(config)
  /\ form = NoForm \/
     form \in [open : {TRUE}, slug : Chars, command : Chars, args : Chars,
               cwd : Chars]
  /\ typed = NoAdd \/
     (typed.word \in Word /\ typed.command \in Command /\ typed.text \in Text /\
      typed.name \in DOMAIN config)

OneWord(t) == t # <<>> /\ Find(t, White) = 0

(* What /list shows of an entry can be typed after `/mcp add`, as it       *)
(* stands, and gives the same command and as many arguments: the same ones *)
(* too, empty ones and those with blanks, commas, quotes, backslashes and  *)
(* brackets included, but not those with a symbol that is printed as a     *)
(* code, like a tab, whatever stands next to them.  The command must be    *)
(* one word.                                                               *)
ListingCanBeTyped ==
  \A slug \in DOMAIN config :
    LET e == config[slug]
        line == slug \o <<Blank>> \o e.command \o <<Blank>> \o Listed(e.args) IN
    OneWord(e.command) =>
      /\ Accepted(line) /\ Name(line) = slug
      /\ Added(line).command = e.command
      /\ Len(Added(line).args) = Len(e.args)
      /\ \A i \in DOMAIN e.args :
           Find(e.args[i], Coded) = 0 => Added(line).args[i] = e.args[i]

(* A form that is saved unedited changes neither the command, nor the      *)
(* directory, nor the arguments if a form can show them: without ends of   *)
(* line, or white space around them; arguments also not empty and without  *)
(* commas; a directory also not empty, and not the text undefined.         *)
AsShown(t) == Trim(t) = t /\ Find(t, {Newline}) = 0
Showable(w) == w # <<>> /\ Find(w, {Comma}) = 0 /\ AsShown(w)
UneditedFormKeeps ==
  \A slug \in DOMAIN config :
    LET e == config[slug]
        s == Saved(FormOf(slug, e)) IN
    Editable(e) =>
      /\ AsShown(e.command) => s.command = e.command
      /\ (\A i \in DOMAIN e.args : Showable(e.args[i])) => s.args = e.args
      /\ e.cwd = <<>> \/ (AsShown(e.cwd[1]) /\ e.cwd[1] \notin {<<>>, Undefined}) =>
           s.cwd = e.cwd

(* Whatever an entry is, saving its form again and again changes nothing   *)
(* after the first time, unless that made undefined its directory.         *)
FormSettles ==
  \A slug \in DOMAIN config :
    LET s == Saved(FormOf(slug, config[slug])) IN
    Editable(config[slug]) /\ s.cwd # <<Undefined>> =>
      Editable(s) /\ Saved(FormOf(slug, s)) = s

(* A word that `/mcp disable` takes for what may be a server's name is     *)
(* taken for the same by `/mcp add`, whatever is typed after it; and the   *)
(* word a server was added by disables it just when it is the name, bare   *)
(* or in quotes with nothing else in them: not when the quotes hold blanks *)
(* as well, or are closed before the word ends.                            *)
AddedCanBeDisabled ==
  typed # NoAdd =>
    LET word == Trim(typed.word) IN
    /\ ValidSlug(ToDisable(word)) => ToDisable(word) = typed.name
    /\ ToDisable(word) = typed.name <=>
         word \in {typed.name, <<Quote>> \o typed.name \o <<Quote>>}

(* "Supports quotes/commas for args", routes.rs:405: without quotes, the   *)
(* arguments are what lies between white space and commas.                 *)
BareWordsSplit ==
  typed # NoAdd /\ OneWord(typed.command) /\ ToDisable(typed.word) = typed.name
    /\ Find(typed.text, {Quote, Less, Greater, Open, Close}) = 0 =>
      config[typed.name].args = NonEmpty(Split(typed.text, Separators))
=============================================================================
