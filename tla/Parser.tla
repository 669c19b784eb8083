------------------------------- MODULE Parser -------------------------------
(***************************************************************************)
(* tractus-core/parse.rs: what a command line is taken apart into.  A text *)
(* is a sequence of characters; its bytes are looked at one by one, and    *)
(* what a backslash or a quote protects is passed over.  The three         *)
(* scanners of the source follow the same rule, given once by Modes.       *)
(*                                                                         *)
(* Only characters the scanners tell apart matter; blank, semicolon,       *)
(* doublequote, backquote, openbrace and closebrace go by their names.     *)
(* Comments, newlines and characters of several bytes are left out.        *)
(***************************************************************************)
EXTENDS Naturals, Sequences, SequencesExt

CONSTANTS
  Letter,       \* characters of names: letters and the underscore
  Digit,        \* digits
  Environment,  \* the snapshot of the shim: names of variables to their values
  OpaqueWord,   \* eval, source and the dot, as texts
  Character,    \* what a command line is typed from
  MaxText       \* bound: characters of a command line

\* The three are none of them this one letter, by which the property on quoting calls a command.
ASSUME OpaqueAssumption == <<"a">> \notin OpaqueWord

VARIABLE text   \* the command line an adapter proposes, typed so far

Type(ch) == Len(text) < MaxText /\ text' = Append(text, ch)
LineSpec == text = <<>> /\ [][\E ch \in Character : Type(ch)]_text

At(s, i) == IF i \in DOMAIN s THEN s[i] ELSE "end"

-----------------------------------------------------------------------------
\* What the scanner is in the middle of once it has seen a character.
After(mode, ch) ==
  CASE mode = "single" -> IF ch = "'" THEN "plain" ELSE "single"
    [] mode = "double" ->
         IF ch = "\\" THEN "doubleEscape" ELSE IF ch = "doublequote" THEN "plain" ELSE "double"
    [] mode = "plain" ->
         CASE ch = "\\" -> "plainEscape" [] ch = "'" -> "single"
           [] ch = "doublequote" -> "double" [] OTHER -> "plain"
    [] mode = "doubleEscape" -> "double"
    [] mode = "plainEscape" -> "plain"

\* The mode in which each character is met, and the one at the end.
Modes(s) ==
  LET mode[i \in 1 .. Len(s) + 1] == IF i = 1 THEN "plain" ELSE After(mode[i-1], s[i-1])
  IN  mode

\* Where nothing is quoted or escaped.
Bare(s) == LET mode == Modes(s) IN {i \in DOMAIN s : mode[i] = "plain"}
Unbalanced(s) == Modes(s)[Len(s) + 1] \in {"single", "double", "doubleEscape"}

Occurs(s, pair) == \E i \in 1 .. Len(s) - Len(pair) + 1 : SubSeq(s, i, i + Len(pair) - 1) = pair
ExplicitOpacity(s) ==
  \E construct \in {<<"$", "(">>, <<"backquote">>, <<"<", "(">>, <<"<", "<">>} : Occurs(s, construct)

\* The operator at i, if i begins one, and how long it is.
OperatorAt(s, i) ==
  CASE s[i] = "semicolon" -> "sequence"
    [] s[i] = "&" -> IF At(s, i + 1) = "&" THEN "and"
                     ELSE IF At(s, i + 1) = ">" THEN "none" ELSE "background"
    [] s[i] = "|" -> IF At(s, i + 1) = "|" THEN "or" ELSE "pipe"
    [] OTHER -> "none"
\* Mutant: every operator is taken for two characters.
WidthTwo(operator) == 2
Width(operator) == IF operator \in {"and", "or"} THEN 2 ELSE 1

Piece(s, start, end, operator) == [text |-> SubSeq(s, start, end), operator |-> operator]

\* The pieces cut off the first i characters, and where the next begins, if a text is
\* cut at the operators that begin at these places.
Cut(s, places, was, i) ==
  IF i < was.next \/ i \notin places \/ OperatorAt(s, i) = "none" THEN was
  ELSE [pieces |-> Append(was.pieces, Piece(s, was.next, i - 1, OperatorAt(s, i))),
        next   |-> i + Width(OperatorAt(s, i))]

CutAt(s, places) ==
  LET n == Len(s)
      cut[i \in 0 .. n] == IF i = 0 THEN [pieces |-> <<>>, next |-> 1] ELSE Cut(s, places, cut[i - 1], i)
  IN  Append(cut[n].pieces, Piece(s, cut[n].next, n, "none"))

\* Mutant: operators are found inside quotes too.
SplitRegardless(s) == CutAt(s, DOMAIN s)
SplitTopLevel(s) == CutAt(s, Bare(s))

-----------------------------------------------------------------------------
\* shell_words::split of a text whose quotes are balanced.
Taken(s, i, mode) ==
  CASE mode = "plain" /\ s[i] \in {"\\", "'", "doublequote"} ->
         IF s[i] = "\\" /\ i = Len(s) THEN <<"\\">> ELSE <<>>
    [] mode = "single" /\ s[i] = "'" -> <<>>
    [] mode = "double" /\ s[i] \in {"\\", "doublequote"} -> <<>>
    [] mode = "doubleEscape" /\ s[i] \notin {"$", "backquote", "doublequote", "\\"} -> <<"\\", s[i]>>
    [] OTHER -> <<s[i]>>

\* The words of the first i characters, the last of which may still be open.
Read(s, mode, was, i) ==
  IF mode = "plain" /\ s[i] = "blank"
  THEN [words |-> IF was.open THEN Append(was.words, was.text) ELSE was.words, open |-> FALSE, text |-> <<>>]
  ELSE [words |-> was.words, open |-> TRUE, text |-> was.text \o Taken(s, i, mode)]

Words(s) ==
  LET n == Len(s)
      mode == Modes(s)
      read[i \in 0 .. n] ==
        IF i = 0 THEN [words |-> <<>>, open |-> FALSE, text |-> <<>>] ELSE Read(s, mode[i], read[i - 1], i)
  IN  IF read[n].open THEN Append(read[n].words, read[n].text) ELSE read[n].words

Blank(s) == \A i \in DOMAIN s : s[i] = "blank"

IsAssignment(word) ==
  \E e \in DOMAIN word :
    /\ word[e] = "=" /\ e > 1
    /\ \A i \in 1 .. e - 1 : word[i] \in Letter \/ (i > 1 /\ word[i] \in Digit)

\* The leading KEY=value words are not part of the command.
Prefix(argv) == CHOOSE n \in 0 .. Len(argv) :
  /\ \A i \in 1 .. n : IsAssignment(argv[i])
  /\ n = Len(argv) \/ ~IsAssignment(argv[n + 1])
Stripped(argv) == SubSeq(argv, Prefix(argv) + 1, Len(argv))

IsOpaqueCommand(s) ==
  LET command == Stripped(Words(s)) IN command # <<>> /\ command[1] \in OpaqueWord

-----------------------------------------------------------------------------
\* A redirection at i: its sign's length and its direction.
RedirectAt(s, i) ==
  CASE s[i] \in {"&", "2", ">"} /\ At(s, i + 1) = ">" -> [width |-> 2, write |-> TRUE]
    [] s[i] = ">" /\ At(s, i + 1) # ">" -> [width |-> 1, write |-> TRUE]
    [] s[i] = "<" -> [width |-> 1, write |-> FALSE]
    [] OTHER -> [width |-> 0, write |-> FALSE]

SkipWhitespace(s, i) ==
  CHOOSE j \in i .. Len(s) + 1 : At(s, j) # "blank" /\ \A k \in i .. j - 1 : s[k] = "blank"

WordEnd(s, i) ==
  LET mode == Modes(s)
      ends == {j \in i .. Len(s) : mode[j] = "plain" /\ s[j] \in {"blank", "semicolon", "&", "|"}}
  IN  IF ends = {} THEN Len(s) + 1 ELSE CHOOSE j \in ends : \A k \in ends : j <= k

\* A redirection whose sign is at i: where its target ends and the words that it is.
TargetStart(s, i) == SkipWhitespace(s, i + RedirectAt(s, i).width)
TargetEnd(s, i) == WordEnd(s, TargetStart(s, i))
Target(s, i) == Words(SubSeq(s, TargetStart(s, i), TargetEnd(s, i) - 1))

\* Mutant: a redirection replaces those before it.
ExtractLast(s, bare, was, i) ==
  IF i < was.next \/ i \notin bare \/ RedirectAt(s, i).width = 0 THEN was
  ELSE [ok     |-> was.ok /\ Len(Target(s, i)) = 1,
        tokens |-> was.tokens \o SubSeq(s, was.next, i - 1),
        writes |-> IF RedirectAt(s, i).write THEN Target(s, i) ELSE was.writes,
        reads  |-> IF RedirectAt(s, i).write THEN was.reads ELSE Target(s, i),
        next   |-> TargetEnd(s, i)]

\* Redirections and their targets are taken out of the segment.
Extract(s, bare, was, i) ==
  IF i < was.next \/ i \notin bare \/ RedirectAt(s, i).width = 0 THEN was
  ELSE [ok     |-> was.ok /\ Len(Target(s, i)) = 1,
        tokens |-> was.tokens \o SubSeq(s, was.next, i - 1),
        writes |-> IF RedirectAt(s, i).write THEN was.writes \o Target(s, i) ELSE was.writes,
        reads  |-> IF RedirectAt(s, i).write THEN was.reads ELSE was.reads \o Target(s, i),
        next   |-> TargetEnd(s, i)]

ExtractRedirects(s) ==
  LET n == Len(s)
      bare == Bare(s)
      taken[i \in 0 .. n] ==
        IF i = 0 THEN [ok |-> TRUE, tokens |-> <<>>, writes |-> <<>>, reads |-> <<>>, next |-> 1]
        ELSE Extract(s, bare, taken[i - 1], i)
      end == taken[n]
  IN  [ok |-> end.ok, tokens |-> end.tokens \o SubSeq(s, end.next, n), writes |-> end.writes, reads |-> end.reads]

-----------------------------------------------------------------------------
\* $NAME and ${NAME} become their values; a variable nobody has set ends the parse.
NameEnd(s, i) ==
  CHOOSE j \in i .. Len(s) + 1 :
    At(s, j) \notin Letter \union Digit /\ \A k \in i .. j - 1 : s[k] \in Letter \union Digit
Braces(s, i) == {j \in i .. Len(s) : s[j] = "closebrace"}

Value(name, next) ==
  IF name \in DOMAIN Environment THEN [ok |-> TRUE, text |-> Environment[name], next |-> next]
  ELSE [ok |-> FALSE, text |-> <<>>, next |-> next]
Itself(s, i) == [ok |-> TRUE, text |-> <<s[i]>>, next |-> i + 1]

\* What the character at i stands for, with those that belong to it.
Expansion(s, i) ==
  LET closing == Braces(s, i + 2)
      brace == CHOOSE c \in closing : \A d \in closing : c <= d
      end == NameEnd(s, i + 1)
  IN  CASE s[i] # "$" -> Itself(s, i)
        [] s[i] = "$" /\ At(s, i + 1) = "openbrace" ->
             IF closing = {} \/ At(s, i + 2) = "closebrace" THEN Itself(s, i)
             ELSE Value(SubSeq(s, i + 2, brace - 1), brace + 1)
        [] OTHER -> IF end = i + 1 THEN Itself(s, i) ELSE Value(SubSeq(s, i + 1, end - 1), end)

Replace(s, was, i) ==
  IF i < was.next THEN was
  ELSE [ok |-> was.ok /\ Expansion(s, i).ok, text |-> was.text \o Expansion(s, i).text, next |-> Expansion(s, i).next]

Substitute(s) ==
  LET n == Len(s)
      made[i \in 0 .. n] == IF i = 0 THEN [ok |-> TRUE, text |-> <<>>, next |-> 1] ELSE Replace(s, made[i - 1], i)
  IN  [ok |-> made[n].ok, text |-> made[n].text]

Resolved(texts) == [i \in DOMAIN texts |-> Substitute(texts[i]).text]
Resolves(texts) == \A i \in DOMAIN texts : Substitute(texts[i]).ok

-----------------------------------------------------------------------------
\* parse_with_env: the first segment that cannot be taken apart decides.
Outcome(kind, commands) == [kind |-> kind, commands |-> commands]

\* The words as they are now, after substitution.
Command(operator, argvNow, writes, reads) ==
  <<[argv |-> Stripped(argvNow), env |-> SubSeq(argvNow, 1, Prefix(argvNow)),
     writes |-> writes, reads |-> reads, operator |-> operator]>>

Resolve(operator, argv, writes, reads) ==
  IF Resolves(argv \o writes \o reads)
  THEN Outcome("commands", Command(operator, Resolved(argv), Resolved(writes), Resolved(reads)))
  ELSE Outcome("needsHuman", <<>>)

Reading(operator, argv, redirects) ==
  IF ~redirects.ok \/ Unbalanced(redirects.tokens) \/ argv = <<>> THEN Outcome("opaque", <<>>)
  ELSE Resolve(operator, argv, redirects.writes, redirects.reads)

ParseSegment(segment) ==
  LET Of(redirects) == Reading(segment.operator, Words(redirects.tokens), redirects)
  IN  Of(ExtractRedirects(segment.text))

Joined(outcome, next) ==
  IF outcome.kind # "commands" THEN outcome
  ELSE Outcome(next.kind, IF next.kind = "commands" THEN outcome.commands \o next.commands ELSE <<>>)

Parse(s) ==
  LET segments == SplitTopLevel(s)
      read[k \in 0 .. Len(segments)] ==
        IF k = 0 THEN Outcome("commands", <<>>) ELSE Joined(read[k - 1], ParseSegment(segments[k]))
  IN  IF \/ ExplicitOpacity(s) \/ Unbalanced(s)
         \/ \E k \in DOMAIN segments : Blank(segments[k].text) \/ IsOpaqueCommand(segments[k].text)
      THEN Outcome("opaque", <<>>) ELSE read[Len(segments)]

-----------------------------------------------------------------------------
Plain(s, signs) == {i \in Bare(s) : s[i] \in signs}

\* Cutting a line at a semicolon outside quotes and reading the two halves gives what
\* reading the whole line gives: nothing on one side of it changes what the other
\* side is read as, and a half that cannot be read is not covered up by the other.
Ended(commands) ==
  [k \in DOMAIN commands |->
     IF k < Len(commands) THEN commands[k]
     ELSE [argv |-> commands[k].argv, env |-> commands[k].env, writes |-> commands[k].writes,
           reads |-> commands[k].reads, operator |-> "sequence"]]
Composed(left, right, whole) ==
  IF left.kind = "commands" /\ right.kind = "commands"
  THEN whole = Outcome("commands", Ended(left.commands) \o right.commands)
  ELSE whole.kind # "commands"
SequencesCompose ==
  \A i \in Plain(text, {"semicolon"}) :
    Composed(Parse(SubSeq(text, 1, i - 1)), Parse(SubSeq(text, i + 1, Len(text))), Parse(text))

\* Whatever is quoted whole, or escaped character by character, is one argument and
\* nothing else, however it is made up: no operator, no redirection and no blank in
\* it takes part in the reading.  (A dollar sign does; so do the four constructs
\* that are opaque wherever they stand.)
QuotedStaysTogether ==
  LET line(argument) == <<"a", "blank">> \o argument
      escaped == [i \in 1 .. 2 * Len(text) |-> IF i % 2 = 1 THEN "\\" ELSE text[i \div 2]]
      read == Outcome("commands",
                <<[argv |-> <<<<"a">>, text>>, env |-> <<>>, writes |-> <<>>, reads |-> <<>>,
                   operator |-> "none"]>>)
  IN  "$" \notin ToSet(text) /\ ~ExplicitOpacity(text) =>
        /\ "'" \notin ToSet(text) => Parse(line(<<"'">> \o text \o <<"'">>)) = read
        /\ text # <<>> => Parse(line(escaped)) = read

Signs(s) == Plain(s, {">", "<"})
Separators(s) == Plain(s, {"blank", "semicolon", "&", "|"})

\* A word ends between the two places.
Divided(s, j, i) == \E k \in (j + 2 .. i - 1) \intersect Separators(s) : s[k - 1] # "blank"

\* The sign at i is the first of two, and no 2 or & stands before them.
Appends(s, i) == s[i] = ">" /\ At(s, i + 1) = ">" /\ i - 1 \notin Plain(s, {"2", "&"})

\* What stands from a to b is a word without a sign, the first one from i on.
IsWord(s, i, a, b) ==
  /\ i <= a /\ a <= b /\ s[a] # "blank" /\ \A k \in i .. a - 1 : s[k] = "blank"
  /\ (a .. b) \intersect (Separators(s) \union Signs(s)) = {}
  /\ b = Len(s) \/ b + 1 \in Separators(s)

\* A redirection of its own: a word ends between any sign before it and it, and what
\* stands behind it, from a to b, is the word it names.
Redirects(s, i, a, b) ==
  /\ \A j \in Signs(s) : j < i => Divided(s, j, i)
  /\ IsWord(s, IF Appends(s, i) THEN i + 2 ELSE i + 1, a, b)

Effects(command, sign) == IF sign = ">" THEN command.writes ELSE command.reads
HasEffects(s, command) ==
  \A i \in Signs(s) : \A a, b \in DOMAIN s :
    Redirects(s, i, a, b) =>
      Substitute(Words(SubSeq(s, a, b))[1]).text \in ToSet(Effects(command, s[i]))

\* Every redirection outside quotes that has a word of its own is an effect of its
\* command: what it names is among the files written if its sign is > or >>, and
\* among the files read if it is <, however many others stand before it.  A line with
\* a sign outside quotes has some effect, and the sign is left in no argument, unless
\* something in the line is quoted, escaped or a variable.  (Signs that touch, as in
\* a>b>c, and 2>> and &>> are exempt from the first: the code makes one redirection of
\* them, of a file that no shell would write.)
Redirected(commands) ==
  /\ \A c \in DOMAIN commands : HasEffects(SplitTopLevel(text)[c].text, commands[c])
  /\ Signs(text) # {} => \E c \in DOMAIN commands : commands[c].writes \o commands[c].reads # <<>>
  /\ ToSet(text) \intersect {"'", "doublequote", "\\", "$"} = {} =>
       \A c \in DOMAIN commands : \A w \in DOMAIN commands[c].argv :
         ToSet(commands[c].argv[w]) \intersect {">", "<"} = {}
RedirectionIsAnEffect ==
  LET Rightly(read) == read.kind = "commands" => Redirected(read.commands)
  IN  Rightly(Parse(text))
=============================================================================
