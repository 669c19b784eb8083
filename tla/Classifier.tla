----------------------------- MODULE Classifier -----------------------------
(***************************************************************************)
(* tractus-core/classify.rs with corpus.ron: what a simple command is      *)
(* declared to do, and parse.rs's reading of the paths it names.           *)
(*                                                                         *)
(* A word is the dashes it starts with and its parts: the letters of a     *)
(* bundle of short flags, the name of a long one, or the components of a   *)
(* path.  Summaries are left out.                                          *)
(***************************************************************************)
EXTENDS Integers, Sequences, FiniteSets, SequencesExt

CONSTANTS
  Word,       \* the words a command is made from
  MaxWords,   \* bound: words of a command
  Root, Cwd   \* the workspace, which is not the whole disk, and a directory in it

Path == [absolute : BOOLEAN, parts : Seq(STRING)]

ASSUME WordAssumption ==
  \A word \in Word : word.dashes \in Nat /\ word.absolute \in BOOLEAN /\ word.parts \in Seq(STRING)
ASSUME DirectoryAssumption ==
  /\ Root \in Path /\ Root.absolute /\ Root.parts # <<>>
  /\ Cwd \in Path /\ Cwd.absolute /\ IsPrefix(Root.parts, Cwd.parts)

VARIABLE argv   \* a simple command's words, as far as they are written

Write(word) == Len(argv) < MaxWords /\ argv' = Append(argv, word)
CommandSpec == argv = <<>> /\ [][\E word \in Word : Write(word)]_argv

Flag(word) == word.dashes > 0
Named(name) == [dashes |-> 0, absolute |-> FALSE, parts |-> <<name>>]
Short(letter) == [dashes |-> 1, absolute |-> FALSE, parts |-> <<letter>>]
Long(name) == [dashes |-> 2, absolute |-> FALSE, parts |-> <<name>>]

-----------------------------------------------------------------------------
Led(path, parts) == [absolute |-> path.absolute, parts |-> parts]

\* Mutant: a component that leads up takes nothing off.
EnterBelow(path, part) == IF part \in {".", ".."} THEN path ELSE Led(path, Append(path.parts, part))

\* lexical_normalize, one component at a time.
Enter(path, part) ==
  IF part = "." \/ (part = ".." /\ path.parts = <<>> /\ path.absolute) THEN path
  ELSE Led(path, IF part = ".." /\ path.parts # <<>> THEN Front(path.parts) ELSE Append(path.parts, part))

NormalizePath(cwd, word) ==
  LET n == Len(word.parts)
      reached[k \in 0 .. n] ==
        IF k > 0 THEN Enter(reached[k - 1], word.parts[k])
        ELSE IF word.absolute THEN [absolute |-> TRUE, parts |-> <<>>] ELSE cwd
  IN  reached[n]

Escapes(root, path) == ~(path.absolute = root.absolute /\ IsPrefix(root.parts, path.parts))

-----------------------------------------------------------------------------
\* What a family declares: its operation, the files it always writes, its manifest,
\* its git operation, whether it uses the network; and what becomes of the paths
\* that follow, all but the last and the last.
Plainly(op, files, manifest, git, network) ==
  [op |-> op, files |-> files, manifest |-> manifest, git |-> git, network |-> network,
   front |-> "none", last |-> "none"]
ByGit(op, git) == Plainly(op, <<>>, <<>>, git, FALSE)
OnPaths(op, front, last) ==
  [Plainly(op, <<>>, <<>>, "none", FALSE) EXCEPT !.front = front, !.last = last]

\* corpus.ron, in its order; a family without a subcommand matches any.
Corpus == <<
  [argv0 |-> "cargo", sub |-> "build",  effects |-> Plainly("build", <<"target">>, <<>>, "none", FALSE)],
  [argv0 |-> "cargo", sub |-> "test",   effects |-> Plainly("test", <<"target">>, <<>>, "none", FALSE)],
  [argv0 |-> "cargo", sub |-> "run",    effects |-> Plainly("run", <<"target">>, <<>>, "none", FALSE)],
  [argv0 |-> "cargo", sub |-> "add",    effects |-> Plainly("edit", <<"Cargo.toml", "Cargo.lock">>, <<"Cargo.toml">>, "none", TRUE)],
  [argv0 |-> "cargo", sub |-> "remove", effects |-> Plainly("edit", <<"Cargo.toml", "Cargo.lock">>, <<"Cargo.toml">>, "none", FALSE)],
  [argv0 |-> "git", sub |-> "status",   effects |-> ByGit("read", "status")],
  [argv0 |-> "git", sub |-> "diff",     effects |-> ByGit("read", "diff")],
  [argv0 |-> "git", sub |-> "log",      effects |-> ByGit("read", "log")],
  [argv0 |-> "git", sub |-> "add",      effects |-> ByGit("run", "add")],
  [argv0 |-> "git", sub |-> "commit",   effects |-> ByGit("run", "commit")],
  [argv0 |-> "git", sub |-> "checkout", effects |-> ByGit("run", "checkout")],
  [argv0 |-> "git", sub |-> "push",     effects |-> Plainly("run", <<>>, <<>>, "push", TRUE)],
  [argv0 |-> "rm", sub |-> "any",       effects |-> OnPaths("delete", "deletes", "deletes")],
  [argv0 |-> "mv", sub |-> "any",       effects |-> OnPaths("edit", "deletes", "writes")],
  [argv0 |-> "cp", sub |-> "any",       effects |-> OnPaths("edit", "reads", "writes")],
  [argv0 |-> "npm", sub |-> "install",  effects |-> Plainly("edit", <<"package.json", "package-lock.json">>, <<"package.json">>, "none", TRUE)],
  [argv0 |-> "pip", sub |-> "install",  effects |-> Plainly("edit", <<>>, <<"requirements.txt">>, "none", TRUE)],
  [argv0 |-> "curl", sub |-> "any",     effects |-> Plainly("run", <<>>, <<>>, "none", TRUE)]>>

\* The flags that make a family's effects graver: the field and what it becomes.
Escalations(entry) ==
  CASE entry.argv0 = "rm" ->
         {[flag |-> Short(letter), field |-> "recursive", to |-> TRUE] : letter \in {"r", "R"}}
           \union {[flag |-> Short("f"), field |-> "forced", to |-> TRUE]}
    [] entry.argv0 = "git" /\ entry.sub = "push" ->
         {[flag |-> flag, field |-> "git", to |-> "forcePush"] : flag \in {Short("f"), Long("force")}}
    [] OTHER -> {}

Matches(entry, words) ==
  /\ words[1].parts # <<>> /\ entry.argv0 = Last(words[1].parts)
  /\ entry.sub = "any" \/ (Len(words) > 1 /\ words[2] = Named(entry.sub))

Matching(words) == {e \in DOMAIN Corpus : Matches(Corpus[e], words)}
Found(words) == Corpus[CHOOSE e \in Matching(words) : \A f \in Matching(words) : e <= f]

Leading(entry) == IF entry.sub = "any" THEN 1 ELSE 2

PositionalArgs(entry, words) ==
  LET taken[k \in Leading(entry) .. Len(words)] ==
        IF k = Leading(entry) THEN <<>>
        ELSE IF Flag(words[k]) THEN taken[k - 1] ELSE Append(taken[k - 1], words[k])
  IN  taken[Len(words)]

\* Mutant: a bundle of short flags is looked up as a whole only.
MeantWhole(word, escalations) == {word}
\* A flag stands for itself; if nothing is escalated by it, for its letters.
Meant(word, escalations) ==
  IF \E e \in escalations : e.flag = word THEN {word}
  ELSE IF word.dashes = 1 THEN {Short(word.parts[k]) : k \in DOMAIN word.parts} ELSE {}

Raised(entry, words) ==
  {e \in Escalations(entry) : \E i \in 2 .. Len(words) : e.flag \in Meant(words[i], Escalations(entry))}

Escalated(raised, effects) ==
  [field \in DOMAIN effects |->
     IF \E e \in raised : e.field = field
     THEN (CHOOSE e \in raised : e.field = field).to ELSE effects[field]]

\* The paths an effect of this kind is declared for, in the order they are written.
PathsOf(kind, declared, positional) ==
  LET last == Len(positional) IN
  (IF kind = "writes" THEN [i \in DOMAIN declared.files |-> Named(declared.files[i])] ELSE <<>>)
  \o (IF declared.front = kind /\ last > 0 THEN Front(positional) ELSE <<>>)
  \o (IF declared.last = kind /\ last > 0 THEN <<positional[last]>> ELSE <<>>)

Declared(declared, positional, cwd) ==
  LET At(kind) == LET named == PathsOf(kind, declared, positional)
                  IN  [i \in DOMAIN named |-> NormalizePath(cwd, named[i])]
  IN  [known |-> TRUE, op |-> declared.op, git |-> declared.git, network |-> declared.network,
       manifest |-> [i \in DOMAIN declared.manifest |-> NormalizePath(cwd, Named(declared.manifest[i]))],
       recursive |-> FALSE, forced |-> FALSE,
       reads |-> At("reads"), writes |-> At("writes"), deletes |-> At("deletes")]

Unclassified == [known |-> FALSE]

Classify(words, cwd) ==
  IF words = <<>> \/ Matching(words) = {} THEN Unclassified
  ELSE LET entry == Found(words)
       IN  Escalated(Raised(entry, words), Declared(entry.effects, PositionalArgs(entry, words), cwd))

-----------------------------------------------------------------------------
\* The letters of a bundle, each a flag of its own.
Apart(word) == [k \in DOMAIN word.parts |-> Short(word.parts[k])]

\* Where a flag stands, and whether it stands alone or in a bundle, changes nothing of
\* what a command is declared to do; a flag more never hides a path and never makes
\* the declaration milder.
FlagsAnywhere ==
  LET effects == Classify(argv, Cwd)
      Paths(e) == <<e.reads, e.writes, e.deletes, e.manifest>>
  IN  effects.known =>
        \A i \in Leading(Found(argv)) + 1 .. Len(argv) : Flag(argv[i]) =>
          LET before == SubSeq(argv, 1, i - 1)
              after == SubSeq(argv, i + 1, Len(argv))
              without == Classify(before \o after, Cwd)
          IN  /\ Classify(before \o after \o <<argv[i]>>, Cwd) = effects
              /\ argv[i].dashes = 1 => Classify(before \o Apart(argv[i]) \o after, Cwd) = effects
              /\ without.known /\ Paths(without) = Paths(effects)
              /\ without.recursive => effects.recursive
              /\ without.forced => effects.forced
              /\ effects.git \in {without.git, "forcePush"}

\* How far below the workspace's root the first k components lead, negative above it.
Depth(parts, k) ==
  Len(Cwd.parts) - Len(Root.parts) + Cardinality({j \in 1 .. k : parts[j] \notin {".", ".."}})
    - Cardinality({j \in 1 .. k : parts[j] = ".."})

\* A path leaves the workspace if and only if it leads there: one that never climbs
\* above the workspace's root stays in it, and one that does is outside it unless it
\* names the root again on its way.
EscapesByClimbing ==
  \A i \in DOMAIN argv : ~Flag(argv[i]) /\ ~argv[i].absolute =>
    LET parts == argv[i].parts
        outside == Escapes(Root, NormalizePath(Cwd, argv[i]))
    IN  /\ (\A k \in DOMAIN parts : Depth(parts, k) >= 0) => ~outside
        /\ (\E k \in DOMAIN parts : Depth(parts, k) < 0) /\ ToSet(parts) \intersect ToSet(Root.parts) = {} => outside
=============================================================================
