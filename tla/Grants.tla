------------------------------- MODULE Grants -------------------------------
(***************************************************************************)
(* How a contract is written: the questions of `tractus new` (main.rs),    *)
(* the console's reading of what the model extracted from a request        *)
(* (intent.rs), and what the daemon makes of either (contract.rs).         *)
(*                                                                         *)
(* A grant is typed as path components between a leading and a trailing    *)
(* slash; a component may be a wildcard.  A line typed at a prompt is      *)
(* blank, a yes or a no, none, a list, or anything else.                   *)
(***************************************************************************)
EXTENDS Naturals, Sequences, SequencesExt

CONSTANTS
  Component,  \* what paths are made of, wildcards included
  FileName,   \* components that look_like_file takes for a file
  Line,       \* the lines that may be typed at each question
  Asked       \* paths that an effect may have, for the properties

VARIABLES
  question,   \* where the prompts are; "saved", "cancelled" or "closed" at the end
  answers     \* the lines accepted so far

grantsVars == <<question, answers>>

-----------------------------------------------------------------------------
Grant == [lead : BOOLEAN, parts : Seq(Component), trail : BOOLEAN]
Questions == {"task", "paths", "operations", "deps", "git", "network", "save"}

ASSUME LineAssumption ==
  /\ \A q \in Questions \ {"paths"} : \A line \in Line[q] : line.items \in Seq(Nat)
  /\ \A line \in Line["paths"] : line.items \in Seq(Grant)
  /\ DOMAIN Line = Questions
ASSUME AskedAssumption == \A path \in Asked : path \in Seq(Component) /\ path # <<>>

-----------------------------------------------------------------------------
Wild(component) == component \in {"*", "**"}
Globbed(parts) == \E i \in DOMAIN parts : Wild(parts[i])
Recursive(parts) == Append(parts, "**")
Rejected == <<>>

\* A directory becomes recursive, a file stays as it is.
Granted(grant) ==
  IF grant.trail \/ Last(grant.parts) \notin FileName THEN Recursive(grant.parts) ELSE grant.parts

\* ARTIFACT_PATHS, the same in both programs.
ArtifactPaths == <<<<"target", "**">>, <<"node_modules", "**">>,
                   <<"**", "__pycache__", "**">>, <<".venv", "**">>>>

\* main.rs's normalize_path; what it rejects makes the prompt ask again.
NormalizeGrant(grant) ==
  LET parts == grant.parts IN
  IF grant.lead \/ parts = <<>> \/ ".." \in ToSet(parts) THEN Rejected
  ELSE IF parts = <<".">> THEN <<"**">>
  ELSE IF Globbed(parts) THEN parts ELSE Granted(grant)

\* intent.rs's normalize_path_glob; what it rejects is passed over.
NormalizePathGlob(grant) ==
  LET parts == grant.parts IN
  IF parts = <<>> THEN Rejected
  ELSE IF Len(parts) > 1 /\ Last(parts) = "**" THEN parts
  ELSE IF Globbed(parts) THEN IF Len(parts) > 1 /\ parts[1] = "**" THEN Recursive(parts) ELSE parts
  ELSE Granted(grant)

\* The loop that keeps each glob once, in the order of its first appearance.
Deduplicated(globs) ==
  LET kept[i \in 0 .. Len(globs)] ==
        IF i = 0 THEN <<>>
        ELSE IF globs[i] = Rejected \/ globs[i] \in ToSet(kept[i - 1]) THEN kept[i - 1]
        ELSE Append(kept[i - 1], globs[i])
  IN  kept[Len(globs)]

NormalizePaths(grants) ==
  Deduplicated([i \in DOMAIN grants |-> NormalizeGrant(grants[i])] \o ArtifactPaths)

-----------------------------------------------------------------------------
\* globset, with `*` and `**` as whole components and separators not literal: the places
\* in the path at which the glob's components begin.
MatchesGlob(glob, path) ==
  LET n == Len(glob)
      end == Len(path) + 1
      \* where the i-th component may end if it begins at j
      Ends(i, j) ==
        CASE glob[i] = "**" /\ i < n -> j .. end
          [] glob[i] = "**" /\ i = n -> {end} \ {j}
          [] glob[i] = "*" -> j + 1 .. end
          [] OTHER -> IF j < end /\ path[j] = glob[i] THEN {j + 1} ELSE {}
  IN  \E at \in [1 .. n + 1 -> 1 .. end] :
        /\ at[1] = 1 /\ at[n + 1] = end
        /\ \A i \in 1 .. n : at[i + 1] \in Ends(i, at[i])

\* Mutant: a granted directory is what is below it only.
CompiledBelow(globs) == ToSet(globs)
\* compile: `dir/**` also stands for dir itself.
Compiled(globs) ==
  ToSet(globs) \union {Front(glob) : glob \in {g \in ToSet(globs) : Len(g) > 1 /\ Last(g) = "**"}}
Covers(compiled, path) == \E glob \in compiled : MatchesGlob(glob, path)

-----------------------------------------------------------------------------
\* OpClass and GitOp in the order of the core's enumerations.
OpClass == <<"read", "edit", "create", "delete", "test", "build", "run">>
GitOp == <<"status", "diff", "log", "add", "commit", "checkout", "push", "forcePush", "resetHard", "clean">>
\* Mutant: an operation is moved in one of the two enumerations.
OperationReordered == <<"read", "edit", "delete", "create", "test", "build", "run">>
\* Operation and GitOperation in the order of the console's.
Operation == <<"read", "edit", "create", "delete", "test", "build", "run">>
GitOperation == <<"status", "diff", "log", "add", "commit", "checkout", "push", "forcePush", "resetHard", "clean">>
\* operation_from_choice and git_from_choice: the numbers of the prompts.
OperationFromChoice == <<"read", "edit", "create", "delete", "test", "build", "run">>
GitFromChoice == <<"status", "diff", "log", "add", "commit", "checkout", "push", "forcePush", "resetHard", "clean">>

\* A set of operations is sent as the bits 1 << n of its members: here, their places n + 1.
Bits(names, order) == {i \in DOMAIN order : order[i] \in names}
Holds(bits, order) == {order[i] : i \in bits}

\* Editing, creating or deleting implies testing and building.
ImpliedOperations(names) ==
  names \union (IF names \intersect {"edit", "create", "delete"} = {} THEN {} ELSE {"test", "build"})

-----------------------------------------------------------------------------
\* The choices a line stands for: none if it is to be typed again.
ParseChoices(line, names, default, allowNone) ==
  CASE line.kind = "blank" -> [ok |-> TRUE, chosen |-> {names[i] : i \in default}]
    [] line.kind = "none" /\ allowNone -> [ok |-> TRUE, chosen |-> {}]
    [] line.kind = "list" /\ line.items # <<>> /\ ToSet(line.items) \subseteq DOMAIN names ->
         [ok |-> TRUE, chosen |-> {names[i] : i \in ToSet(line.items)}]
    [] OTHER -> [ok |-> FALSE, chosen |-> {}]

OperationsOf(line) == ParseChoices(line, OperationFromChoice, {1, 2}, FALSE)
GitOf(line) == ParseChoices(line, GitFromChoice, {1, 2}, TRUE)
Yes(line, default) == line.kind = "yes" \/ (line.kind = "blank" /\ default)
YesOrNo(line) == line.kind \in {"blank", "yes", "no"}

Grants(line) == IF line.kind = "list" THEN line.items ELSE <<>>
PathsAccepted(line) ==
  LET grants == Grants(line) IN
  /\ line.kind \in {"blank", "list"}
  /\ \A i \in DOMAIN grants : NormalizeGrant(grants[i]) # Rejected
  /\ Len(NormalizePaths(grants)) > Len(ArtifactPaths)

GrantsInit == question = "task" /\ answers = <<>>

\* prompt_line and the loop around it: a line that does not do is asked for again, and the
\* end of the input ends the command.
Ask(here, next, ok, line) ==
  /\ question = here
  /\ CASE line.kind = "end" -> question' = "closed" /\ UNCHANGED answers
       [] line.kind # "end" /\ ok -> question' = next /\ answers' = [q \in DOMAIN answers \union {here} |-> IF q = here THEN line ELSE answers[q]]
       [] OTHER -> UNCHANGED grantsVars

AskTask(line)       == Ask("task", "paths", line.kind # "blank", line)
AskPaths(line)      == Ask("paths", "operations", PathsAccepted(line), line)
AskOperations(line) == Ask("operations", "deps", OperationsOf(line).ok, line)
AskDeps(line)       == Ask("deps", "git", YesOrNo(line), line)
AskGit(line)        == Ask("git", "network", GitOf(line).ok, line)
AskNetwork(line)    == Ask("network", "save", YesOrNo(line), line)
AskSave(line)       == Ask("save", IF Yes(line, TRUE) THEN "saved" ELSE "cancelled", YesOrNo(line), line)

\* tractus new
RunNew ==
  \E q \in DOMAIN Line : \E line \in Line[q] \union {[kind |-> "end", items |-> <<>>]} :
    /\ q = question
    /\ \/ AskTask(line) \/ AskPaths(line) \/ AskOperations(line) \/ AskDeps(line)
       \/ AskGit(line) \/ AskNetwork(line) \/ AskSave(line)

\* The contract the store is given.
BuildContract ==
  [paths |-> NormalizePaths(Grants(answers["paths"])),
   ops   |-> Bits(ImpliedOperations(OperationsOf(answers["operations"]).chosen), OpClass),
   deps  |-> Yes(answers["deps"], FALSE),
   git   |-> Bits(GitOf(answers["git"]).chosen, GitOp),
   network |-> Yes(answers["network"], FALSE)]

\* normalize_contract and daemon_wire: what the console sends for the same wishes.
NormalizeContract(wish) ==
  LET raw == wish.paths \o
        [a \in DOMAIN ArtifactPaths |-> [lead |-> FALSE, parts |-> ArtifactPaths[a], trail |-> FALSE]]
  IN  [paths |-> Deduplicated([i \in DOMAIN raw |-> NormalizePathGlob(raw[i])]),
       ops |-> ImpliedOperations(wish.ops), deps |-> wish.deps, git |-> wish.git, network |-> wish.network]
DaemonWire(spec) ==
  [paths |-> spec.paths, ops |-> Bits(spec.ops, Operation), deps |-> spec.deps,
   git |-> Bits(spec.git, GitOperation), network |-> spec.network]

GrantsSpec == GrantsInit /\ [][RunNew]_grantsVars

-----------------------------------------------------------------------------
Saved == question = "saved"
Ordinary(grant) ==
  /\ ~grant.lead /\ grant.parts # <<>>
  /\ ~Globbed(grant.parts) /\ ToSet(grant.parts) \intersect {".", ".."} = {}

\* The contract that is saved grants the operations that were chosen, with those they
\* imply, and no other; and the console, asked for the same, has the daemon enforce the
\* same, bit for bit and path for path.
SameContract ==
  Saved =>
    LET contract == BuildContract
        grants == Grants(answers["paths"])
        chosen == OperationsOf(answers["operations"]).chosen
        wish == [paths |-> grants, ops |-> chosen, deps |-> contract.deps,
                 git |-> GitOf(answers["git"]).chosen, network |-> contract.network]
        sent == DaemonWire(NormalizeContract(wish))
    IN  /\ Holds(contract.ops, OpClass) = chosen \union
             (IF \E op \in {"edit", "create", "delete"} : op \in chosen THEN {"test", "build"} ELSE {})
        /\ Holds(contract.git, GitOp) = wish.git
        /\ (\A i \in DOMAIN grants : Ordinary(grants[i])) => sent = contract

\* A directory that is granted covers itself and everything below it, a file itself, and
\* neither anything else, whatever else is granted: a path is in scope exactly when
\* something that was typed names it, or it is a build artifact.
Names(grant, path) ==
  IF grant.trail \/ Last(grant.parts) \notin FileName THEN IsPrefix(grant.parts, path)
  ELSE path = grant.parts
Artifact(path) == path[1] \in {"target", "node_modules", ".venv"} \/ "__pycache__" \in ToSet(path)
GrantMeans ==
  LET grants == Grants(answers["paths"])
      compiled == Compiled(BuildContract.paths) IN
  Saved /\ (\A i \in DOMAIN grants : Ordinary(grants[i])) =>
    \A path \in Asked :
      Covers(compiled, path) <=>
        Artifact(path) \/ \E i \in DOMAIN grants : Names(grants[i], path)
=============================================================================
