----------------------------- MODULE MCFrontEnd -----------------------------
(* What stands before the daemon, for TLC.  The parts share nothing, so each *)
(* behaviour is about one of them: `part` says which.                        *)
EXTENDS Parser, Classifier, PatchPaths, Grants, Setup, TLC

VARIABLE part

CONSTANTS i1, i2

-----------------------------------------------------------------------------
MCLetter == {"a"}
MCDigit == {"2"}
MCEnvironment == <<"a">> :> <<"a", "blank", ">">>
MCOpaqueWord == {<<"a", "2">>}
MCCharacter == {"a", "2", "=", "$", "semicolon", "&", "|", ">", "<", "'", "\\", "blank", "doublequote"}

\* Bound: from the last but one length on a line begins with a name; one of the full
\* length has nothing but names, blanks and redirections before its last character.
LongLines ==
  /\ Len(text) >= MaxText - 2 => text[1] = "a"
  /\ Len(text) = MaxText - 1 => ToSet(text) \subseteq {"a", "blank", ">", "<"}

\* Some words of commands: programs, subcommands, paths and flags.
Relative(parts) == [dashes |-> 0, absolute |-> FALSE, parts |-> parts]
MCWord ==
  {Named(name) : name \in {"mv", "git", "push", "cargo", "add", "a"}}
  \union {Relative(parts) : parts \in {<<"bin", "rm">>, <<"a", ".", "..", "b">>, <<"..", "..", "a">>,
                                   <<"..", "..", "ws">>, <<"..">>}}
  \union {[Relative(<<"ws", "a">>) EXCEPT !.absolute = TRUE], [Relative(<<"v", "R", "f">>) EXCEPT !.dashes = 1]}
  \union {Short("r"), Short("f"), Long("force")}
MCRoot == [absolute |-> TRUE, parts |-> <<"ws">>]
MCCwd == [absolute |-> TRUE, parts |-> <<"ws", "src">>]

\* Lines of each question, with one at least that does not do.
AGrant(parts, trail) == [lead |-> FALSE, parts |-> parts, trail |-> trail]
Usual == {AGrant(<<"src">>, FALSE), AGrant(<<"src", "a.rs">>, FALSE), AGrant(<<"b", "a.rs">>, TRUE), AGrant(<<"target">>, FALSE)}
Typed == Usual \union
  {AGrant(<<"src", "..">>, FALSE), AGrant(<<".">>, FALSE), AGrant(<<"src", "*">>, FALSE), AGrant(<<"**", "a.rs">>, FALSE),
   [AGrant(<<"src">>, FALSE) EXCEPT !.lead = TRUE]}
List(items) == [kind |-> "list", items |-> items]
Said(kind) == [kind |-> kind, items |-> <<>>]
YesNo == {Said(kind) : kind \in {"blank", "yes", "no", "else"}}
MCLine ==
  [task       |-> {Said("blank"), Said("else")},
   paths      |-> {Said("blank")} \union {List(<<g>>) : g \in Typed} \union {List(<<g, h>>) : g, h \in Usual},
   operations |-> {Said("blank"), Said("none"), List(<<0>>), List(<<8, 1>>), List(<<1, 7>>), List(<<3, 3, 6>>), List(<<4>>)},
   deps       |-> YesNo,
   git        |-> {Said("blank"), Said("none"), List(<<11>>), List(<<10, 6>>), List(<<7, 8, 9>>)},
   network    |-> YesNo,
   save       |-> YesNo]
MCComponent == {"src", "a.rs", "b", "target", "__pycache__", "*", "**", ".", ".."}
MCFileName == {"a.rs"}
MCAsked == LET Name == {"src", "a.rs", "b", "target", "__pycache__"} IN UNION {[1 .. n -> Name] : n \in 1 .. 3}

\* Hooks and features of the user's alone, with tractus, and in text that does not parse.
CONSTANTS item, tractus
MCContent ==
  [hooks  |-> {Absent, Garbled({item}), Says(FALSE, <<{item}>>), Says(FALSE, <<{item, tractus}>>),
               Says(FALSE, <<{item}, {tractus}>>)},
   config |-> {Absent, Garbled({item}), Says(FALSE, <<{item}>>), Says(FALSE, <<{tractus}>>),
               Says(TRUE, <<{item, tractus}>>)}]

Symmetry == Permutations(Run)

-----------------------------------------------------------------------------
Vars == <<part, text, argv, patchVars, grantsVars, setupVars>>

Init ==
  /\ part \in {"line", "command", "patch", "contract", "setup"}
  /\ text = <<>> /\ argv = <<>> /\ Unread /\ GrantsInit /\ SetupInit

Next ==
  /\ UNCHANGED part
  /\ \/ /\ part = "line" /\ LongLines /\ \E ch \in Character : Type(ch)
        /\ UNCHANGED <<argv, patchVars, grantsVars, setupVars>>
     \/ /\ part = "command" /\ \E word \in Word : Write(word)
        /\ UNCHANGED <<text, patchVars, grantsVars, setupVars>>
     \/ part = "patch" /\ ReadLine /\ UNCHANGED <<text, argv, grantsVars, setupVars>>
     \/ part = "contract" /\ RunNew /\ UNCHANGED <<text, argv, patchVars, setupVars>>
     \/ part = "setup" /\ SetupNext /\ UNCHANGED <<text, argv, patchVars, grantsVars>>

Spec == Init /\ [][Next]_Vars
=============================================================================
