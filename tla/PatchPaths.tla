----------------------------- MODULE PatchPaths -----------------------------
(***************************************************************************)
(* tractus-hook's touched_paths: which files an edit proposed by Codex     *)
(* touches, read off the text of its patch line by line, and off the list  *)
(* of changes of older adapters.                                           *)
(*                                                                         *)
(* A patch's line is a directive and a path; lines of hunks are "other".   *)
(* Paths are not empty.  The four fields a patch may come in are one.      *)
(***************************************************************************)
EXTENDS Naturals, Sequences, SequencesExt

CONSTANTS
  File,      \* names of files
  MaxLines,  \* bound: lines of a patch and entries of a list
  Nothing    \* no update is waiting

ASSUME NothingAssumption == Nothing \notin File

VARIABLES
  lines,     \* what the hook has been given so far, in order
  pending,   \* pending_update: the file whose update may turn out to be a move
  writes, deletes   \* TouchedPaths

patchVars == <<lines, pending, writes, deletes>>

Directive == {"update", "add", "delete", "move", "other"}
Kind == {"written", "gone"}

Unread == lines = <<>> /\ pending = Nothing /\ writes = <<>> /\ deletes = <<>>

\* append_path: once, in the order of its first appearance.
Appended(paths, path) == IF path \in ToSet(paths) THEN paths ELSE Append(paths, path)

\* flush_pending_update: an update that is not a move writes its file.
Flushed == IF pending = Nothing THEN writes ELSE Appended(writes, pending)

Given(entry) == Len(lines) < MaxLines /\ lines' = Append(lines, entry)
InPatch == \A i \in DOMAIN lines : lines[i].what \in Directive

UpdateLine(file) ==
  /\ InPatch /\ Given([what |-> "update", path |-> file])
  /\ writes' = Flushed /\ pending' = file
  /\ UNCHANGED deletes

AddLine(file) ==
  /\ InPatch /\ Given([what |-> "add", path |-> file])
  /\ writes' = Appended(Flushed, file) /\ pending' = Nothing
  /\ UNCHANGED deletes

\* Mutant: the update before a deletion is dropped.
DeleteLineForgetting(file) ==
  /\ InPatch /\ Given([what |-> "delete", path |-> file])
  /\ deletes' = Appended(deletes, file) /\ pending' = Nothing
  /\ UNCHANGED writes

DeleteLine(file) ==
  /\ InPatch /\ Given([what |-> "delete", path |-> file])
  /\ writes' = Flushed /\ deletes' = Appended(deletes, file) /\ pending' = Nothing

MoveLine(file) ==
  /\ InPatch /\ Given([what |-> "move", path |-> file])
  /\ deletes' = IF pending = Nothing THEN deletes ELSE Appended(deletes, pending)
  /\ writes' = Appended(writes, file) /\ pending' = Nothing

OtherLine(file) ==
  /\ InPatch /\ Given([what |-> "other", path |-> file])
  /\ UNCHANGED <<pending, writes, deletes>>

\* An entry of "changes" or "files"; the patch, read before it, is flushed at its end.
ChangesEntry(kind, file) ==
  /\ Given([what |-> kind, path |-> file])
  /\ writes' = IF kind = "written" THEN Appended(Flushed, file) ELSE Flushed
  /\ deletes' = IF kind = "gone" THEN Appended(deletes, file) ELSE deletes
  /\ pending' = Nothing

ReadLine ==
  \E file \in File :
    \/ UpdateLine(file) \/ AddLine(file) \/ DeleteLine(file) \/ MoveLine(file) \/ OtherLine(file)
    \/ \E kind \in Kind : ChangesEntry(kind, file)

\* What the hook proposes to the daemon once it has read everything.
Touched == [writes |-> ToSet(Flushed), deletes |-> ToSet(deletes), denied |-> Flushed \o deletes = <<>>]

PatchSpec == Unread /\ [][ReadLine]_patchVars

-----------------------------------------------------------------------------
\* The lines that a patch changes files by; hunks in between do not part an update from
\* the move that follows it.
Headers == {i \in DOMAIN lines : lines[i].what # "other"}
IsMoved(i) ==
  /\ lines[i].what = "update"
  /\ \E j \in Headers : lines[j].what = "move" /\ i < j /\ \A k \in Headers : k <= i \/ j <= k

HeadersOf(whats) == {i \in Headers : lines[i].what \in whats}
Moved == {i \in Headers : IsMoved(i)}
PathsAt(is) == {lines[i].path : i \in is}

\* The daemon is asked about exactly the files the edit changes: each file it adds,
\* updates in place or moves something to is written, each it deletes or moves away
\* is deleted, in whatever order they come; and the edit is denied unasked exactly
\* when it names no file at all.
EveryTouchedPathReported ==
  Touched =
    [writes  |-> PathsAt(HeadersOf({"update", "add", "move", "written"}) \ Moved),
     deletes |-> PathsAt(HeadersOf({"delete", "gone"}) \union Moved),
     denied  |-> Headers = {}]
=============================================================================
