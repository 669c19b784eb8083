------------------------------- MODULE Setup --------------------------------
(***************************************************************************)
(* tractus/init.rs: `tractus init` puts the hook into ~/.codex/hooks.json  *)
(* and turns the feature on in ~/.codex/config.toml.  Each file is read,   *)
(* copied to a backup named after the second, truncated and filled; runs   *)
(* may overlap and be killed anywhere, and the user edits both files.      *)
(*                                                                         *)
(* What a file says is a sequence of groups: the PreToolUse entries of     *)
(* hooks.json with their hooks, or the one table of features of            *)
(* config.toml with its flags, written as a table or inline.  Ours stands  *)
(* for the Tractus hook and for the flag.  Other keys are left out, so are *)
(* directories, permissions and the report on the binaries.                *)
(***************************************************************************)
EXTENDS Naturals, Sequences, FiniteSets, SequencesExt

CONSTANTS
  Run,       \* runs of tractus init
  Content,   \* what the user may have in each of the two files
  Ours,      \* the Tractus hook, the hooks flag
  MaxClock,  \* bound: seconds
  MaxEdits,  \* bound: files the user saves
  MaxKills   \* bound: runs that are killed

VARIABLES
  disk,      \* the two files
  backup,    \* backups: file and second to what was copied
  run,       \* each run: its step and what it will write
  clock,     \* the second
  wanted,    \* what the user has written into each file and not taken out since
  collided,  \* a backup has replaced another of the same second
  edits, kills

setupVars == <<disk, backup, run, clock, wanted, collided, edits, kills>>

SetupFile == {"hooks", "config"}

\* A file that is not there, one of no bytes, one that does not parse, one that does.
Absent == [state |-> "absent", inline |-> FALSE, groups |-> <<>>]
Empty == [state |-> "empty", inline |-> FALSE, groups |-> <<>>]
Garbled(items) == [state |-> "garbled", inline |-> FALSE, groups |-> <<items>>]
Says(inline, groups) == [state |-> "good", inline |-> inline, groups |-> groups]
Items(content) == UNION ToSet(content.groups)

\* What can be in a file, and the PreToolUse entries that have our hook.
Entry == {Ours} \union UNION {Items(content) : content \in Content["hooks"] \union Content["config"]}
FileContent ==
  [state : {"absent", "empty", "garbled", "good"}, inline : BOOLEAN, groups : Seq(SUBSET Entry)]
OurEntries(content) == {g \in DOMAIN content.groups : Ours \in content.groups[g]}

\* The user has our hook once at most; ensure_tractus_hook leaves a second where it is.
ASSUME ContentAssumption ==
  /\ Content \in [SetupFile -> SUBSET FileContent]
  /\ \A content \in Content["hooks"] : Cardinality(OurEntries(content)) <= 1

Off == [step |-> "off", plan |-> Absent]

SetupInit ==
  /\ disk = [file \in SetupFile |-> Absent] /\ backup = <<>> /\ clock = 0
  /\ run = [r \in Run |-> Off] /\ wanted = [file \in SetupFile |-> {}]
  /\ collided = FALSE /\ edits = 0 /\ kills = 0

-----------------------------------------------------------------------------
\* Mutant: our entry is added though one is there.
HooksAdded(content) == Says(FALSE, Append(IF content.state = "good" THEN content.groups ELSE <<>>, {Ours}))
\* ensure_tractus_hook: the first entry with our hook is replaced, else ours is added.
EnsureTractusHook(content) ==
  LET groups == IF content.state = "good" THEN content.groups ELSE <<>>
      ours == {g \in DOMAIN groups : Ours \in groups[g]}
  IN  Says(FALSE, IF ours = {} THEN Append(groups, {Ours})
                  ELSE [groups EXCEPT ![CHOOSE g \in ours : \A h \in ours : g <= h] = {Ours}])

\* set_hooks_flag: an inline table is not one to toml_edit, and is replaced.
SetHooksFlag(content) ==
  Says(FALSE, <<IF content.groups = <<>> \/ content.inline THEN {Ours} ELSE content.groups[1] \union {Ours}>>)
HooksAlreadyEnabled(content) ==
  content.groups # <<>> /\ ~content.inline /\ Ours \in content.groups[1]

Step(r) == run[r].step
Goes(r, step, plan) == run' = [run EXCEPT ![r] = [step |-> step, plan |-> plan]]

Start(r) ==
  /\ Step(r) = "off" /\ Goes(r, "hooks", Absent)
  /\ UNCHANGED <<disk, backup, clock, wanted, collided, edits, kills>>

\* Mutant: text that does not parse is replaced without a backup.
ReadHooksDiscarding(r) ==
  LET plan == EnsureTractusHook(disk["hooks"]) IN
  /\ Step(r) = "hooks"
  /\ CASE plan = disk["hooks"] -> Goes(r, "config", Absent)
       [] plan # disk["hooks"] /\ disk["hooks"].state # "good" -> Goes(r, "truncateHooks", plan)
       [] OTHER -> Goes(r, "backupHooks", plan)
  /\ UNCHANGED <<disk, backup, clock, wanted, collided, edits, kills>>

\* install_hook reads hooks.json; text that does not parse is merged into as nothing.
ReadHooks(r) ==
  LET plan == EnsureTractusHook(disk["hooks"]) IN
  /\ Step(r) = "hooks"
  /\ CASE plan = disk["hooks"] -> Goes(r, "config", Absent)
       [] plan # disk["hooks"] /\ disk["hooks"] = Absent -> Goes(r, "truncateHooks", plan)
       [] OTHER -> Goes(r, "backupHooks", plan)
  /\ UNCHANGED <<disk, backup, clock, wanted, collided, edits, kills>>

\* enable_hook_feature reads config.toml; text that does not parse ends the run.
ReadConfig(r) ==
  LET now == disk["config"] IN
  /\ Step(r) = "config"
  /\ CASE now = Absent -> Goes(r, "truncateConfig", Says(FALSE, <<{Ours}>>))
       [] now.state = "garbled" -> Goes(r, "failed", Absent)
       [] now.state \in {"good", "empty"} /\ HooksAlreadyEnabled(now) -> Goes(r, "done", Absent)
       [] OTHER -> Goes(r, "backupConfig", SetHooksFlag(now))
  /\ UNCHANGED <<disk, backup, clock, wanted, collided, edits, kills>>

\* fs::copy to backup_path: a backup of the same second is overwritten.
Backup(r, file, step, next) ==
  /\ Step(r) = step /\ Goes(r, next, run[r].plan)
  /\ backup' = [b \in DOMAIN backup \union {<<file, clock>>} |->
                  IF b = <<file, clock>> THEN disk[file] ELSE backup[b]]
  /\ collided' = (collided \/ <<file, clock>> \in DOMAIN backup)
  /\ UNCHANGED <<disk, clock, wanted, edits, kills>>

BackupHooks(r)  == Backup(r, "hooks", "backupHooks", "truncateHooks")
BackupConfig(r) == Backup(r, "config", "backupConfig", "truncateConfig")

\* write_file: fs::write empties the file, then fills it.
Truncate(r, file, step, next) ==
  /\ Step(r) = step /\ Goes(r, next, run[r].plan)
  /\ disk' = [disk EXCEPT ![file] = Empty]
  /\ UNCHANGED <<backup, clock, wanted, collided, edits, kills>>

TruncateHooks(r)  == Truncate(r, "hooks", "truncateHooks", "fillHooks")
TruncateConfig(r) == Truncate(r, "config", "truncateConfig", "fillConfig")

Fill(r, file, step, next) ==
  /\ Step(r) = step /\ disk' = [disk EXCEPT ![file] = run[r].plan]
  /\ Goes(r, next, Absent)
  /\ UNCHANGED <<backup, clock, wanted, collided, edits, kills>>

FillHooks(r)  == Fill(r, "hooks", "fillHooks", "config")
FillConfig(r) == Fill(r, "config", "fillConfig", "done")

-----------------------------------------------------------------------------
Over == {"off", "done", "failed"}

Kill(r) ==
  /\ Step(r) \notin Over /\ kills < MaxKills /\ kills' = kills + 1
  /\ Goes(r, "failed", Absent)
  /\ UNCHANGED <<disk, backup, clock, wanted, collided, edits>>

\* The user saves a file of their own, while no run is under way; more may follow.
Edit(file, content) ==
  /\ \A r \in Run : Step(r) \in Over
  /\ edits < MaxEdits /\ edits' = edits + 1
  /\ disk' = [disk EXCEPT ![file] = content]
  /\ wanted' = [wanted EXCEPT ![file] = Items(content) \ {Ours}]
  /\ run' = [r \in Run |-> Off]
  /\ UNCHANGED <<backup, clock, collided, kills>>

Second ==
  /\ clock < MaxClock /\ clock' = clock + 1
  /\ UNCHANGED <<disk, backup, run, wanted, collided, edits, kills>>

SetupNext ==
  \/ \E r \in Run :
       \/ Start(r) \/ ReadHooks(r) \/ BackupHooks(r) \/ TruncateHooks(r) \/ FillHooks(r)
       \/ ReadConfig(r) \/ BackupConfig(r) \/ TruncateConfig(r) \/ FillConfig(r) \/ Kill(r)
  \/ \E file \in SetupFile : \E content \in Content[file] : Edit(file, content)
  \/ Second

SetupSpec == SetupInit /\ [][SetupNext]_setupVars

-----------------------------------------------------------------------------
\* What the user has written is never lost: whichever way runs overlap, and wherever one
\* is killed, it is in the file or in one of the file's backups, unless two of these
\* were taken in one second.
NothingLost ==
  \A file \in SetupFile :
    \/ collided
    \/ wanted[file] \subseteq Items(disk[file])
         \union UNION {Items(backup[b]) : b \in {c \in DOMAIN backup : c[1] = file}}

\* Running init again, even while another run is under way, never adds a second entry;
\* and once every run since the user's last edit is done there is exactly one, and the
\* feature is on.
OneEntry ==
  /\ Cardinality(OurEntries(disk["hooks"])) <= 1
  /\ (\E r \in Run : Step(r) = "done") /\ (\A r \in Run : Step(r) \in {"off", "done"}) =>
       OurEntries(disk["hooks"]) # {} /\ HooksAlreadyEnabled(disk["config"])
=============================================================================
