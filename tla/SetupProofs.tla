---------------------------- MODULE SetupProofs -----------------------------
(***************************************************************************)
(* What tractus init does to the user's files, for any number of runs, any *)
(* contents and any clock: nothing of the user's is lost, and the hook is  *)
(* there once.                                                             *)
(***************************************************************************)
EXTENDS Setup, FiniteSetTheorems, WellFoundedInduction, TLAPS

-----------------------------------------------------------------------------
(* What is written *)

Plans == {c \in FileContent : c.state = "good"}
States == {"absent", "empty", "garbled", "good"}
Steps == {"off", "hooks", "backupHooks", "truncateHooks", "fillHooks", "config",
          "backupConfig", "truncateConfig", "fillConfig", "done", "failed"}

LEMMA NoContent ==
  /\ Absent \in FileContent /\ Empty \in FileContent
  /\ Absent.state = "absent" /\ Empty.state = "empty"
  /\ Absent.groups = <<>> /\ Empty.groups = <<>>
  /\ Items(Absent) = {} /\ Items(Empty) = {}
<1>1. /\ Absent \in FileContent /\ Absent.state = "absent" /\ Absent.groups = <<>>
  BY DEF Absent, FileContent
<1>2. /\ Empty \in FileContent /\ Empty.state = "empty" /\ Empty.groups = <<>>
  BY DEF Empty, FileContent
<1>3. ToSet(<<>>) = {}
  BY DEF ToSet
<1> QED BY <1>1, <1>2, <1>3 DEF Items

LEMMA SaysParts ==
  ASSUME NEW inline \in BOOLEAN, NEW groups \in Seq(SUBSET Entry)
  PROVE  /\ Says(inline, groups) \in Plans
         /\ Says(inline, groups).groups = groups /\ Says(inline, groups).inline = inline
BY DEF Says, Plans, FileContent

\* The entries that ensure_tractus_hook starts from.
Merged(content) == IF content.state = "good" THEN content.groups ELSE <<>>
Place(content) == {g \in DOMAIN Merged(content) : Ours \in Merged(content)[g]}

LEMMA MergedType ==
  ASSUME NEW content \in FileContent
  PROVE  /\ Merged(content) \in Seq(SUBSET Entry)
         /\ Place(content) = {} \/ Place(content) = OurEntries(content)
BY DEF Merged, FileContent, Place, OurEntries

LEMMA FirstPlace ==
  ASSUME NEW S, S \subseteq Nat, S # {}
  PROVE  \E g \in S : \A h \in S : g <= h
<1> DEFINE R == OpToRel(<, Nat)
<1>1. \A j, k \in Nat : j < k => <<j, k>> \in R
  BY DEF OpToRel
<1>2. IsWellFoundedOn(R, Nat)
  BY NatLessThanWellFounded
<1> HIDE DEF R
<1>3. PICK m \in S : \A k \in S : <<k, m>> \notin R
  BY <1>2, WFMin
<1>4. ASSUME NEW k \in S PROVE m <= k
  <2>1. m \in Nat /\ k \in Nat
    OBVIOUS
  <2>2. ~(k < m)
    BY <1>1, <1>3, <2>1, Zenon
  <2> QED BY <2>1, <2>2
<1> QED BY <1>3, <1>4

\* One entry with our hook comes of one at most.
Once(content) == \A g, h \in OurEntries(content) : g = h

LEMMA HookPlan ==
  ASSUME NEW content \in FileContent
  PROVE  /\ EnsureTractusHook(content) \in Plans
         /\ OurEntries(EnsureTractusHook(content)) # {}
         /\ Once(content) => Once(EnsureTractusHook(content))
<1> DEFINE groups == Merged(content)
           ours == Place(content)
           first == CHOOSE g \in ours : \A h \in ours : g <= h
           made == IF ours = {} THEN Append(groups, {Ours}) ELSE [groups EXCEPT ![first] = {Ours}]
<1>1. EnsureTractusHook(content) = Says(FALSE, made)
  BY DEF EnsureTractusHook, Merged, Place
<1>2. groups \in Seq(SUBSET Entry) /\ {Ours} \in SUBSET Entry
  BY MergedType DEF Entry
<1>3. CASE ours = {}
  <2>1. made = Append(groups, {Ours})
    BY <1>3
  <2>2. made \in Seq(SUBSET Entry) /\ DOMAIN made = 1 .. Len(groups) + 1
        /\ made[Len(groups) + 1] = {Ours} /\ \A g \in 1 .. Len(groups) : made[g] = groups[g]
    BY <1>2, <2>1
  <2>3. \A g \in 1 .. Len(groups) : Ours \notin groups[g]
    BY <1>2, <1>3 DEF Place
  <2>4. \A g \in DOMAIN made : Ours \in made[g] <=> g = Len(groups) + 1
    BY <1>2, <2>2, <2>3
  <2>5. Says(FALSE, made) \in Plans /\ Says(FALSE, made).groups = made
    BY <2>2, SaysParts
  <2>6. Len(groups) + 1 \in DOMAIN made
    BY <1>2, <2>2
  <2>7. OurEntries(Says(FALSE, made)) = {Len(groups) + 1}
    <3> HIDE DEF made
    <3> QED BY <2>4, <2>5, <2>6 DEF OurEntries
  <2> HIDE DEF made, ours, groups
  <2>8. OurEntries(EnsureTractusHook(content)) = {Len(groups) + 1}
    BY <1>1, <2>7
  <2> QED BY <1>1, <2>5, <2>8 DEF Once
<1>4. CASE ours # {}
  <2>1. made = [groups EXCEPT ![first] = {Ours}]
    BY <1>4
  <2>2. first \in ours
    <3>1. ours \subseteq Nat
      BY <1>2 DEF Place
    <3>2. \E g \in ours : \A h \in ours : g <= h
      <4> HIDE DEF ours
      <4> QED BY <1>4, <3>1, FirstPlace
    <3> HIDE DEF ours
    <3> QED BY <3>2
  <2>3. first \in DOMAIN groups /\ Ours \in groups[first]
    BY <2>2 DEF Place
  <2> HIDE DEF first
  <2>4. made \in Seq(SUBSET Entry) /\ DOMAIN made = DOMAIN groups
        /\ \A g \in DOMAIN groups : made[g] = IF g = first THEN {Ours} ELSE groups[g]
    BY <1>2, <2>1, <2>3
  <2>5. Says(FALSE, made) \in Plans /\ Says(FALSE, made).groups = made
    BY <2>4, SaysParts
  <2>6. OurEntries(Says(FALSE, made)) = ours
    <3> HIDE DEF made
    <3> QED BY <2>3, <2>4, <2>5 DEF OurEntries, Place
  <2>7. ours = OurEntries(content)
    BY <1>4, MergedType
  <2> HIDE DEF made
  <2> QED BY <1>1, <1>4, <2>5, <2>6, <2>7 DEF Once
<1> QED BY <1>3, <1>4

LEMMA FlagPlan ==
  ASSUME NEW content \in FileContent
  PROVE  SetHooksFlag(content) \in Plans /\ HooksAlreadyEnabled(SetHooksFlag(content))
<1> DEFINE flags == IF content.groups = <<>> \/ content.inline THEN {Ours}
                    ELSE content.groups[1] \union {Ours}
<1>1. content.groups \in Seq(SUBSET Entry) /\ Ours \in Entry
  BY DEF FileContent, Entry
<1>2. content.groups # <<>> => content.groups[1] \in SUBSET Entry
  <2>1. ASSUME content.groups # <<>> PROVE 1 \in DOMAIN content.groups
    BY <1>1, <2>1
  <2> QED BY <1>1, <2>1
<1>3. flags \in SUBSET Entry /\ Ours \in flags
  BY <1>1, <1>2
<1>4. SetHooksFlag(content) = Says(FALSE, <<flags>>)
  BY DEF SetHooksFlag
<1> HIDE DEF flags
<1>5. <<flags>> \in Seq(SUBSET Entry) /\ <<flags>> # <<>> /\ <<flags>>[1] = flags
  BY <1>3
<1>6. /\ Says(FALSE, <<flags>>) \in Plans /\ Says(FALSE, <<flags>>).groups = <<flags>>
      /\ Says(FALSE, <<flags>>).inline = FALSE
  BY <1>5, SaysParts
<1> QED BY <1>3, <1>4, <1>5, <1>6 DEF HooksAlreadyEnabled

LEMMA OnceIsOne ==
  ASSUME NEW content \in FileContent
  PROVE  Cardinality(OurEntries(content)) <= 1 <=> Once(content)
<1>1. content.groups \in Seq(SUBSET Entry)
  BY DEF FileContent
<1>2. IsFiniteSet(OurEntries(content))
  <2>1. IsFiniteSet(1 .. Len(content.groups))
    BY <1>1, FS_Interval
  <2>2. OurEntries(content) \subseteq 1 .. Len(content.groups)
    BY <1>1 DEF OurEntries
  <2> QED BY <2>1, <2>2, FS_Subset
<1> DEFINE S == OurEntries(content)
<1>3. Cardinality(S) \in Nat
  BY <1>2, FS_CardinalityType
<1>4. ASSUME Once(content) PROVE Cardinality(S) <= 1
  <2>1. CASE S = {}
    BY <2>1, FS_EmptySet
  <2>2. ASSUME NEW g \in S PROVE Cardinality(S) <= 1
    <3>1. S = {g}
      BY <1>4, <2>2 DEF Once
    <3>2. Cardinality({g}) = 1
      BY FS_Singleton
    <3> QED BY <3>1, <3>2
  <2> QED BY <2>1, <2>2
<1>5. ASSUME Cardinality(S) <= 1, NEW g \in S, NEW h \in S PROVE g = h
  <2>1. SUFFICES ASSUME g # h PROVE FALSE
    OBVIOUS
  <2>2. Cardinality({g, h}) = 2
    <3>1. Cardinality({g}) = 1 /\ IsFiniteSet({g})
      BY FS_Singleton
    <3>2. Cardinality({g} \union {h}) = 2
      BY <2>1, <3>1, FS_AddElement
    <3>3. {g} \union {h} = {g, h}
      OBVIOUS
    <3> QED BY <3>2, <3>3
  <2>3. {g, h} \subseteq S
    BY <1>5
  <2>4. Cardinality({g, h}) <= Cardinality(S)
    BY <1>2, <2>3, FS_Subset
  <2> QED BY <1>3, <1>5, <2>2, <2>4
<1> QED BY <1>4, <1>5 DEF Once
-----------------------------------------------------------------------------
(* Type correctness *)

Typed ==
  /\ disk \in [SetupFile -> FileContent]
  /\ wanted \in [SetupFile -> SUBSET Entry]
  /\ run \in [Run -> [step : Steps, plan : FileContent]]

LEMMA OneRun ==
  ASSUME Typed, NEW r \in Run, NEW step \in Steps, NEW plan \in FileContent, Goes(r, step, plan)
  PROVE  /\ run' \in [Run -> [step : Steps, plan : FileContent]]
         /\ run'[r].step = step /\ run'[r].plan = plan
         /\ \A q \in Run \ {r} : run'[q] = run[q]
BY DEF Typed, Goes

\* What becomes of a file: it is left alone, emptied, or filled with a plan; and what a
\* run goes on to.
Reads(r) == ReadHooks(r) \/ ReadConfig(r)
Copies(r, file) ==
  \/ file = "hooks" /\ BackupHooks(r)
  \/ file = "config" /\ BackupConfig(r)
Empties(r, file) ==
  \/ file = "hooks" /\ TruncateHooks(r)
  \/ file = "config" /\ TruncateConfig(r)
Fills(r, file) ==
  \/ file = "hooks" /\ FillHooks(r)
  \/ file = "config" /\ FillConfig(r)

RunStep(r) ==
  \/ Start(r) \/ Reads(r) \/ Kill(r)
  \/ \E file \in SetupFile : Copies(r, file) \/ Empties(r, file) \/ Fills(r, file)

LEMMA SetupSteps ==
  ASSUME [SetupNext]_setupVars
  PROVE  \/ \E r \in Run : RunStep(r)
         \/ \E file \in SetupFile : \E content \in Content[file] : Edit(file, content)
         \/ UNCHANGED <<disk, backup, run, wanted, collided>>
<1>1. CASE UNCHANGED setupVars
  BY <1>1 DEF setupVars
<1>2. CASE Second
  BY <1>2 DEF Second
<1>3. ASSUME NEW r \in Run,
             BackupHooks(r) \/ TruncateHooks(r) \/ FillHooks(r)
      PROVE  RunStep(r)
  <2>1. "hooks" \in SetupFile
    BY DEF SetupFile
  <2> QED BY <1>3, <2>1 DEF RunStep, Copies, Empties, Fills
<1>4. ASSUME NEW r \in Run,
             BackupConfig(r) \/ TruncateConfig(r) \/ FillConfig(r)
      PROVE  RunStep(r)
  <2>1. "config" \in SetupFile
    BY DEF SetupFile
  <2> QED BY <1>4, <2>1 DEF RunStep, Copies, Empties, Fills
<1>5. ASSUME NEW r \in Run, Start(r) \/ ReadHooks(r) \/ ReadConfig(r) \/ Kill(r)
      PROVE  RunStep(r)
  BY <1>5 DEF RunStep, Reads
<1> QED BY <1>1, <1>2, <1>3, <1>4, <1>5 DEF SetupNext

\* A run that reads a file goes on to copy it, to empty it or to the next.
LEMMA ReadEffect ==
  ASSUME Typed, NEW r \in Run, Reads(r)
  PROVE  /\ UNCHANGED <<disk, backup, wanted, collided>>
         /\ \E step \in Steps, plan \in FileContent :
              /\ Goes(r, step, plan)
              /\ \/ /\ Step(r) = "hooks" /\ step = "config" 
                    /\ disk["hooks"] = EnsureTractusHook(disk["hooks"])
                 \/ /\ Step(r) = "hooks" /\ step \in {"backupHooks", "truncateHooks"}
                    /\ plan = EnsureTractusHook(disk["hooks"])
                    /\ step = "truncateHooks" => disk["hooks"] = Absent
                 \/ Step(r) = "config" /\ step = "failed"
                 \/ Step(r) = "config" /\ step = "done" /\ HooksAlreadyEnabled(disk["config"])
                 \/ /\ Step(r) = "config" /\ step \in {"backupConfig", "truncateConfig"}
                    /\ HooksAlreadyEnabled(plan)
                    /\ step = "truncateConfig" => disk["config"] = Absent
<1>1. disk["hooks"] \in FileContent /\ disk["config"] \in FileContent
  BY DEF Typed, SetupFile
<1>2. CASE ReadHooks(r)
  <2>1. EnsureTractusHook(disk["hooks"]) \in FileContent
    BY <1>1, HookPlan DEF Plans
  <2> QED BY <1>2, <2>1, NoContent DEF ReadHooks, Steps
<1>3. CASE ReadConfig(r)
  <2>1. /\ SetHooksFlag(disk["config"]) \in FileContent
        /\ HooksAlreadyEnabled(SetHooksFlag(disk["config"]))
    BY <1>1, FlagPlan DEF Plans
  <2>2. Says(FALSE, <<{Ours}>>) \in FileContent /\ HooksAlreadyEnabled(Says(FALSE, <<{Ours}>>))
    <3>1. SetHooksFlag(Absent) = Says(FALSE, <<{Ours}>>)
      BY NoContent DEF SetHooksFlag
    <3> QED BY <3>1, NoContent, FlagPlan DEF Plans
  <2>3. /\ Step(r) = "config" /\ UNCHANGED <<disk, backup, wanted, collided>>
        /\ \/ disk["config"] = Absent /\ Goes(r, "truncateConfig", Says(FALSE, <<{Ours}>>))
           \/ Goes(r, "failed", Absent)
           \/ HooksAlreadyEnabled(disk["config"]) /\ Goes(r, "done", Absent)
           \/ Goes(r, "backupConfig", SetHooksFlag(disk["config"]))
    BY <1>3 DEF ReadConfig
  <2> QED BY <2>1, <2>2, <2>3, NoContent DEF Steps
<1> QED BY <1>2, <1>3 DEF Reads

LEMMA CopyEffect ==
  ASSUME Typed, NEW r \in Run, NEW file \in SetupFile, Copies(r, file)
  PROVE  /\ UNCHANGED <<disk, wanted>>
         /\ backup' = [b \in DOMAIN backup \union {<<file, clock>>} |->
                         IF b = <<file, clock>> THEN disk[file] ELSE backup[b]]
         /\ collided' = (collided \/ <<file, clock>> \in DOMAIN backup)
         /\ Goes(r, IF file = "hooks" THEN "truncateHooks" ELSE "truncateConfig", run[r].plan)
         /\ Step(r) = IF file = "hooks" THEN "backupHooks" ELSE "backupConfig"
<1>1. CASE file = "hooks"
  BY <1>1 DEF Copies, BackupHooks, Backup
<1>2. CASE file = "config"
  BY <1>2 DEF Copies, BackupConfig, Backup
<1> QED BY <1>1, <1>2 DEF SetupFile

LEMMA EmptyEffect ==
  ASSUME Typed, NEW r \in Run, NEW file \in SetupFile, Empties(r, file)
  PROVE  /\ UNCHANGED <<backup, wanted, collided>>
         /\ disk' = [disk EXCEPT ![file] = Empty]
         /\ Goes(r, IF file = "hooks" THEN "fillHooks" ELSE "fillConfig", run[r].plan)
         /\ Step(r) = IF file = "hooks" THEN "truncateHooks" ELSE "truncateConfig"
<1>1. CASE file = "hooks"
  BY <1>1 DEF Empties, TruncateHooks, Truncate
<1>2. CASE file = "config"
  BY <1>2 DEF Empties, TruncateConfig, Truncate
<1> QED BY <1>1, <1>2 DEF SetupFile

LEMMA FillEffect ==
  ASSUME Typed, NEW r \in Run, NEW file \in SetupFile, Fills(r, file)
  PROVE  /\ UNCHANGED <<backup, wanted, collided>>
         /\ disk' = [disk EXCEPT ![file] = run[r].plan]
         /\ Goes(r, IF file = "hooks" THEN "config" ELSE "done", Absent)
         /\ Step(r) = IF file = "hooks" THEN "fillHooks" ELSE "fillConfig"
<1>1. CASE file = "hooks"
  BY <1>1 DEF Fills, FillHooks, Fill
<1>2. CASE file = "config"
  BY <1>2 DEF Fills, FillConfig, Fill
<1> QED BY <1>1, <1>2 DEF SetupFile

LEMMA EditEffect ==
  ASSUME Typed, NEW file \in SetupFile, NEW content \in Content[file], Edit(file, content)
  PROVE  /\ content \in FileContent /\ UNCHANGED <<backup, collided>>
         /\ file = "hooks" => Once(content)
         /\ disk' = [disk EXCEPT ![file] = content]
         /\ wanted' = [wanted EXCEPT ![file] = Items(content) \ {Ours}]
         /\ Items(content) \ {Ours} \in SUBSET Entry
         /\ run' = [r \in Run |-> Off]
<1>1. content \in FileContent
  BY ContentAssumption
<1>2. file = "hooks" => Once(content)
  BY <1>1, ContentAssumption, OnceIsOne
<1>3. Items(content) \in SUBSET Entry
  <2>1. \A g \in DOMAIN content.groups : content.groups[g] \in SUBSET Entry
    BY <1>1 DEF FileContent
  <2> QED BY <2>1 DEF Items, ToSet
<1> QED BY <1>1, <1>2, <1>3 DEF Edit

LEMMA OffIs == Off \in [step : Steps, plan : FileContent] /\ Off.step = "off"
BY NoContent DEF Off, Steps

LEMMA InitTyped == SetupInit => Typed
<1> SUFFICES ASSUME SetupInit PROVE Typed
  OBVIOUS
<1> QED BY OffIs, NoContent DEF SetupInit, Typed

LEMMA StepTyped == Typed /\ [SetupNext]_setupVars => Typed'
<1> SUFFICES ASSUME Typed, [SetupNext]_setupVars PROVE Typed'
  OBVIOUS
<1> USE DEF Typed
<1>1. \A r \in Run : run[r].plan \in FileContent
  OBVIOUS
<1>2. ASSUME NEW r \in Run, RunStep(r) PROVE Typed'
  <2>1. ASSUME Start(r) PROVE Typed'
    BY <2>1, OneRun, NoContent DEF Start, Steps
  <2>2. ASSUME Reads(r) PROVE Typed'
    <3>1. UNCHANGED <<disk, wanted>> /\ \E step \in Steps, plan \in FileContent : Goes(r, step, plan)
      BY <2>2, ReadEffect
    <3> QED BY <3>1, OneRun
  <2>3. ASSUME Kill(r) PROVE Typed'
    BY <2>3, OneRun, NoContent DEF Kill, Steps
  <2>4. ASSUME NEW file \in SetupFile, Copies(r, file) PROVE Typed'
    <3>1. UNCHANGED <<disk, wanted>> /\ \E step \in Steps : Goes(r, step, run[r].plan)
      BY <2>4, CopyEffect DEF Steps
    <3> QED BY <1>1, <3>1, OneRun
  <2>5. ASSUME NEW file \in SetupFile, Empties(r, file) PROVE Typed'
    <3>1. /\ UNCHANGED wanted /\ \E step \in Steps : Goes(r, step, run[r].plan)
          /\ disk' = [disk EXCEPT ![file] = Empty]
      BY <2>5, EmptyEffect DEF Steps
    <3> QED BY <1>1, <3>1, OneRun, NoContent
  <2>6. ASSUME NEW file \in SetupFile, Fills(r, file) PROVE Typed'
    <3>1. /\ UNCHANGED wanted /\ \E step \in Steps : Goes(r, step, Absent)
          /\ disk' = [disk EXCEPT ![file] = run[r].plan]
      BY <2>6, FillEffect DEF Steps
    <3> QED BY <1>1, <3>1, OneRun, NoContent
  <2> QED BY <1>2, <2>1, <2>2, <2>3, <2>4, <2>5, <2>6 DEF RunStep
<1>3. ASSUME NEW file \in SetupFile, NEW content \in Content[file], Edit(file, content)
      PROVE  Typed'
  BY <1>3, EditEffect, OffIs
<1> QED BY <1>2, <1>3, SetupSteps

-----------------------------------------------------------------------------
(* Nothing is lost *)

\* What has been copied of a file.
InBackups(file) == UNION {Items(backup[b]) : b \in {c \in DOMAIN backup : c[1] = file}}

Replacing(r, file) ==
  \/ file = "hooks" /\ Step(r) \in {"truncateHooks", "fillHooks"}
  \/ file = "config" /\ Step(r) \in {"truncateConfig", "fillConfig"}

\* Whoever is about to empty a file, or has done so, leaves all of it in the backups.
Safe(file) ==
  /\ wanted[file] \subseteq Items(disk[file]) \union InBackups(file)
  /\ \A r \in Run : Replacing(r, file) => wanted[file] \subseteq InBackups(file)
Copied == ~collided => \A file \in SetupFile : Safe(file)

\* Without a collision a backup is only ever added.
LEMMA BackupsGrow ==
  ASSUME Typed, NEW r \in Run, NEW file \in SetupFile, Copies(r, file), ~collided'
  PROVE  /\ ~collided /\ \A f \in SetupFile : InBackups(f) \subseteq InBackups(f)'
         /\ Items(disk[file]) \subseteq InBackups(file)'
<1>1. <<file, clock>> \notin DOMAIN backup /\ ~collided
  BY CopyEffect
<1>2. /\ DOMAIN backup' = DOMAIN backup \union {<<file, clock>>}
      /\ \A b \in DOMAIN backup : backup'[b] = backup[b]
      /\ backup'[<<file, clock>>] = disk[file]
  BY <1>1, CopyEffect
<1>3. <<file, clock>>[1] = file
  OBVIOUS
<1>4. ASSUME NEW f \in SetupFile PROVE InBackups(f) \subseteq InBackups(f)'
  BY <1>2 DEF InBackups
<1>5. Items(disk[file]) \subseteq InBackups(file)'
  BY <1>2, <1>3 DEF InBackups
<1> QED BY <1>1, <1>4, <1>5

LEMMA StepCopied == Typed /\ Copied /\ [SetupNext]_setupVars => Copied'
<1> SUFFICES ASSUME Typed, Copied, [SetupNext]_setupVars, ~collided', NEW file \in SetupFile
             PROVE  Safe(file)'
  BY DEF Copied
<1>1. collided' = collided => Safe(file)
  BY DEF Copied
<1>2. ASSUME UNCHANGED <<backup, wanted, collided>>, 
             \A r \in Run : Replacing(r, file)' => Replacing(r, file) \/ disk[file] = Absent,
             disk'[file] = disk[file] \/ wanted[file] \subseteq InBackups(file)
      PROVE  Safe(file)'
  <2>1. InBackups(file)' = InBackups(file)
    BY <1>2 DEF InBackups
  <2>2. disk[file] = Absent => Items(disk[file]) = {}
    BY NoContent
  <2>3. wanted'[file] = wanted[file]
    BY <1>2
  <2>4. wanted[file] \subseteq Items(disk'[file]) \union InBackups(file)
    BY <1>1, <1>2 DEF Safe
  <2>5. \A r \in Run : Replacing(r, file)' => wanted[file] \subseteq InBackups(file)
    BY <1>1, <1>2, <2>2 DEF Safe
  <2> QED BY <2>1, <2>3, <2>4, <2>5 DEF Safe
<1>3. ASSUME NEW r \in Run, RunStep(r) PROVE Safe(file)'
  <2>0. \A q \in Run : run[q].plan \in FileContent
    BY DEF Typed
  <2>1. ASSUME Start(r) PROVE Safe(file)'
    <3>1. /\ UNCHANGED <<disk, backup, wanted, collided>> /\ run'[r].step = "hooks"
          /\ \A q \in Run \ {r} : run'[q] = run[q]
      BY <2>1, OneRun, NoContent DEF Start, Steps
    <3>2. \A q \in Run : Replacing(q, file)' => Replacing(q, file)
      BY <3>1 DEF Replacing, Step
    <3> QED BY <1>2, <3>1, <3>2
  <2>2. ASSUME Reads(r) PROVE Safe(file)'
    <3>1. PICK step \in Steps, plan \in FileContent :
            /\ Goes(r, step, plan)
            /\ step = "truncateHooks" => disk["hooks"] = Absent
            /\ step = "truncateConfig" => disk["config"] = Absent
            /\ step \notin {"fillHooks", "fillConfig"}
      BY <2>2, ReadEffect
    <3>2. run'[r].step = step /\ \A q \in Run \ {r} : run'[q] = run[q]
      BY <3>1, OneRun
    <3>3. \A q \in Run : Replacing(q, file)' => Replacing(q, file) \/ disk[file] = Absent
      BY <3>1, <3>2 DEF Replacing, Step
    <3> QED BY <1>2, <2>2, <3>3, ReadEffect
  <2>3. ASSUME Kill(r) PROVE Safe(file)'
    <3>1. /\ UNCHANGED <<disk, backup, wanted, collided>> /\ run'[r].step = "failed"
          /\ \A q \in Run \ {r} : run'[q] = run[q]
      BY <2>3, OneRun, NoContent DEF Kill, Steps
    <3>2. \A q \in Run : Replacing(q, file)' => Replacing(q, file)
      BY <3>1 DEF Replacing, Step
    <3> QED BY <1>2, <3>1, <3>2
  <2>4. ASSUME NEW f \in SetupFile, Copies(r, f) PROVE Safe(file)'
    <3>1. /\ UNCHANGED <<disk, wanted>> /\ ~collided
          /\ run'[r].step = IF f = "hooks" THEN "truncateHooks" ELSE "truncateConfig"
          /\ \A q \in Run \ {r} : run'[q] = run[q]
      BY <2>0, <2>4, CopyEffect, OneRun, BackupsGrow DEF Steps
    <3>2. InBackups(file) \subseteq InBackups(file)'
      BY <2>4, BackupsGrow
    <3>3. Safe(file)
      BY <3>1 DEF Copied
    <3>4. ASSUME NEW q \in Run, Replacing(q, file)', ~Replacing(q, file) PROVE f = file
      BY <3>1, <3>4 DEF Replacing, Step, SetupFile
    <3>5. f = file => wanted[file] \subseteq InBackups(file)'
      BY <2>4, <3>2, <3>3, BackupsGrow DEF Safe
    <3> QED BY <3>1, <3>2, <3>3, <3>4, <3>5 DEF Safe
  <2>5. ASSUME NEW f \in SetupFile, Empties(r, f) \/ Fills(r, f) PROVE Safe(file)'
    <3>1. /\ UNCHANGED <<backup, wanted, collided>> /\ Replacing(r, f)
          /\ disk' = [disk EXCEPT ![f] = Empty] \/ disk' = [disk EXCEPT ![f] = run[r].plan]
          /\ \E step \in {"fillHooks", "fillConfig", "config", "done"} :
               /\ run'[r].step = step
               /\ step = "fillHooks" => Replacing(r, "hooks")
               /\ step = "fillConfig" => Replacing(r, "config")
          /\ \A q \in Run \ {r} : run'[q] = run[q]
      <4>1. CASE Empties(r, f)
        BY <2>0, <4>1, EmptyEffect, OneRun DEF Steps, Replacing, SetupFile
      <4>2. CASE Fills(r, f)
        BY <4>2, FillEffect, OneRun, NoContent DEF Steps, Replacing, SetupFile
      <4> QED BY <2>5, <4>1, <4>2
    <3>2. \A q \in Run : Replacing(q, file)' => Replacing(q, file)
      BY <3>1 DEF Replacing, Step
    <3>3. disk'[file] = disk[file] \/ f = file
      BY <3>1 DEF Typed
    <3>4. f = file => wanted[file] \subseteq InBackups(file)
      BY <1>1, <3>1 DEF Safe
    <3> QED BY <1>2, <3>1, <3>2, <3>3, <3>4
  <2> QED BY <1>3, <2>1, <2>2, <2>3, <2>4, <2>5 DEF RunStep
<1>4. ASSUME NEW f \in SetupFile, NEW content \in Content[f], Edit(f, content)
      PROVE  Safe(file)'
  <2>1. \A r \in Run : ~Replacing(r, file)'
    BY <1>4, EditEffect, OffIs DEF Replacing, Step
  <2>2. InBackups(file)' = InBackups(file) /\ UNCHANGED collided
    BY <1>4, EditEffect DEF InBackups
  <2>3. wanted'[file] \subseteq Items(disk'[file]) \union InBackups(file)
    <3>1. CASE f = file
      BY <1>4, <3>1, EditEffect DEF Typed
    <3>2. CASE f # file
      BY <1>1, <1>4, <2>2, <3>2, EditEffect DEF Typed, Safe
    <3> QED BY <3>1, <3>2
  <2> QED BY <2>1, <2>2, <2>3 DEF Safe
<1>5. CASE UNCHANGED <<disk, backup, run, wanted, collided>>
  BY <1>1, <1>5 DEF Safe, InBackups, Replacing, Step
<1> QED BY <1>3, <1>4, <1>5, SetupSteps

\* Whichever way runs of tractus init overlap, and wherever one is killed, what the user
\* has written is in the file or in one of its backups (install_hook,
\* enable_hook_feature, write_file), unless two backups were of one second.
THEOREM NothingIsLost == SetupSpec => []NothingLost
<1>1. SetupInit => Copied
  <2> SUFFICES ASSUME SetupInit, NEW file \in SetupFile PROVE Safe(file)
    BY DEF Copied
  <2>1. wanted[file] = {} /\ \A r \in Run : run[r].step = "off"
    BY OffIs DEF SetupInit
  <2> QED BY <2>1 DEF Safe, Replacing, Step
<1>2. Copied => NothingLost
  BY DEF Copied, Safe, NothingLost, InBackups
<1> QED BY <1>1, <1>2, InitTyped, StepTyped, StepCopied, PTL DEF SetupSpec
-----------------------------------------------------------------------------
(* The hook is there once *)

\* What a run is about to write has our hook once, or the flag.
Prepared(r) ==
  /\ Step(r) \in {"backupHooks", "truncateHooks", "fillHooks"} =>
       Once(run[r].plan) /\ OurEntries(run[r].plan) # {}
  /\ Step(r) \in {"backupConfig", "truncateConfig", "fillConfig"} =>
       HooksAlreadyEnabled(run[r].plan)

\* A file that nobody has emptied keeps what a run has found or left there.
PastHooks == {"config", "backupConfig", "truncateConfig", "fillConfig", "done"}
Left ==
  /\ (\E r \in Run : Step(r) \in PastHooks) /\ (\A r \in Run : Step(r) # "fillHooks") =>
       OurEntries(disk["hooks"]) # {}
  /\ (\E r \in Run : Step(r) = "done") /\ (\A r \in Run : Step(r) # "fillConfig") =>
       HooksAlreadyEnabled(disk["config"])

\* A run that failed may leave a file empty.
Entered ==
  /\ Once(disk["hooks"]) /\ \A r \in Run : Prepared(r)
  /\ (\A r \in Run : Step(r) # "failed") => Left

LEMMA EmptyOnce == Once(Absent) /\ Once(Empty)
BY NoContent DEF Once, OurEntries

\* A step that leaves the files alone.
LEMMA FilesStand ==
  ASSUME Entered, UNCHANGED disk, NEW r \in Run, \A q \in Run \ {r} : run'[q] = run[q],
         Prepared(r)', Step(r) # "failed",
         Step(r)' \notin {"fillHooks", "fillConfig"}, Step(r) \notin {"fillHooks", "fillConfig"},
         \/ Step(r)' = "failed"
         \/ /\ Step(r)' \in PastHooks => Step(r) \in PastHooks \/ OurEntries(disk["hooks"]) # {}
            /\ Step(r)' = "done" => Step(r) = "done" \/ HooksAlreadyEnabled(disk["config"])
  PROVE  Entered'
<1>1. \A q \in Run : Prepared(q)'
  BY DEF Entered, Prepared, Step
<1>2. ASSUME \A q \in Run : Step(q)' # "failed" PROVE Left'
  <2>1. Left
    BY <1>2 DEF Entered, Step
  <2>2. ASSUME \E q \in Run : Step(q)' \in PastHooks, \A q \in Run : Step(q)' # "fillHooks"
        PROVE  OurEntries(disk["hooks"]) # {}
    <3>1. \A q \in Run : Step(q) # "fillHooks"
      BY <2>2 DEF Step
    <3>2. Step(r)' # "failed"
      BY <1>2
    <3>3. (\E q \in Run : Step(q) \in PastHooks) \/ OurEntries(disk["hooks"]) # {}
      BY <2>2, <3>2 DEF Step
    <3> QED BY <2>1, <3>1, <3>3 DEF Left
  <2>3. ASSUME \E q \in Run : Step(q)' = "done", \A q \in Run : Step(q)' # "fillConfig"
        PROVE  HooksAlreadyEnabled(disk["config"])
    <3>1. \A q \in Run : Step(q) # "fillConfig"
      BY <2>3 DEF Step
    <3>2. Step(r)' # "failed"
      BY <1>2
    <3>3. (\E q \in Run : Step(q) = "done") \/ HooksAlreadyEnabled(disk["config"])
      BY <2>3, <3>2 DEF Step
    <3> QED BY <2>1, <3>1, <3>3 DEF Left
  <2> QED BY <2>2, <2>3 DEF Left
<1> QED BY <1>1, <1>2 DEF Entered

LEMMA StepEntered == Typed /\ Entered /\ [SetupNext]_setupVars => Entered'
<1> SUFFICES ASSUME Typed, Entered, [SetupNext]_setupVars PROVE Entered'
  OBVIOUS
<1>1. /\ disk["hooks"] \in FileContent /\ disk["config"] \in FileContent
      /\ \A r \in Run : run[r].plan \in FileContent /\ Step(r) \in Steps
  BY DEF Typed, SetupFile, Step
<1>2. ASSUME NEW r \in Run, RunStep(r) PROVE Entered'
  <2>1. ASSUME Start(r) PROVE Entered'
    <3>1. /\ UNCHANGED disk /\ Step(r)' = "hooks" /\ Step(r) = "off"
          /\ \A q \in Run \ {r} : run'[q] = run[q]
      BY <2>1, OneRun, NoContent DEF Start, Steps, Step
    <3> QED BY <3>1, FilesStand DEF Prepared, PastHooks
  <2>2. ASSUME Reads(r) PROVE Entered'
    <3>1. PICK step \in Steps, plan \in FileContent :
            /\ Goes(r, step, plan)
            /\ \/ /\ Step(r) = "hooks" /\ step = "config" 
                  /\ disk["hooks"] = EnsureTractusHook(disk["hooks"])
               \/ /\ Step(r) = "hooks" /\ step \in {"backupHooks", "truncateHooks"}
                  /\ plan = EnsureTractusHook(disk["hooks"])
               \/ Step(r) = "config" /\ step = "failed"
               \/ Step(r) = "config" /\ step = "done" /\ HooksAlreadyEnabled(disk["config"])
               \/ /\ Step(r) = "config" /\ step \in {"backupConfig", "truncateConfig"}
                  /\ HooksAlreadyEnabled(plan)
      BY <2>2, ReadEffect
    <3>2. /\ UNCHANGED disk /\ Step(r)' = step /\ run'[r].plan = plan
          /\ \A q \in Run \ {r} : run'[q] = run[q]
      BY <2>2, <3>1, OneRun, ReadEffect DEF Step
    <3>3. /\ OurEntries(EnsureTractusHook(disk["hooks"])) # {}
          /\ Once(EnsureTractusHook(disk["hooks"]))
      BY <1>1, HookPlan DEF Entered
    <3>4. Prepared(r)'
      BY <3>1, <3>2, <3>3 DEF Prepared
    <3> QED BY <3>1, <3>2, <3>3, <3>4, FilesStand DEF PastHooks
  <2>3. ASSUME Kill(r) PROVE Entered'
    <3>1. /\ UNCHANGED disk /\ Step(r)' = "failed"
          /\ \A q \in Run \ {r} : run'[q] = run[q]
      BY <2>3, OneRun, NoContent DEF Kill, Steps, Step
    <3>2. \A q \in Run : Prepared(q)'
      BY <3>1 DEF Entered, Prepared, Step
    <3> QED BY <3>1, <3>2 DEF Entered
  <2>4. ASSUME NEW file \in SetupFile, Copies(r, file) PROVE Entered'
    <3>1. /\ UNCHANGED disk /\ run'[r].plan = run[r].plan
          /\ \/ Step(r)' = "truncateHooks" /\ Step(r) = "backupHooks"
             \/ Step(r)' = "truncateConfig" /\ Step(r) = "backupConfig"
          /\ \A q \in Run \ {r} : run'[q] = run[q]
      BY <1>1, <2>4, CopyEffect, OneRun DEF Steps, Step, SetupFile
    <3>2. Prepared(r)'
      BY <3>1 DEF Entered, Prepared
    <3> QED BY <3>1, <3>2, FilesStand DEF PastHooks
  <2>5. ASSUME NEW file \in SetupFile, Empties(r, file) PROVE Entered'
    <3>1. /\ disk' = [disk EXCEPT ![file] = Empty] /\ run'[r].plan = run[r].plan
          /\ \/ file = "hooks" /\ Step(r)' = "fillHooks" /\ Step(r) = "truncateHooks"
             \/ file = "config" /\ Step(r)' = "fillConfig" /\ Step(r) = "truncateConfig"
          /\ \A q \in Run \ {r} : run'[q] = run[q]
      BY <1>1, <2>5, EmptyEffect, OneRun DEF Steps, Step, SetupFile
    <3>2. \A q \in Run : Prepared(q)'
      BY <3>1 DEF Entered, Prepared, Step
    <3>3. Once(disk'["hooks"])
      BY <3>1, EmptyOnce DEF Entered, Typed, SetupFile
    <3>4. ASSUME \A q \in Run : Step(q)' # "failed" PROVE Left'
      <4>1. Left
        BY <3>1, <3>4 DEF Entered, Step
      <4>2. CASE file = "hooks"
        <5>1. disk'["config"] = disk["config"]
          BY <3>1, <4>2 DEF Typed, SetupFile
        <5> QED BY <3>1, <4>1, <4>2, <5>1 DEF Left, Step
      <4>3. CASE file = "config"
        <5>1. disk'["hooks"] = disk["hooks"]
          BY <3>1, <4>3 DEF Typed, SetupFile
        <5> QED BY <3>1, <4>1, <4>3, <5>1 DEF Left, Step, PastHooks
      <4> QED BY <4>2, <4>3 DEF SetupFile
    <3> QED BY <3>2, <3>3, <3>4 DEF Entered
  <2>6. ASSUME NEW file \in SetupFile, Fills(r, file) PROVE Entered'
    <3>1. /\ disk' = [disk EXCEPT ![file] = run[r].plan]
          /\ \/ file = "hooks" /\ Step(r)' = "config" /\ Step(r) = "fillHooks"
             \/ file = "config" /\ Step(r)' = "done" /\ Step(r) = "fillConfig"
          /\ \A q \in Run \ {r} : run'[q] = run[q]
      BY <2>6, FillEffect, OneRun, NoContent DEF Steps, Step, SetupFile
    <3>2. \A q \in Run : Prepared(q)'
      BY <3>1 DEF Entered, Prepared, Step
    <3>3. Prepared(r)
      BY DEF Entered
    <3>4. CASE file = "hooks"
      <4>1. /\ disk'["hooks"] = run[r].plan /\ disk'["config"] = disk["config"]
        BY <3>1, <3>4 DEF Typed, SetupFile
      <4>2. Once(disk'["hooks"]) /\ OurEntries(disk'["hooks"]) # {}
        BY <3>1, <3>3, <3>4, <4>1 DEF Prepared
      <4>3. ASSUME \A q \in Run : Step(q)' # "failed" PROVE Left'
        <5>1. Left
          BY <3>1, <3>4, <4>3 DEF Entered, Step
        <5> QED BY <3>1, <3>4, <4>1, <4>2, <5>1 DEF Left, Step
      <4> QED BY <3>2, <4>2, <4>3 DEF Entered
    <3>5. CASE file = "config"
      <4>1. /\ disk'["config"] = run[r].plan /\ disk'["hooks"] = disk["hooks"]
        BY <3>1, <3>5 DEF Typed, SetupFile
      <4>2. HooksAlreadyEnabled(disk'["config"])
        BY <3>1, <3>3, <3>5, <4>1 DEF Prepared
      <4>3. ASSUME \A q \in Run : Step(q)' # "failed" PROVE Left'
        <5>1. Left
          BY <3>1, <3>5, <4>3 DEF Entered, Step
        <5> QED BY <3>1, <3>5, <4>1, <4>2, <5>1 DEF Left, Step, PastHooks
      <4> QED BY <3>2, <4>1, <4>3 DEF Entered
    <3> QED BY <3>4, <3>5 DEF SetupFile
  <2> QED BY <1>2, <2>1, <2>2, <2>3, <2>4, <2>5, <2>6 DEF RunStep
<1>3. ASSUME NEW file \in SetupFile, NEW content \in Content[file], Edit(file, content)
      PROVE  Entered'
  <2>1. \A r \in Run : Step(r)' = "off"
    BY <1>3, EditEffect, OffIs DEF Step
  <2>2. Once(disk'["hooks"])
    <3>1. disk' = [disk EXCEPT ![file] = content] /\ (file = "hooks" => Once(content))
      BY <1>3, EditEffect
    <3> QED BY <3>1 DEF Typed, SetupFile, Entered
  <2> QED BY <2>1, <2>2 DEF Entered, Prepared, Left, PastHooks
<1>4. CASE UNCHANGED <<disk, backup, run, wanted, collided>>
  BY <1>4 DEF Entered, Prepared, Left, Step
<1> QED BY <1>2, <1>3, <1>4, SetupSteps

\* However many runs there are, one after the other or at once, the hook is never entered
\* twice; and once all that were started since the user's last edit are done, it is
\* entered and the feature is on (ensure_tractus_hook, set_hooks_flag).
THEOREM EnteredOnce == SetupSpec => []OneEntry
<1>1. SetupInit => Entered
  <2> SUFFICES ASSUME SetupInit PROVE Entered
    OBVIOUS
  <2>1. disk["hooks"] = Absent /\ \A r \in Run : Step(r) = "off"
    BY OffIs DEF SetupInit, SetupFile, Step
  <2> QED BY <2>1, EmptyOnce DEF Entered, Prepared, Left, PastHooks
<1>2. Typed /\ Entered => OneEntry
  <2> SUFFICES ASSUME Typed, Entered PROVE OneEntry
    OBVIOUS
  <2>1. disk["hooks"] \in FileContent
    BY DEF Typed, SetupFile
  <2>2. Cardinality(OurEntries(disk["hooks"])) <= 1
    BY <2>1, OnceIsOne DEF Entered
  <2>3. ASSUME \E r \in Run : Step(r) = "done", \A r \in Run : Step(r) \in {"off", "done"}
        PROVE  OurEntries(disk["hooks"]) # {} /\ HooksAlreadyEnabled(disk["config"])
    <3>1. Left
      BY <2>3 DEF Entered
    <3>2. \A r \in Run : Step(r) # "fillHooks" /\ Step(r) # "fillConfig"
      BY <2>3
    <3> QED BY <2>3, <3>1, <3>2 DEF Left, PastHooks
  <2> QED BY <2>2, <2>3 DEF OneEntry
<1> QED BY <1>1, <1>2, InitTyped, StepTyped, StepEntered, PTL DEF SetupSpec
=============================================================================
