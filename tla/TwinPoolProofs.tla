--------------------------- MODULE TwinPoolProofs ---------------------------
(* The pool of twins for any files, calls and tasks and any size: units of  *)
(* one generation, each used once, no container leaked, no write missed.   *)
EXTENDS TwinPool, TLAPS, FiniteSetTheorems, WellFoundedInduction

-----------------------------------------------------------------------------
(* The fingerprint of a tree *)

\* A set of numbers that is bounded has a greatest one, and Newest finds it.
LEMMA NewestIsGreatest ==
  ASSUME NEW tree \in Tree, Present(tree) # {}
  PROVE  /\ \E f \in Present(tree) : Newest(tree) = tree[f].time
         /\ \A f \in Present(tree) : tree[f].time <= Newest(tree)
<1> DEFINE R == OpToRel(<, Nat)
           Above == {n \in Nat : \A f \in Present(tree) : tree[f].time <= n}
<1>1. \A j, k \in Nat : j < k => <<j, k>> \in R
  BY DEF OpToRel
<1>2. IsWellFoundedOn(R, Nat)
  BY NatLessThanWellFounded
<1> HIDE DEF R
<1>3. \A f \in Present(tree) : tree[f].time \in 0 .. MaxEdits
  BY DEF Tree, Present, Content
<1>4. MaxEdits \in Above
  BY <1>3, BoundsAssumption
<1>5. PICK m \in Above : \A n \in Above : <<n, m>> \notin R
  <2>1. Above \subseteq Nat
    OBVIOUS
  <2> HIDE DEF Above
  <2> QED BY <1>2, <1>4, <2>1, WFMin
<1>6. m \in Nat /\ \A f \in Present(tree) : tree[f].time <= m
  BY <1>5
<1>7. \E f \in Present(tree) : tree[f].time = m
  <2> SUFFICES ASSUME \A f \in Present(tree) : tree[f].time # m PROVE FALSE
    OBVIOUS
  <2>1. \A f \in Present(tree) : tree[f].time <= m - 1
    BY <1>3, <1>6, BoundsAssumption
  <2>2. m - 1 \in Nat
    BY <1>3, <1>6, BoundsAssumption
  <2>3. m - 1 \in Above
    BY <2>1, <2>2
  <2>4. m - 1 < m
    BY <1>6
  <2>5. <<m - 1, m>> \in R
    BY <1>1, <1>6, <2>2, <2>4
  <2> HIDE DEF Above
  <2> QED BY <1>5, <2>3, <2>5
<1>8. m \in {tree[f].time : f \in Present(tree)}
  BY <1>7
<1>9. /\ Newest(tree) \in {tree[f].time : f \in Present(tree)}
      /\ \A f \in Present(tree) : tree[f].time <= Newest(tree)
  BY <1>6, <1>8 DEF Newest
<1> QED BY <1>9

\* A tree has a finite number of files.
LEMMA PresentIsFinite ==
  ASSUME NEW tree
  PROVE  /\ IsFiniteSet(Present(tree))
         /\ Cardinality(Present(tree)) \in 0 .. Cardinality(File)
<1>1. Present(tree) \subseteq File
  BY DEF Present
<1> QED BY <1>1, FileAssumption, FS_Subset, FS_CardinalityType

\* A fingerprint is a fingerprint.
LEMMA FingerprintType ==
  ASSUME NEW tree \in Tree
  PROVE  Fingerprint(tree) \in WorkspaceFingerprint
<1>1. Newest(tree) \in (0 .. MaxEdits) \union {Absent}
  <2>1. CASE Present(tree) = {}
    BY <2>1 DEF Newest
  <2>2. CASE Present(tree) # {}
    BY <2>2, NewestIsGreatest DEF Present, Tree, Content
  <2> QED BY <2>1, <2>2
<1> QED BY <1>1, PresentIsFinite DEF Fingerprint, WorkspaceFingerprint

\* No content is in two files.
Single(tree) == \A f, g \in Present(tree) : tree[f] = tree[g] => f = g

LEMMA ContentsCounted ==
  ASSUME NEW tree, Single(tree)
  PROVE  /\ IsFiniteSet(Contents(tree))
         /\ Cardinality(Contents(tree)) = Cardinality(Present(tree))
<1> DEFINE P == Present(tree)
           C == Contents(tree)
           content == [f \in P |-> tree[f]]
<1>1. content \in [P -> C]
  BY DEF Contents
<1>2. \A f, g \in P : content[f] = content[g] => f = g
  BY DEF Single
<1>3. \A c \in C : \E f \in P : content[f] = c
  BY DEF Contents
<1>4. IsFiniteSet(P)
  BY PresentIsFinite
<1> HIDE DEF P, C, content
<1>5. content \in Bijection(P, C)
  BY <1>1, <1>2, <1>3 DEF Bijection, Injection, Surjection, IsInjective
<1>6. ExistsBijection(P, C)
  BY <1>5 DEF ExistsBijection
<1>7. IsFiniteSet(C) /\ Cardinality(C) = Cardinality(P)
  BY <1>4, <1>6, FS_Bijection
<1> QED BY <1>7 DEF P, C

\* Of a tree whose new contents were made after anything in an older tree, that
\* has the older tree's fingerprint: what was written is in the older tree, and
\* nothing is gone from it unless something new has come.
LEMMA SameFingerprint ==
  ASSUME NEW old \in Tree, NEW new \in Tree, Single(old), Single(new),
         Fingerprint(old) = Fingerprint(new),
         \A c \in Contents(new) : \/ c \in Contents(old)
                                  \/ \A g \in Present(old) : c.made > old[g].time
  PROVE  /\ Written(new) \subseteq Contents(old)
         /\ Contents(new) \subseteq Contents(old) => Contents(new) = Contents(old)
<1>1. /\ Cardinality(Present(old)) = Cardinality(Present(new))
      /\ Newest(old) = Newest(new)
  BY DEF Fingerprint
<1>2. ASSUME NEW c \in Written(new), c \notin Contents(old) PROVE FALSE
  <2>1. PICK f \in Present(new) : c = new[f]
    BY <1>2 DEF Written, Contents
  <2>2. c.time = c.made /\ \A g \in Present(old) : c.made > old[g].time
    BY <1>2 DEF Written
  <2>3. CASE Present(old) = {}
    <3>1. Cardinality(Present(new)) = 0
      BY <1>1, <2>3, FS_EmptySet
    <3> QED BY <2>1, <3>1, PresentIsFinite, FS_EmptySet
  <2>4. CASE Present(old) # {}
    <3>1. PICK g \in Present(old) : Newest(old) = old[g].time
      BY <2>4, NewestIsGreatest
    <3>2. new[f].time <= Newest(new)
      BY <2>1, NewestIsGreatest
    <3>3. old[g].time \in 0 .. MaxEdits /\ new[f].time \in 0 .. MaxEdits
      BY <2>1 DEF Tree, Present, Content
    <3>4. new[f].time > old[g].time /\ new[f].time <= old[g].time
      BY <1>1, <2>1, <2>2, <3>1, <3>2
    <3> QED BY <3>3, <3>4, BoundsAssumption
  <2> QED BY <2>3, <2>4
<1>3. ASSUME Contents(new) \subseteq Contents(old) PROVE Contents(new) = Contents(old)
  BY <1>1, <1>3, ContentsCounted, FS_Subset
<1> QED BY <1>2, <1>3

-----------------------------------------------------------------------------
(* Where units are *)

\* A task holds a unit exactly while one is made and not yet handed over ...
TaskFits(s) ==
  s \in TaskState /\ (s.unit # NoUnit <=> s.pc \in {"copied", "pushing", "dropping"})

\* ... a call while it tries or discards it, and maybe while it destroys it, and
\* a container of its own only while a fallback runs ...
CallFits(s) ==
  /\ s \in CallState
  /\ s.pc \in {"idle", "fallback", "overlay", "fallback-copy", "copy"} => s.unit = NoUnit
  /\ s.pc \in {"discarding", "trying"} => s.unit # NoUnit
  /\ s.pc \notin {"overlay", "copy"} => s.own = {}

\* ... and an invalidation only while it destroys what it took.
InvalidationFits(s) ==
  s \in InvalidationState /\ (s.pc # "destroying" => s.units = {})

\* Type correctness, with where units can be.
DiskTyped == workspace \in Tree /\ edits \in 0 .. MaxEdits
ReadyTyped == ready \in Seq(Unit) /\ Len(ready) <= PoolSize
TasksTyped == tasks \in [Task -> TaskState] /\ \A t \in Task : TaskFits(tasks[t])
CallsTyped == calls \in [Call -> CallState] /\ \A c \in Call : CallFits(calls[c])
InvalidationsTyped ==
  /\ invalidations \in [Invalidation -> InvalidationState]
  /\ \A v \in Invalidation : InvalidationFits(invalidations[v])
ReaperTyped == reaper \in [pc : {"listing", "killing", "done"}, victims : SUBSET Container]
RunningTyped == running \subseteq Container /\ strays \subseteq Container

Typed ==
  /\ DiskTyped /\ ReadyTyped /\ TasksTyped /\ CallsTyped /\ InvalidationsTyped
  /\ ReaperTyped /\ RunningTyped /\ generation \in Nat

\* Replacing one task's, call's or invalidation's state by one that fits.
LEMMA TaskReplaced ==
  ASSUME NEW ts \in [Task -> TaskState], \A r \in Task : TaskFits(ts[r]),
         NEW t \in Task, NEW s, TaskFits(s)
  PROVE  LET new == [ts EXCEPT ![t] = s]
         IN  new \in [Task -> TaskState] /\ \A r \in Task : TaskFits(new[r])
<1>1. s \in TaskState
  BY DEF TaskFits
<1> QED BY <1>1

LEMMA CallReplaced ==
  ASSUME NEW cs \in [Call -> CallState], \A r \in Call : CallFits(cs[r]),
         NEW c \in Call, NEW s, CallFits(s)
  PROVE  LET new == [cs EXCEPT ![c] = s]
         IN  new \in [Call -> CallState] /\ \A r \in Call : CallFits(new[r])
<1>1. s \in CallState
  BY DEF CallFits
<1> QED BY <1>1

LEMMA InvalidationReplaced ==
  ASSUME NEW vs \in [Invalidation -> InvalidationState],
         \A r \in Invalidation : InvalidationFits(vs[r]),
         NEW v \in Invalidation, NEW s, InvalidationFits(s)
  PROVE  LET new == [vs EXCEPT ![v] = s]
         IN  new \in [Invalidation -> InvalidationState]
             /\ \A r \in Invalidation : InvalidationFits(new[r])
<1>1. s \in InvalidationState
  BY DEF InvalidationFits
<1> QED BY <1>1

LEMMA IdleFits ==
  /\ TaskFits(IdleTask) /\ TaskFits([IdleTask EXCEPT !.pc = "looking"])
  /\ \A n \in Nat : TaskFits([IdleTask EXCEPT !.pc = "copying", !.gen = n])
  /\ CallFits(IdleCall) /\ InvalidationFits(IdleInvalidation)
<1>1. /\ TaskFits(IdleTask) /\ TaskFits([IdleTask EXCEPT !.pc = "looking"])
      /\ \A n \in Nat : TaskFits([IdleTask EXCEPT !.pc = "copying", !.gen = n])
  BY DEF TaskFits, TaskState, IdleTask
<1>2. CallFits(IdleCall)
  BY DEF CallFits, CallState, IdleCall
<1>3. InvalidationFits(IdleInvalidation)
  BY DEF InvalidationFits, InvalidationState, IdleInvalidation
<1> QED BY <1>1, <1>2, <1>3

\* Spawning a task leaves every task where it was but one, which holds no unit.
LEMMA SpawnedTasks ==
  ASSUME NEW ts \in [Task -> TaskState], \A r \in Task : TaskFits(ts[r]),
         NEW new \in Spawned(ts)
  PROVE  /\ new \in [Task -> TaskState] /\ \A r \in Task : TaskFits(new[r])
         /\ \A r \in Task : new[r] = ts[r] \/ /\ new[r].unit = NoUnit /\ ts[r].unit = NoUnit
                                              /\ new[r].gen = 0 /\ new[r].pc = "looking"
<1> DEFINE s == [IdleTask EXCEPT !.pc = "looking"]
<1>1. PICK t \in Task : ts[t].pc = "idle" /\ new = [ts EXCEPT ![t] = s]
  BY DEF Spawned
<1>2. TaskFits(s)
  BY IdleFits
<1>3. s.unit = NoUnit /\ s.gen = 0 /\ s.pc = "looking"
  BY DEF IdleTask
<1>4. ts[t].unit = NoUnit
  BY <1>1 DEF TaskFits
<1> HIDE DEF s
<1>5. new[t] = s /\ \A r \in Task \ {t} : new[r] = ts[r]
  BY <1>1
<1>6. new \in [Task -> TaskState] /\ \A r \in Task : TaskFits(new[r])
  BY <1>1, <1>2, TaskReplaced
<1> QED BY <1>3, <1>4, <1>5, <1>6

\* What the actions that make or use a unit need of it.
LEMMA UnitParts ==
  /\ \A u \in Unit : /\ u # NoUnit
                     /\ u.container \in Container /\ u.gen \in Nat
                     /\ u.seen \in Tree /\ u.workspace \in WorkspaceFingerprint
  /\ \A container \in Container, gen \in Nat, tree \in Tree, mark \in WorkspaceFingerprint :
       [container |-> container, files |-> tree, workspace |-> mark, gen |-> gen, seen |-> tree]
         \in Unit
  /\ \A u \in Unit, tree \in Tree, mark \in WorkspaceFingerprint :
       [u EXCEPT !.workspace = mark, !.seen = tree] \in Unit
BY NoUnitAssumption DEF Unit

\* What a task that fits says of its unit.
LEMMA TaskUnit ==
  ASSUME NEW s, TaskFits(s)
  PROVE  /\ s.gen \in Nat
         /\ s.unit \in Unit \union {NoUnit}
         /\ s.unit \in Unit <=> s.pc \in {"copied", "pushing", "dropping"}
         /\ s.unit # NoUnit => s.unit \in Unit
BY NoUnitAssumption DEF TaskFits, TaskState

LEMMA CallUnit ==
  ASSUME NEW s, CallFits(s)
  PROVE  /\ s.unit \in Unit \union {NoUnit}
         /\ s.unit # NoUnit => s.unit \in Unit
         /\ s.pc \in {"discarding", "trying"} => s.unit \in Unit
         /\ s.pc \in {"idle", "fallback", "overlay", "fallback-copy", "copy"} => s.unit = NoUnit
BY NoUnitAssumption DEF CallFits, CallState

\* Taking and adding a unit.
LEMMA PoppedUnit ==
  ASSUME Typed, Pop
  PROVE  /\ Popped \in Unit /\ Len(ready) \in Nat \ {0}
         /\ ready' \in Seq(Unit) /\ Len(ready') = Len(ready) - 1
         /\ \A k \in DOMAIN ready' : k \in DOMAIN ready \ {Len(ready)} /\ ready'[k] = ready[k]
<1>1. ready \in Seq(Unit) /\ ready # <<>>
  BY DEF Typed, ReadyTyped, Pop
<1>2. Len(ready) \in Nat \ {0} /\ DOMAIN ready = 1 .. Len(ready)
  BY <1>1
<1>3. Popped \in Unit
  BY <1>1, <1>2 DEF Popped
<1>4. ready' = SubSeq(ready, 1, Len(ready) - 1)
  BY DEF Pop
<1>5. ready' \in Seq(Unit) /\ Len(ready') = Len(ready) - 1
  BY <1>1, <1>2, <1>4
<1>6. DOMAIN ready' = 1 .. Len(ready) - 1
  BY <1>5
<1>7. \A k \in 1 .. Len(ready) - 1 : ready'[k] = ready[k]
  BY <1>1, <1>2, <1>4
<1> QED BY <1>2, <1>3, <1>5, <1>6, <1>7

-----------------------------------------------------------------------------
(* Type correctness *)

LEMMA TypedInit == Init => Typed
<1> SUFFICES ASSUME Init PROVE Typed
  OBVIOUS
<1>1. DiskTyped
  <2>1. \A f \in File : [made |-> 0, at |-> f, time |-> 0] \in Content
    BY BoundsAssumption DEF Content
  <2> QED BY <2>1, BoundsAssumption DEF Init, DiskTyped, Tree
<1>2. ReadyTyped
  BY SizeAssumption DEF Init, ReadyTyped
<1>3. TasksTyped
  BY IdleFits DEF Init, TasksTyped, TaskFits
<1>4. CallsTyped
  BY IdleFits DEF Init, CallsTyped, CallFits
<1>5. InvalidationsTyped
  BY IdleFits DEF Init, InvalidationsTyped, InvalidationFits
<1>6. ReaperTyped /\ RunningTyped /\ generation \in Nat
  BY DEF Init, ReaperTyped, RunningTyped
<1> QED BY <1>1, <1>2, <1>3, <1>4, <1>5, <1>6 DEF Typed

\* An edit makes a tree of what was there and at most one content, that is made
\* now and has any time until now.
LEMMA EditedTree ==
  ASSUME DiskTyped, NEW f \in File, Edit(f)
  PROVE  /\ workspace' \in Tree /\ edits \in Nat /\ edits' = edits + 1 /\ edits' \in 0 .. MaxEdits
         /\ UNCHANGED <<pool, tasks, invalidations, calls, reaper, running, strays, spent>>
         /\ \/ \E time \in 0 .. edits + 1 : \A g \in File :
                 workspace'[g] = IF g = f THEN [made |-> edits + 1, at |-> f, time |-> time]
                                 ELSE workspace[g]
            \/ \A g \in File : workspace'[g] = IF g = f THEN Absent ELSE workspace[g]
            \/ \E h \in File \ {f} : \A g \in File :
                 workspace'[g] = IF g = f THEN Absent
                                 ELSE IF g = h THEN workspace[f] ELSE workspace[g]
<1>1. workspace \in Tree /\ edits \in Nat /\ edits \in 0 .. MaxEdits
  BY BoundsAssumption DEF DiskTyped
<1>2. ASSUME NEW tree, Becomes(tree)
      PROVE  /\ workspace' = tree /\ edits' = edits + 1 /\ edits' \in 0 .. MaxEdits
             /\ UNCHANGED <<pool, tasks, invalidations, calls, reaper, running, strays, spent>>
  BY <1>1, <1>2, BoundsAssumption DEF Becomes
<1>3. ASSUME NEW time \in 0 .. edits + 1, Put(f, time)
      PROVE  /\ workspace' \in Tree
             /\ \A g \in File :
                  workspace'[g] = IF g = f THEN [made |-> edits + 1, at |-> f, time |-> time]
                                  ELSE workspace[g]
  <2> DEFINE new == [made |-> edits + 1, at |-> f, time |-> time]
  <2>1. Becomes([workspace EXCEPT ![f] = new])
    BY <1>3 DEF Put
  <2>2. workspace' = [workspace EXCEPT ![f] = new] /\ edits + 1 \in 0 .. MaxEdits
    BY <1>2, <2>1
  <2>3. new \in Content
    BY <1>1, <2>2, BoundsAssumption DEF Content
  <2> HIDE DEF new
  <2>4. workspace' \in Tree /\ \A g \in File : workspace'[g] = IF g = f THEN new ELSE workspace[g]
    BY <1>1, <2>2, <2>3 DEF Tree
  <2> QED BY <2>4 DEF new
<1>4. ASSUME Remove(f)
      PROVE  /\ workspace' \in Tree
             /\ \A g \in File : workspace'[g] = IF g = f THEN Absent ELSE workspace[g]
  <2>1. Becomes([workspace EXCEPT ![f] = Absent])
    BY <1>4 DEF Remove
  <2>2. workspace' = [workspace EXCEPT ![f] = Absent]
    BY <1>2, <2>1
  <2> QED BY <1>1, <2>2 DEF Tree
<1>5. ASSUME NEW h \in File, Rename(f, h)
      PROVE  /\ workspace' \in Tree /\ h # f
             /\ \A g \in File :
                  workspace'[g] = IF g = f THEN Absent
                                  ELSE IF g = h THEN workspace[f] ELSE workspace[g]
  <2>1. h # f /\ Becomes([workspace EXCEPT ![f] = Absent, ![h] = workspace[f]])
    BY <1>5 DEF Rename
  <2>2. workspace' = [workspace EXCEPT ![f] = Absent, ![h] = workspace[f]]
    BY <1>2, <2>1
  <2> QED BY <1>1, <2>1, <2>2 DEF Tree
<1>6. \E tree : Becomes(tree)
  BY DEF Edit, Put, Remove, Rename
<1> QED BY <1>1, <1>2, <1>3, <1>4, <1>5, <1>6 DEF Edit

\* What a step leaves alone keeps its type.
LEMMA TypedFrames ==
  ASSUME Typed
  PROVE  /\ UNCHANGED disk => DiskTyped'
         /\ UNCHANGED ready => ReadyTyped'
         /\ UNCHANGED tasks => TasksTyped'
         /\ UNCHANGED calls => CallsTyped'
         /\ UNCHANGED invalidations => InvalidationsTyped'
         /\ UNCHANGED reaper => ReaperTyped'
         /\ UNCHANGED <<running, strays>> => RunningTyped'
BY DEF Typed, disk, DiskTyped, ReadyTyped, TasksTyped, CallsTyped, InvalidationsTyped,
       ReaperTyped, RunningTyped

\* A task, a call or an invalidation whose record is replaced by one that fits.
LEMMA TypedReplacements ==
  ASSUME Typed
  PROVE  /\ \A t \in Task : \A s : TaskFits(s) /\ tasks' = [tasks EXCEPT ![t] = s] => TasksTyped'
         /\ \A c \in Call : \A s : CallFits(s) /\ calls' = [calls EXCEPT ![c] = s] => CallsTyped'
         /\ \A v \in Invalidation : \A s :
              InvalidationFits(s) /\ invalidations' = [invalidations EXCEPT ![v] = s]
                => InvalidationsTyped'
         /\ tasks' \in Spawned(tasks) => TasksTyped'
<1>1. ASSUME NEW t \in Task, NEW s, TaskFits(s), tasks' = [tasks EXCEPT ![t] = s]
      PROVE  TasksTyped'
  BY <1>1, TaskReplaced DEF Typed, TasksTyped
<1>2. ASSUME NEW c \in Call, NEW s, CallFits(s), calls' = [calls EXCEPT ![c] = s]
      PROVE  CallsTyped'
  BY <1>2, CallReplaced DEF Typed, CallsTyped
<1>3. ASSUME NEW v \in Invalidation, NEW s, InvalidationFits(s),
             invalidations' = [invalidations EXCEPT ![v] = s]
      PROVE  InvalidationsTyped'
  BY <1>3, InvalidationReplaced DEF Typed, InvalidationsTyped
<1>4. ASSUME tasks' \in Spawned(tasks) PROVE TasksTyped'
  BY <1>4, SpawnedTasks DEF Typed, TasksTyped
<1> QED BY <1>1, <1>2, <1>3, <1>4

\* Replenishing keeps the types (schedule_replenish).
LEMMA TypedReplenish ==
  ASSUME Typed, NEW t \in Task, Replenish(t)
  PROVE  Typed'
<1>1. /\ tasks \in [Task -> TaskState] /\ TaskFits(tasks[t]) /\ workspace \in Tree
      /\ generation \in Nat /\ ready \in Seq(Unit)
  BY DEF Typed, TasksTyped, DiskTyped, ReadyTyped
<1>2. CASE Look(t)
  <2> DEFINE s == IF Len(ready) >= PoolSize THEN IdleTask
                  ELSE [IdleTask EXCEPT !.pc = "copying", !.gen = generation]
  <2>1. TaskFits(s)
    BY <1>1, IdleFits
  <2>2. tasks' = [tasks EXCEPT ![t] = s]
    BY <1>2 DEF Look
  <2> HIDE DEF s
  <2> QED BY <1>2, <2>1, <2>2, TypedFrames, TypedReplacements DEF Look, Typed, pool
<1>3. CASE CopyWorkspace(t)
  <2>1. PICK container \in Unused :
          tasks' = [tasks EXCEPT ![t].pc = "copied", ![t].unit =
            [container |-> container, files |-> workspace,
             workspace |-> Fingerprint(workspace), gen |-> generation, seen |-> workspace]]
    BY <1>3 DEF CopyWorkspace
  <2> DEFINE u == [container |-> container, files |-> workspace,
                   workspace |-> Fingerprint(workspace), gen |-> generation, seen |-> workspace]
             s == [tasks[t] EXCEPT !.pc = "copied", !.unit = u]
  <2>2. u \in Unit
    BY <1>1, FingerprintType, UnitParts DEF Unused
  <2>3. tasks' = [tasks EXCEPT ![t] = s]
    BY <2>1
  <2> HIDE DEF u
  <2>4. TaskFits(s)
    BY <1>1, <2>2, UnitParts DEF TaskFits, TaskState
  <2> HIDE DEF s
  <2> QED BY <1>3, <2>3, <2>4, TypedFrames, TypedReplacements DEF CopyWorkspace, Typed, pool
<1>4. CASE RunContainer(t)
  <2> DEFINE u == [tasks[t].unit EXCEPT !.workspace = Fingerprint(workspace), !.seen = workspace]
             s == [tasks[t] EXCEPT !.pc = "pushing", !.unit = u]
  <2>1. tasks[t].unit \in Unit
    BY <1>1, <1>4, TaskUnit DEF RunContainer
  <2>2. u \in Unit
    BY <1>1, <2>1, FingerprintType, UnitParts
  <2>3. tasks' = [tasks EXCEPT ![t] = s]
    BY <1>1, <1>4 DEF RunContainer, TaskFits, TaskState
  <2> HIDE DEF u
  <2>4. TaskFits(s)
    BY <1>1, <2>2, UnitParts DEF TaskFits, TaskState
  <2> HIDE DEF s
  <2>5. RunningTyped'
    BY <1>4, <2>1, UnitParts DEF RunContainer, Typed, RunningTyped
  <2> QED BY <1>4, <2>3, <2>4, <2>5, TypedFrames, TypedReplacements DEF RunContainer, Typed, pool
<1>5. CASE GiveUp(t)
  <2>1. RunningTyped'
    <3>1. tasks[t].pc = "copied" => tasks[t].unit.container \in Container
      BY <1>1, TaskUnit, UnitParts
    <3> QED BY <1>5, <3>1 DEF GiveUp, Typed, RunningTyped
  <2> QED BY <1>5, <2>1, IdleFits, TypedFrames, TypedReplacements DEF GiveUp, Typed, pool
<1>6. CASE Push(t)
  <2>1. tasks[t].unit \in Unit
    BY <1>1, <1>6, TaskUnit DEF Push
  <2>2. ReadyTyped'
    BY <1>1, <1>6, <2>1, SizeAssumption DEF Push, Accepts, ReadyTyped
  <2> QED BY <1>6, <2>2, IdleFits, TypedFrames, TypedReplacements
          DEF Push, PushFrame, LooksAgain, Typed
<1>7. CASE DropUnwanted(t)
  <2> DEFINE s == [tasks[t] EXCEPT !.pc = "dropping"]
  <2>1. TaskFits(s)
    BY <1>1, <1>7 DEF DropUnwanted, TaskFits, TaskState
  <2>2. tasks' = [tasks EXCEPT ![t] = s]
    BY <1>7 DEF DropUnwanted
  <2> HIDE DEF s
  <2> QED BY <1>7, <2>1, <2>2, TypedFrames, TypedReplacements DEF DropUnwanted, PushFrame, Typed
<1>8. CASE Dropped(t)
  <2>1. RunningTyped'
    BY <1>8 DEF Dropped, Typed, RunningTyped
  <2> QED BY <1>8, <2>1, IdleFits, TypedFrames, TypedReplacements
          DEF Dropped, LooksAgain, Typed, pool
<1> QED BY <1>2, <1>3, <1>4, <1>5, <1>6, <1>7, <1>8 DEF Replenish

\* So does invalidating (invalidate_pool).
LEMMA TypedInvalidate ==
  ASSUME Typed, NEW v \in Invalidation, Invalidate(v) \/ InvalidatePool(v)
  PROVE  Typed'
<1>1. /\ invalidations \in [Invalidation -> InvalidationState]
      /\ InvalidationFits(invalidations[v])
      /\ generation \in Nat /\ ready \in Seq(Unit)
  BY DEF Typed, InvalidationsTyped, ReadyTyped
<1>2. CASE Invalidate(v)
  <2> DEFINE s == [invalidations[v] EXCEPT !.pc = "waiting"]
  <2>1. InvalidationFits(s)
    BY <1>1, <1>2 DEF Invalidate, InvalidationFits, InvalidationState
  <2>2. invalidations' = [invalidations EXCEPT ![v] = s]
    BY <1>2 DEF Invalidate
  <2> HIDE DEF s
  <2> QED BY <1>2, <2>1, <2>2, TypedFrames, TypedReplacements DEF Invalidate, Typed, pool
<1>3. CASE TakeAll(v)
  <2> DEFINE s == [pc |-> "destroying", units |-> {ready[k] : k \in DOMAIN ready}]
  <2>1. InvalidationFits(s)
    BY <1>1 DEF InvalidationFits, InvalidationState
  <2>2. invalidations' = [invalidations EXCEPT ![v] = s]
    BY <1>3 DEF TakeAll
  <2> HIDE DEF s
  <2>3. ReadyTyped' /\ generation' \in Nat
    BY <1>1, <1>3, SizeAssumption DEF TakeAll, ReadyTyped
  <2> QED BY <1>3, <2>1, <2>2, <2>3, TypedFrames, TypedReplacements DEF TakeAll, Typed
<1>4. CASE DestroyTaken(v)
  <2>1. PICK u \in invalidations[v].units :
          /\ running' = running \ {u.container}
          /\ invalidations' = [invalidations EXCEPT ![v].units = @ \ {u}]
    BY <1>4 DEF DestroyTaken
  <2> DEFINE s == [invalidations[v] EXCEPT !.units = @ \ {u}]
  <2>2. InvalidationFits(s)
    BY <1>1 DEF InvalidationFits, InvalidationState
  <2>3. invalidations' = [invalidations EXCEPT ![v] = s]
    BY <2>1
  <2> HIDE DEF s
  <2>4. RunningTyped'
    BY <1>4, <2>1 DEF DestroyTaken, Typed, RunningTyped
  <2> QED BY <1>4, <2>2, <2>3, <2>4, TypedFrames, TypedReplacements DEF DestroyTaken, Typed, pool
<1>5. CASE Invalidated(v)
  BY <1>5, IdleFits, TypedFrames, TypedReplacements DEF Invalidated, Typed, pool
<1> QED BY <1>2, <1>3, <1>4, <1>5 DEF InvalidatePool

\* So do taking a unit, and what is done with it (speculate_inner).
LEMMA TypedSpeculate ==
  ASSUME Typed, NEW c \in Call, Speculate(c)
  PROVE  Typed'
<1>1. ASSUME NEW pc \in {"fallback", "trying", "discarding"}, NEW u, BeginCall(c, pc, u),
             u = NoUnit <=> pc = "fallback", u \in Unit \union {NoUnit}
      PROVE  CallsTyped'
  <2> DEFINE s == [IdleCall EXCEPT !.pc = pc, !.unit = u]
  <2>1. CallFits(s)
    BY <1>1 DEF CallFits, CallState, IdleCall
  <2>2. calls' = [calls EXCEPT ![c] = s]
    BY <1>1 DEF BeginCall
  <2> HIDE DEF s
  <2> QED BY <2>1, <2>2, TypedReplacements
<1>2. CASE SpeculateWithout(c)
  <2>1. CallsTyped'
    BY <1>1, <1>2 DEF SpeculateWithout
  <2> QED BY <1>2, <2>1, TypedFrames, TypedReplacements DEF SpeculateWithout, BeginCall, Typed
<1>3. ASSUME Pop PROVE Popped \in Unit /\ Popped # NoUnit /\ ReadyTyped'
  <2>1. Popped \in Unit /\ Popped # NoUnit
    BY <1>3, PoppedUnit, UnitParts
  <2>2. /\ ready' \in Seq(Unit) /\ Len(ready') = Len(ready) - 1
        /\ Len(ready) \in Nat /\ Len(ready) <= PoolSize
    BY <1>3, PoppedUnit DEF ReadyTyped, Typed
  <2> QED BY <2>1, <2>2, SizeAssumption DEF ReadyTyped
<1>4. CASE SpeculatePooled(c)
  <2>1. CallsTyped'
    BY <1>1, <1>3, <1>4 DEF SpeculatePooled
  <2> QED BY <1>3, <1>4, <2>1, TypedFrames, TypedReplacements DEF SpeculatePooled, BeginCall, Typed
<1>5. CASE SpeculateStale(c)
  <2>1. CallsTyped'
    BY <1>1, <1>3, <1>5 DEF SpeculateStale
  <2> QED BY <1>3, <1>5, <2>1, TypedFrames, TypedReplacements DEF SpeculateStale, BeginCall, Typed
<1> QED BY <1>2, <1>4, <1>5 DEF Speculate

LEMMA TypedSettle ==
  ASSUME Typed, NEW c \in Call, Settle(c)
  PROVE  Typed'
<1>1. calls \in [Call -> CallState] /\ CallFits(calls[c])
  BY DEF Typed, CallsTyped
<1>2. ASSUME running' \subseteq running, UNCHANGED strays PROVE RunningTyped'
  BY <1>2 DEF Typed, RunningTyped
<1>3. ASSUME NEW outcome \in {"effects", "opaque", "twin-timeout"}, NEW ran \in BOOLEAN,
             Concludes(c, outcome, ran)
      PROVE  CallsTyped'
  <2> DEFINE s == [calls[c] EXCEPT !.pc = "destroying", !.own = {},
                                   !.outcome = outcome, !.ran = ran]
  <2>1. CallFits(s)
    BY <1>1 DEF CallFits, CallState
  <2>2. calls' = [calls EXCEPT ![c] = s]
    BY <1>3 DEF Concludes
  <2> HIDE DEF s
  <2> QED BY <2>1, <2>2, TypedReplacements
<1>4. CASE Discard(c)
  <2> DEFINE s == [calls[c] EXCEPT !.pc = "fallback", !.unit = NoUnit]
  <2>1. CallFits(s)
    BY <1>1, <1>4 DEF Discard, CallFits, CallState
  <2>2. calls' = [calls EXCEPT ![c] = s]
    BY <1>4 DEF Discard
  <2> HIDE DEF s
  <2> QED BY <1>2, <1>4, <2>1, <2>2, TypedFrames, TypedReplacements DEF Discard, Typed, pool
<1>5. CASE Try(c)
  <2>1. CallsTyped'
    <3>1. \A ran \in {FALSE, calls[c].unit.container \in running} : ran \in BOOLEAN
      <4> DEFINE lives == calls[c].unit.container \in running
      <4>1. lives \in BOOLEAN
        OBVIOUS
      <4> HIDE DEF lives
      <4>2. \A ran \in {FALSE, lives} : ran \in BOOLEAN
        BY <4>1
      <4> QED BY <4>2, Zenon DEF lives
    <3>2. ASSUME NEW ran \in {FALSE, calls[c].unit.container \in running},
                 Concludes(c, "effects", ran)
          PROVE  CallsTyped'
      <4>1. ran \in BOOLEAN
        BY <3>1
      <4>2. "effects" \in {"effects", "opaque", "twin-timeout"}
        OBVIOUS
      <4> QED BY <1>3, <3>2, <4>1, <4>2, Zenon
    <3>3. CASE Concludes(c, "opaque", FALSE)
      BY <1>3, <3>3
    <3> QED BY <1>5, <3>2, <3>3, Zenon DEF Try
  <2> QED BY <1>5, <2>1, TypedFrames DEF Try, Typed, pool
<1>6. CASE TryTooLong(c)
  <2>1. CallsTyped'
    BY <1>3, <1>6 DEF TryTooLong
  <2> QED BY <1>2, <1>6, <2>1, TypedFrames DEF TryTooLong, Typed, pool
<1>7. CASE RunFallback(c)
  <2>1. ASSUME NEW container \in Unused, running' = running \union {container},
               calls' = [calls EXCEPT ![c].own = {container},
                 ![c].pc = IF calls[c].pc = "fallback" THEN "overlay" ELSE "copy"]
        PROVE  CallsTyped' /\ RunningTyped'
    <3> DEFINE pc == IF calls[c].pc = "fallback" THEN "overlay" ELSE "copy"
               s == [calls[c] EXCEPT !.own = {container}, !.pc = pc]
    <3>1. pc \in {"overlay", "copy"} /\ container \in Container
      BY <2>1 DEF Unused
    <3>2. calls' = [calls EXCEPT ![c] = s]
      BY <2>1
    <3> HIDE DEF pc
    <3>3. CallFits(s)
      BY <1>1, <1>7, <3>1 DEF RunFallback, CallFits, CallState
    <3> HIDE DEF s
    <3>4. UNCHANGED strays
      BY <1>7 DEF RunFallback
    <3> QED BY <2>1, <3>1, <3>2, <3>3, <3>4, TypedReplacements DEF Typed, RunningTyped
  <2>2. ASSUME Concludes(c, "opaque", FALSE), UNCHANGED running
        PROVE  CallsTyped' /\ RunningTyped'
    BY <1>2, <1>3, <1>7, <2>2 DEF RunFallback
  <2>3. CallsTyped' /\ RunningTyped'
    BY <1>7, <2>1, <2>2, Zenon DEF RunFallback
  <2> QED BY <1>7, <2>3, TypedFrames DEF RunFallback, Typed, pool
<1>8. CASE FallbackEnds(c)
  <2>1. ASSUME NEW ran \in {FALSE, calls[c].own \subseteq running}, Concludes(c, "effects", ran)
        PROVE  CallsTyped'
    <3> DEFINE lives == calls[c].own \subseteq running
    <3>1. lives \in BOOLEAN
      OBVIOUS
    <3> HIDE DEF lives
    <3>2. \A r \in {FALSE, lives} : r \in BOOLEAN
      BY <3>1
    <3>3. ran \in BOOLEAN
      BY <3>2, Zenon DEF lives
    <3>4. "effects" \in {"effects", "opaque", "twin-timeout"}
      OBVIOUS
    <3> QED BY <1>3, <2>1, <3>3, <3>4, Zenon
  <2>2. ASSUME Concludes(c, "opaque", FALSE) PROVE CallsTyped'
    BY <1>3, <2>2
  <2>3. ASSUME calls' = [calls EXCEPT ![c].pc = "fallback-copy", ![c].own = {}]
        PROVE  CallsTyped'
    <3> DEFINE s == [calls[c] EXCEPT !.pc = "fallback-copy", !.own = {}]
    <3>1. CallFits(s)
      BY <1>1, <1>8 DEF FallbackEnds, CallFits, CallState
    <3>2. calls' = [calls EXCEPT ![c] = s]
      BY <2>3
    <3> HIDE DEF s
    <3> QED BY <3>1, <3>2, TypedReplacements
  <2>4. CallsTyped'
    BY <1>8, <2>1, <2>2, <2>3, Zenon DEF FallbackEnds
  <2>5. running' \subseteq running /\ UNCHANGED strays
    BY <1>8 DEF FallbackEnds
  <2> QED BY <1>2, <1>8, <2>4, <2>5, TypedFrames DEF FallbackEnds, Typed, pool
<1>10. CASE FallbackTooLong(c)
  <2>1. CallsTyped'
    BY <1>3, <1>10 DEF FallbackTooLong
  <2>2. calls[c].own \subseteq Container
    BY <1>1 DEF CallState
  <2>3. RunningTyped'
    BY <1>10, <2>2 DEF FallbackTooLong, Typed, RunningTyped
  <2> QED BY <1>10, <2>1, <2>3, TypedFrames DEF FallbackTooLong, Typed, pool
<1>9. CASE Destroy(c)
  <2>1. CallsTyped'
    BY <1>9, IdleFits, TypedReplacements DEF Destroy
  <2>2. running' \subseteq running
    BY <1>9 DEF Destroy
  <2> QED BY <1>2, <1>9, <2>1, <2>2, TypedFrames DEF Destroy, Typed, pool
<1> QED BY <1>4, <1>5, <1>6, <1>7, <1>8, <1>9, <1>10 DEF Settle

LEMMA TypedStep ==
  ASSUME Typed, [Next]_vars
  PROVE  Typed'
<1>1. ASSUME NEW f \in File, Edit(f) PROVE Typed'
  <2>1. DiskTyped'
    BY <1>1, EditedTree DEF Typed, DiskTyped
  <2>2. UNCHANGED <<pool, tasks, invalidations, calls, reaper, running, strays, spent>>
    BY <1>1, EditedTree DEF Typed
  <2> QED BY <2>1, <2>2, TypedFrames DEF Typed, pool
<1>2. CASE Reap
  <2>1. CASE ListContainers
    <3>1. ReaperTyped'
      BY <2>1 DEF ListContainers, Typed, ReaperTyped, RunningTyped
    <3> QED BY <2>1, <3>1, TypedFrames DEF ListContainers, Typed, pool
  <2>2. CASE KillContainer
    <3>1. ReaperTyped' /\ RunningTyped'
      BY <2>2 DEF KillContainer, Typed, ReaperTyped, RunningTyped
    <3> QED BY <2>2, <3>1, TypedFrames DEF KillContainer, Typed, pool
  <2>3. CASE Started
    <3>1. ReaperTyped'
      BY <2>3 DEF Started, Typed, ReaperTyped
    <3> QED BY <2>3, <3>1, TypedFrames, TypedReplacements DEF Started, Typed, pool
  <2> QED BY <1>2, <2>1, <2>2, <2>3 DEF Reap
<1>3. CASE Crash
  <2>1. TasksTyped' /\ CallsTyped' /\ InvalidationsTyped'
    BY <1>3, IdleFits DEF Crash, TasksTyped, CallsTyped, InvalidationsTyped, TaskFits, CallFits,
                          InvalidationFits
  <2>2. ReadyTyped' /\ ReaperTyped' /\ RunningTyped' /\ generation' \in Nat
    BY <1>3, SizeAssumption DEF Crash, ReadyTyped, ReaperTyped, RunningTyped, Typed
  <2> QED BY <1>3, <2>1, <2>2, TypedFrames DEF Crash, Typed
<1>4. CASE UNCHANGED vars
  BY <1>4, TypedFrames DEF vars, disk, pool, Typed
<1> QED BY <1>1, <1>2, <1>3, <1>4, TypedReplenish, TypedSpeculate, TypedSettle, TypedInvalidate
        DEF Next

LEMMA TypedAlways == Spec => []Typed
BY TypedInit, TypedStep, PTL DEF Spec

\* The pool never holds more than its size, however many tasks replenish it, and
\* its tasks, calls and invalidations are where the code can be.
THEOREM TypeCorrect == Spec => []TypeOK
<1>1. Typed => TypeOK
  BY DEF Typed, TypeOK, DiskTyped, ReadyTyped, TasksTyped, CallsTyped, InvalidationsTyped,
         ReaperTyped, RunningTyped
<1> QED BY <1>1, TypedAlways, PTL

-----------------------------------------------------------------------------
(* How units move *)

\* In a step, a task keeps its unit or is without one afterwards; so is a call.
TaskKeeps(t) ==
  /\ tasks'[t].unit = tasks[t].unit /\ tasks'[t].gen = tasks[t].gen
  /\ tasks'[t].pc = "copied" => tasks[t].pc = "copied"

TaskLets(t) == tasks'[t].unit = NoUnit /\ tasks'[t].gen \in {0, generation}

CallKeeps(c) == calls'[c].unit = calls[c].unit /\ calls'[c].own = calls[c].own
CallLets(c) == calls'[c].unit = NoUnit

NoUnitTaken ==
  /\ \A t \in Task : TaskKeeps(t) \/ TaskLets(t)
  /\ \A c \in Call : CallKeeps(c) \/ CallLets(c)

\* Nothing new comes in, and only an invalidation begins a generation.
Dwindles ==
  /\ NoUnitTaken /\ UNCHANGED disk
  /\ \/ ready' = ready /\ generation' = generation
     \/ ready' = <<>> /\ generation' = generation + 1

\* A task puts its unit into the pool; a call takes one out.
Pushes(t) ==
  /\ Accepts(tasks[t]) /\ tasks[t].unit \in Unit
  /\ ready' = Append(ready, tasks[t].unit)
  /\ tasks'[t].unit = NoUnit /\ tasks'[t].gen = 0
  /\ \A r \in Task \ {t} : TaskKeeps(r)
  /\ UNCHANGED <<disk, generation, calls>>

Takes(c) ==
  /\ Pop
  /\ calls'[c].unit = Popped /\ calls[c].unit = NoUnit
  /\ \A d \in Call \ {c} : CallKeeps(d)
  /\ \A t \in Task : TaskKeeps(t) \/ TaskLets(t)
  /\ UNCHANGED <<disk, generation>>

LEMMA OneTask ==
  ASSUME Typed, NEW t \in Task, NEW s, tasks' = [tasks EXCEPT ![t] = s]
  PROVE  tasks'[t] = s /\ \A r \in Task \ {t} : tasks'[r] = tasks[r] /\ TaskKeeps(r)
BY DEF Typed, TasksTyped, TaskKeeps

LEMMA OneCall ==
  ASSUME Typed, NEW c \in Call, NEW s, calls' = [calls EXCEPT ![c] = s]
  PROVE  calls'[c] = s /\ \A d \in Call \ {c} : calls'[d] = calls[d] /\ CallKeeps(d)
BY DEF Typed, CallsTyped, CallKeeps

\* A task that ends, looks or is spawned holds nothing.
LEMMA TasksLet ==
  ASSUME Typed
  PROVE  /\ UNCHANGED tasks => \A r \in Task : TaskKeeps(r)
         /\ tasks' \in Spawned(tasks) => \A r \in Task : TaskKeeps(r) \/ TaskLets(r)
         /\ \A t \in Task : \A n \in {0, generation} : \A s :
              /\ s.unit = NoUnit /\ s.gen = n
              /\ tasks' = [tasks EXCEPT ![t] = s]
              => \A r \in Task : TaskKeeps(r) \/ TaskLets(r)
<1>1. UNCHANGED tasks => \A r \in Task : TaskKeeps(r)
  BY DEF TaskKeeps
<1>2. ASSUME tasks' \in Spawned(tasks), NEW r \in Task PROVE TaskKeeps(r) \/ TaskLets(r)
  <2>1. tasks'[r] = tasks[r] \/ (tasks'[r].unit = NoUnit /\ tasks'[r].gen = 0)
    BY <1>2, SpawnedTasks DEF Typed, TasksTyped
  <2> QED BY <2>1 DEF TaskKeeps, TaskLets
<1>3. ASSUME NEW t \in Task, NEW n \in {0, generation}, NEW s,
             s.unit = NoUnit, s.gen = n, tasks' = [tasks EXCEPT ![t] = s], NEW r \in Task
      PROVE  TaskKeeps(r) \/ TaskLets(r)
  BY <1>3, OneTask DEF TaskLets
<1> QED BY <1>1, <1>2, <1>3

LEMMA IdleRecords ==
  /\ IdleTask.unit = NoUnit /\ IdleTask.gen = 0 /\ IdleTask.pc = "idle"
  /\ LET s == [IdleTask EXCEPT !.pc = "looking"]
     IN  s.unit = NoUnit /\ s.gen = 0 /\ s.pc = "looking"
  /\ \A n : LET s == [IdleTask EXCEPT !.pc = "copying", !.gen = n]
            IN  s.unit = NoUnit /\ s.gen = n /\ s.pc = "copying"
  /\ IdleCall.unit = NoUnit
BY DEF IdleTask, IdleCall

\* Replenishing: a unit is begun, made, pushed or let go.
LEMMA ReplenishMoves ==
  ASSUME Typed, NEW t \in Task, Replenish(t)
  PROVE  CopyWorkspace(t) \/ RunContainer(t) \/ Pushes(t) \/ Dwindles
<1>1. UNCHANGED calls => \A c \in Call : CallKeeps(c)
  BY DEF CallKeeps
<1>2. CASE Look(t)
  <2> DEFINE s == IF Len(ready) >= PoolSize THEN IdleTask
                  ELSE [IdleTask EXCEPT !.pc = "copying", !.gen = generation]
  <2>1. s.unit = NoUnit /\ s.gen \in {0, generation}
    BY IdleRecords
  <2>2. tasks' = [tasks EXCEPT ![t] = s]
    BY <1>2 DEF Look
  <2> HIDE DEF s
  <2>3. \A r \in Task : TaskKeeps(r) \/ TaskLets(r)
    BY <2>1, <2>2, TasksLet
  <2> QED BY <1>1, <1>2, <2>3 DEF Look, Dwindles, NoUnitTaken, pool
<1>3. CASE GiveUp(t)
  <2>1. \A r \in Task : TaskKeeps(r) \/ TaskLets(r)
    BY <1>3, IdleRecords, TasksLet DEF GiveUp
  <2> QED BY <1>1, <1>3, <2>1 DEF GiveUp, Dwindles, NoUnitTaken, pool
<1>4. ASSUME LooksAgain(t)
      PROVE  /\ tasks'[t].unit = NoUnit /\ tasks'[t].gen = 0
             /\ \A r \in Task \ {t} : TaskKeeps(r)
  <2> DEFINE s == [IdleTask EXCEPT !.pc = "looking"]
  <2>1. s.unit = NoUnit /\ s.gen = 0
    BY IdleRecords
  <2>2. tasks' = [tasks EXCEPT ![t] = s]
    BY <1>4 DEF LooksAgain
  <2> HIDE DEF s
  <2> QED BY <2>1, <2>2, OneTask
<1>5. CASE Push(t)
  <2>1. tasks[t].unit \in Unit
    BY <1>5, TaskUnit DEF Push, Typed, TasksTyped
  <2> QED BY <1>4, <1>5, <2>1 DEF Push, PushFrame, Pushes
<1>6. CASE DropUnwanted(t)
  <2> DEFINE s == [tasks[t] EXCEPT !.pc = "dropping"]
  <2>1. s.unit = tasks[t].unit /\ s.gen = tasks[t].gen /\ s.pc # "copied"
    BY <1>6 DEF DropUnwanted, Typed, TasksTyped, TaskState
  <2>2. tasks' = [tasks EXCEPT ![t] = s]
    BY <1>6 DEF DropUnwanted
  <2> HIDE DEF s
  <2>3. \A r \in Task : TaskKeeps(r)
    BY <2>1, <2>2, OneTask DEF TaskKeeps
  <2> QED BY <1>1, <1>6, <2>3 DEF DropUnwanted, PushFrame, Dwindles, NoUnitTaken
<1>7. CASE Dropped(t)
  <2>1. \A r \in Task : TaskKeeps(r) \/ TaskLets(r)
    BY <1>4, <1>7 DEF Dropped, TaskLets
  <2> QED BY <1>1, <1>7, <2>1 DEF Dropped, Dwindles, NoUnitTaken, pool
<1> QED BY <1>2, <1>3, <1>5, <1>6, <1>7 DEF Replenish

\* A fallback changes its own call only, and takes no unit.
LEMMA FallbackCalls ==
  ASSUME Typed, NEW c \in Call, RunFallback(c) \/ FallbackEnds(c) \/ FallbackTooLong(c)
  PROVE  /\ calls'[c].unit = calls[c].unit
         /\ \A d \in Call \ {c} : CallKeeps(d)
         /\ calls'[c].own = {} \/ RunFallback(c)
<1>1. calls \in [Call -> CallState] /\ calls[c] \in CallState
  BY DEF Typed, CallsTyped
<1>2. ASSUME NEW pc, NEW own, NEW outcome, NEW ran,
             calls' = [calls EXCEPT ![c].pc = pc, ![c].own = own,
                                    ![c].outcome = outcome, ![c].ran = ran]
      PROVE  /\ calls'[c].unit = calls[c].unit /\ calls'[c].own = own
             /\ \A d \in Call \ {c} : CallKeeps(d)
  BY <1>1, <1>2 DEF CallState, CallKeeps
<1>3. ASSUME NEW pc, NEW own,
             \/ calls' = [calls EXCEPT ![c].pc = pc, ![c].own = own]
             \/ calls' = [calls EXCEPT ![c].own = own, ![c].pc = pc]
      PROVE  /\ calls'[c].unit = calls[c].unit /\ calls'[c].own = own
             /\ \A d \in Call \ {c} : CallKeeps(d)
  BY <1>1, <1>3 DEF CallState, CallKeeps
<1>4. ASSUME NEW outcome, NEW ran, Concludes(c, outcome, ran)
      PROVE  /\ calls'[c].unit = calls[c].unit /\ calls'[c].own = {}
             /\ \A d \in Call \ {c} : CallKeeps(d)
  BY <1>2, <1>4 DEF Concludes
<1>5. CASE RunFallback(c)
  BY <1>3, <1>4, <1>5 DEF RunFallback
<1>6. CASE FallbackEnds(c)
  BY <1>3, <1>4, <1>6 DEF FallbackEnds
<1>7. CASE FallbackTooLong(c)
  BY <1>4, <1>7 DEF FallbackTooLong
<1> QED BY <1>5, <1>6, <1>7

\* A call takes a unit out of the pool or falls back; then it lets it go.
LEMMA CallMoves ==
  ASSUME Typed, NEW c \in Call, Speculate(c) \/ Settle(c)
  PROVE  Takes(c) \/ Dwindles
<1>1. /\ UNCHANGED tasks => \A r \in Task : TaskKeeps(r) \/ TaskLets(r)
      /\ tasks' \in Spawned(tasks) => \A r \in Task : TaskKeeps(r) \/ TaskLets(r)
  BY TasksLet
<1>2. ASSUME NEW s, calls' = [calls EXCEPT ![c] = s],
             s.unit = NoUnit \/ (s.unit = calls[c].unit /\ s.own = calls[c].own)
      PROVE  \A d \in Call : CallKeeps(d) \/ CallLets(d)
  BY <1>2, OneCall DEF CallKeeps, CallLets
<1>3. ASSUME NEW pc, NEW u, BeginCall(c, pc, u)
      PROVE  /\ calls'[c].unit = u /\ calls[c].unit = NoUnit
             /\ \A d \in Call \ {c} : CallKeeps(d)
  <2> DEFINE s == [IdleCall EXCEPT !.pc = pc, !.unit = u]
  <2>1. s.unit = u
    BY DEF IdleCall
  <2>2. calls' = [calls EXCEPT ![c] = s]
    BY <1>3 DEF BeginCall
  <2>3. calls[c].unit = NoUnit
    BY <1>3 DEF BeginCall, Typed, CallsTyped, CallFits
  <2> HIDE DEF s
  <2> QED BY <2>1, <2>2, <2>3, OneCall
<1>4. CASE SpeculateWithout(c)
  <2>1. \A d \in Call : CallKeeps(d) \/ CallLets(d)
    BY <1>3, <1>4 DEF SpeculateWithout, CallLets
  <2> QED BY <1>1, <1>4, <2>1 DEF SpeculateWithout, BeginCall, Dwindles, NoUnitTaken
<1>5. CASE SpeculatePooled(c) \/ SpeculateStale(c)
  <2>1. PICK pc : BeginCall(c, pc, Popped)
    BY <1>5 DEF SpeculatePooled, SpeculateStale
  <2>2. \A r \in Task : TaskKeeps(r) \/ TaskLets(r)
    BY <1>1, <1>5 DEF SpeculatePooled, SpeculateStale
  <2> QED BY <1>3, <1>5, <2>1, <2>2 DEF SpeculatePooled, SpeculateStale, BeginCall, Takes
<1>6. ASSUME NEW outcome, NEW ran, Concludes(c, outcome, ran),
             calls[c].own = {} \/ calls[c].unit = NoUnit
      PROVE  \A d \in Call : CallKeeps(d) \/ CallLets(d)
  <2> DEFINE s == [calls[c] EXCEPT !.pc = "destroying", !.own = {},
                                   !.outcome = outcome, !.ran = ran]
  <2>1. s.unit = calls[c].unit /\ s.own = {}
    BY DEF Typed, CallsTyped, CallState
  <2>2. calls' = [calls EXCEPT ![c] = s]
    BY <1>6 DEF Concludes
  <2> HIDE DEF s
  <2> QED BY <1>2, <1>6, <2>1, <2>2
<1>7. CASE Discard(c)
  <2> DEFINE s == [calls[c] EXCEPT !.pc = "fallback", !.unit = NoUnit]
  <2>1. s.unit = NoUnit
    BY DEF Typed, CallsTyped, CallState
  <2>2. calls' = [calls EXCEPT ![c] = s]
    BY <1>7 DEF Discard
  <2> HIDE DEF s
  <2>3. \A d \in Call : CallKeeps(d) \/ CallLets(d)
    BY <1>2, <2>1, <2>2
  <2> QED BY <1>1, <1>7, <2>3 DEF Discard, Dwindles, NoUnitTaken, pool
<1>8. CASE Try(c) \/ TryTooLong(c)
  <2>1. calls[c].own = {}
    BY <1>8 DEF Try, TryTooLong, Typed, CallsTyped, CallFits
  <2>2. \A d \in Call : CallKeeps(d) \/ CallLets(d)
    BY <1>6, <1>8, <2>1 DEF Try, TryTooLong
  <2> QED BY <1>1, <1>8, <2>2 DEF Try, TryTooLong, Dwindles, NoUnitTaken, pool
<1>9. CASE RunFallback(c) \/ FallbackEnds(c) \/ FallbackTooLong(c)
  <2>1. calls[c].unit = NoUnit
    BY <1>9 DEF RunFallback, FallbackEnds, FallbackTooLong, Typed, CallsTyped, CallFits
  <2>2. \A d \in Call : CallKeeps(d) \/ CallLets(d)
    BY <2>1, <1>9, FallbackCalls DEF CallLets
  <2> QED BY <1>1, <1>9, <2>2
          DEF RunFallback, FallbackEnds, FallbackTooLong, Dwindles, NoUnitTaken, pool
<1>10. CASE Destroy(c)
  <2>1. \A d \in Call : CallKeeps(d) \/ CallLets(d)
    BY <1>2, <1>10, IdleRecords DEF Destroy
  <2> QED BY <1>1, <1>10, <2>1 DEF Destroy, Dwindles, NoUnitTaken, pool
<1> QED BY <1>4, <1>5, <1>7, <1>8, <1>9, <1>10 DEF Speculate, Settle

\* These are all the ways a step can move units.
LEMMA Moves ==
  ASSUME Typed, [Next]_vars
  PROVE  \/ \E f \in File : Edit(f)
         \/ \E t \in Task : CopyWorkspace(t) \/ RunContainer(t) \/ Pushes(t)
         \/ \E c \in Call : Takes(c)
         \/ Dwindles
         \/ Crash
<1>1. /\ UNCHANGED tasks => \A r \in Task : TaskKeeps(r) \/ TaskLets(r)
      /\ tasks' \in Spawned(tasks) => \A r \in Task : TaskKeeps(r) \/ TaskLets(r)
      /\ UNCHANGED calls => \A d \in Call : CallKeeps(d) \/ CallLets(d)
  BY TasksLet DEF CallKeeps
<1>2. ASSUME NEW v \in Invalidation, Invalidate(v) \/ InvalidatePool(v) PROVE Dwindles
  <2>1. CASE TakeAll(v)
    BY <1>1, <2>1 DEF TakeAll, Dwindles, NoUnitTaken
  <2>2. CASE Invalidate(v) \/ DestroyTaken(v) \/ Invalidated(v)
    BY <1>1, <2>2 DEF Invalidate, DestroyTaken, Invalidated, Dwindles, NoUnitTaken, pool
  <2> QED BY <1>2, <2>1, <2>2 DEF InvalidatePool
<1>3. CASE Reap
  BY <1>1, <1>3 DEF Reap, ListContainers, KillContainer, Started, Dwindles, NoUnitTaken, pool
<1>4. CASE UNCHANGED vars
  BY <1>1, <1>4 DEF vars, Dwindles, NoUnitTaken, disk, pool
<1> QED BY <1>2, <1>3, <1>4, ReplenishMoves, CallMoves DEF Next

\* A unit is begun in a container that nothing names or runs ...
LEMMA BegunUnit ==
  ASSUME Typed, NEW t \in Task, CopyWorkspace(t)
  PROVE  /\ tasks[t].unit = NoUnit
         /\ tasks'[t].unit \in Unit /\ tasks'[t].unit.container \in Unused
         /\ tasks'[t].unit.gen = generation /\ tasks'[t].gen = tasks[t].gen
         /\ tasks'[t].unit.workspace = Fingerprint(workspace)
         /\ tasks'[t].unit.seen = workspace
         /\ \A r \in Task \ {t} : TaskKeeps(r)
         /\ UNCHANGED <<disk, ready, generation, calls>>
<1>1. PICK container \in Unused :
        tasks' = [tasks EXCEPT ![t].pc = "copied", ![t].unit =
          [container |-> container, files |-> workspace,
           workspace |-> Fingerprint(workspace), gen |-> generation, seen |-> workspace]]
  BY DEF CopyWorkspace
<1> DEFINE u == [container |-> container, files |-> workspace,
                 workspace |-> Fingerprint(workspace), gen |-> generation, seen |-> workspace]
           s == [tasks[t] EXCEPT !.pc = "copied", !.unit = u]
<1>2. u \in Unit
  BY FingerprintType, UnitParts DEF Unused, Typed, DiskTyped
<1>3. /\ u.container = container /\ u.gen = generation
      /\ u.workspace = Fingerprint(workspace) /\ u.seen = workspace
  OBVIOUS
<1>4. tasks' = [tasks EXCEPT ![t] = s]
  BY <1>1
<1> HIDE DEF u
<1>5. tasks[t] \in TaskState /\ TaskFits(tasks[t])
  BY DEF Typed, TasksTyped
<1>6. s.unit = u /\ s.gen = tasks[t].gen
  BY <1>5 DEF TaskState
<1> HIDE DEF s
<1>7. tasks'[t] = s /\ \A r \in Task \ {t} : TaskKeeps(r)
  BY <1>4, OneTask
<1>8. tasks[t].unit = NoUnit
  BY <1>5 DEF TaskFits, CopyWorkspace
<1> QED BY <1>2, <1>3, <1>6, <1>7, <1>8 DEF CopyWorkspace, pool

\* ... and fingerprinted when its container is run.
LEMMA RunUnit ==
  ASSUME Typed, NEW t \in Task, RunContainer(t)
  PROVE  /\ tasks[t].unit \in Unit /\ tasks'[t].unit \in Unit
         /\ tasks'[t].unit.container = tasks[t].unit.container
         /\ tasks'[t].unit.gen = tasks[t].unit.gen /\ tasks'[t].gen = tasks[t].gen
         /\ tasks'[t].unit.workspace = Fingerprint(workspace)
         /\ tasks'[t].unit.seen = workspace
         /\ tasks'[t].pc = "pushing"
         /\ \A r \in Task \ {t} : TaskKeeps(r)
         /\ UNCHANGED <<disk, ready, generation, calls>>
<1> DEFINE u == [tasks[t].unit EXCEPT !.workspace = Fingerprint(workspace), !.seen = workspace]
           s == [tasks[t] EXCEPT !.pc = "pushing", !.unit = u]
<1>1. tasks[t] \in TaskState /\ TaskFits(tasks[t]) /\ workspace \in Tree
  BY DEF Typed, TasksTyped, DiskTyped
<1>2. tasks[t].unit \in Unit
  BY <1>1, TaskUnit DEF RunContainer
<1>3. u \in Unit
  BY <1>1, <1>2, FingerprintType, UnitParts
<1>4. /\ u.container = tasks[t].unit.container /\ u.gen = tasks[t].unit.gen
      /\ u.workspace = Fingerprint(workspace) /\ u.seen = workspace
  BY <1>2 DEF Unit
<1>5. tasks' = [tasks EXCEPT ![t] = s]
  BY <1>1 DEF RunContainer, TaskState
<1> HIDE DEF u
<1>6. s.unit = u /\ s.gen = tasks[t].gen /\ s.pc = "pushing"
  BY <1>1 DEF TaskState
<1> HIDE DEF s
<1>7. tasks'[t] = s /\ \A r \in Task \ {t} : TaskKeeps(r)
  BY <1>5, OneTask
<1> QED BY <1>2, <1>3, <1>4, <1>6, <1>7 DEF RunContainer, pool

-----------------------------------------------------------------------------
(* Generations *)

\* A unit is as old as its task at least, and neither is of a generation to come:
\* so when a push finds the task's generation standing, the unit is of it.
Generations ==
  /\ OneGeneration
  /\ \A t \in Task : tasks[t].gen <= generation
  /\ \A t \in Task : tasks[t].unit # NoUnit =>
       tasks[t].gen <= tasks[t].unit.gen /\ tasks[t].unit.gen <= generation

LEMMA GenerationsStep ==
  ASSUME Typed, Typed', Generations, [Next]_vars
  PROVE  Generations'
<1>1. /\ generation \in Nat /\ ready \in Seq(Unit)
      /\ \A t \in Task : tasks[t].gen \in Nat
      /\ \A t \in Task : tasks[t].unit # NoUnit => tasks[t].unit.gen \in Nat
  BY TaskUnit, UnitParts DEF Typed, ReadyTyped, TasksTyped
<1>2. ASSUME NEW n \in Nat, generation' = generation + n,
             \A t \in Task : TaskKeeps(t) \/ TaskLets(t)
      PROVE  /\ \A t \in Task : tasks'[t].gen <= generation'
             /\ \A t \in Task : tasks'[t].unit # NoUnit =>
                  tasks'[t].gen <= tasks'[t].unit.gen /\ tasks'[t].unit.gen <= generation'
  BY <1>1, <1>2 DEF TaskKeeps, TaskLets, Generations
<1>3. ASSUME NEW f \in File, Edit(f) PROVE Generations'
  <2>1. UNCHANGED <<pool, tasks, invalidations, calls, reaper, running, strays, spent>>
    BY <1>3, EditedTree DEF Typed
  <2>2. ready' = ready /\ generation' = generation /\ tasks' = tasks
    BY <2>1 DEF pool
  <2> QED BY <2>2 DEF Generations, OneGeneration
<1>4. CASE Dwindles
  <2>1. \A t \in Task : TaskKeeps(t) \/ TaskLets(t)
    BY <1>4 DEF Dwindles, NoUnitTaken
  <2>2. ASSUME NEW n \in Nat, generation' = generation + n, OneGeneration' PROVE Generations'
    BY <1>2, <2>1, <2>2 DEF Generations
  <2>3. ASSUME ready' = ready, generation' = generation PROVE Generations'
    <3>1. OneGeneration' /\ generation' = generation + 0
      BY <1>1, <2>3 DEF Generations, OneGeneration
    <3> QED BY <2>2, <3>1
  <2>4. ASSUME ready' = <<>>, generation' = generation + 1 PROVE Generations'
    BY <2>2, <2>4 DEF OneGeneration
  <2> QED BY <1>4, <2>3, <2>4 DEF Dwindles
<1>5. ASSUME NEW t \in Task, CopyWorkspace(t) \/ RunContainer(t) PROVE Generations'
  <2>1. /\ tasks'[t].gen = tasks[t].gen /\ tasks'[t].unit \in Unit
        /\ tasks'[t].unit.gen \in {generation, tasks[t].unit.gen}
        /\ tasks[t].unit = NoUnit => tasks'[t].unit.gen = generation
        /\ \A r \in Task \ {t} : TaskKeeps(r)
        /\ ready' = ready /\ generation' = generation
    BY <1>5, BegunUnit, RunUnit, UnitParts
  <2> QED BY <1>1, <2>1 DEF Generations, OneGeneration, TaskKeeps
<1>6. ASSUME NEW t \in Task, Pushes(t) PROVE Generations'
  <2>1. tasks[t].unit # NoUnit /\ tasks[t].gen = generation
    BY <1>6, UnitParts DEF Pushes, Accepts
  <2>2. tasks[t].unit.gen = generation
    BY <1>1, <2>1 DEF Generations
  <2>3. OneGeneration'
    <3>1. ASSUME NEW k \in DOMAIN ready' PROVE ready'[k].gen = generation
      <4>1. ready'[k] = tasks[t].unit \/ (k \in DOMAIN ready /\ ready'[k] = ready[k])
        BY <1>1, <1>6 DEF Pushes
      <4> QED BY <2>2, <4>1 DEF Generations, OneGeneration
    <3> QED BY <1>6, <3>1 DEF Pushes, OneGeneration
  <2> QED BY <1>1, <1>6, <2>3 DEF Pushes, Generations, TaskKeeps
<1>7. ASSUME NEW c \in Call, Takes(c) PROVE Generations'
  <2>1. \A k \in DOMAIN ready' : k \in DOMAIN ready /\ ready'[k] = ready[k]
    BY <1>7, PoppedUnit DEF Takes
  <2>2. OneGeneration'
    BY <1>7, <2>1 DEF Takes, Generations, OneGeneration
  <2> QED BY <1>1, <1>2, <1>7, <2>2 DEF Takes, Generations
<1>8. CASE Crash
  BY <1>8, IdleRecords DEF Crash, Generations, OneGeneration
<1> QED BY <1>3, <1>4, <1>5, <1>6, <1>7, <1>8, Moves

\* Whatever invalidations interleave with replenishing, the units that wait were
\* all begun after the last one (schedule_replenish, invalidate_pool).
THEOREM PoolIsOfOneGeneration == Spec => []OneGeneration
<1>1. Init => Generations
  BY IdleRecords DEF Init, Generations, OneGeneration
<1>2. Generations => OneGeneration
  BY DEF Generations
<1> QED BY <1>1, <1>2, TypedAlways, GenerationsStep, PTL DEF Spec

-----------------------------------------------------------------------------
(* Freshness *)

\* What the workspace has become since a unit was fingerprinted: what it holds
\* was there then, or was made after everything that was.
Watched(u) ==
  /\ u.workspace = Fingerprint(u.seen) /\ Single(u.seen)
  /\ \A g \in Present(u.seen) : u.seen[g].time <= edits
  /\ \A f \in Present(workspace) : \/ workspace[f] \in Contents(u.seen)
                                   \/ \A g \in Present(u.seen) : workspace[f].made > u.seen[g].time

DiskDated ==
  /\ Single(workspace)
  /\ \A f \in Present(workspace) : workspace[f].made <= edits /\ workspace[f].time <= edits

Noticing ==
  /\ DiskDated
  /\ \A k \in DOMAIN ready : Watched(ready[k])
  /\ \A t \in Task : tasks[t].unit # NoUnit => Watched(tasks[t].unit)

\* Every edit keeps contents apart, and what it makes is newer than the rest.
LEMMA EditDated ==
  ASSUME Typed, DiskDated, NEW f \in File, Edit(f)
  PROVE  /\ DiskDated'
         /\ \A g \in Present(workspace') : \/ \E h \in Present(workspace) : workspace'[g] = workspace[h]
                                          \/ workspace'[g].made = edits + 1
<1> DEFINE Old(g) == \E h \in Present(workspace) : workspace'[g] = workspace[h]
<1>1. /\ edits \in Nat /\ edits' = edits + 1 /\ Single(workspace)
      /\ \A g \in Present(workspace) : /\ workspace[g] \in Content
                                      /\ workspace[g].made <= edits /\ workspace[g].time <= edits
  <2>1. \A g \in Present(workspace) : workspace[g] \in Content
    BY DEF Typed, DiskTyped, Tree, Present
  <2> QED BY <2>1, EditedTree DEF Typed, DiskDated
<1>2. \A g \in File : workspace'[g] # Absent <=> g \in Present(workspace')
  BY DEF Present
<1>3. \A g \in File : workspace[g] # Absent <=> g \in Present(workspace)
  BY DEF Present
<1>4. Present(workspace') \subseteq File
  BY DEF Present
<1>5. ASSUME NEW new, new.made = edits + 1, new.time \in 0 .. edits + 1,
             \A g \in File : workspace'[g] = IF g = f THEN new ELSE workspace[g]
      PROVE  DiskDated' /\ \A g \in Present(workspace') : Old(g) \/ workspace'[g].made = edits + 1
  <2>1. \A g \in Present(workspace') :
          \/ g = f /\ workspace'[g] = new
          \/ g # f /\ g \in Present(workspace) /\ workspace'[g] = workspace[g]
    BY <1>2, <1>3, <1>4, <1>5
  <2>2. \A g \in Present(workspace) : workspace[g] # new
    <3>1. \A g \in Present(workspace) : workspace[g].made # edits + 1
      BY <1>1 DEF Content
    <3> QED BY <1>5, <3>1
  <2>3. Single(workspace')
    BY <1>1, <2>1, <2>2 DEF Single
  <2>4. \A g \in Present(workspace') : workspace'[g].made <= edits' /\ workspace'[g].time <= edits'
    BY <1>1, <1>5, <2>1 DEF Content
  <2> QED BY <1>5, <2>1, <2>3, <2>4 DEF DiskDated
<1>6. ASSUME \A g \in Present(workspace') : Old(g), Single(workspace')
      PROVE  DiskDated' /\ \A g \in Present(workspace') : Old(g) \/ workspace'[g].made = edits + 1
  <2>1. \A g \in Present(workspace') : workspace'[g].made <= edits' /\ workspace'[g].time <= edits'
    BY <1>1, <1>6 DEF Content
  <2> QED BY <1>6, <2>1 DEF DiskDated
<1>7. ASSUME \A g \in File : workspace'[g] = IF g = f THEN Absent ELSE workspace[g]
      PROVE  DiskDated' /\ \A g \in Present(workspace') : Old(g) \/ workspace'[g].made = edits + 1
  <2>1. \A g \in Present(workspace') : g \in Present(workspace) /\ workspace'[g] = workspace[g]
    BY <1>2, <1>3, <1>4, <1>7
  <2>2. Single(workspace')
    BY <1>1, <2>1 DEF Single
  <2> QED BY <1>6, <2>1, <2>2
<1>8. ASSUME NEW h \in File \ {f},
             \A g \in File : workspace'[g] = IF g = f THEN Absent
                                            ELSE IF g = h THEN workspace[f] ELSE workspace[g]
      PROVE  DiskDated' /\ \A g \in Present(workspace') : Old(g) \/ workspace'[g].made = edits + 1
  <2>1. \A g \in Present(workspace') :
          \/ g = h /\ f \in Present(workspace) /\ workspace'[g] = workspace[f]
          \/ g \notin {f, h} /\ g \in Present(workspace) /\ workspace'[g] = workspace[g]
    BY <1>2, <1>3, <1>4, <1>8
  <2>2. Single(workspace')
    BY <1>1, <2>1 DEF Single
  <2> QED BY <1>6, <2>1, <2>2
<1> HIDE DEF Old
<1>9. DiskDated' /\ \A g \in Present(workspace') : Old(g) \/ workspace'[g].made = edits + 1
  <2>1. CASE \E time \in 0 .. edits + 1 : \A g \in File :
               workspace'[g] = IF g = f THEN [made |-> edits + 1, at |-> f, time |-> time]
                               ELSE workspace[g]
    <3>1. PICK time \in 0 .. edits + 1 : \A g \in File :
               workspace'[g] = IF g = f THEN [made |-> edits + 1, at |-> f, time |-> time]
                               ELSE workspace[g]
      BY <2>1
    <3> DEFINE new == [made |-> edits + 1, at |-> f, time |-> time]
    <3>2. new.made = edits + 1 /\ new.time \in 0 .. edits + 1
      OBVIOUS
    <3>3. \A g \in File : workspace'[g] = IF g = f THEN new ELSE workspace[g]
      BY <3>1
    <3> HIDE DEF new
    <3> QED BY <1>5, <3>2, <3>3
  <2>2. CASE \A g \in File : workspace'[g] = IF g = f THEN Absent ELSE workspace[g]
    BY <1>7, <2>2
  <2>3. CASE \E h \in File \ {f} : \A g \in File :
               workspace'[g] = IF g = f THEN Absent
                               ELSE IF g = h THEN workspace[f] ELSE workspace[g]
    BY <1>8, <2>3
  <2> QED BY <2>1, <2>2, <2>3, EditedTree DEF Typed
<1> QED BY <1>9 DEF Old

\* So a unit goes on being watched.
LEMMA EditWatched ==
  ASSUME Typed, DiskDated, NEW f \in File, Edit(f), NEW u \in Unit, Watched(u)
  PROVE  Watched(u)'
<1>1. u.seen \in Tree /\ edits \in Nat /\ edits' = edits + 1
  BY UnitParts, EditedTree DEF Typed
<1>2. \A g \in Present(u.seen) : u.seen[g].time \in Nat /\ u.seen[g].time <= edits
  BY <1>1, BoundsAssumption DEF Watched, Present, Tree, Content
<1>3. \A g \in Present(u.seen) : u.seen[g].time <= edits' /\ edits + 1 > u.seen[g].time
  BY <1>1, <1>2
<1>4. ASSUME NEW g \in Present(workspace')
      PROVE  \/ workspace'[g] \in Contents(u.seen)
             \/ \A h \in Present(u.seen) : workspace'[g].made > u.seen[h].time
  BY <1>3, EditDated DEF Watched
<1> QED BY <1>3, <1>4 DEF Watched

LEMMA NoticingStep ==
  ASSUME Typed, Typed', Noticing, [Next]_vars
  PROVE  Noticing'
<1>1. ready \in Seq(Unit) /\ workspace \in Tree
      /\ \A t \in Task : tasks[t].unit # NoUnit => tasks[t].unit \in Unit
  BY TaskUnit DEF Typed, ReadyTyped, TasksTyped, DiskTyped
<1>2. UNCHANGED disk => \A u : Watched(u) => Watched(u)'
  BY DEF disk, Watched
<1>3. UNCHANGED disk => DiskDated'
  BY DEF disk, Noticing, DiskDated
<1>4. ASSUME NEW f \in File, Edit(f) PROVE Noticing'
  <2>1. ready' = ready /\ tasks' = tasks
    BY <1>4, EditedTree DEF Typed, pool
  <2>2. DiskDated'
    BY <1>4, EditDated DEF Noticing
  <2>3. \A k \in DOMAIN ready : Watched(ready[k])'
    BY <1>1, <1>4, EditWatched, <2>1 DEF Noticing
  <2>4. \A t \in Task : tasks[t].unit # NoUnit => Watched(tasks[t].unit)'
    BY <1>1, <1>4, EditWatched, <2>1 DEF Noticing
  <2> QED BY <2>1, <2>2, <2>3, <2>4 DEF Noticing
<1>5. ASSUME UNCHANGED disk, \A t \in Task : TaskKeeps(t) \/ TaskLets(t)
      PROVE  \A t \in Task : tasks'[t].unit # NoUnit => Watched(tasks[t].unit)'
  <2>1. \A t \in Task : tasks'[t].unit # NoUnit => tasks'[t].unit = tasks[t].unit
    BY <1>5 DEF TaskKeeps, TaskLets
  <2> QED BY <1>2, <1>5, <2>1 DEF Noticing
<1>6. CASE Dwindles
  <2>1. \A k \in DOMAIN ready' : Watched(ready[k])'
    BY <1>2, <1>6 DEF Dwindles, Noticing
  <2> QED BY <1>3, <1>5, <1>6, <2>1 DEF Dwindles, NoUnitTaken, Noticing
<1>7. ASSUME NEW t \in Task, CopyWorkspace(t) \/ RunContainer(t) PROVE Noticing'
  <2>1. /\ UNCHANGED <<disk, ready>>
        /\ tasks'[t].unit.workspace = Fingerprint(workspace) /\ tasks'[t].unit.seen = workspace
        /\ \A r \in Task \ {t} : TaskKeeps(r)
    BY <1>7, BegunUnit, RunUnit
  <2>2. \A u : u.workspace = Fingerprint(workspace) /\ u.seen = workspace => Watched(u)'
    <3>1. \A f \in Present(workspace) : workspace[f] \in Contents(workspace)
      BY DEF Contents
    <3> QED BY <2>1, <3>1 DEF Noticing, DiskDated, Watched, disk
  <2>3. \A k \in DOMAIN ready' : Watched(ready[k])'
    BY <1>2, <2>1 DEF Noticing
  <2>4. \A r \in Task \ {t} : tasks'[r].unit # NoUnit => Watched(tasks[r].unit)'
    BY <1>2, <2>1 DEF Noticing, TaskKeeps
  <2> QED BY <1>3, <2>1, <2>2, <2>3, <2>4 DEF Noticing
<1>8. ASSUME NEW t \in Task, Pushes(t) PROVE Noticing'
  <2>1. tasks[t].unit # NoUnit /\ UNCHANGED disk /\ ready' = Append(ready, tasks[t].unit)
    BY <1>8, UnitParts DEF Pushes
  <2>2. \A k \in DOMAIN ready' : Watched(ready[k])'
    <3> SUFFICES ASSUME NEW k \in DOMAIN ready' PROVE Watched(ready[k])'
      OBVIOUS
    <3>1. ready'[k] = tasks[t].unit \/ (k \in DOMAIN ready /\ ready'[k] = ready[k])
      BY <1>1, <2>1
    <3> QED BY <1>2, <2>1, <3>1 DEF Noticing
  <2>3. \A r \in Task : TaskKeeps(r) \/ tasks'[r].unit = NoUnit
    BY <1>8 DEF Pushes
  <2>4. \A r \in Task : tasks'[r].unit # NoUnit => Watched(tasks[r].unit)'
    BY <1>2, <2>1, <2>3 DEF Noticing, TaskKeeps
  <2> QED BY <1>3, <2>1, <2>2, <2>4 DEF Noticing
<1>9. ASSUME NEW c \in Call, Takes(c) PROVE Noticing'
  <2>1. \A k \in DOMAIN ready' : k \in DOMAIN ready /\ ready'[k] = ready[k]
    BY <1>9, PoppedUnit DEF Takes
  <2>2. UNCHANGED disk
    BY <1>9 DEF Takes, disk
  <2>3. \A k \in DOMAIN ready' : Watched(ready[k])'
    BY <1>2, <2>1, <2>2 DEF Noticing
  <2> QED BY <1>3, <1>5, <1>9, <2>2, <2>3 DEF Takes, Noticing
<1>10. CASE Crash
  <2>1. ready' = <<>> /\ UNCHANGED disk /\ \A t \in Task : tasks'[t].unit = NoUnit
    BY <1>10, IdleRecords DEF Crash
  <2> QED BY <1>3, <2>1 DEF Noticing
<1> QED BY <1>4, <1>6, <1>7, <1>8, <1>9, <1>10, Moves

\* However many edits follow a unit's fingerprint and whatever they do, a unit that
\* passes for fresh lacks nothing that was written in the workspace since, and has
\* nothing that is gone unless another file came with an older time (is_fresh_for,
\* speculate_inner).  Renames it may well have missed.
THEOREM FreshMissesNoWrite == Spec => EditsNoticed
<1>1. Init => Noticing
  <2> SUFFICES ASSUME Init PROVE Noticing
    OBVIOUS
  <2>1. \A f \in File : /\ workspace[f] = [made |-> 0, at |-> f, time |-> 0]
                        /\ workspace[f].at = f
                        /\ workspace[f].made <= edits /\ workspace[f].time <= edits
    BY DEF Init
  <2>2. DiskDated
    BY <2>1 DEF DiskDated, Single, Present
  <2> QED BY <2>2, IdleRecords DEF Init, Noticing
<1>2. ASSUME Typed, Noticing, NEW c \in Call, SpeculatePooled(c)
      PROVE  /\ Written(workspace) \subseteq Contents(Popped.seen)
             /\ Contents(workspace) \subseteq Contents(Popped.seen)
                  => Contents(workspace) = Contents(Popped.seen)
  <2>1. Popped \in Unit /\ Len(ready) \in DOMAIN ready
    BY <1>2, PoppedUnit DEF SpeculatePooled, Typed, ReadyTyped
  <2>2. Watched(Popped) /\ IsFreshFor(Popped)
    BY <1>2, <2>1 DEF SpeculatePooled, Noticing, Popped
  <2> DEFINE seen == Popped.seen
  <2>3. seen \in Tree /\ workspace \in Tree
    BY <1>2, <2>1, UnitParts DEF Typed, DiskTyped
  <2>4. Fingerprint(seen) = Fingerprint(workspace)
    BY <2>2 DEF Watched, IsFreshFor
  <2>5. \A f \in Present(workspace) :
          \/ workspace[f] \in Contents(seen)
          \/ \A g \in Present(seen) : workspace[f].made > seen[g].time
    BY <2>2 DEF Watched
  <2>6. Single(seen) /\ Single(workspace)
    BY <1>2, <2>2 DEF Watched, Noticing, DiskDated
  <2> HIDE DEF seen
  <2>7. \A content \in Contents(workspace) :
          content \in Contents(seen) \/ \A g \in Present(seen) : content.made > seen[g].time
    BY <2>5 DEF Contents
  <2>8. /\ Written(workspace) \subseteq Contents(seen)
        /\ Contents(workspace) \subseteq Contents(seen) => Contents(workspace) = Contents(seen)
    BY <2>3, <2>4, <2>6, <2>7, SameFingerprint
  <2> QED BY <2>8 DEF seen
<1>3. Typed /\ Noticing => \A c \in Call : SpeculatePooled(c) =>
        LET then == Contents(Popped.seen)
            now == Contents(workspace)
        IN  /\ Written(workspace) \subseteq then
            /\ now \subseteq then => now = then
  BY <1>2
<1> QED BY <1>1, <1>3, TypedAlways, NoticingStep, PTL DEF Spec, EditsNoticed

-----------------------------------------------------------------------------
(* One holder *)

TaskHolds(t) == tasks[t].unit # NoUnit
CallHolds(c) == calls[c].unit # NoUnit

\* No two of the waiting units, the tasks' and the calls' are in one container.
Apart ==
  /\ \A j, k \in DOMAIN ready : j # k => ready[j].container # ready[k].container
  /\ \A t \in Task, k \in DOMAIN ready :
       TaskHolds(t) => ready[k].container # tasks[t].unit.container
  /\ \A t, r \in Task :
       t # r /\ TaskHolds(t) /\ TaskHolds(r) => tasks[r].unit.container # tasks[t].unit.container
  /\ \A c \in Call, k \in DOMAIN ready :
       CallHolds(c) => ready[k].container # calls[c].unit.container
  /\ \A c \in Call, t \in Task :
       CallHolds(c) /\ TaskHolds(t) => tasks[t].unit.container # calls[c].unit.container
  /\ \A c, d \in Call :
       c # d /\ CallHolds(c) /\ CallHolds(d) => calls[d].unit.container # calls[c].unit.container

\* What is held.
LEMMA HeldMeaning ==
  \A x : x \in Held <=>
    \/ \E k \in DOMAIN ready : ready[k].container = x
    \/ \E t \in Task : TaskHolds(t) /\ tasks[t].unit.container = x
    \/ \E c \in Call : CallHolds(c) /\ calls[c].unit.container = x
    \/ \E c \in Call : x \in calls[c].own
    \/ \E v \in Invalidation : \E u \in invalidations[v].units : u.container = x
<1> DEFINE A == {ready[k].container : k \in DOMAIN ready}
           B == {tasks[t].unit.container : t \in {t \in Task : tasks[t].unit # NoUnit}}
           C == {calls[c].unit.container : c \in {c \in Call : calls[c].unit # NoUnit}}
           D == UNION {{u.container : u \in invalidations[v].units} : v \in Invalidation}
           E == UNION {calls[c].own : c \in Call}
<1>1. \A x : x \in A <=> \E k \in DOMAIN ready : ready[k].container = x
  OBVIOUS
<1>2. \A x : x \in B <=> \E t \in Task : TaskHolds(t) /\ tasks[t].unit.container = x
  BY DEF TaskHolds
<1>3. \A x : x \in C <=> \E c \in Call : CallHolds(c) /\ calls[c].unit.container = x
  BY DEF CallHolds
<1>4. \A x : x \in D <=> \E v \in Invalidation : \E u \in invalidations[v].units : u.container = x
  OBVIOUS
<1>5. Held = A \union B \union C \union E \union D
  BY DEF Held
<1>6. \A x : x \in E <=> \E c \in Call : x \in calls[c].own
  OBVIOUS
<1> HIDE DEF A, B, C, D, E
<1> QED BY <1>1, <1>2, <1>3, <1>4, <1>5, <1>6

LEMMA ApartStep ==
  ASSUME Typed, Typed', Apart, [Next]_vars
  PROVE  Apart'
<1>1. ready \in Seq(Unit)
  BY DEF Typed, ReadyTyped
<1>2. \A t \in Task : TaskKeeps(t) \/ TaskLets(t) =>
        (TaskHolds(t)' => TaskHolds(t) /\ tasks'[t].unit = tasks[t].unit)
  BY DEF TaskKeeps, TaskLets, TaskHolds
<1>3. \A c \in Call : CallKeeps(c) \/ CallLets(c) =>
        (CallHolds(c)' => CallHolds(c) /\ calls'[c].unit = calls[c].unit)
  BY DEF CallKeeps, CallLets, CallHolds
<1>4. ASSUME UNCHANGED <<ready, tasks, calls>> PROVE Apart'
  BY <1>4 DEF Apart, TaskHolds, CallHolds
<1>5. ASSUME NEW f \in File, Edit(f) PROVE Apart'
  BY <1>4, <1>5, EditedTree DEF Typed, pool
<1>6. CASE Dwindles
  <2>1. \A t \in Task : TaskHolds(t)' => TaskHolds(t) /\ tasks'[t].unit = tasks[t].unit
    BY <1>2, <1>6 DEF Dwindles, NoUnitTaken
  <2>2. \A c \in Call : CallHolds(c)' => CallHolds(c) /\ calls'[c].unit = calls[c].unit
    BY <1>3, <1>6 DEF Dwindles, NoUnitTaken
  <2>3. \A k \in DOMAIN ready' : k \in DOMAIN ready /\ ready'[k] = ready[k]
    BY <1>6 DEF Dwindles
  <2> QED BY <2>1, <2>2, <2>3 DEF Apart
<1>7. ASSUME NEW t \in Task, CopyWorkspace(t) PROVE Apart'
  <2> DEFINE x == tasks'[t].unit.container
  <2>1. x \notin Held
    BY <1>7, BegunUnit DEF Unused
  <2>2. /\ \A k \in DOMAIN ready : ready[k].container # x
        /\ \A r \in Task : TaskHolds(r) => tasks[r].unit.container # x
        /\ \A c \in Call : CallHolds(c) => calls[c].unit.container # x
    BY <2>1, HeldMeaning
  <2> HIDE DEF x
  <2>3. \A r \in Task \ {t} : TaskHolds(r)' => TaskHolds(r) /\ tasks'[r].unit = tasks[r].unit
    BY <1>2, <1>7, BegunUnit
  <2>4. \A c \in Call : CallHolds(c)' <=> CallHolds(c)
    BY <1>7, BegunUnit DEF CallHolds
  <2>5. UNCHANGED <<ready, calls>>
    BY <1>7, BegunUnit
  <2>6. \A r \in Task \ {t} : TaskHolds(r)' => tasks'[r].unit.container # x
    BY <2>2, <2>3
  <2>7. tasks'[t].unit.container = x
    BY DEF x
  <2> QED BY <2>2, <2>3, <2>4, <2>5, <2>6, <2>7 DEF Apart
<1>8. ASSUME NEW t \in Task, RunContainer(t) PROVE Apart'
  <2>1. /\ TaskHolds(t) /\ tasks'[t].unit.container = tasks[t].unit.container
        /\ UNCHANGED <<ready, calls>>
    BY <1>8, RunUnit, UnitParts DEF TaskHolds
  <2>2. \A r \in Task : TaskHolds(r)' =>
          TaskHolds(r) /\ tasks'[r].unit.container = tasks[r].unit.container
    BY <1>2, <1>8, RunUnit, <2>1
  <2>3. \A c \in Call : CallHolds(c)' <=> CallHolds(c)
    BY <2>1 DEF CallHolds
  <2> QED BY <2>1, <2>2, <2>3 DEF Apart
<1>9. ASSUME NEW t \in Task, Pushes(t) PROVE Apart'
  <2>1. TaskHolds(t) /\ ~TaskHolds(t)' /\ UNCHANGED calls
    BY <1>9, UnitParts DEF Pushes, TaskHolds
  <2>2. \A r \in Task : TaskHolds(r)' => r # t /\ TaskHolds(r) /\ tasks'[r].unit = tasks[r].unit
    BY <1>2, <1>9, <2>1 DEF Pushes
  <2>3. \A k \in DOMAIN ready' :
          \/ k = Len(ready) + 1 /\ ready'[k] = tasks[t].unit
          \/ k \in DOMAIN ready /\ ready'[k] = ready[k]
    BY <1>1, <1>9 DEF Pushes
  <2>4. \A c \in Call : CallHolds(c)' <=> CallHolds(c)
    BY <2>1 DEF CallHolds
  <2>5. \A j, k \in DOMAIN ready' : j # k => ready'[j].container # ready'[k].container
    BY <2>1, <2>3 DEF Apart
  <2>6. \A r \in Task, k \in DOMAIN ready' :
          TaskHolds(r)' => ready'[k].container # tasks'[r].unit.container
    BY <2>1, <2>2, <2>3 DEF Apart
  <2>7. \A c \in Call, k \in DOMAIN ready' :
          CallHolds(c)' => ready'[k].container # calls'[c].unit.container
    BY <2>1, <2>3, <2>4 DEF Apart
  <2> QED BY <2>1, <2>2, <2>4, <2>5, <2>6, <2>7 DEF Apart
<1>10. ASSUME NEW c \in Call, Takes(c) PROVE Apart'
  <2>1. \A k \in DOMAIN ready' : k \in DOMAIN ready \ {Len(ready)} /\ ready'[k] = ready[k]
    BY <1>10, PoppedUnit DEF Takes
  <2>2. Len(ready) \in DOMAIN ready /\ Popped = ready[Len(ready)]
    BY <1>1, <1>10, PoppedUnit DEF Takes, Popped
  <2>3. \A t \in Task : TaskHolds(t)' => TaskHolds(t) /\ tasks'[t].unit = tasks[t].unit
    BY <1>2, <1>10 DEF Takes
  <2>4. calls'[c].unit = ready[Len(ready)]
    BY <1>10, <2>2 DEF Takes
  <2>5. \A d \in Call \ {c} : CallHolds(d)' => CallHolds(d) /\ calls'[d].unit = calls[d].unit
    BY <1>3, <1>10 DEF Takes
  <2> HIDE DEF Popped
  <2> DEFINE n == Len(ready)
  <2> HIDE DEF n
  <2>6. /\ n \in DOMAIN ready /\ calls'[c].unit = ready[n]
        /\ \A k \in DOMAIN ready' : k \in DOMAIN ready /\ k # n /\ ready'[k] = ready[k]
    BY <2>1, <2>2, <2>4 DEF n
  <2> QED BY <2>3, <2>5, <2>6 DEF Apart
<1>11. CASE Crash
  <2>1. /\ ready' = <<>> /\ \A t \in Task : ~TaskHolds(t)'
        /\ \A c \in Call : ~CallHolds(c)'
    BY <1>11, IdleRecords DEF Crash, TaskHolds, CallHolds
  <2> QED BY <2>1 DEF Apart
<1> QED BY <1>5, <1>6, <1>7, <1>8, <1>9, <1>10, <1>11, Moves

LEMMA ApartAlways == Spec => []Apart
<1>1. Init => Apart
  BY IdleRecords DEF Init, Apart, TaskHolds, CallHolds
<1> QED BY <1>1, TypedAlways, ApartStep, PTL DEF Spec

\* A unit is tried once, by one call: the one that takes it leaves none behind
\* for another, and none is made in a container that is still named
\* (speculate_inner, pool_container_name).
THEOREM UnitsServeOneCall == Spec => []UnitsUsedOnce
<1>1. Apart => UnitsUsedOnce
  <2> SUFFICES ASSUME Apart PROVE UnitsUsedOnce
    OBVIOUS
  <2>1. ASSUME NEW c \in Call, NEW d \in Call \ {c}, CallHolds(c)
        PROVE  calls[d].unit # calls[c].unit
    BY <2>1 DEF Apart, CallHolds
  <2>2. ASSUME NEW c \in Call, NEW k \in DOMAIN ready, CallHolds(c)
        PROVE  ready[k].container # calls[c].unit.container
    BY <2>2 DEF Apart
  <2> QED BY <2>1, <2>2 DEF UnitsUsedOnce, CallHolds
<1> QED BY <1>1, ApartAlways, PTL

-----------------------------------------------------------------------------
(* No container is leaked *)

Waits(x) == \E k \in DOMAIN ready : ready[k].container = x
InTask(x) == \E t \in Task : TaskHolds(t) /\ tasks[t].unit.container = x
CallNames(c, x) == (CallHolds(c) /\ calls[c].unit.container = x) \/ x \in calls[c].own
InCall(x) == \E c \in Call : CallNames(c, x)
Taken(x) == \E v \in Invalidation : \E u \in invalidations[v].units : u.container = x

\* Every container that runs is named, and one whose docker run has not begun
\* does not run: a task that gives up before it leaves nothing behind.
Owned ==
  /\ \A x \in running \ strays : Waits(x) \/ InTask(x) \/ InCall(x) \/ Taken(x)
  /\ \A t \in Task : tasks[t].pc = "copied" => tasks[t].unit.container \notin running

\* What is left alone, kept or spawned goes on being named.
LEMMA StillNamed ==
  ASSUME Typed, NEW x
  PROVE  /\ UNCHANGED ready => (Waits(x) => Waits(x)')
         /\ (\A t \in Task : TaskKeeps(t)) => (InTask(x) => InTask(x)')
         /\ tasks' \in Spawned(tasks) => (InTask(x) => InTask(x)')
         /\ (\A c \in Call : CallKeeps(c)) => (InCall(x) => InCall(x)')
         /\ UNCHANGED invalidations => (Taken(x) => Taken(x)')
<1>1. ASSUME tasks' \in Spawned(tasks), InTask(x) PROVE InTask(x)'
  <2>1. \A t \in Task : tasks'[t].unit = tasks[t].unit
    BY <1>1, SpawnedTasks DEF Typed, TasksTyped
  <2> QED BY <1>1, <2>1 DEF InTask, TaskHolds
<1>2. ASSUME \A c \in Call : CallKeeps(c), InCall(x) PROVE InCall(x)'
  BY <1>2 DEF InCall, CallNames, CallKeeps, CallHolds
<1> QED BY <1>1, <1>2 DEF Waits, InTask, Taken, TaskKeeps, TaskHolds

\* One task's, call's or invalidation's container may be named no more.
LEMMA NamedByOthers ==
  ASSUME Typed, NEW x
  PROVE  /\ \A t \in Task : (\A r \in Task \ {t} : TaskKeeps(r)) /\ InTask(x) =>
              InTask(x)' \/ (TaskHolds(t) /\ tasks[t].unit.container = x)
         /\ \A c \in Call : (\A d \in Call \ {c} : CallKeeps(d)) /\ InCall(x) =>
              InCall(x)' \/ CallNames(c, x)
         /\ \A v \in Invalidation : \A s : invalidations' = [invalidations EXCEPT ![v] = s] =>
              /\ invalidations'[v] = s
              /\ Taken(x) => Taken(x)' \/ \E u \in invalidations[v].units : u.container = x
<1>1. ASSUME NEW t \in Task, \A r \in Task \ {t} : TaskKeeps(r), InTask(x)
      PROVE  InTask(x)' \/ (TaskHolds(t) /\ tasks[t].unit.container = x)
  BY <1>1 DEF InTask, TaskKeeps, TaskHolds
<1>2. ASSUME NEW c \in Call, \A d \in Call \ {c} : CallKeeps(d), InCall(x)
      PROVE  InCall(x)' \/ CallNames(c, x)
  BY <1>2 DEF InCall, CallNames, CallKeeps, CallHolds
<1>3. ASSUME NEW v \in Invalidation, NEW s, invalidations' = [invalidations EXCEPT ![v] = s]
      PROVE  /\ invalidations'[v] = s
             /\ Taken(x) => Taken(x)' \/ \E u \in invalidations[v].units : u.container = x
  <2>1. invalidations'[v] = s /\ \A w \in Invalidation \ {v} : invalidations'[w] = invalidations[w]
    BY <1>3 DEF Typed, InvalidationsTyped
  <2> QED BY <2>1 DEF Taken
<1> QED BY <1>1, <1>2, <1>3

\* Nobody begins to run the container of a unit that is only copied.
LEMMA NotYetRunning ==
  ASSUME Typed, Typed', Owned, running' \subseteq running,
         \A t \in Task : TaskKeeps(t) \/ TaskLets(t)
  PROVE  \A t \in Task : tasks'[t].pc = "copied" => tasks'[t].unit.container \notin running'
<1>1. \A t \in Task : tasks'[t].pc = "copied" => tasks'[t].unit # NoUnit
  BY DEF Typed, TasksTyped, TaskFits
<1> QED BY <1>1 DEF Owned, TaskKeeps, TaskLets

LEMMA OwnedReplenish ==
  ASSUME Typed, Typed', Apart, Owned, NEW t \in Task, Replenish(t)
  PROVE  Owned'
<1> DEFINE mine == tasks[t].unit.container
<1>1. /\ TaskFits(tasks[t]) /\ UNCHANGED <<calls, invalidations>>
      /\ \A d \in Call : CallKeeps(d)
  BY DEF Typed, TasksTyped, Replenish, Look, CopyWorkspace, RunContainer, GiveUp, Push,
         DropUnwanted, Dropped, PushFrame, CallKeeps
<1>2. ASSUME NEW s, tasks' = [tasks EXCEPT ![t] = s], s.unit = NoUnit
      PROVE  \A r \in Task \ {t} : TaskKeeps(r)
  BY <1>2, OneTask
<1>3. ASSUME UNCHANGED ready, \A r \in Task \ {t} : TaskKeeps(r),
             NEW x, Waits(x) \/ InTask(x) \/ InCall(x) \/ Taken(x),
             ~(TaskHolds(t) /\ x = mine)
      PROVE  (Waits(x) \/ InTask(x) \/ InCall(x) \/ Taken(x))'
  BY <1>1, <1>3, StillNamed, NamedByOthers
<1> HIDE DEF mine
<1>4. CASE Look(t)
  <2>1. ~TaskHolds(t)
    BY <1>1, <1>4 DEF Look, TaskFits, TaskHolds
  <2> DEFINE s == IF Len(ready) >= PoolSize THEN IdleTask
                  ELSE [IdleTask EXCEPT !.pc = "copying", !.gen = generation]
  <2>2. s.unit = NoUnit /\ s.gen \in {0, generation} /\ tasks' = [tasks EXCEPT ![t] = s]
    BY <1>4, IdleRecords DEF Look
  <2> HIDE DEF s
  <2>3. \A r \in Task : TaskKeeps(r) \/ TaskLets(r)
    BY <2>2, TasksLet
  <2>4. \A r \in Task \ {t} : TaskKeeps(r)
    BY <1>2, <2>2
  <2> QED BY <1>3, <1>4, <2>1, <2>3, <2>4, NotYetRunning DEF Look, pool, Owned
<1>5. CASE CopyWorkspace(t)
  <2>1. /\ ~TaskHolds(t) /\ UNCHANGED <<ready, running, strays>>
        /\ tasks'[t].unit.container \notin running
        /\ \A r \in Task \ {t} : TaskKeeps(r)
    BY <1>5, BegunUnit DEF TaskHolds, Unused, CopyWorkspace, pool
  <2>2. \A r \in Task : tasks'[r].pc = "copied" => tasks'[r].unit.container \notin running
    BY <2>1 DEF Owned, TaskKeeps
  <2> QED BY <1>3, <2>1, <2>2 DEF Owned
<1>6. CASE RunContainer(t)
  <2>1. /\ TaskHolds(t) /\ TaskHolds(t)' /\ tasks'[t].unit.container = mine
        /\ \A r \in Task \ {t} : TaskKeeps(r)
        /\ UNCHANGED <<ready, strays>> /\ running' = running \union {mine}
        /\ tasks'[t].pc # "copied"
    BY <1>6, RunUnit, UnitParts DEF TaskHolds, RunContainer, pool, mine
  <2>2. \A x : x = mine => InTask(x)'
    BY <2>1 DEF InTask
  <2>3. \A r \in Task : tasks'[r].pc = "copied" => tasks'[r].unit.container \notin running'
    <3> SUFFICES ASSUME NEW r \in Task, tasks'[r].pc = "copied"
                 PROVE  tasks'[r].unit.container \notin running'
      OBVIOUS
    <3>1. r # t /\ tasks[r].pc = "copied" /\ tasks'[r].unit = tasks[r].unit
      BY <2>1 DEF TaskKeeps
    <3>2. TaskHolds(r)
      BY <3>1 DEF TaskHolds, Typed, TasksTyped, TaskFits
    <3>3. tasks[r].unit.container # mine
      BY <2>1, <3>1, <3>2 DEF Apart, mine
    <3> QED BY <2>1, <3>1, <3>3 DEF Owned
  <2> QED BY <1>3, <2>1, <2>2, <2>3 DEF Owned
<1>7. CASE GiveUp(t)
  <2>1. tasks' = [tasks EXCEPT ![t] = IdleTask] /\ UNCHANGED ready
    BY <1>7 DEF GiveUp, pool
  <2>2. \A r \in Task \ {t} : TaskKeeps(r)
    BY <1>2, <2>1, IdleRecords
  <2>3. tasks'[t].pc # "copied"
    BY <2>1, OneTask, IdleRecords
  <2>4. CASE UNCHANGED <<running, strays>>
    <3>1. TaskHolds(t) => mine \notin running
      BY <1>1, <1>7 DEF GiveUp, Owned, TaskFits, TaskHolds, mine
    <3>2. \A r \in Task : tasks'[r].pc = "copied" => tasks'[r].unit.container \notin running'
      BY <2>2, <2>3, <2>4 DEF Owned, TaskKeeps
    <3> QED BY <1>3, <2>1, <2>2, <2>4, <3>1, <3>2 DEF Owned
  <2>5. CASE /\ tasks[t].pc = "copied"
             /\ running' = running \union {mine} /\ strays' = strays \union {mine}
    <3>1. \A x \in running' \ strays' : x \in running \ strays /\ x # mine
      BY <2>5
    <3>2. \A r \in Task : tasks'[r].pc = "copied" => tasks'[r].unit.container \notin running'
      <4> SUFFICES ASSUME NEW r \in Task, tasks'[r].pc = "copied"
                   PROVE  tasks'[r].unit.container \notin running'
        OBVIOUS
      <4>1. r # t /\ tasks[r].pc = "copied" /\ tasks'[r].unit = tasks[r].unit
        BY <2>2, <2>3 DEF TaskKeeps
      <4>2. TaskHolds(r) /\ TaskHolds(t)
        BY <1>1, <2>5, <4>1 DEF TaskHolds, Typed, TasksTyped, TaskFits
      <4>3. tasks[r].unit.container # mine
        BY <4>1, <4>2 DEF Apart, mine
      <4> QED BY <2>5, <4>1, <4>3 DEF Owned
    <3> QED BY <1>3, <2>1, <2>2, <3>1, <3>2 DEF Owned
  <2> QED BY <1>7, <2>4, <2>5 DEF GiveUp, mine
<1>8. ASSUME LooksAgain(t)
      PROVE  /\ \A r \in Task \ {t} : TaskKeeps(r)
             /\ \A r \in Task : TaskKeeps(r) \/ TaskLets(r)
  <2> DEFINE s == [IdleTask EXCEPT !.pc = "looking"]
  <2>1. s.unit = NoUnit /\ s.gen = 0 /\ tasks' = [tasks EXCEPT ![t] = s]
    BY <1>8, IdleRecords DEF LooksAgain
  <2> HIDE DEF s
  <2> QED BY <1>2, <2>1, TasksLet
<1>9. CASE Push(t)
  <2>1. /\ ready' = Append(ready, tasks[t].unit) /\ UNCHANGED <<running, strays>>
        /\ \A r \in Task \ {t} : TaskKeeps(r)
        /\ \A r \in Task : TaskKeeps(r) \/ TaskLets(r)
    BY <1>8, <1>9 DEF Push, PushFrame
  <2>2. \A x : x = mine \/ Waits(x) => Waits(x)'
    <3>1. ready \in Seq(Unit) /\ tasks[t].unit \in Unit
      BY <1>1, <1>9, TaskUnit DEF Push, Typed, ReadyTyped
    <3>2. /\ Len(ready) + 1 \in DOMAIN ready' /\ ready'[Len(ready) + 1] = tasks[t].unit
          /\ \A k \in DOMAIN ready : k \in DOMAIN ready' /\ ready'[k] = ready[k]
      BY <2>1, <3>1
    <3> QED BY <3>2 DEF Waits, mine
  <2>3. \A x : InTask(x) => InTask(x)' \/ x = mine
    BY <2>1, NamedByOthers DEF mine
  <2>4. \A x : (InCall(x) => InCall(x)') /\ (Taken(x) => Taken(x)')
    BY <1>1, StillNamed
  <2>5. \A r \in Task : tasks'[r].pc = "copied" => tasks'[r].unit.container \notin running'
    BY <2>1, NotYetRunning
  <2> QED BY <2>1, <2>2, <2>3, <2>4, <2>5 DEF Owned
<1>10. CASE DropUnwanted(t)
  <2> DEFINE s == [tasks[t] EXCEPT !.pc = "dropping"]
  <2>1. s.unit = tasks[t].unit /\ s.gen = tasks[t].gen /\ s.pc # "copied"
    BY <1>10 DEF DropUnwanted, Typed, TasksTyped, TaskState
  <2>2. tasks' = [tasks EXCEPT ![t] = s] /\ UNCHANGED <<ready, running, strays>>
    BY <1>10 DEF DropUnwanted, PushFrame
  <2> HIDE DEF s
  <2>3. \A r \in Task : TaskKeeps(r)
    BY <2>1, <2>2, OneTask DEF TaskKeeps
  <2>4. \A x : Waits(x) \/ InTask(x) \/ InCall(x) \/ Taken(x) =>
               (Waits(x) \/ InTask(x) \/ InCall(x) \/ Taken(x))'
    BY <1>1, <2>2, <2>3, StillNamed
  <2>5. \A r \in Task : tasks'[r].pc = "copied" => tasks'[r].unit.container \notin running'
    BY <2>2, <2>3, NotYetRunning
  <2> QED BY <2>2, <2>4, <2>5 DEF Owned
<1>11. CASE Dropped(t)
  <2>1. /\ running' = running \ {mine} /\ UNCHANGED <<ready, strays>>
        /\ \A r \in Task \ {t} : TaskKeeps(r)
        /\ \A r \in Task : TaskKeeps(r) \/ TaskLets(r)
    BY <1>8, <1>11 DEF Dropped, pool, mine
  <2>2. \A r \in Task : tasks'[r].pc = "copied" => tasks'[r].unit.container \notin running'
    BY <2>1, NotYetRunning
  <2> QED BY <1>3, <2>1, <2>2 DEF Owned
<1> QED BY <1>4, <1>5, <1>6, <1>7, <1>9, <1>10, <1>11 DEF Replenish

\* A container that a call runs of its own is that call's until its docker run ends.
LEMMA OwnedFallback ==
  ASSUME Typed, Typed', Owned, NEW c \in Call,
         RunFallback(c) \/ FallbackEnds(c) \/ FallbackTooLong(c)
  PROVE  Owned'
<1>1. /\ UNCHANGED <<ready, tasks, invalidations>> /\ calls[c].unit = NoUnit
      /\ \A d \in Call \ {c} : CallKeeps(d)
  BY FallbackCalls
     DEF RunFallback, FallbackEnds, FallbackTooLong, pool, Typed, CallsTyped, CallFits
<1>2. \A t \in Task : TaskKeeps(t)
  BY <1>1, TasksLet
<1>3. \A x : /\ Waits(x) \/ InTask(x) \/ Taken(x) => (Waits(x) \/ InTask(x) \/ Taken(x))'
             /\ InCall(x) => InCall(x)' \/ x \in calls[c].own
  <2>1. \A x : CallNames(c, x) => x \in calls[c].own
    BY <1>1 DEF CallNames, CallHolds
  <2> QED BY <1>1, <1>2, <2>1, StillNamed, NamedByOthers
<1>4. ASSUME running' \subseteq running, running' \ strays' \subseteq running \ strays,
             \A x \in running' \ strays' : x \notin calls[c].own
      PROVE  Owned'
  <2>1. \A t \in Task : tasks'[t].pc = "copied" => tasks'[t].unit.container \notin running'
    BY <1>2, <1>4, NotYetRunning
  <2> QED BY <1>3, <1>4, <2>1 DEF Owned
<1>5. CASE RunFallback(c)
  <2>1. calls[c].own = {} /\ UNCHANGED strays
    BY <1>5 DEF RunFallback, Typed, CallsTyped, CallFits
  <2>2. ASSUME NEW container \in Unused, running' = running \union {container},
               calls' = [calls EXCEPT ![c].own = {container},
                 ![c].pc = IF calls[c].pc = "fallback" THEN "overlay" ELSE "copy"]
        PROVE  Owned'
    <3>1. container \in calls'[c].own
      BY <2>2 DEF Typed, CallsTyped, CallState
    <3>2. InCall(container)'
      BY <3>1 DEF InCall, CallNames
    <3>3. \A t \in Task : tasks'[t].pc = "copied" => tasks'[t].unit.container \notin running'
      <4> SUFFICES ASSUME NEW t \in Task, tasks'[t].pc = "copied"
                   PROVE  tasks'[t].unit.container \notin running'
        OBVIOUS
      <4>1. TaskHolds(t) /\ tasks[t].pc = "copied"
        BY <1>1 DEF Typed, TasksTyped, TaskFits, TaskHolds
      <4>2. tasks[t].unit.container # container
        BY <2>2, <4>1, HeldMeaning DEF Unused
      <4> QED BY <1>1, <2>2, <4>1, <4>2 DEF Owned
    <3> QED BY <1>3, <2>1, <2>2, <3>2, <3>3 DEF Owned
  <2>3. ASSUME UNCHANGED running PROVE Owned'
    BY <1>4, <2>1, <2>3
  <2> QED BY <1>5, <2>2, <2>3 DEF RunFallback
<1>6. CASE FallbackEnds(c)
  BY <1>4, <1>6 DEF FallbackEnds
<1>7. CASE FallbackTooLong(c)
  BY <1>4, <1>7 DEF FallbackTooLong
<1> QED BY <1>5, <1>6, <1>7

LEMMA OwnedCall ==
  ASSUME Typed, Typed', Apart, Owned, NEW c \in Call, Speculate(c) \/ Settle(c),
         ~RunFallback(c), ~FallbackEnds(c), ~FallbackTooLong(c)
  PROVE  Owned'
<1> DEFINE mine == calls[c].unit.container
<1>1. /\ CallFits(calls[c]) /\ UNCHANGED <<invalidations, strays>> /\ running' \subseteq running
      /\ UNCHANGED tasks \/ tasks' \in Spawned(tasks)
  BY DEF Typed, CallsTyped, Speculate, SpeculateWithout, SpeculatePooled, SpeculateStale,
         BeginCall, Settle, Discard, Try, TryTooLong, Destroy
<1> HIDE DEF mine
<1>2. \A t \in Task : tasks'[t].pc = "copied" => tasks'[t].unit.container \notin running'
  <2>1. \A t \in Task : TaskKeeps(t) \/ TaskLets(t)
    BY <1>1, TasksLet
  <2> QED BY <1>1, <2>1, NotYetRunning
<1>3. \A x : /\ InTask(x) => InTask(x)'
             /\ Taken(x) => Taken(x)'
  <2>1. UNCHANGED tasks => \A t \in Task : TaskKeeps(t)
    BY TasksLet
  <2> QED BY <1>1, <2>1, StillNamed
<1>4. ASSUME NEW s, calls' = [calls EXCEPT ![c] = s]
      PROVE  calls'[c] = s /\ \A d \in Call \ {c} : CallKeeps(d)
  BY <1>4, OneCall
<1>5. ASSUME \A d \in Call \ {c} : CallKeeps(d), NEW x, InCall(x)
      PROVE  InCall(x)' \/ (CallHolds(c) /\ x = mine) \/ x \in calls[c].own
  BY <1>5, NamedByOthers DEF CallNames, mine
<1>6. ASSUME NEW pc, NEW u, BeginCall(c, pc, u)
      PROVE  /\ calls'[c].unit = u /\ \A x : InCall(x) => InCall(x)'
             /\ UNCHANGED running
  <2> DEFINE s == [IdleCall EXCEPT !.pc = pc, !.unit = u]
  <2>1. s.unit = u
    BY DEF IdleCall
  <2>2. calls' = [calls EXCEPT ![c] = s] /\ calls[c].pc = "idle" /\ UNCHANGED running
    BY <1>6 DEF BeginCall
  <2> HIDE DEF s
  <2>3. ~CallHolds(c) /\ calls[c].own = {}
    BY <1>1, <2>2 DEF CallFits, CallHolds
  <2> QED BY <1>4, <1>5, <2>1, <2>2, <2>3
<1>7. ASSUME \A x \in running' \ strays : InCall(x) => InCall(x)', UNCHANGED ready PROVE Owned'
  <2>1. \A x : Waits(x) => Waits(x)'
    BY <1>7, StillNamed
  <2> QED BY <1>1, <1>2, <1>3, <1>7, <2>1 DEF Owned
<1>8. CASE SpeculateWithout(c)
  <2>1. UNCHANGED ready /\ \A x : InCall(x) => InCall(x)'
    BY <1>6, <1>8 DEF SpeculateWithout
  <2> QED BY <1>7, <2>1
<1>9. CASE SpeculatePooled(c) \/ SpeculateStale(c)
  <2>1. Pop /\ \E pc : BeginCall(c, pc, Popped)
    BY <1>9 DEF SpeculatePooled, SpeculateStale
  <2>2. calls'[c].unit = Popped /\ UNCHANGED running /\ \A x : InCall(x) => InCall(x)'
    BY <1>6, <2>1
  <2>3. \A x : Waits(x) => Waits(x)' \/ x = Popped.container
    <3> SUFFICES ASSUME NEW x, NEW k \in DOMAIN ready, ready[k].container = x
                 PROVE  Waits(x)' \/ x = Popped.container
      BY DEF Waits
    <3>1. ready \in Seq(Unit) /\ Len(ready) \in Nat
      BY DEF Typed, ReadyTyped
    <3>2. CASE k = Len(ready)
      BY <3>2 DEF Popped
    <3>3. CASE k # Len(ready)
      <4>1. k \in 1 .. Len(ready) - 1 /\ ready' = SubSeq(ready, 1, Len(ready) - 1)
        BY <2>1, <3>1, <3>3 DEF Pop
      <4>2. k \in DOMAIN ready' /\ ready'[k] = ready[k]
        BY <3>1, <4>1
      <4> QED BY <4>2 DEF Waits
    <3> QED BY <3>2, <3>3
  <2>4. \A x : x = Popped.container => InCall(x)'
    <3>1. Popped # NoUnit
      BY <2>1, PoppedUnit, UnitParts
    <3> QED BY <2>2, <3>1 DEF InCall, CallNames, CallHolds
  <2> QED BY <1>1, <1>2, <1>3, <2>2, <2>3, <2>4 DEF Owned
<1>10. ASSUME NEW outcome, NEW ran, Concludes(c, outcome, ran), calls[c].own = {}
       PROVE  \A x : InCall(x) => InCall(x)'
  <2> DEFINE s == [calls[c] EXCEPT !.pc = "destroying", !.own = {},
                                   !.outcome = outcome, !.ran = ran]
  <2>1. s.unit = calls[c].unit /\ s.own = {}
    BY DEF Typed, CallsTyped, CallState
  <2>2. calls' = [calls EXCEPT ![c] = s]
    BY <1>10 DEF Concludes
  <2> HIDE DEF s
  <2>3. \A d \in Call : CallKeeps(d)
    BY <1>4, <1>10, <2>1, <2>2 DEF CallKeeps
  <2> QED BY <2>3, StillNamed
<1>11. CASE Try(c) \/ TryTooLong(c)
  <2>1. UNCHANGED ready /\ calls[c].own = {}
    BY <1>1, <1>11 DEF Try, TryTooLong, pool, CallFits
  <2>2. \E outcome, ran : Concludes(c, outcome, ran)
    BY <1>11 DEF Try, TryTooLong
  <2> QED BY <1>7, <1>10, <2>1, <2>2
<1>13. CASE Discard(c)
  <2>1. /\ UNCHANGED ready /\ running' = running \ {mine}
        /\ \E s : calls' = [calls EXCEPT ![c] = s]
    BY <1>13 DEF Discard, pool, mine
  <2>2. \A x : InCall(x) => InCall(x)' \/ x = mine
    BY <1>1, <1>4, <1>5, <1>13, <2>1 DEF Discard, CallFits
  <2> QED BY <1>7, <2>1, <2>2
<1>14. CASE Destroy(c)
  <2>1. /\ UNCHANGED ready
        /\ CallHolds(c) => running' = running \ {mine}
        /\ \E s : calls' = [calls EXCEPT ![c] = s]
    BY <1>14 DEF Destroy, pool, CallHolds, mine
  <2>2. \A x : InCall(x) => InCall(x)' \/ (CallHolds(c) /\ x = mine)
    BY <1>1, <1>4, <1>5, <1>14, <2>1 DEF Destroy, CallFits
  <2> QED BY <1>7, <2>1, <2>2
<1> QED BY <1>8, <1>9, <1>11, <1>13, <1>14 DEF Speculate, Settle

LEMMA OwnedInvalidate ==
  ASSUME Typed, Typed', Owned, NEW v \in Invalidation, Invalidate(v) \/ InvalidatePool(v)
  PROVE  Owned'
<1>1. /\ InvalidationFits(invalidations[v]) /\ UNCHANGED <<calls, strays>>
      /\ running' \subseteq running
      /\ UNCHANGED tasks \/ tasks' \in Spawned(tasks)
  BY DEF Typed, InvalidationsTyped, Invalidate, InvalidatePool, TakeAll, DestroyTaken, Invalidated
<1>2. \A t \in Task : tasks'[t].pc = "copied" => tasks'[t].unit.container \notin running'
  <2>1. \A t \in Task : TaskKeeps(t) \/ TaskLets(t)
    BY <1>1, TasksLet
  <2> QED BY <1>1, <2>1, NotYetRunning
<1>3. \A x : (InTask(x) => InTask(x)') /\ (InCall(x) => InCall(x)')
  <2>1. /\ UNCHANGED tasks => \A t \in Task : TaskKeeps(t)
        /\ \A c \in Call : CallKeeps(c)
    BY <1>1, TasksLet DEF CallKeeps
  <2> QED BY <1>1, <2>1, StillNamed
<1>4. ASSUME UNCHANGED ready, NEW s, invalidations' = [invalidations EXCEPT ![v] = s],
             \A x \in running' \ strays : \A u \in invalidations[v].units :
               u.container = x => \E w \in s.units : w.container = x
      PROVE  Owned'
  <2>1. \A x : Waits(x) => Waits(x)'
    BY <1>4, StillNamed
  <2>2. ASSUME NEW x \in running' \ strays, Taken(x) PROVE Taken(x)'
    <3>1. invalidations'[v] = s
      BY <1>4, NamedByOthers
    <3>2. Taken(x)' \/ \E u \in invalidations[v].units : u.container = x
      BY <1>4, <2>2, NamedByOthers
    <3>3. CASE \E u \in invalidations[v].units : u.container = x
      <4>1. \E w \in s.units : w.container = x
        BY <1>4, <3>3
      <4> QED BY <3>1, <4>1 DEF Taken
    <3> QED BY <3>2, <3>3
  <2> QED BY <1>1, <1>2, <1>3, <2>1, <2>2 DEF Owned
<1>5. CASE Invalidate(v)
  <2> DEFINE s == [invalidations[v] EXCEPT !.pc = "waiting"]
  <2>1. s.units = invalidations[v].units
    BY DEF Typed, InvalidationsTyped, InvalidationState
  <2>2. UNCHANGED ready /\ invalidations' = [invalidations EXCEPT ![v] = s]
    BY <1>5 DEF Invalidate, pool
  <2> HIDE DEF s
  <2> QED BY <1>4, <2>1, <2>2
<1>6. CASE TakeAll(v)
  <2> DEFINE s == [pc |-> "destroying", units |-> {ready[k] : k \in DOMAIN ready}]
  <2>1. invalidations[v].units = {} /\ UNCHANGED running
    BY <1>1, <1>6 DEF TakeAll, InvalidationFits
  <2>2. invalidations' = [invalidations EXCEPT ![v] = s]
    BY <1>6 DEF TakeAll
  <2>3. invalidations'[v] = s /\ \A x : Taken(x) => Taken(x)'
    <3> HIDE DEF s
    <3> QED BY <2>1, <2>2, NamedByOthers
  <2>4. \A x : Waits(x) => Taken(x)'
    <3> SUFFICES ASSUME NEW x, NEW k \in DOMAIN ready, ready[k].container = x
                 PROVE  Taken(x)'
      BY DEF Waits
    <3>1. ready[k] \in invalidations'[v].units
      BY <2>3
    <3> QED BY <3>1 DEF Taken
  <2> QED BY <1>1, <1>2, <1>3, <2>1, <2>3, <2>4 DEF Owned
<1>7. CASE DestroyTaken(v)
  <2>1. PICK u \in invalidations[v].units :
          /\ running' = running \ {u.container}
          /\ invalidations' = [invalidations EXCEPT ![v].units = @ \ {u}]
    BY <1>7 DEF DestroyTaken
  <2> DEFINE s == [invalidations[v] EXCEPT !.units = @ \ {u}]
  <2>2. s.units = invalidations[v].units \ {u}
    BY DEF Typed, InvalidationsTyped, InvalidationState
  <2>3. UNCHANGED ready /\ invalidations' = [invalidations EXCEPT ![v] = s]
    BY <1>7, <2>1 DEF DestroyTaken, pool
  <2> HIDE DEF s
  <2> QED BY <1>4, <2>1, <2>2, <2>3
<1>8. CASE Invalidated(v)
  BY <1>4, <1>8 DEF Invalidated, pool
<1> QED BY <1>5, <1>6, <1>7, <1>8 DEF InvalidatePool

LEMMA OwnedStep ==
  ASSUME Typed, Typed', Apart, Owned, [Next]_vars
  PROVE  Owned'
<1>1. ASSUME UNCHANGED <<ready, calls, invalidations>>,
             UNCHANGED tasks \/ tasks' \in Spawned(tasks),
             running' \subseteq running, running' \ strays' \subseteq running \ strays
      PROVE  Owned'
  <2>1. /\ UNCHANGED tasks => \A t \in Task : TaskKeeps(t)
        /\ \A c \in Call : CallKeeps(c)
        /\ \A t \in Task : TaskKeeps(t) \/ TaskLets(t)
    BY <1>1, TasksLet DEF CallKeeps
  <2>2. \A t \in Task : tasks'[t].pc = "copied" => tasks'[t].unit.container \notin running'
    BY <1>1, <2>1, NotYetRunning
  <2>3. \A x : Waits(x) \/ InTask(x) \/ InCall(x) \/ Taken(x) =>
               (Waits(x) \/ InTask(x) \/ InCall(x) \/ Taken(x))'
    BY <1>1, <2>1, StillNamed
  <2> QED BY <1>1, <2>2, <2>3 DEF Owned
<1>2. ASSUME NEW f \in File, Edit(f) PROVE Owned'
  <2>1. UNCHANGED <<pool, tasks, invalidations, calls, reaper, running, strays, spent>>
    BY <1>2, EditedTree DEF Typed
  <2> QED BY <1>1, <2>1 DEF pool
<1>3. CASE ListContainers
  BY <1>1, <1>3 DEF ListContainers, pool
<1>4. CASE KillContainer
  <2>1. \E x : running' = running \ {x} /\ strays' = strays \ {x}
    BY <1>4 DEF KillContainer
  <2>2. running' \subseteq running /\ running' \ strays' \subseteq running \ strays
    BY <2>1
  <2> QED BY <1>1, <1>4, <2>2 DEF KillContainer, pool
<1>5. CASE Started
  BY <1>1, <1>5 DEF Started, pool
<1>6. CASE Crash
  <2>1. running' \ strays' = {} /\ \A t \in Task : tasks'[t].pc # "copied"
    BY <1>6, IdleRecords DEF Crash
  <2> QED BY <2>1 DEF Owned
<1>7. CASE UNCHANGED vars
  BY <1>1, <1>7 DEF vars
<1> QED BY <1>2, <1>3, <1>4, <1>5, <1>6, <1>7, OwnedReplenish, OwnedCall, OwnedFallback,
        OwnedInvalidate
        DEF Next, Reap

\* However replenishing, invalidation, use and reaping interleave, the pool leaks
\* no container: one that runs waits, is tried, or is about to be destroyed, but
\* for those a dead daemon or a docker run that was given up left behind.
THEOREM NoContainerLeaked == Spec => []ContainersOwned
<1>1. Init => Owned
  BY IdleRecords DEF Init, Owned
<1>2. Owned => ContainersOwned
  BY HeldMeaning DEF Owned, ContainersOwned, Waits, InTask, InCall, CallNames, Taken
<1> QED BY <1>1, <1>2, TypedAlways, ApartAlways, OwnedStep, PTL DEF Spec
=============================================================================
