------------------------------ MODULE TwinPool ------------------------------
(***************************************************************************)
(* The pool of warm Docker twins, tractusd/src/twin.rs: PooledTwin, its    *)
(* replenishing tasks, invalidation, and the reaping of old containers.    *)
(*                                                                         *)
(* A unit is a snapshot of the workspace mounted in a container that idles *)
(* until one command is tried in it.  The workspace is edited by the user  *)
(* and by what the daemon has let through, without the pool's knowledge: a *)
(* file is written, removed, renamed, or put there with the modified time  *)
(* it had elsewhere.  Time is the number of edits so far.  What the tried  *)
(* command changes is left out: the model tells apart whether it ran and   *)
(* what it ran on.                                                         *)
(*                                                                         *)
(* Tasks yield only where the code awaits: the pool's lock, cp, docker.    *)
(* cp is one step: an edit during it does what one right after it does.    *)
(***************************************************************************)
EXTENDS Integers, Sequences, FiniteSets

CONSTANTS
  File,
  Call,              \* speculations under way at a time: a bound
  Task,              \* replenishing tasks at a time: a bound
  Invalidation,      \* invalidating tasks at a time: a bound
  PoolSize,          \* 2 in the code
  MaxContainers,     \* containers named at a time: a bound
  MaxEdits, MaxCalls, MaxInvalidations, MaxFailures, MaxCrashes,
  Absent,            \* a file that does not exist
  NoUnit

ASSUME SizeAssumption == PoolSize \in Nat \ {0}
ASSUME FileAssumption == IsFiniteSet(File)
ASSUME BoundsAssumption == MaxEdits \in Nat

VARIABLES
  workspace, edits,
  ready,             \* PoolState.ready, the last one is popped
  generation,        \* PoolState.generation
  tasks, invalidations, calls, reaper,
  running,           \* containers that idle
  strays,            \* auxiliary: containers whose owner died or gave them up
  spent              \* bounds: calls, invalidations, failures and crashes so far

vars == <<workspace, edits, ready, generation, tasks, invalidations, calls, reaper,
          running, strays, spent>>
disk == <<workspace, edits>>
pool == <<ready, generation>>

-----------------------------------------------------------------------------
(* Workspace *)

\* What a file holds: named by the edit that made it, and where, with its
\* modified time.
Content == [made : 0 .. MaxEdits, at : File, time : 0 .. MaxEdits]

ASSUME AbsentAssumption == Absent \notin Nat \union Content

Tree == [File -> Content \union {Absent}]

Present(tree) == {f \in File : tree[f] # Absent}

Contents(tree) == {tree[f] : f \in Present(tree)}

\* Contents that were written where they were made, then; the others came with
\* an older time.
Written(tree) == {content \in Contents(tree) : content.time = content.made}

Newest(tree) ==
  IF Present(tree) = {} THEN Absent
  ELSE CHOOSE n \in {tree[f].time : f \in Present(tree)} :
         \A f \in Present(tree) : tree[f].time <= n

\* Seeded fault: only the number of files is compared.
FingerprintByCount(tree) == [count |-> Cardinality(Present(tree)), newest |-> Absent]

\* workspace_fingerprint: how many files, and the newest modified time.
Fingerprint(tree) == [count |-> Cardinality(Present(tree)), newest |-> Newest(tree)]

Becomes(tree) ==
  /\ edits < MaxEdits
  /\ edits' = edits + 1
  /\ workspace' = tree
  /\ UNCHANGED <<pool, tasks, invalidations, calls, reaper, running, strays, spent>>

\* A file is written now, or comes from elsewhere with the time it had there.
Put(f, time) ==
  Becomes([workspace EXCEPT ![f] = [made |-> edits + 1, at |-> f, time |-> time]])

Remove(f) == f \in Present(workspace) /\ Becomes([workspace EXCEPT ![f] = Absent])

\* A rename takes the file's time along, and replaces what was there.
Rename(f, g) ==
  /\ f \in Present(workspace) /\ f # g
  /\ Becomes([workspace EXCEPT ![f] = Absent, ![g] = workspace[f]])

Edit(f) ==
  \/ \E time \in 0 .. edits + 1 : Put(f, time)
  \/ Remove(f)
  \/ \E g \in File : Rename(f, g)

-----------------------------------------------------------------------------
(* Units and tasks *)

Container == 1 .. MaxContainers

WorkspaceFingerprint ==
  [count : 0 .. Cardinality(File), newest : (0 .. MaxEdits) \union {Absent}]

\* gen and seen are auxiliary: the generation when the snapshot was taken and
\* the workspace when it was fingerprinted.
Unit ==
  [container : Container, files : Tree, workspace : WorkspaceFingerprint, gen : Nat, seen : Tree]

ASSUME NoUnitAssumption == NoUnit \notin Unit

IdleTask == [pc |-> "idle", gen |-> 0, unit |-> NoUnit]
IdleInvalidation == [pc |-> "idle", units |-> {}]
IdleCall == [pc |-> "idle", unit |-> NoUnit, own |-> {}, outcome |-> "none", ran |-> FALSE]

TaskState ==
  [pc : {"idle", "looking", "copying", "copied", "pushing", "dropping"},
   gen : Nat, unit : Unit \union {NoUnit}]

InvalidationState == [pc : {"idle", "waiting", "destroying"}, units : SUBSET Unit]

\* own: the container of the call's own that a fallback runs.
CallState ==
  [pc : {"idle", "discarding", "trying", "destroying",
         "fallback", "overlay", "fallback-copy", "copy"},
   unit : Unit \union {NoUnit}, own : SUBSET Container,
   outcome : {"none", "effects", "opaque", "twin-timeout"}, ran : BOOLEAN]

\* Containers named by something that will still use or remove them.
Held ==
  {ready[k].container : k \in DOMAIN ready}
  \union {tasks[t].unit.container : t \in {t \in Task : tasks[t].unit # NoUnit}}
  \union {calls[c].unit.container : c \in {c \in Call : calls[c].unit # NoUnit}}
  \union (UNION {calls[c].own : c \in Call})
  \union (UNION {{u.container : u \in invalidations[v].units} : v \in Invalidation})

\* Every container has a new name: the model takes one that nothing refers to any
\* more, the least for a unit (pool_container_name), the greatest for a fallback.
Unused == Container \ (Held \union running \union reaper.victims)

\* tokio::spawn of schedule_replenish's loop, in a slot that is free.
Spawned(ts) ==
  {[ts EXCEPT ![t] = [IdleTask EXCEPT !.pc = "looking"]] : t \in {t \in Task : ts[t].pc = "idle"}}

Init ==
  /\ workspace = [f \in File |-> [made |-> 0, at |-> f, time |-> 0]] /\ edits = 0
  /\ ready = <<>> /\ generation = 0
  /\ tasks = [t \in Task |-> IdleTask]
  /\ invalidations = [v \in Invalidation |-> IdleInvalidation]
  /\ calls = [c \in Call |-> IdleCall]
  /\ reaper = [pc |-> "listing", victims |-> {}]
  /\ running = {} /\ strays = {}
  /\ spent = [calls |-> 0, invalidations |-> 0, failures |-> 0, crashes |-> 0]

-----------------------------------------------------------------------------
(* schedule_replenish: look, make a unit outside the lock, push it if the  *)
(* generation it was begun in still stands, and look again.                *)

Look(t) ==
  /\ tasks[t].pc = "looking"
  /\ tasks' = [tasks EXCEPT ![t] =
       IF Len(ready) >= PoolSize THEN IdleTask
       ELSE [IdleTask EXCEPT !.pc = "copying", !.gen = generation]]
  /\ UNCHANGED <<disk, pool, invalidations, calls, reaper, running, strays, spent>>

\* create_ready_unit copies the workspace first ...
CopyWorkspace(t) ==
  /\ tasks[t].pc = "copying"
  /\ \E container \in Unused :
       /\ \A other \in Unused : container <= other
       /\ tasks' = [tasks EXCEPT ![t].pc = "copied", ![t].unit =
            [container |-> container, files |-> workspace,
             workspace |-> Fingerprint(workspace), gen |-> generation, seen |-> workspace]]
  /\ UNCHANGED <<disk, pool, invalidations, calls, reaper, running, strays, spent>>

\* ... and fingerprints it afterwards, then runs the container.
RunContainer(t) ==
  /\ tasks[t].pc = "copied"
  /\ tasks' = [tasks EXCEPT ![t].pc = "pushing", ![t].unit.workspace = Fingerprint(workspace),
                            ![t].unit.seen = workspace]
  /\ running' = running \union {tasks[t].unit.container}
  /\ UNCHANGED <<disk, pool, invalidations, calls, reaper, strays, spent>>

\* cp or docker fails and the task ends.  A docker run that is killed because it
\* takes too long may have started, or still start, its container.
GiveUp(t) ==
  /\ tasks[t].pc \in {"copying", "copied"} /\ spent.failures < MaxFailures
  /\ tasks' = [tasks EXCEPT ![t] = IdleTask]
  /\ spent' = [spent EXCEPT !.failures = @ + 1]
  /\ \/ UNCHANGED <<running, strays>>
     \/ /\ tasks[t].pc = "copied"
        /\ running' = running \union {tasks[t].unit.container}
        /\ strays' = strays \union {tasks[t].unit.container}
  /\ UNCHANGED <<disk, pool, invalidations, calls, reaper>>

\* Seeded faults: the size or the generation is taken for granted.
AcceptsBeyondSize(task) == generation = task.gen
AcceptsAnyGeneration(task) == Len(ready) < PoolSize

Accepts(task) == generation = task.gen /\ Len(ready) < PoolSize

LooksAgain(t) == tasks' = [tasks EXCEPT ![t] = [IdleTask EXCEPT !.pc = "looking"]]

PushFrame ==
  UNCHANGED <<disk, generation, invalidations, calls, reaper, running, strays, spent>>

\* Seeded fault: a task ends once it has pushed a unit.
PushOnce(t) ==
  /\ tasks[t].pc = "pushing" /\ Accepts(tasks[t])
  /\ ready' = Append(ready, tasks[t].unit)
  /\ tasks' = [tasks EXCEPT ![t] = IdleTask]
  /\ PushFrame

Push(t) ==
  /\ tasks[t].pc = "pushing" /\ Accepts(tasks[t])
  /\ ready' = Append(ready, tasks[t].unit)
  /\ LooksAgain(t)
  /\ PushFrame

\* Seeded fault: a unit that is not wanted is forgotten with its container.
ForgetUnwanted(t) ==
  /\ tasks[t].pc = "pushing" /\ ~Accepts(tasks[t])
  /\ LooksAgain(t)
  /\ PushFrame /\ UNCHANGED ready

\* The unit has come too late: it is destroyed, outside the lock.
DropUnwanted(t) ==
  /\ tasks[t].pc = "pushing" /\ ~Accepts(tasks[t])
  /\ tasks' = [tasks EXCEPT ![t].pc = "dropping"]
  /\ PushFrame /\ UNCHANGED ready

Dropped(t) ==
  /\ tasks[t].pc = "dropping"
  /\ running' = running \ {tasks[t].unit.container}
  /\ LooksAgain(t)
  /\ UNCHANGED <<disk, pool, invalidations, calls, reaper, strays, spent>>

-----------------------------------------------------------------------------
(* invalidate: a task of its own, spawned after a report was recorded.     *)

Invalidate(v) ==
  /\ invalidations[v].pc = "idle" /\ spent.invalidations < MaxInvalidations
  /\ invalidations' = [invalidations EXCEPT ![v].pc = "waiting"]
  /\ spent' = [spent EXCEPT !.invalidations = @ + 1]
  /\ UNCHANGED <<disk, pool, tasks, calls, reaper, running, strays>>

TakeAll(v) ==
  /\ invalidations[v].pc = "waiting"
  /\ generation' = generation + 1
  /\ ready' = <<>>
  /\ invalidations' = [invalidations EXCEPT ![v] =
       [pc |-> "destroying", units |-> {ready[k] : k \in DOMAIN ready}]]
  /\ UNCHANGED <<disk, tasks, calls, reaper, running, strays, spent>>

DestroyTaken(v) ==
  /\ invalidations[v].pc = "destroying"
  /\ \E u \in invalidations[v].units :
       /\ running' = running \ {u.container}
       /\ invalidations' = [invalidations EXCEPT ![v].units = @ \ {u}]
  /\ UNCHANGED <<disk, pool, tasks, calls, reaper, strays, spent>>

Invalidated(v) ==
  /\ invalidations[v].pc = "destroying" /\ invalidations[v].units = {}
  /\ invalidations' = [invalidations EXCEPT ![v] = IdleInvalidation]
  /\ tasks' \in Spawned(tasks)
  /\ UNCHANGED <<disk, pool, calls, reaper, running, strays, spent>>

-----------------------------------------------------------------------------
(* speculate: take the last ready unit if it is fresh, else fall back to a *)
(* container of its own.  Nothing is awaited between the pop and the check. *)

IsFreshFor(u) == u.workspace = Fingerprint(workspace)

BeginCall(c, pc, u) ==
  /\ calls[c].pc = "idle" /\ spent.calls < MaxCalls
  /\ spent' = [spent EXCEPT !.calls = @ + 1]
  /\ calls' = [calls EXCEPT ![c] = [IdleCall EXCEPT !.pc = pc, !.unit = u]]
  /\ UNCHANGED <<disk, generation, invalidations, reaper, running, strays>>

SpeculateWithout(c) ==
  /\ ready = <<>>
  /\ BeginCall(c, "fallback", NoUnit)
  /\ tasks' \in Spawned(tasks)
  /\ UNCHANGED ready

Popped == ready[Len(ready)]

\* Seeded fault: the unit is looked at but not removed.
Peek == ready # <<>> /\ UNCHANGED ready

Pop == ready # <<>> /\ ready' = SubSeq(ready, 1, Len(ready) - 1)

SpeculatePooled(c) ==
  /\ Pop /\ IsFreshFor(Popped)
  /\ BeginCall(c, "trying", Popped)
  /\ tasks' \in Spawned(tasks)

SpeculateStale(c) ==
  /\ Pop /\ ~IsFreshFor(Popped)
  /\ BeginCall(c, "discarding", Popped)
  /\ UNCHANGED tasks

Discard(c) ==
  /\ calls[c].pc = "discarding"
  /\ running' = running \ {calls[c].unit.container}
  /\ calls' = [calls EXCEPT ![c].pc = "fallback", ![c].unit = NoUnit]
  /\ tasks' \in Spawned(tasks)
  /\ UNCHANGED <<disk, pool, invalidations, reaper, strays, spent>>

Concludes(c, outcome, ran) ==
  calls' = [calls EXCEPT ![c].pc = "destroying", ![c].own = {},
                         ![c].outcome = outcome, ![c].ran = ran]

\* docker exec ends and the diff is taken.  Its exit status is not looked at: it
\* is the command's, or docker's own, as when the container is gone.
Try(c) ==
  /\ calls[c].pc = "trying"
  /\ \/ \E ran \in {FALSE, calls[c].unit.container \in running} : Concludes(c, "effects", ran)
     \/ Concludes(c, "opaque", FALSE)
  /\ UNCHANGED <<disk, pool, tasks, invalidations, reaper, running, strays, spent>>

TryTooLong(c) ==
  /\ calls[c].pc = "trying"
  /\ running' = running \ {calls[c].unit.container}
  /\ Concludes(c, "twin-timeout", FALSE)
  /\ UNCHANGED <<disk, pool, tasks, invalidations, reaper, strays, spent>>

\* DockerTwin: a container of the call's own, that ends with the command, with an
\* overlay over the workspace or, where there are none, with a copy of it.  The
\* scratch tree, the copy or docker itself cannot be had: the answer is opaque.
RunFallback(c) ==
  /\ calls[c].pc \in {"fallback", "fallback-copy"}
  /\ \/ \E container \in Unused :
          /\ \A other \in Unused : other <= container
          /\ running' = running \union {container}
          /\ calls' = [calls EXCEPT ![c].own = {container},
               ![c].pc = IF calls[c].pc = "fallback" THEN "overlay" ELSE "copy"]
     \/ Concludes(c, "opaque", FALSE) /\ UNCHANGED running
  /\ UNCHANGED <<disk, pool, tasks, invalidations, reaper, strays, spent>>

\* Its docker run ends, whose status is not looked at either.  The script makes
\* the upper layer before it mounts it and runs the command; without that layer
\* the answer is opaque, and where the mount fails a copy is tried.
FallbackEnds(c) ==
  /\ calls[c].pc \in {"overlay", "copy"}
  /\ running' = running \ calls[c].own
  /\ \/ \E ran \in {FALSE, calls[c].own \subseteq running} : Concludes(c, "effects", ran)
     \/ Concludes(c, "opaque", FALSE)
     \/ /\ calls[c].pc = "overlay"
        /\ calls' = [calls EXCEPT ![c].pc = "fallback-copy", ![c].own = {}]
  /\ UNCHANGED <<disk, pool, tasks, invalidations, reaper, strays, spent>>

\* It takes too long, and the container is killed, unless it starts only then.
FallbackTooLong(c) ==
  /\ calls[c].pc \in {"overlay", "copy"}
  /\ Concludes(c, "twin-timeout", FALSE)
  /\ \/ running' = running \ calls[c].own /\ UNCHANGED <<strays, spent>>
     \/ /\ spent.failures < MaxFailures
        /\ spent' = [spent EXCEPT !.failures = @ + 1]
        /\ strays' = strays \union calls[c].own /\ UNCHANGED running
  /\ UNCHANGED <<disk, pool, tasks, invalidations, reaper>>

\* The unit is destroyed and the outcome returned.
Destroy(c) ==
  /\ calls[c].pc = "destroying"
  /\ running' = IF calls[c].unit = NoUnit THEN running ELSE running \ {calls[c].unit.container}
  /\ calls' = [calls EXCEPT ![c] = IdleCall]
  /\ UNCHANGED <<disk, pool, tasks, invalidations, reaper, strays, spent>>

-----------------------------------------------------------------------------
(* start: reap what an earlier daemon left, then replenish.  Requests are  *)
(* served meanwhile, and the names reaped are all those that run when      *)
(* docker ps looks, this daemon's own included.                            *)

ListContainers ==
  /\ reaper.pc = "listing"
  /\ \/ reaper' = [pc |-> "killing", victims |-> running] /\ UNCHANGED spent
     \/ /\ spent.failures < MaxFailures
        /\ spent' = [spent EXCEPT !.failures = @ + 1]
        /\ reaper' = [pc |-> "killing", victims |-> {}]
  /\ UNCHANGED <<disk, pool, tasks, invalidations, calls, running, strays>>

KillContainer ==
  /\ reaper.pc = "killing"
  /\ \E container \in reaper.victims :
       /\ reaper' = [reaper EXCEPT !.victims = @ \ {container}]
       /\ running' = running \ {container}
       /\ strays' = strays \ {container}
  /\ UNCHANGED <<disk, pool, tasks, invalidations, calls, spent>>

Started ==
  /\ reaper.pc = "killing" /\ reaper.victims = {}
  /\ reaper' = [reaper EXCEPT !.pc = "done"]
  /\ tasks' \in Spawned(tasks)
  /\ UNCHANGED <<disk, pool, invalidations, calls, running, strays, spent>>

\* The daemon dies and is started again: its containers outlive it.
Crash ==
  /\ spent.crashes < MaxCrashes
  /\ spent' = [spent EXCEPT !.crashes = @ + 1]
  /\ ready' = <<>> /\ generation' = 0
  /\ tasks' = [t \in Task |-> IdleTask]
  /\ invalidations' = [v \in Invalidation |-> IdleInvalidation]
  /\ calls' = [c \in Call |-> IdleCall]
  /\ reaper' = [pc |-> "listing", victims |-> {}]
  /\ strays' = running
  /\ UNCHANGED <<disk, running>>

-----------------------------------------------------------------------------
Replenish(t) ==
  \/ Look(t) \/ CopyWorkspace(t) \/ RunContainer(t) \/ GiveUp(t)
  \/ Push(t) \/ DropUnwanted(t) \/ Dropped(t)

Speculate(c) == SpeculateWithout(c) \/ SpeculatePooled(c) \/ SpeculateStale(c)
Settle(c) ==
  \/ Discard(c) \/ Try(c) \/ TryTooLong(c)
  \/ RunFallback(c) \/ FallbackEnds(c) \/ FallbackTooLong(c) \/ Destroy(c)
InvalidatePool(v) == TakeAll(v) \/ DestroyTaken(v) \/ Invalidated(v)
Reap == ListContainers \/ KillContainer \/ Started

Next ==
  \/ \E f \in File : Edit(f)
  \/ \E t \in Task : Replenish(t)
  \/ \E c \in Call : Speculate(c) \/ Settle(c)
  \/ \E v \in Invalidation : Invalidate(v) \/ InvalidatePool(v)
  \/ Reap
  \/ Crash

Spec == Init /\ [][Next]_vars

\* Every spawned task is polled, and every cp and docker it awaits ends.
Fairness ==
  /\ \A t \in Task : WF_vars(Replenish(t))
  /\ \A c \in Call : WF_vars(Settle(c))
  /\ \A v \in Invalidation : WF_vars(InvalidatePool(v))
  /\ WF_vars(Reap)

FairSpec == Spec /\ Fairness

-----------------------------------------------------------------------------
(* Properties *)

\* The pool holds at most PoolSize units, and every task is where the code can be.
TypeOK ==
  /\ workspace \in Tree /\ edits \in 0 .. MaxEdits
  /\ ready \in Seq(Unit) /\ Len(ready) <= PoolSize
  /\ generation \in Nat
  /\ tasks \in [Task -> TaskState]
  /\ invalidations \in [Invalidation -> InvalidationState]
  /\ calls \in [Call -> CallState]
  /\ reaper \in [pc : {"listing", "killing", "done"}, victims : SUBSET Container]
  /\ running \subseteq Container /\ strays \subseteq Container

\* Every unit that waits in the pool was copied after the last invalidation: a
\* unit begun before one is never pushed after it (schedule_replenish).
OneGeneration == \A k \in DOMAIN ready : ready[k].gen = generation

\* A container that runs will be removed by someone, unless its daemon died or
\* its docker run was given up: the pool leaks none, however replenishing,
\* invalidation and use interleave.
ContainersOwned == running \ strays \subseteq Held

\* A unit serves one command: nobody tries one that waits in the pool or that
\* another call tries (PooledTwin::speculate_inner).
UnitsUsedOnce ==
  \A c \in Call : calls[c].unit # NoUnit =>
    /\ \A k \in DOMAIN ready : ready[k].container # calls[c].unit.container
    /\ \A d \in Call \ {c} : calls[d].unit # calls[c].unit

\* A command is tried in a pooled unit only if no write since the unit was
\* fingerprinted is in the workspace, and no file is gone from it unless another
\* has come with an older time (is_fresh_for).  Renames go unnoticed.
EditsNoticed ==
  [][\A c \in Call : SpeculatePooled(c) =>
       LET then == Contents(Popped.seen)
           now == Contents(workspace)
       IN  /\ Written(workspace) \subseteq then
           /\ now \subseteq then => now = then]_vars

\* Once nothing takes units any more the pool fills up and stays full, unless
\* docker failed (each task goes round until it finds the pool full).
PoolRefills == <>[](Len(ready) = PoolSize \/ spent.failures > 0)

-----------------------------------------------------------------------------
(* What comments and documents say and the code does not do *)

\* The fingerprint "catches direct editor writes that never produce a daemon
\* report" (workspace_fingerprint): a unit that passes for fresh has a copy of
\* everything that was written in the workspace.
FreshHasTheWrites ==
  \A k \in DOMAIN ready : IsFreshFor(ready[k]) => Written(workspace) \subseteq Contents(ready[k].files)

\* "twin failure always routes to NeedsHuman" (TRACTUS_CORE section 3): effects
\* are returned only for a command that ran.
FailureAsksHuman == \A c \in Call : calls[c].outcome = "effects" => calls[c].ran
=============================================================================
