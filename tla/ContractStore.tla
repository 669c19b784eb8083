---------------------------- MODULE ContractStore ----------------------------
(***************************************************************************)
(* tractus/src/store.rs: the contract documents of one workspace and the   *)
(* state file that names the active one, read and written by several       *)
(* tractus processes without a lock.  A step is one access to the disk.    *)
(* write_json_atomic writes a temporary file and renames it over the old   *)
(* one, so a write is one step, and a process that dies before the rename  *)
(* has written nothing that any reader looks at.                           *)
(*                                                                         *)
(* An id stands for its contract: the code never writes another contract   *)
(* under an id.  Every file decodes and compiles.                          *)
(***************************************************************************)
EXTENDS Naturals, FiniteSets

CONSTANTS
  Proc,          \* tractus processes
  Id,            \* names of documents
  Limits,        \* MIN_RETENTION_LIMIT..MAX_RETENTION_LIMIT
  DefaultLimit,  \* DEFAULT_RETENTION_LIMIT
  Now,           \* what now_millis may answer: the clock may stand or jump
  Initial,       \* bound: the numbers of documents a run may start with
  MaxCrashes,    \* bound: processes that die in the middle of a call
  None,          \* no document
  Unmade,        \* the file of an id that nobody was given yet
  Pruned         \* a file that was removed

ASSUME StoreAssumption ==
  /\ IsFiniteSet(Id) /\ Id = 1 .. Cardinality(Id)
  /\ Limits \subseteq Nat \ {0} /\ DefaultLimit \in Limits
  /\ Now \subseteq Nat /\ Now # {}
  /\ Initial \subseteq (0 .. DefaultLimit) \intersect ({0} \union Id) /\ MaxCrashes \in Nat
  /\ None \notin Id

VARIABLES
  documents,   \* .tractus/contracts: each id's file
  stateFile,   \* .tractus/state.json
  calls,       \* the store operation each process is in
  crashes,     \* processes that died in a call
  contended    \* auxiliary: two calls have overlapped

storeVars == <<documents, stateFile, calls, crashes, contended>>

Document == [created : Nat, used : Nat]

ASSUME FileAssumption == Unmade \notin Document /\ Pruned \notin Document /\ Unmade # Pruned

StoreState == [active : Id \union {None}, limit : Limits]
Default == [active |-> None, limit |-> DefaultLimit]
Stages == {"idle", "loading", "readingState", "readingDirectory", "readingDocuments",
           "writingChosen", "pruning", "writingState", "done", "failed"}

\* The locals of a call: the state and the documents as they were read, the
\* files still to be read, the document it is about.
NoCall == [op |-> "none", at |-> "idle", state |-> Default, listed |-> {},
           seen |-> <<>>, id |-> None]

Kept == {i \in Id : documents[i] \in Document}
Busy(p) == calls[p].at \notin {"idle", "done", "failed"}
At(p, stage) == calls[p].at = stage
AllRead(p, op) == At(p, "readingDocuments") /\ calls[p].op = op /\ calls[p].listed = {}

StoreTypeOK ==
  /\ documents \in [Id -> Document \union {Unmade, Pruned}]
  /\ stateFile \in StoreState
  /\ \A p \in Proc :
       /\ calls[p].op \in {"none", "create", "activate", "list", "retain"}
       /\ calls[p].at \in Stages
       /\ calls[p].state \in StoreState
       /\ calls[p].listed \subseteq Id
       /\ DOMAIN calls[p].seen \subseteq Id
       /\ \A i \in DOMAIN calls[p].seen : calls[p].seen[i] \in Document
       /\ calls[p].id \in Id \union {None}
  /\ crashes \in 0 .. MaxCrashes /\ contended \in BOOLEAN

\* Some documents were created one after another: the last is active.
StoreInit ==
  \E n \in Initial :
    /\ documents = [i \in Id |-> IF i <= n THEN [created |-> i, used |-> i] ELSE Unmade]
    /\ stateFile = [active |-> IF n = 0 THEN None ELSE n, limit |-> DefaultLimit]
    /\ calls = [p \in Proc |-> NoCall]
    /\ crashes = 0 /\ contended = FALSE

-----------------------------------------------------------------------------
\* The five operations, up to their first access to the disk.
Enter(p, frame) ==
  /\ calls[p].at \in {"idle", "done"}
  /\ calls' = [calls EXCEPT ![p] = frame]
  /\ contended' = (contended \/ \E q \in Proc \ {p} : Busy(q))
  /\ UNCHANGED <<documents, stateFile, crashes>>

Create(p) == Enter(p, [NoCall EXCEPT !.op = "create", !.at = "readingState"])
Activate(p, i) == Enter(p, [NoCall EXCEPT !.op = "activate", !.at = "readingState", !.id = i])
LoadActive(p) == Enter(p, [NoCall EXCEPT !.op = "activate", !.at = "loading"])
List(p) == Enter(p, [NoCall EXCEPT !.op = "list", !.at = "readingDirectory"])
SetRetentionLimit(p, n) ==
  Enter(p, [NoCall EXCEPT !.op = "retain", !.at = "readingState", !.state.limit = n])

-----------------------------------------------------------------------------
\* A step of p's call that only moves its frame, or ends the call with an error.
Proceeds(p, frame) ==
  /\ calls' = [calls EXCEPT ![p] = frame]
  /\ UNCHANGED <<documents, stateFile, crashes, contended>>
Fails(p) == Proceeds(p, [NoCall EXCEPT !.at = "failed"])
Ends(p, i) == calls' = [calls EXCEPT ![p] = [NoCall EXCEPT !.at = "done", !.id = i]]

\* load_active looks up the active id and then calls activate, which reads the
\* state again.
ReadActiveId(p) ==
  /\ At(p, "loading")
  /\ \/ /\ stateFile.active = None
        /\ Ends(p, None)
        /\ UNCHANGED <<documents, stateFile, crashes, contended>>
     \/ /\ stateFile.active # None
        /\ Proceeds(p, [calls[p] EXCEPT !.at = "readingState", !.id = stateFile.active])

StateToWrite(p) ==
  IF calls[p].op = "retain" THEN [stateFile EXCEPT !.limit = calls[p].state.limit] ELSE stateFile

ReadState(p) ==
  /\ At(p, "readingState")
  /\ Proceeds(p, [calls[p] EXCEPT !.at = "readingDirectory", !.state = StateToWrite(p)])

ReadDirectory(p) ==
  /\ At(p, "readingDirectory")
  /\ Proceeds(p, [calls[p] EXCEPT !.at = "readingDocuments", !.listed = Kept])

\* The documents are read one by one, in whatever order the directory gives.
ReadDocument(p) ==
  /\ At(p, "readingDocuments")
  /\ \E i \in calls[p].listed :
       \/ i \notin Kept /\ Fails(p)
       \/ /\ i \in Kept
          /\ Proceeds(p, [calls[p] EXCEPT
               !.listed = @ \ {i},
               !.seen = [j \in DOMAIN @ \union {i} |-> IF j = i THEN documents[i] ELSE @[j]]])

\* Every contract, most recently used first: all of them are offered.
Listed(p) ==
  /\ AllRead(p, "list")
  /\ Proceeds(p, [calls[p] EXCEPT !.at = "done"])

Stamps(seen) == {0} \union UNION {{seen[i].created, seen[i].used} : i \in DOMAIN seen}
MostRecent(seen) == CHOOSE t \in Stamps(seen) : \A u \in Stamps(seen) : u <= t
NextTimestamp(seen, now) ==
  IF now > MostRecent(seen) THEN now ELSE MostRecent(seen) + 1

\* allocate_id: no file has the id, and it holds the process id and the time.
NewIds == {i \in Id : documents[i] = Unmade /\ \A j \in Id : documents[j] = Unmade => i <= j}

WriteNew(p) ==
  /\ AllRead(p, "create")
  /\ \E i \in NewIds, now \in Now :
       LET stamp == NextTimestamp(calls[p].seen, now)
           document == [created |-> stamp, used |-> stamp] IN
       /\ documents' = [documents EXCEPT ![i] = document]
       /\ calls' = [calls EXCEPT
            ![p].at = "pruning", ![p].id = i, ![p].state.active = i,
            ![p].seen = [j \in DOMAIN @ \union {i} |-> IF j = i THEN document ELSE @[j]]]
  /\ UNCHANGED <<stateFile, crashes, contended>>

\* activate reads the chosen document once more ...
ReadChosen(p) ==
  /\ AllRead(p, "activate")
  /\ LET i == calls[p].id IN
     \/ i \notin Kept /\ Fails(p)
     \/ /\ i \in Kept
        /\ \E now \in Now :
             Proceeds(p, [calls[p] EXCEPT
               !.at = "writingChosen", !.state.active = i,
               !.seen = [j \in {i} |->
                          [documents[i] EXCEPT !.used = NextTimestamp(calls[p].seen, now)]]])

\* ... and writes it back, whether or not it is still there.
WriteChosen(p) ==
  /\ At(p, "writingChosen")
  /\ documents' = [documents EXCEPT ![calls[p].id] = calls[p].seen[calls[p].id]]
  /\ calls' = [calls EXCEPT ![p].at = "writingState", ![p].seen = <<>>]
  /\ UNCHANGED <<stateFile, crashes, contended>>

-----------------------------------------------------------------------------
\* Mutant: the oldest document goes, however recently it was used.
OlderByCreation(d, e) == d.created <= e.created

\* The least recently used of the documents seen, never the active one.  Ties
\* are broken by the creation time and then by the id's text, which is any order.
Older(d, e) == d.used < e.used \/ (d.used = e.used /\ d.created <= e.created)
Victims(seen, active) ==
  {v \in DOMAIN seen \ {active} : \A i \in DOMAIN seen \ {active} : Older(seen[v], seen[i])}

Pruning(p) == At(p, "pruning") \/ AllRead(p, "retain")
Crowded(p) == Cardinality(DOMAIN calls[p].seen) > calls[p].state.limit

PruneLru(p) ==
  /\ Pruning(p) /\ Crowded(p)
  /\ \E v \in Victims(calls[p].seen, calls[p].state.active) :
       \/ v \notin Kept /\ Fails(p)
       \/ /\ v \in Kept
          /\ documents' = [documents EXCEPT ![v] = Pruned]
          /\ calls' = [calls EXCEPT
               ![p].at = "pruning",
               ![p].seen = [i \in DOMAIN @ \ {v} |-> @[i]]]
          /\ UNCHANGED <<stateFile, crashes, contended>>

SavingState(p) == At(p, "writingState") \/ (Pruning(p) /\ ~Crowded(p))

WriteState(p) ==
  /\ SavingState(p)
  /\ stateFile' = calls[p].state
  /\ Ends(p, calls[p].id)
  /\ UNCHANGED <<documents, crashes, contended>>

StoreStep(p) ==
  \/ ReadActiveId(p) \/ ReadState(p) \/ ReadDirectory(p) \/ ReadDocument(p)
  \/ Listed(p) \/ WriteNew(p) \/ ReadChosen(p) \/ WriteChosen(p)
  \/ PruneLru(p) \/ WriteState(p)

\* The process dies in the middle of a call.
Crash(p) ==
  /\ Busy(p) /\ crashes < MaxCrashes
  /\ crashes' = crashes + 1
  /\ calls' = [calls EXCEPT ![p] = NoCall]
  /\ UNCHANGED <<documents, stateFile, contended>>

-----------------------------------------------------------------------------
SmallestLimit == CHOOSE n \in Limits : \A m \in Limits : n <= m

OnShelf == INSTANCE Shelf WITH
  kept <- Kept, active <- stateFile.active, MinLimit <- SmallestLimit

\* As long as no two calls overlap, and few processes die, every step is one of the
\* shelf: the state file names a document that exists, and only the excess is
\* removed.  A call that dies after write_document leaves a document more recent
\* than the active one: each such death ages the active document by one place, and
\* pruning comes before the state is written.
KeepsShelf ==
  [][contended' \/ crashes' + 1 >= SmallestLimit \/ OnShelf!Next]_<<Kept, stateFile.active>>
=============================================================================
