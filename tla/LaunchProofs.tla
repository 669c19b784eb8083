----------------------------- MODULE LaunchProofs ----------------------------
(* What the commands of one workspace find in its store and at its socket, *)
(* for any number of processes, documents, daemons and deaths.             *)
EXTENDS Launch, WellFoundedInduction, FiniteSetTheorems, TLAPS

-----------------------------------------------------------------------------
(* Timestamps *)

\* The numbers below another one.
Below == {pair \in Nat \X Nat : pair[1] < pair[2]}

LEMMA BelowIsWellFounded == IsWellFoundedOn(Below, Nat)
<1>1. IsWellFoundedOn(OpToRel(<, Nat), Nat)
  BY NatLessThanWellFounded
<1>2. Below = OpToRel(<, Nat)
  BY DEF Below, OpToRel
<1> QED BY <1>1, <1>2

\* A set of naturals that is not empty has a least element ...
LEMMA Least ==
  ASSUME NEW T \in SUBSET Nat, T # {}
  PROVE  \E m \in T : \A k \in T : m <= k
<1>1. PICK m \in T : \A k \in T : ~(<<k, m>> \in Below)
  <2> HIDE DEF Below
  <2> QED BY BelowIsWellFounded, WFMin
<1>2. ASSUME NEW k \in T PROVE m <= k
  <2>1. <<k, m>> \notin Below /\ k \in Nat /\ m \in Nat
    BY <1>1
  <2>2. ~(k < m)
    BY <2>1 DEF Below
  <2> QED BY <2>1, <2>2
<1> QED BY <1>1, <1>2

\* ... and, where it has an upper bound, a greatest one.
LEMMA Greatest ==
  ASSUME NEW T \in SUBSET Nat, T # {}, NEW b \in Nat, \A k \in T : k <= b
  PROVE  \E m \in T : \A k \in T : k <= m
<1> DEFINE U == {u \in Nat : \A k \in T : k <= u}
<1>1. PICK m \in U : \A u \in U : m <= u
  <2>1. U \in SUBSET Nat /\ U # {}
    OBVIOUS
  <2> HIDE DEF U
  <2> QED BY <2>1, Least
<1>2. CASE m \in T
  BY <1>2
<1>3. CASE m \notin T
  <2>1. PICK k \in T : TRUE
    OBVIOUS
  <2>2. \A j \in T : j < m
    BY <1>3
  <2>3. m - 1 \in U
    <3>1. m \in Nat /\ k \in Nat /\ k < m
      BY <2>1, <2>2
    <3>2. \A j \in T : j \in Nat /\ j <= m - 1
      BY <2>2, <3>1
    <3> QED BY <3>1, <3>2
  <2>4. m <= m - 1
    BY <1>1, <2>3
  <2> QED BY <2>1, <2>2, <2>4
<1> QED BY <1>2, <1>3

\* What the first n ids are mapped to is bounded.
BoundedUpTo(f, n) == \E b \in Nat : \A i \in DOMAIN f : i <= n => f[i] <= b

LEMMA FinitelyManyAreBounded ==
  ASSUME NEW f, NEW n \in Nat, DOMAIN f \subseteq 1 .. n, \A i \in DOMAIN f : f[i] \in Nat
  PROVE  \E b \in Nat : \A i \in DOMAIN f : f[i] <= b
<1> DEFINE T == {k \in Nat : ~BoundedUpTo(f, k)}
<1>1. ASSUME T # {} PROVE FALSE
  <2>1. PICK k \in T : \A j \in T : k <= j
    <3>1. T \in SUBSET Nat
      OBVIOUS
    <3> HIDE DEF T
    <3> QED BY <1>1, <3>1, Least
  <2>2. k # 0
    <3>1. \A i \in DOMAIN f : i <= 0 => f[i] <= 0
      OBVIOUS
    <3>2. BoundedUpTo(f, 0)
      BY <3>1 DEF BoundedUpTo
    <3> QED BY <3>2
  <2>3. k - 1 \in Nat /\ k - 1 \notin T
    BY <2>1, <2>2
  <2>4. PICK b \in Nat : \A i \in DOMAIN f : i <= k - 1 => f[i] <= b
    BY <2>3 DEF BoundedUpTo
  <2>5. CASE k \in DOMAIN f
    <3> DEFINE c == b + f[k]
    <3>1. c \in Nat /\ b <= c /\ f[k] <= c
      BY <2>5
    <3>2. ASSUME NEW i \in DOMAIN f, i <= k PROVE f[i] <= c
      <4>1. CASE i = k
        BY <3>1, <4>1
      <4>2. CASE i # k
        <5>1. i <= k - 1 /\ f[i] \in Nat
          BY <3>2, <4>2
        <5> QED BY <2>4, <3>1, <5>1
      <4> QED BY <4>1, <4>2
    <3>3. BoundedUpTo(f, k)
      BY <3>1, <3>2 DEF BoundedUpTo
    <3> QED BY <3>3
  <2>6. CASE k \notin DOMAIN f
    <3>1. \A i \in DOMAIN f : i <= k => i <= k - 1
      BY <2>6
    <3>2. BoundedUpTo(f, k)
      BY <2>4, <3>1 DEF BoundedUpTo
    <3> QED BY <3>2
  <2> QED BY <2>5, <2>6
<1>2. BoundedUpTo(f, n)
  BY <1>1
<1> QED BY <1>2 DEF BoundedUpTo

-----------------------------------------------------------------------------
(* Type correctness *)

\* Some of the documents, as they were read.
Seens == UNION {[S -> Document] : S \in SUBSET Id}
Frames ==
  [op : {"none", "create", "activate", "list", "retain"}, at : Stages, state : StoreState,
   listed : SUBSET Id, seen : Seens, id : Id \union {None}]
ProgramState ==
  [command : {"none", "new", "codex", "launch", "retain"},
   stage : Over \union Registering \union
           {"listing", "creating", "activating", "loading", "retaining", "agent"},
   picked : Id \union {None}, contract : Id \union {None},
   peer : Daemon \union {None}, child : Daemon \union {None},
   attempts : 0 .. MaxAttempts,
   why : {"none", "store", "empty", "rejected", "exited", "timeout", "io", "codex"}]

DocumentsTyped == documents \in [Id -> Document \union {Unmade, Pruned}]
CallsTyped == calls \in [Proc -> Frames]
ProgramTyped == program \in [Proc -> ProgramState]

Typed ==
  /\ DocumentsTyped /\ stateFile \in StoreState /\ CallsTyped
  /\ crashes \in 0 .. MaxCrashes /\ contended \in BOOLEAN
  /\ SocketTypeOK
  /\ ProgramTyped /\ commands \in 0 .. MaxCommands /\ displaced \in [Proc -> BOOLEAN]

LEMMA Constants ==
  /\ IsFiniteSet(Id) /\ Cardinality(Id) \in Nat /\ Id = 1 .. Cardinality(Id) /\ Id \subseteq Nat
  /\ Limits \subseteq Nat /\ DefaultLimit \in Limits /\ Now \subseteq Nat
  /\ Initial \subseteq 0 .. DefaultLimit /\ Initial \subseteq {0} \union Id
  /\ MaxCrashes \in Nat /\ None \notin Id
  /\ Id \subseteq Contract /\ MaxAttempts \in Nat \ {0} /\ MaxCommands \in Nat
  /\ MaxDeaths \in Nat /\ Foreign \subseteq Daemon
  /\ NoFile \notin Daemon /\ Stale \notin Daemon /\ NoFile # Stale
  /\ Unmade \notin Document /\ Pruned \notin Document /\ Unmade # Pruned
<1>1. IsFiniteSet(Id) => Cardinality(Id) \in Nat
  BY FS_CardinalityType
<1>2. IsFiniteSet(Id) /\ Cardinality(Id) \in Nat /\ Id = 1 .. Cardinality(Id)
  BY <1>1, StoreAssumption
<1>3. Id \subseteq Nat
  BY <1>2
<1> QED BY <1>2, <1>3, StoreAssumption, SocketAssumption, FileAssumption, LaunchAssumption

LEMMA SeenIs ==
  ASSUME NEW seen \in Seens
  PROVE  /\ DOMAIN seen \subseteq Id
         /\ \A i \in DOMAIN seen : seen[i] \in Document
         /\ \A i \in DOMAIN seen : seen[i].created \in Nat /\ seen[i].used \in Nat
BY DEF Seens, Document

LEMMA TypedMeans ==
  ASSUME Typed
  PROVE  TypeOK
<1>1. \A p \in Proc : calls[p] \in Frames
  BY DEF Typed, CallsTyped
<1>2. \A p \in Proc : calls[p].seen \in Seens
  BY <1>1 DEF Frames
<1>3. \A p \in Proc :
       /\ calls[p].op \in {"none", "create", "activate", "list", "retain"}
       /\ calls[p].at \in Stages
       /\ calls[p].state \in StoreState
       /\ calls[p].listed \subseteq Id
       /\ calls[p].id \in Id \union {None}
  BY <1>1 DEF Frames
<1>4. StoreTypeOK
  BY <1>2, <1>3, SeenIs DEF StoreTypeOK, Typed, DocumentsTyped
<1> QED BY <1>4 DEF TypeOK, Typed, ProgramTyped, ProgramState

-----------------------------------------------------------------------------
(* The steps of the store *)

\* The greatest timestamp is one, and the next timestamp is later than all.
LEMMA Timestamps ==
  ASSUME NEW seen \in Seens
  PROVE  /\ MostRecent(seen) \in Nat
         /\ \A i \in DOMAIN seen :
              seen[i].created <= MostRecent(seen) /\ seen[i].used <= MostRecent(seen)
         /\ MostRecent(seen) # 0 =>
              \E i \in DOMAIN seen : MostRecent(seen) \in {seen[i].created, seen[i].used}
         /\ \A now \in Now :
              NextTimestamp(seen, now) \in Nat /\ MostRecent(seen) < NextTimestamp(seen, now)
<1>1. /\ DOMAIN seen \subseteq 1 .. Cardinality(Id) /\ Cardinality(Id) \in Nat
      /\ \A i \in DOMAIN seen : seen[i].created \in Nat /\ seen[i].used \in Nat
  BY SeenIs, Constants
<1> DEFINE f == [i \in DOMAIN seen |-> seen[i].created + seen[i].used]
<1>2. PICK b \in Nat : \A i \in DOMAIN seen : f[i] <= b
  <2>1. DOMAIN f = DOMAIN seen /\ \A i \in DOMAIN f : f[i] \in Nat
    BY <1>1
  <2> HIDE DEF f
  <2> QED BY <1>1, <2>1, FinitelyManyAreBounded
<1>3. Stamps(seen) \in SUBSET Nat /\ 0 \in Stamps(seen)
  BY <1>1 DEF Stamps
<1>4. \A t \in Stamps(seen) :
        t = 0 \/ \E i \in DOMAIN seen : t \in {seen[i].created, seen[i].used}
  BY DEF Stamps
<1>5. \A i \in DOMAIN seen : seen[i].created \in Stamps(seen) /\ seen[i].used \in Stamps(seen)
  BY DEF Stamps
<1>6. \A t \in Stamps(seen) : t <= b
  BY <1>1, <1>2, <1>4
<1>7. \E t \in Stamps(seen) : \A u \in Stamps(seen) : u <= t
  BY <1>3, <1>6, Greatest
<1>8. MostRecent(seen) \in Stamps(seen) /\ \A u \in Stamps(seen) : u <= MostRecent(seen)
  BY <1>7 DEF MostRecent
<1>9. \A now \in Now :
        NextTimestamp(seen, now) \in Nat /\ MostRecent(seen) < NextTimestamp(seen, now)
  BY <1>3, <1>8, Constants DEF NextTimestamp
<1> QED BY <1>3, <1>4, <1>5, <1>8, <1>9

\* A call's locals.
LEMMA Frame ==
  ASSUME Typed, NEW p \in Proc
  PROVE  /\ calls[p] \in Frames
         /\ calls[p].op \in {"none", "create", "activate", "list", "retain"}
         /\ calls[p].at \in Stages /\ calls[p].state \in StoreState
         /\ calls[p].listed \in SUBSET Id /\ calls[p].seen \in Seens
         /\ calls[p].id \in Id \union {None}
<1>1. calls[p] \in Frames
  BY DEF Typed, CallsTyped
<1> QED BY <1>1 DEF Frames

LEMMA FrameOf ==
  ASSUME NEW f \in Frames
  PROVE  /\ \A at \in Stages : [f EXCEPT !.at = at] \in Frames
         /\ \A at \in Stages, i \in Id \union {None} : [f EXCEPT !.at = at, !.id = i] \in Frames
         /\ \A at \in Stages, state \in StoreState : [f EXCEPT !.at = at, !.state = state] \in Frames
         /\ \A at \in Stages, listed \in SUBSET Id :
              [f EXCEPT !.at = at, !.listed = listed] \in Frames
         /\ \A at \in Stages, seen \in Seens : [f EXCEPT !.at = at, !.seen = seen] \in Frames
         /\ \A listed \in SUBSET Id, seen \in Seens :
              [f EXCEPT !.listed = listed, !.seen = seen] \in Frames
BY DEF Frames

LEMMA NothingSeen == <<>> \in Seens /\ DOMAIN (<<>>) = {}
<1>1. {} \in SUBSET Id /\ <<>> \in [{} -> Document]
  OBVIOUS
<1> QED BY <1>1 DEF Seens

\* The call that has not begun.
LEMMA Idle ==
  /\ NoCall \in Frames
  /\ NoCall.op = "none" /\ NoCall.at = "idle" /\ NoCall.state = Default
  /\ NoCall.listed = {} /\ NoCall.seen = <<>> /\ NoCall.id = None
  /\ Default \in StoreState /\ Default.active = None
<1>1. Default \in StoreState /\ Default.active = None
  BY Constants DEF Default, StoreState
<1> QED BY <1>1, NothingSeen DEF NoCall, Frames, Stages

\* p's call, and no other, goes on as f.
Turns(p, f) == f \in Frames /\ calls' = [calls EXCEPT ![p] = f]

LEMMA OneCall ==
  ASSUME Typed, NEW p \in Proc, NEW f, Turns(p, f)
  PROVE  CallsTyped' /\ calls'[p] = f /\ \A q \in Proc \ {p} : calls'[q] = calls[q]
BY DEF Turns, Typed, CallsTyped

\* How the five operations begin.
Entry(f) ==
  /\ f.listed = {} /\ f.seen = <<>> /\ f.state.active = None
  /\ \/ f.op = "create" /\ f.at = "readingState" /\ f.id = None
     \/ f.op = "activate" /\ f.at = "readingState"
     \/ f.op = "activate" /\ f.at = "loading" /\ f.id = None
     \/ f.op = "list" /\ f.at = "readingDirectory" /\ f.id = None
     \/ f.op = "retain" /\ f.at = "readingState" /\ f.id = None

LEMMA EntryIs ==
  ASSUME Typed, NEW p \in Proc
  PROVE  /\ Create(p) => \E f : Enter(p, f) /\ Turns(p, f) /\ Entry(f) /\ f.op = "create"
         /\ \A i \in Id \union {None} : Activate(p, i) =>
              \E f : Enter(p, f) /\ Turns(p, f) /\ Entry(f) /\ f.op = "activate"
                     /\ f.at = "readingState" /\ f.id = i
         /\ LoadActive(p) =>
              \E f : Enter(p, f) /\ Turns(p, f) /\ Entry(f) /\ f.op = "activate" /\ f.at = "loading"
         /\ List(p) => \E f : Enter(p, f) /\ Turns(p, f) /\ Entry(f) /\ f.op = "list"
         /\ \A n \in Limits : SetRetentionLimit(p, n) =>
              \E f : Enter(p, f) /\ Turns(p, f) /\ Entry(f) /\ f.op = "retain"
<1>1. ASSUME NEW f \in Frames, Enter(p, f) PROVE Turns(p, f)
  BY <1>1 DEF Enter, Turns
<1>2. ASSUME Create(p)
      PROVE  \E f : Enter(p, f) /\ Turns(p, f) /\ Entry(f) /\ f.op = "create"
  <2> DEFINE f == [NoCall EXCEPT !.op = "create", !.at = "readingState"]
  <2>1. f \in Frames /\ Entry(f) /\ f.op = "create"
    BY Idle DEF Frames, Entry, Stages
  <2>2. Enter(p, f)
    BY <1>2 DEF Create
  <2> HIDE DEF f
  <2> QED BY <1>1, <2>1, <2>2
<1>3. ASSUME NEW i \in Id \union {None}, Activate(p, i)
      PROVE  \E f : Enter(p, f) /\ Turns(p, f) /\ Entry(f) /\ f.op = "activate"
                     /\ f.at = "readingState" /\ f.id = i
  <2> DEFINE f == [NoCall EXCEPT !.op = "activate", !.at = "readingState", !.id = i]
  <2>1. f \in Frames /\ Entry(f) /\ f.op = "activate" /\ f.at = "readingState" /\ f.id = i
    BY Idle DEF Frames, Entry, Stages
  <2>2. Enter(p, f)
    BY <1>3 DEF Activate
  <2> HIDE DEF f
  <2> QED BY <1>1, <2>1, <2>2
<1>4. ASSUME LoadActive(p)
      PROVE  \E f : Enter(p, f) /\ Turns(p, f) /\ Entry(f) /\ f.op = "activate" /\ f.at = "loading"
  <2> DEFINE f == [NoCall EXCEPT !.op = "activate", !.at = "loading"]
  <2>1. f \in Frames /\ Entry(f) /\ f.op = "activate" /\ f.at = "loading"
    BY Idle DEF Frames, Entry, Stages
  <2>2. Enter(p, f)
    BY <1>4 DEF LoadActive
  <2> HIDE DEF f
  <2> QED BY <1>1, <2>1, <2>2
<1>5. ASSUME List(p)
      PROVE  \E f : Enter(p, f) /\ Turns(p, f) /\ Entry(f) /\ f.op = "list"
  <2> DEFINE f == [NoCall EXCEPT !.op = "list", !.at = "readingDirectory"]
  <2>1. f \in Frames /\ Entry(f) /\ f.op = "list"
    BY Idle DEF Frames, Entry, Stages
  <2>2. Enter(p, f)
    BY <1>5 DEF List
  <2> HIDE DEF f
  <2> QED BY <1>1, <2>1, <2>2
<1>6. ASSUME NEW n \in Limits, SetRetentionLimit(p, n)
      PROVE  \E f : Enter(p, f) /\ Turns(p, f) /\ Entry(f) /\ f.op = "retain"
  <2> DEFINE f == [NoCall EXCEPT !.op = "retain", !.at = "readingState", !.state.limit = n]
  <2>1. f \in Frames /\ Entry(f) /\ f.op = "retain"
    BY Idle DEF Frames, Entry, Stages, StoreState
  <2>2. Enter(p, f)
    BY <1>6 DEF SetRetentionLimit
  <2> HIDE DEF f
  <2> QED BY <1>1, <2>1, <2>2
<1> QED BY <1>2, <1>3, <1>4, <1>5, <1>6

\* A call that returned, and one that ended with an error.
Answer(i) == [NoCall EXCEPT !.at = "done", !.id = i]
Error == [NoCall EXCEPT !.at = "failed"]

LEMMA Endings ==
  /\ Error \in Frames /\ Error.op = "none" /\ Error.at = "failed" /\ Error.id = None
  /\ Error.listed = {} /\ Error.seen = <<>> /\ Error.state.active = None
  /\ \A i \in Id \union {None} :
       /\ Answer(i) \in Frames /\ Answer(i).op = "none" /\ Answer(i).at = "done"
       /\ Answer(i).id = i /\ Answer(i).listed = {} /\ Answer(i).seen = <<>>
       /\ Answer(i).state.active = None
BY Idle DEF Answer, Error, Frames, Stages

\* The steps of the store that leave the disk as it is.
Reads(p, f) == Turns(p, f) /\ UNCHANGED <<documents, stateFile, crashes, contended>>

LEMMA ReadActiveIdIs ==
  ASSUME Typed, NEW p \in Proc, ReadActiveId(p)
  PROVE  \E f : /\ Reads(p, f) /\ calls[p].at = "loading"
                /\ \/ stateFile.active = None /\ f = Answer(None)
                   \/ /\ stateFile.active # None
                      /\ f = [calls[p] EXCEPT !.at = "readingState", !.id = stateFile.active]
<1>1. stateFile.active \in Id \union {None}
  BY DEF Typed, StoreState
<1>2. [calls[p] EXCEPT !.at = "readingState", !.id = stateFile.active] \in Frames
  BY <1>1, Frame, FrameOf DEF Stages
<1>3. CASE stateFile.active = None
  <2>1. Reads(p, Answer(None))
    BY <1>3, Endings DEF ReadActiveId, Reads, Turns, Ends, Answer
  <2> QED BY <1>3, <2>1 DEF ReadActiveId, At
<1>4. CASE stateFile.active # None
  <2>1. Reads(p, [calls[p] EXCEPT !.at = "readingState", !.id = stateFile.active])
    BY <1>2, <1>4 DEF ReadActiveId, Reads, Turns, Proceeds
  <2> QED BY <1>4, <2>1 DEF ReadActiveId, At
<1> QED BY <1>3, <1>4

LEMMA StateToWriteIs ==
  ASSUME Typed, NEW p \in Proc
  PROVE  StateToWrite(p) \in StoreState /\ StateToWrite(p).active = stateFile.active
BY Frame DEF StateToWrite, StoreState, Typed

LEMMA ReadStateIs ==
  ASSUME Typed, NEW p \in Proc, ReadState(p)
  PROVE  \E f : /\ Reads(p, f) /\ calls[p].at = "readingState"
                /\ f = [calls[p] EXCEPT !.at = "readingDirectory", !.state = StateToWrite(p)]
<1>1. [calls[p] EXCEPT !.at = "readingDirectory", !.state = StateToWrite(p)] \in Frames
  BY Frame, FrameOf, StateToWriteIs DEF Stages
<1> QED BY <1>1 DEF ReadState, Reads, Turns, Proceeds, At

LEMMA ReadDirectoryIs ==
  ASSUME Typed, NEW p \in Proc, ReadDirectory(p)
  PROVE  \E f : /\ Reads(p, f) /\ calls[p].at = "readingDirectory"
                /\ f = [calls[p] EXCEPT !.at = "readingDocuments", !.listed = Kept]
<1>1. [calls[p] EXCEPT !.at = "readingDocuments", !.listed = Kept] \in Frames
  BY Frame, FrameOf DEF Stages, Kept
<1> QED BY <1>1 DEF ReadDirectory, Reads, Turns, Proceeds, At

\* One more document is seen as d, or one that was is seen anew.
SeenToo(seen, i, d) == [j \in DOMAIN seen \union {i} |-> IF j = i THEN d ELSE seen[j]]

LEMMA SeenTooIs ==
  ASSUME NEW seen \in Seens, NEW i \in Id, NEW d \in Document
  PROVE  /\ SeenToo(seen, i, d) \in Seens
         /\ DOMAIN SeenToo(seen, i, d) = DOMAIN seen \union {i}
         /\ SeenToo(seen, i, d)[i] = d
         /\ \A j \in DOMAIN seen \ {i} : SeenToo(seen, i, d)[j] = seen[j]
<1>1. DOMAIN seen \union {i} \in SUBSET Id
  BY SeenIs
<1>2. SeenToo(seen, i, d) \in [DOMAIN seen \union {i} -> Document]
  BY SeenIs DEF SeenToo
<1>3. SeenToo(seen, i, d) \in Seens
  BY <1>1, <1>2 DEF Seens
<1> QED BY <1>3 DEF SeenToo

LEMMA ReadDocumentIs ==
  ASSUME Typed, NEW p \in Proc, ReadDocument(p)
  PROVE  \E i \in calls[p].listed : \E f :
           /\ Reads(p, f) /\ calls[p].at = "readingDocuments"
           /\ \/ i \notin Kept /\ f = Error
              \/ /\ i \in Kept
                 /\ f = [calls[p] EXCEPT !.listed = calls[p].listed \ {i},
                                         !.seen = SeenToo(calls[p].seen, i, documents[i])]
<1>1. PICK i \in calls[p].listed :
        \/ i \notin Kept /\ Fails(p)
        \/ /\ i \in Kept
           /\ Proceeds(p, [calls[p] EXCEPT
                !.listed = @ \ {i},
                !.seen = [j \in DOMAIN @ \union {i} |-> IF j = i THEN documents[i] ELSE @[j]]])
  BY DEF ReadDocument
<1>2. CASE i \notin Kept /\ Fails(p)
  <2>1. Reads(p, Error)
    BY <1>2, Endings DEF Fails, Proceeds, Reads, Turns, Error
  <2> QED BY <1>2, <2>1 DEF ReadDocument, At
<1>3. CASE i \in Kept /\ ~(i \notin Kept /\ Fails(p))
  <2> DEFINE f == [calls[p] EXCEPT !.listed = calls[p].listed \ {i},
                                   !.seen = SeenToo(calls[p].seen, i, documents[i])]
  <2>1. i \in Id /\ documents[i] \in Document
    BY <1>3 DEF Kept
  <2>2. f \in Frames
    BY <2>1, Frame, FrameOf, SeenTooIs
  <2>3. Proceeds(p, f)
    BY <1>1, <1>3 DEF SeenToo
  <2>4. Reads(p, f)
    BY <2>2, <2>3 DEF Proceeds, Reads, Turns
  <2> QED BY <1>3, <2>4 DEF ReadDocument, At
<1> QED BY <1>1, <1>2, <1>3

LEMMA ListedIs ==
  ASSUME Typed, NEW p \in Proc, Listed(p)
  PROVE  \E f : /\ Reads(p, f) /\ calls[p].at = "readingDocuments"
                /\ calls[p].op = "list" /\ calls[p].listed = {}
                /\ f = [calls[p] EXCEPT !.at = "done"]
<1>1. [calls[p] EXCEPT !.at = "done"] \in Frames
  BY Frame, FrameOf DEF Stages
<1> QED BY <1>1 DEF Listed, AllRead, At, Reads, Turns, Proceeds

\* A contract that was just made, and one that is used again.
Fresh(stamp) == [created |-> stamp, used |-> stamp]
Used(d, stamp) == [d EXCEPT !.used = stamp]

LEMMA Stamped ==
  ASSUME NEW stamp \in Nat
  PROVE  /\ Fresh(stamp) \in Document /\ Fresh(stamp).used = stamp /\ Fresh(stamp).created = stamp
         /\ \A d \in Document :
              Used(d, stamp) \in Document /\ Used(d, stamp).used = stamp
              /\ Used(d, stamp).created = d.created
BY DEF Fresh, Used, Document

LEMMA WriteNewIs ==
  ASSUME Typed, NEW p \in Proc, WriteNew(p)
  PROVE  \E i, d, f :
           /\ Turns(p, f) /\ calls[p].at = "readingDocuments" /\ calls[p].op = "create"
           /\ calls[p].listed = {}
           /\ i \in NewIds /\ d \in Document
           /\ \A j \in DOMAIN calls[p].seen : calls[p].seen[j].used < d.used
           /\ documents' = [documents EXCEPT ![i] = d]
           /\ f.op = "create" /\ f.at = "pruning" /\ f.id = i /\ f.listed = {}
           /\ f.state = [calls[p].state EXCEPT !.active = i]
           /\ f.seen = SeenToo(calls[p].seen, i, d)
           /\ UNCHANGED <<stateFile, crashes, contended>>
<1>1. PICK i \in NewIds, now \in Now :
        LET stamp == NextTimestamp(calls[p].seen, now)
            document == [created |-> stamp, used |-> stamp] IN
        /\ documents' = [documents EXCEPT ![i] = document]
        /\ calls' = [calls EXCEPT
             ![p].at = "pruning", ![p].id = i, ![p].state.active = i,
             ![p].seen = [j \in DOMAIN @ \union {i} |-> IF j = i THEN document ELSE @[j]]]
  BY DEF WriteNew
<1> DEFINE g == calls[p]
           d == Fresh(NextTimestamp(g.seen, now))
           f == [g EXCEPT !.at = "pruning", !.id = i, !.state = [g.state EXCEPT !.active = i],
                          !.seen = SeenToo(g.seen, i, d)]
<1>2. /\ i \in Id /\ d \in Document
      /\ \A j \in DOMAIN g.seen : g.seen[j].used < d.used
  <2>1. g.seen \in Seens
    BY Frame
  <2>2. /\ NextTimestamp(g.seen, now) \in Nat /\ MostRecent(g.seen) \in Nat
        /\ MostRecent(g.seen) < NextTimestamp(g.seen, now)
        /\ \A j \in DOMAIN g.seen : g.seen[j].used \in Nat /\ g.seen[j].used <= MostRecent(g.seen)
    BY <2>1, Timestamps, SeenIs
  <2>3. d \in Document /\ d.used = NextTimestamp(g.seen, now)
    BY <2>2, Stamped
  <2> HIDE DEF d, g
  <2> QED BY <2>2, <2>3 DEF NewIds
<1>3. calls' = [calls EXCEPT ![p] = f] /\ documents' = [documents EXCEPT ![i] = d]
  BY <1>1, Frame DEF SeenToo, Fresh, Frames
<1>4. SeenToo(g.seen, i, d) \in Seens
  BY <1>2, Frame, SeenTooIs
<1>5. [g.state EXCEPT !.active = i] \in StoreState
  BY <1>2, Frame DEF StoreState
<1>6. f \in Frames
  BY <1>2, <1>4, <1>5, Frame DEF Frames, Stages
<1>7. g.at = "readingDocuments" /\ g.op = "create" /\ g.listed = {}
      /\ UNCHANGED <<stateFile, crashes, contended>>
  BY DEF WriteNew, AllRead, At
<1>8. /\ f.op = "create" /\ f.at = "pruning" /\ f.id = i /\ f.listed = {}
      /\ f.state = [g.state EXCEPT !.active = i] /\ f.seen = SeenToo(g.seen, i, d)
  BY <1>7, Frame DEF Frames
<1>9. Turns(p, f)
  BY <1>3, <1>6 DEF Turns
<1> HIDE DEF f
<1> QED BY <1>2, <1>3, <1>7, <1>8, <1>9

LEMMA ReadChosenIs ==
  ASSUME Typed, NEW p \in Proc, ReadChosen(p)
  PROVE  \E f :
           /\ Reads(p, f) /\ calls[p].at = "readingDocuments" /\ calls[p].op = "activate"
           /\ \/ calls[p].id \notin Kept /\ f = Error
              \/ /\ calls[p].id \in Kept
                 /\ f.op = "activate" /\ f.at = "writingChosen" /\ f.id = calls[p].id
                 /\ f.state = [calls[p].state EXCEPT !.active = calls[p].id]
                 /\ f.listed = {} /\ DOMAIN f.seen = {calls[p].id}
                 /\ \E now \in Now :
                      f.seen[calls[p].id] =
                        Used(documents[calls[p].id], NextTimestamp(calls[p].seen, now))
<1> DEFINE g == calls[p]
           i == g.id
<1>1. g.at = "readingDocuments" /\ g.op = "activate" /\ g.listed = {}
  BY DEF ReadChosen, AllRead, At
<1>2. CASE i \notin Kept
  <2>1. Reads(p, Error)
    BY <1>2, Endings DEF ReadChosen, Fails, Proceeds, Reads, Turns, Error
  <2> QED BY <1>1, <1>2, <2>1
<1>3. CASE i \in Kept
  <2>1. PICK now \in Now :
          Proceeds(p, [calls[p] EXCEPT
            !.at = "writingChosen", !.state.active = i,
            !.seen = [j \in {i} |-> [documents[i] EXCEPT !.used = NextTimestamp(calls[p].seen, now)]]])
    BY <1>3 DEF ReadChosen
  <2> DEFINE d == Used(documents[i], NextTimestamp(g.seen, now))
             f == [g EXCEPT !.at = "writingChosen", !.state = [g.state EXCEPT !.active = i],
                            !.seen = [j \in {i} |-> d]]
  <2>2. i \in Id /\ d \in Document
    BY <1>3, Frame, Timestamps, Stamped DEF Kept
  <2>3. [j \in {i} |-> d] \in Seens
    <3>1. {i} \in SUBSET Id /\ [j \in {i} |-> d] \in [{i} -> Document]
      BY <2>2
    <3> QED BY <3>1 DEF Seens
  <2>4. [g.state EXCEPT !.active = i] \in StoreState
    BY <2>2, Frame DEF StoreState
  <2>5. f \in Frames
    BY <2>2, <2>3, <2>4, Frame DEF Frames, Stages
  <2>6. Proceeds(p, f)
    BY <2>1, Frame DEF Used, Frames
  <2>7. Reads(p, f)
    BY <2>5, <2>6 DEF Proceeds, Reads, Turns
  <2>8. /\ f.op = "activate" /\ f.at = "writingChosen" /\ f.id = i
        /\ f.state = [g.state EXCEPT !.active = i] /\ f.listed = {}
        /\ DOMAIN f.seen = {i} /\ f.seen[i] = d
    BY <1>1, Frame DEF Frames
  <2> HIDE DEF f
  <2> QED BY <1>1, <1>3, <2>7, <2>8
<1> QED BY <1>2, <1>3

\* All but one of the documents seen.
SeenLess(seen, v) == [i \in DOMAIN seen \ {v} |-> seen[i]]

LEMMA SeenLessIs ==
  ASSUME NEW seen \in Seens, NEW v
  PROVE  /\ SeenLess(seen, v) \in Seens /\ DOMAIN SeenLess(seen, v) = DOMAIN seen \ {v}
         /\ \A j \in DOMAIN seen \ {v} : SeenLess(seen, v)[j] = seen[j]
<1>1. DOMAIN seen \ {v} \in SUBSET Id
  BY SeenIs
<1>2. SeenLess(seen, v) \in [DOMAIN seen \ {v} -> Document]
  BY SeenIs DEF SeenLess
<1>3. SeenLess(seen, v) \in Seens
  BY <1>1, <1>2 DEF Seens
<1> QED BY <1>3 DEF SeenLess

LEMMA WriteChosenIs ==
  ASSUME Typed, NEW p \in Proc, WriteChosen(p)
  PROVE  \E f :
           /\ Turns(p, f) /\ calls[p].at = "writingChosen"
           /\ documents' = [documents EXCEPT ![calls[p].id] = calls[p].seen[calls[p].id]]
           /\ f.op = calls[p].op /\ f.at = "writingState" /\ f.id = calls[p].id
           /\ f.state = calls[p].state /\ f.listed = calls[p].listed /\ f.seen = <<>>
           /\ UNCHANGED <<stateFile, crashes, contended>>
<1> DEFINE g == calls[p]
           f == [g EXCEPT !.at = "writingState", !.seen = <<>>]
<1>1. f \in Frames
  BY Frame, FrameOf, NothingSeen DEF Stages
<1>2. /\ f.op = g.op /\ f.at = "writingState" /\ f.id = g.id
      /\ f.state = g.state /\ f.listed = g.listed /\ f.seen = <<>>
  BY Frame DEF Frames
<1>3. calls' = [calls EXCEPT ![p] = f]
  BY Frame DEF WriteChosen, Frames
<1>4. Turns(p, f)
  BY <1>1, <1>3 DEF Turns
<1>5. /\ g.at = "writingChosen" /\ UNCHANGED <<stateFile, crashes, contended>>
      /\ documents' = [documents EXCEPT ![g.id] = g.seen[g.id]]
  BY DEF WriteChosen, At
<1> HIDE DEF f
<1> QED BY <1>2, <1>4, <1>5

LEMMA PruneLruIs ==
  ASSUME Typed, NEW p \in Proc, PruneLru(p)
  PROVE  \E v \in Victims(calls[p].seen, calls[p].state.active) : \E f :
           /\ Turns(p, f) /\ Pruning(p) /\ Crowded(p)
           /\ v \in DOMAIN calls[p].seen /\ v # calls[p].state.active /\ v \in Id
           /\ UNCHANGED <<stateFile, crashes, contended>>
           /\ \/ v \notin Kept /\ f = Error /\ UNCHANGED documents
              \/ /\ v \in Kept
                 /\ documents' = [documents EXCEPT ![v] = Pruned]
                 /\ f.op = calls[p].op /\ f.at = "pruning" /\ f.id = calls[p].id
                 /\ f.state = calls[p].state /\ f.listed = calls[p].listed
                 /\ f.seen = SeenLess(calls[p].seen, v)
<1> DEFINE g == calls[p]
<1>1. PICK v \in Victims(g.seen, g.state.active) :
        \/ v \notin Kept /\ Fails(p)
        \/ /\ v \in Kept
           /\ documents' = [documents EXCEPT ![v] = Pruned]
           /\ calls' = [calls EXCEPT
                ![p].at = "pruning",
                ![p].seen = [i \in DOMAIN @ \ {v} |-> @[i]]]
           /\ UNCHANGED <<stateFile, crashes, contended>>
  BY DEF PruneLru
<1>2. Pruning(p) /\ Crowded(p)
  BY DEF PruneLru
<1>3. v \in DOMAIN g.seen /\ v # g.state.active /\ v \in Id
  BY Frame, SeenIs DEF Victims
<1>4. CASE v \notin Kept
  <2>1. Turns(p, Error) /\ UNCHANGED <<documents, stateFile, crashes, contended>>
    BY <1>1, <1>4, Endings DEF Fails, Proceeds, Turns, Error
  <2> QED BY <1>2, <1>3, <1>4, <2>1
<1>5. CASE v \in Kept
  <2> DEFINE f == [g EXCEPT !.at = "pruning", !.seen = SeenLess(g.seen, v)]
  <2>1. f \in Frames
    BY Frame, FrameOf, SeenLessIs DEF Stages
  <2>2. /\ f.op = g.op /\ f.at = "pruning" /\ f.id = g.id
        /\ f.state = g.state /\ f.listed = g.listed /\ f.seen = SeenLess(g.seen, v)
    BY Frame DEF Frames
  <2>3. /\ documents' = [documents EXCEPT ![v] = Pruned]
        /\ calls' = [calls EXCEPT ![p] = f]
        /\ UNCHANGED <<stateFile, crashes, contended>>
    BY <1>1, <1>5, Frame DEF SeenLess, Frames
  <2>4. Turns(p, f)
    BY <2>1, <2>3 DEF Turns
  <2> HIDE DEF f
  <2> QED BY <1>2, <1>3, <1>5, <2>2, <2>3, <2>4
<1> QED BY <1>4, <1>5

LEMMA WriteStateIs ==
  ASSUME Typed, NEW p \in Proc, WriteState(p)
  PROVE  \E f : /\ Turns(p, f) /\ f = Answer(calls[p].id) /\ SavingState(p)
                /\ stateFile' = calls[p].state
                /\ UNCHANGED <<documents, crashes, contended>>
<1>1. Turns(p, Answer(calls[p].id))
  BY Frame, Endings DEF WriteState, Ends, Answer, Turns
<1> QED BY <1>1 DEF WriteState

LEMMA CrashIs ==
  ASSUME Typed, NEW p \in Proc, Crash(p)
  PROVE  Turns(p, NoCall) /\ Busy(p) /\ crashes < MaxCrashes /\ crashes' = crashes + 1
         /\ UNCHANGED <<documents, stateFile, contended>>
BY Idle DEF Crash, Turns

LEMMA ClearsIs ==
  ASSUME NEW p \in Proc, Clears(p)
  PROVE  Reads(p, NoCall)
BY Idle DEF Clears, Reads, Turns

-----------------------------------------------------------------------------
(* The stages a call passes through *)

Reading == {"readingState", "readingDirectory", "readingDocuments"}

\* Which stage belongs to which operation, and what is known by then.
Coherent(f) ==
  /\ f.op = "none" => f.at \in {"idle", "done", "failed"}
  /\ f.op = "list" => f.at \in {"readingDirectory", "readingDocuments", "done"}
  /\ f.op = "create" => f.at \in Reading \union {"pruning"}
  /\ f.op = "retain" => f.at \in Reading \union {"pruning"}
  /\ f.op = "activate" => f.at \in Reading \union {"loading", "writingChosen", "writingState"}
  /\ f.op = "create" /\ f.at = "pruning" =>
       f.id \in DOMAIN f.seen /\ f.state.active = f.id
  /\ f.at = "writingChosen" => f.id \in DOMAIN f.seen /\ f.state.active = f.id
  /\ f.at = "writingState" => f.id \in Id /\ f.state.active = f.id

Coherence == \A p \in Proc : Coherent(calls[p])

LEMMA EntryCoherent ==
  ASSUME NEW f, Entry(f)
  PROVE  Coherent(f)
BY DEF Entry, Coherent, Reading

LEMMA EndingCoherent ==
  /\ Coherent(NoCall) /\ Coherent(Error) /\ \A i \in Id \union {None} : Coherent(Answer(i))
<1>1. Coherent(NoCall)
  BY Idle DEF Coherent
<1>2. Coherent(Error)
  BY Endings DEF Coherent
<1>3. ASSUME NEW i \in Id \union {None} PROVE Coherent(Answer(i))
  BY Endings DEF Coherent
<1> QED BY <1>1, <1>2, <1>3

\* Every step of the store replaces p's frame, and with it perhaps a document or the
\* state file.
LEMMA StoreStepTyped ==
  ASSUME Typed, Coherence, NEW p \in Proc, StoreStep(p)
  PROVE  /\ \E f : Turns(p, f) /\ Coherent(f)
         /\ DocumentsTyped' /\ stateFile' \in StoreState /\ UNCHANGED <<crashes, contended>>
<1> DEFINE g == calls[p]
<1>1. /\ g \in Frames /\ g.at \in Stages /\ g.seen \in Seens /\ g.state \in StoreState
      /\ g.id \in Id \union {None} /\ Coherent(g)
      /\ DocumentsTyped /\ stateFile \in StoreState
  BY Frame DEF Typed, Coherence
<1>2. ASSUME NEW f, Reads(p, f), Coherent(f)
      PROVE  /\ \E e : Turns(p, e) /\ Coherent(e)
             /\ DocumentsTyped' /\ stateFile' \in StoreState /\ UNCHANGED <<crashes, contended>>
  BY <1>1, <1>2 DEF Reads, DocumentsTyped
<1>3. CASE ReadActiveId(p)
  <2>1. PICK f :
          /\ Reads(p, f) /\ g.at = "loading"
          /\ \/ stateFile.active = None /\ f = Answer(None)
             \/ /\ stateFile.active # None
                /\ f = [g EXCEPT !.at = "readingState", !.id = stateFile.active]
    BY <1>3, ReadActiveIdIs
  <2>2. CASE f = Answer(None)
    BY <1>2, <2>1, <2>2, EndingCoherent
  <2>3. CASE f = [g EXCEPT !.at = "readingState", !.id = stateFile.active]
    <3>1. f.at = "readingState" /\ f.op = g.op
      BY <1>1, <2>3 DEF Frames
    <3>2. g.op = "activate"
      BY <1>1, <2>1, Frame DEF Coherent, Reading
    <3>3. Coherent(f)
      BY <3>1, <3>2 DEF Coherent, Reading
    <3> QED BY <1>2, <2>1, <3>3
  <2> QED BY <2>1, <2>2, <2>3
<1>4. CASE ReadState(p)
  <2>1. PICK f : /\ Reads(p, f) /\ g.at = "readingState"
                 /\ f = [g EXCEPT !.at = "readingDirectory", !.state = StateToWrite(p)]
    BY <1>4, ReadStateIs
  <2>2. Coherent(f)
    BY <1>1, <2>1 DEF Coherent, Frames, Reading
  <2> QED BY <1>2, <2>1, <2>2
<1>5. CASE ReadDirectory(p)
  <2>1. PICK f : /\ Reads(p, f) /\ g.at = "readingDirectory"
                 /\ f = [g EXCEPT !.at = "readingDocuments", !.listed = Kept]
    BY <1>5, ReadDirectoryIs
  <2>2. Coherent(f)
    BY <1>1, <2>1 DEF Coherent, Frames, Reading
  <2> QED BY <1>2, <2>1, <2>2
<1>6. CASE ReadDocument(p)
  <2>1. PICK i, f :
          /\ i \in g.listed /\ Reads(p, f) /\ g.at = "readingDocuments"
          /\ \/ i \notin Kept /\ f = Error
             \/ /\ i \in Kept
                /\ f = [g EXCEPT !.listed = g.listed \ {i},
                                 !.seen = SeenToo(g.seen, i, documents[i])]
    BY <1>6, ReadDocumentIs
  <2>2. Coherent(f)
    BY <1>1, <2>1, EndingCoherent DEF Coherent, Frames, Reading
  <2> QED BY <1>2, <2>1, <2>2
<1>7. CASE Listed(p)
  <2>1. PICK f : /\ Reads(p, f) /\ g.op = "list" /\ f = [g EXCEPT !.at = "done"]
    BY <1>7, ListedIs
  <2>2. Coherent(f)
    BY <1>1, <2>1 DEF Coherent, Frames
  <2> QED BY <1>2, <2>1, <2>2
<1>8. CASE WriteNew(p)
  <2>1. PICK i, d, f :
          /\ Turns(p, f) /\ i \in NewIds /\ d \in Document
          /\ documents' = [documents EXCEPT ![i] = d]
          /\ f.op = "create" /\ f.at = "pruning" /\ f.id = i
          /\ f.state = [g.state EXCEPT !.active = i]
          /\ f.seen = SeenToo(g.seen, i, d)
          /\ UNCHANGED <<stateFile, crashes, contended>>
    BY <1>8, WriteNewIs
  <2>2. i \in Id /\ i \in DOMAIN f.seen /\ f.state.active = i
    <3>1. i \in Id
      BY <2>1 DEF NewIds
    <3>2. f.state.active = i
      BY <1>1, <2>1, <3>1 DEF StoreState
    <3>3. DOMAIN f.seen = DOMAIN g.seen \union {i}
      <4>1. g.seen \in Seens /\ d \in Document /\ f.seen = SeenToo(g.seen, i, d)
        BY <1>1, <2>1
      <4> HIDE DEF g
      <4>2. DOMAIN SeenToo(g.seen, i, d) = DOMAIN g.seen \union {i}
        BY <3>1, <4>1, SeenTooIs
      <4> QED BY <4>1, <4>2
    <3> QED BY <3>1, <3>2, <3>3
  <2>3. Coherent(f)
    BY <2>1, <2>2 DEF Coherent, Reading
  <2>4. DocumentsTyped'
    BY <1>1, <2>1, <2>2 DEF DocumentsTyped
  <2> QED BY <1>1, <2>1, <2>3, <2>4
<1>9. CASE ReadChosen(p)
  <2>1. PICK f :
          /\ Reads(p, f) /\ g.at = "readingDocuments" /\ g.op = "activate"
          /\ \/ f = Error
             \/ /\ g.id \in Kept
                /\ f.op = "activate" /\ f.at = "writingChosen" /\ f.id = g.id
                /\ f.state = [g.state EXCEPT !.active = g.id]
                /\ DOMAIN f.seen = {g.id}
    BY <1>9, ReadChosenIs
  <2>2. CASE f = Error
    BY <1>2, <2>1, <2>2, EndingCoherent
  <2>3. CASE f # Error
    <3>1. f.state.active = g.id /\ f.id \in DOMAIN f.seen
      BY <1>1, <2>1, <2>3 DEF StoreState
    <3>2. Coherent(f)
      BY <2>1, <2>3, <3>1 DEF Coherent
    <3> QED BY <1>2, <2>1, <3>2
  <2> QED BY <2>2, <2>3
<1>10. CASE WriteChosen(p)
  <2>1. PICK f :
          /\ Turns(p, f) /\ g.at = "writingChosen"
          /\ documents' = [documents EXCEPT ![g.id] = g.seen[g.id]]
          /\ f.op = g.op /\ f.at = "writingState" /\ f.id = g.id
          /\ f.state = g.state
          /\ UNCHANGED <<stateFile, crashes, contended>>
    BY <1>10, WriteChosenIs
  <2>2. g.id \in Id /\ g.seen[g.id] \in Document /\ g.op = "activate" /\ g.state.active = g.id
    BY <1>1, <2>1, SeenIs DEF Coherent, Reading, Frames
  <2>3. Coherent(f)
    BY <2>1, <2>2 DEF Coherent
  <2>4. DocumentsTyped'
    BY <1>1, <2>1, <2>2 DEF DocumentsTyped
  <2> QED BY <1>1, <2>1, <2>3, <2>4
<1>11. CASE PruneLru(p)
  <2>1. PICK v, f :
          /\ v \in Victims(g.seen, g.state.active)
          /\ Turns(p, f) /\ Pruning(p)
          /\ v # g.state.active
          /\ UNCHANGED <<stateFile, crashes, contended>>
          /\ \/ f = Error /\ UNCHANGED documents
             \/ /\ v \in Kept
                /\ documents' = [documents EXCEPT ![v] = Pruned]
                /\ f.op = g.op /\ f.at = "pruning" /\ f.id = g.id
                /\ f.state = g.state /\ f.seen = SeenLess(g.seen, v)
    BY <1>11, PruneLruIs
  <2>2. CASE f = Error /\ UNCHANGED documents
    BY <1>1, <2>1, <2>2, EndingCoherent DEF DocumentsTyped
  <2>3. CASE ~(f = Error /\ UNCHANGED documents)
    <3>1. g.op = "retain" \/ g.at = "pruning"
      BY <2>1 DEF Pruning, At, AllRead
    <3>2. g.op \in {"create", "retain"}
      BY <1>1, <3>1, Frame DEF Coherent, Reading
    <3>3. g.op = "create" => f.id \in DOMAIN f.seen /\ f.state.active = f.id
      <4>1. DOMAIN f.seen = DOMAIN g.seen \ {v}
        BY <1>1, <2>1, <2>3, SeenLessIs
      <4>2. g.op = "create" => g.id \in DOMAIN g.seen /\ g.state.active = g.id
        BY <1>1, <3>1 DEF Coherent
      <4> QED BY <2>1, <2>3, <4>1, <4>2
    <3>4. Coherent(f)
      BY <2>1, <2>3, <3>2, <3>3 DEF Coherent
    <3>5. DocumentsTyped'
      BY <1>1, <2>1, <2>3 DEF DocumentsTyped
    <3> QED BY <1>1, <2>1, <3>4, <3>5
  <2> QED BY <2>2, <2>3
<1>12. CASE WriteState(p)
  BY <1>1, <1>12, WriteStateIs, EndingCoherent DEF DocumentsTyped
<1> QED BY <1>3, <1>4, <1>5, <1>6, <1>7, <1>8, <1>9, <1>10, <1>11, <1>12 DEF StoreStep

-----------------------------------------------------------------------------
(* The steps at the socket *)

LEMMA Daemons ==
  ASSUME Typed
  PROVE  /\ address \in Daemon \union {NoFile, Stale}
         /\ daemon \in [Daemon -> {"off", "probing", "connecting", "unlinking", "binding",
                                   "listening", "serving", "gone"}]
         /\ registered \in [Daemon -> SUBSET Contract]
         /\ deaths \in 0 .. MaxDeaths /\ raced \in BOOLEAN
BY DEF Typed, SocketTypeOK

\* What can happen at the socket, whoever does it.
SocketMoves ==
  \/ UNCHANGED socketVars
  \/ \E d \in Daemon : Spawn(d) \/ DaemonStep(d) \/ Die(d)
  \/ \E k \in Id : SetContractAt(k)
  \/ \E p \in Proc :
       /\ program[p].stage = "killing" /\ program[p].child \in Daemon
       /\ Killed(program[p].child) /\ UNCHANGED deaths
       /\ program'[p].stage = "failed"

LEMMA SocketTyped ==
  ASSUME Typed, SocketMoves
  PROVE  SocketTypeOK'
<1>1. CASE UNCHANGED socketVars
  BY <1>1, Daemons DEF socketVars, SocketTypeOK
<1>2. ASSUME NEW d \in Daemon, Spawn(d) \/ DaemonStep(d) \/ Die(d)
      PROVE  SocketTypeOK'
  <2>1. CASE Spawn(d)
    BY <2>1, Daemons DEF Spawn, Become, SocketTypeOK
  <2>2. CASE Probe(d)
    BY <2>2, Daemons DEF Probe, Become, SocketTypeOK
  <2>3. CASE Connect(d)
    BY <2>3, Daemons DEF Connect, Become, SocketTypeOK
  <2>4. CASE Unlink(d)
    BY <2>4, Daemons DEF Unlink, Become, SocketTypeOK
  <2>5. CASE Bind(d)
    BY <2>5, Daemons DEF Bind, Become, SocketTypeOK
  <2>6. CASE Listen(d)
    BY <2>6, Daemons DEF Listen, Become, SocketTypeOK
  <2>7. CASE Die(d)
    BY <2>7, Daemons, Constants DEF Die, Killed, SocketTypeOK
  <2> QED BY <1>2, <2>1, <2>2, <2>3, <2>4, <2>5, <2>6, <2>7 DEF DaemonStep
<1>3. ASSUME NEW k \in Id, SetContractAt(k)
      PROVE  SocketTypeOK'
  BY <1>3, Daemons, Constants DEF SetContractAt, SocketTypeOK
<1>4. ASSUME NEW d \in Daemon, Killed(d), UNCHANGED deaths
      PROVE  SocketTypeOK'
  BY <1>4, Daemons DEF Killed, SocketTypeOK
<1> QED BY <1>1, <1>2, <1>3, <1>4 DEF SocketMoves

\* A daemon that is gone stays gone, and one that was started is not "off" again.
LEMMA DaemonsEnd ==
  ASSUME Typed, SocketMoves, NEW d \in Daemon
  PROVE  /\ daemon[d] = "gone" => daemon'[d] = "gone"
         /\ daemon[d] # "off" => daemon'[d] # "off"
<1>1. CASE UNCHANGED socketVars
  BY <1>1 DEF socketVars
<1>2. ASSUME NEW e \in Daemon, Spawn(e) \/ DaemonStep(e) \/ Die(e)
      PROVE  /\ daemon[d] = "gone" => daemon'[d] = "gone"
             /\ daemon[d] # "off" => daemon'[d] # "off"
  <2>1. CASE DaemonStep(e)
    BY <2>1, Daemons DEF DaemonStep, Probe, Connect, Unlink, Bind, Listen, Become
  <2>2. CASE Spawn(e) \/ Die(e)
    BY <2>2, Daemons DEF Spawn, Become, Die, Killed
  <2> QED BY <1>2, <2>1, <2>2
<1>3. ASSUME NEW k \in Id, SetContractAt(k)
      PROVE  daemon' = daemon
  BY <1>3 DEF SetContractAt
<1>4. ASSUME NEW e \in Daemon, Killed(e)
      PROVE  /\ daemon[d] = "gone" => daemon'[d] = "gone"
             /\ daemon[d] # "off" => daemon'[d] # "off"
  BY <1>4, Daemons DEF Killed
<1> QED BY <1>1, <1>2, <1>3, <1>4 DEF SocketMoves

-----------------------------------------------------------------------------
(* The steps of a command *)

HasChild == {"attempting", "waiting", "killing"}
InStore == {"listing", "creating", "activating", "loading", "retaining"}

\* What a command has in each stage: a daemon of its own only while it waits for it
\* or ends it, a contract once the store has named one.
Fit(r) ==
  /\ r.stage \in HasChild => r.child \in Daemon
  /\ r.stage \in InStore \union {"checking", "registering"} => r.child = None /\ r.attempts = 0
  /\ r.stage \in Registering => r.contract \in Id
  /\ r.stage \in {"attempting", "waiting"} => r.attempts < MaxAttempts
  /\ r.why # "none" => r.stage = "failed"

Fitting == \A p \in Proc : Fit(program[p])

LEMMA Program ==
  ASSUME Typed, NEW p \in Proc
  PROVE  /\ program[p] \in ProgramState
         /\ program[p].child \in Daemon \union {None} /\ program[p].attempts \in 0 .. MaxAttempts
         /\ program[p].contract \in Id \union {None} /\ program[p].picked \in Id \union {None}
<1>1. program[p] \in ProgramState
  BY DEF Typed, ProgramTyped
<1> QED BY <1>1 DEF ProgramState

\* p's command, and no other, goes on as s.
Sets(p, s) == s \in ProgramState /\ program' = [program EXCEPT ![p] = s]

LEMMA OneProgram ==
  ASSUME Typed, NEW p \in Proc, NEW s, Sets(p, s)
  PROVE  ProgramTyped' /\ program'[p] = s /\ \A q \in Proc \ {p} : program'[q] = program[q]
BY DEF Sets, Typed, ProgramTyped

LEMMA OffIs ==
  /\ Off \in ProgramState /\ Off.command = "none" /\ Off.stage = "off" /\ Off.picked = None
  /\ Off.contract = None /\ Off.peer = None /\ Off.child = None /\ Off.attempts = 0
  /\ Off.why = "none"
BY Constants DEF Off, ProgramState, Over

LEMMA BeginIs ==
  ASSUME NEW p \in Proc,
         NEW command \in {"new", "codex", "launch", "retain"}, NEW stage \in InStore,
         Begin(p, command, stage)
  PROVE  \E s : /\ Sets(p, s) /\ Fit(s) /\ s.stage = stage /\ s.command = command
                /\ s.picked = None /\ s.contract = None /\ s.child = None /\ s.why = "none"
                /\ program[p].stage \in Over /\ commands < MaxCommands /\ commands' = commands + 1
                /\ displaced' = [displaced EXCEPT ![p] = FALSE]
                /\ UNCHANGED socketVars
<1> DEFINE s == [Off EXCEPT !.command = command, !.stage = stage]
<1>1. s \in ProgramState
  BY OffIs DEF ProgramState, InStore
<1>2. /\ s.stage = stage /\ s.command = command /\ s.attempts = 0
      /\ s.picked = None /\ s.contract = None /\ s.child = None /\ s.why = "none"
  BY OffIs DEF ProgramState
<1>3. Sets(p, s)
  BY <1>1 DEF Begin, Sets
<1> HIDE DEF s
<1>4. Fit(s)
  BY <1>2 DEF Fit, InStore, HasChild, Registering
<1> QED BY <1>2, <1>3, <1>4 DEF Begin

LEMMA StopsIs ==
  ASSUME Typed, NEW p \in Proc,
         NEW why \in {"store", "empty", "rejected", "exited", "timeout", "io", "codex"},
         Stops(p, why)
  PROVE  \E s : /\ Sets(p, s) /\ Fit(s) /\ s.stage = "failed" /\ s.why = why
                /\ s.child = program[p].child /\ s.picked = None /\ s.contract = None
<1> DEFINE s == [Off EXCEPT !.stage = "failed", !.why = why, !.child = program[p].child]
<1>1. s \in ProgramState
  BY OffIs, Program DEF ProgramState, Over
<1>2. /\ s.stage = "failed" /\ s.why = why
      /\ s.child = program[p].child /\ s.picked = None /\ s.contract = None
  BY OffIs DEF ProgramState
<1>3. Sets(p, s)
  BY <1>1 DEF Stops, Sets
<1> HIDE DEF s
<1>4. Fit(s)
  BY <1>2 DEF Fit, InStore, HasChild, Registering
<1> QED BY <1>2, <1>3, <1>4

LEMMA QuitsIs ==
  ASSUME NEW p \in Proc, Quits(p)
  PROVE  Sets(p, Off) /\ Fit(Off)
BY OffIs DEF Quits, Sets, Fit, InStore, HasChild, Registering

\* All but the stage stays as it was.
LEMMA GoesIs ==
  ASSUME Typed, NEW p \in Proc, NEW stage \in {"creating", "loading", "registering", "waiting"},
         Goes(p, stage)
  PROVE  \E s : /\ Sets(p, s) /\ s.stage = stage
                /\ s.command = program[p].command /\ s.picked = program[p].picked
                /\ s.contract = program[p].contract /\ s.child = program[p].child
                /\ s.attempts = program[p].attempts /\ s.why = program[p].why
<1> DEFINE s == [program[p] EXCEPT !.stage = stage]
<1>1. s \in ProgramState
  BY Program DEF ProgramState, Registering
<1>2. /\ s.stage = stage
      /\ s.command = program[p].command /\ s.picked = program[p].picked
      /\ s.contract = program[p].contract /\ s.child = program[p].child
      /\ s.attempts = program[p].attempts /\ s.why = program[p].why
  BY Program DEF ProgramState
<1>3. program' = [program EXCEPT ![p] = s]
  BY Program DEF Goes, ProgramState
<1>4. Sets(p, s)
  BY <1>1, <1>3 DEF Sets
<1> HIDE DEF s
<1> QED BY <1>2, <1>4

LEMMA SelectContractIs ==
  ASSUME Typed, Fitting, NEW p \in Proc, SelectContract(p)
  PROVE  /\ Returned(p, "listing") /\ UNCHANGED <<socketVars, commands, displaced>>
         /\ \E s : /\ Sets(p, s) /\ Fit(s) /\ s.child = None /\ s.why = "none"
                   /\ \/ s.stage = "creating" /\ Create(p)
                      \/ \E i \in DOMAIN calls[p].seen :
                           s.stage = "activating" /\ s.picked = i /\ i \in Id /\ Activate(p, i)
                      \/ s = Off /\ Clears(p)
<1> DEFINE r == program[p]
<1>1. /\ r \in ProgramState /\ Fit(r) /\ r.stage = "listing"
      /\ r.child = None /\ r.attempts = 0 /\ r.why = "none"
  <2>1. r \in ProgramState /\ Fit(r) /\ r.stage = "listing"
    BY Program DEF Fitting, SelectContract, Returned
  <2> QED BY <2>1 DEF Fit, InStore
<1>2. Returned(p, "listing") /\ UNCHANGED <<socketVars, commands, displaced>>
  BY DEF SelectContract
<1>3. CASE Goes(p, "creating") /\ Create(p)
  <2>1. PICK s : Sets(p, s) /\ s.stage = "creating" /\ s.child = r.child
                 /\ s.attempts = r.attempts /\ s.why = r.why
    BY <1>3, GoesIs
  <2>2. Fit(s)
    BY <1>1, <2>1 DEF Fit, InStore, HasChild, Registering
  <2> QED BY <1>1, <1>2, <1>3, <2>1, <2>2
<1>4. ASSUME NEW i \in DOMAIN calls[p].seen, Activate(p, i),
             program' = [program EXCEPT ![p].stage = "activating", ![p].picked = i]
      PROVE  \E s : /\ Sets(p, s) /\ Fit(s) /\ s.child = None /\ s.why = "none"
                    /\ s.stage = "activating" /\ s.picked = i /\ i \in Id
  <2> DEFINE s == [r EXCEPT !.stage = "activating", !.picked = i]
  <2>1. i \in Id
    BY Frame, SeenIs
  <2>2. s \in ProgramState
    BY <1>1, <2>1 DEF ProgramState
  <2>3. s.stage = "activating" /\ s.picked = i /\ s.child = None /\ s.attempts = 0 /\ s.why = "none"
    BY <1>1 DEF ProgramState
  <2>4. Sets(p, s)
    <3>1. program' = [program EXCEPT ![p] = s]
      BY <1>4
    <3> QED BY <2>2, <3>1 DEF Sets
  <2> HIDE DEF s
  <2>5. Fit(s)
    BY <2>3 DEF Fit, InStore, HasChild, Registering
  <2> QED BY <2>1, <2>3, <2>4, <2>5
<1>5. CASE Quits(p) /\ Clears(p)
  BY <1>2, <1>5, QuitsIs, OffIs
<1> QED
  <2>1. \/ Goes(p, "creating") /\ Create(p)
        \/ \E i \in DOMAIN calls[p].seen :
             /\ program' = [program EXCEPT ![p].stage = "activating", ![p].picked = i]
             /\ Activate(p, i)
        \/ Quits(p) /\ Clears(p)
    BY DEF SelectContract
  <2>2. CASE \E i \in DOMAIN calls[p].seen :
               /\ program' = [program EXCEPT ![p].stage = "activating", ![p].picked = i]
               /\ Activate(p, i)
    <3>1. PICK i \in DOMAIN calls[p].seen :
            /\ program' = [program EXCEPT ![p].stage = "activating", ![p].picked = i]
            /\ Activate(p, i)
      BY <2>2
    <3>2. PICK s : /\ Sets(p, s) /\ Fit(s) /\ s.child = None /\ s.why = "none"
                   /\ s.stage = "activating" /\ s.picked = i /\ i \in Id
      BY <1>4, <3>1
    <3> QED BY <1>2, <3>1, <3>2
  <2> QED BY <1>3, <1>5, <2>1, <2>2

LEMMA CreatedIs ==
  ASSUME Typed, Fitting, NEW p \in Proc, Created(p)
  PROVE  /\ Returned(p, "creating") /\ UNCHANGED <<socketVars, commands, displaced>>
         /\ \E s : /\ Sets(p, s) /\ Fit(s) /\ s.child = None /\ s.why = "none"
                   /\ \/ s = Off /\ Clears(p)
                      \/ /\ s.stage = "activating" /\ s.picked = calls[p].id
                         /\ Activate(p, calls[p].id)
<1> DEFINE r == program[p]
           s == [r EXCEPT !.stage = "activating", !.picked = calls[p].id]
<1>1. /\ r \in ProgramState /\ Fit(r) /\ r.stage = "creating"
      /\ r.child = None /\ r.attempts = 0 /\ r.why = "none"
  <2>1. r \in ProgramState /\ Fit(r) /\ r.stage = "creating"
    BY Program DEF Fitting, Created, Returned
  <2> QED BY <2>1 DEF Fit, InStore
<1>2. Returned(p, "creating") /\ UNCHANGED <<socketVars, commands, displaced>>
  BY DEF Created
<1>3. CASE Quits(p) /\ Clears(p)
  BY <1>2, <1>3, QuitsIs, OffIs
<1>4. CASE /\ program' = [program EXCEPT ![p].stage = "activating", ![p].picked = calls[p].id]
           /\ Activate(p, calls[p].id)
  <2>1. s \in ProgramState
    BY <1>1, Frame DEF ProgramState
  <2>2. s.stage = "activating" /\ s.picked = calls[p].id /\ s.child = None /\ s.attempts = 0
        /\ s.why = "none"
    BY <1>1 DEF ProgramState
  <2>3. Sets(p, s)
    <3>1. program' = [program EXCEPT ![p] = s]
      BY <1>4
    <3> QED BY <2>1, <3>1 DEF Sets
  <2> HIDE DEF s
  <2>4. Fit(s)
    BY <2>2 DEF Fit, InStore, HasChild, Registering
  <2> QED BY <1>2, <1>4, <2>2, <2>3, <2>4
<1> QED BY <1>3, <1>4 DEF Created

LEMMA RetainedIs ==
  ASSUME NEW p \in Proc, Retained(p)
  PROVE  /\ Returned(p, "retaining") /\ Sets(p, Off) /\ Fit(Off) /\ Clears(p)
         /\ UNCHANGED <<socketVars, commands, displaced>>
BY QuitsIs DEF Retained

LEMMA ActivatedIs ==
  ASSUME Typed, Fitting, NEW p \in Proc, Activated(p)
  PROVE  /\ Returned(p, "activating") /\ LoadActive(p)
         /\ UNCHANGED <<socketVars, commands, displaced>>
         /\ \E s : /\ Sets(p, s) /\ Fit(s) /\ s.child = None /\ s.why = "none"
                   /\ s.stage = "loading" /\ s.picked = program[p].picked
<1> DEFINE r == program[p]
<1>1. /\ r \in ProgramState /\ Fit(r) /\ r.stage = "activating"
      /\ r.child = None /\ r.attempts = 0 /\ r.why = "none"
  <2>1. r \in ProgramState /\ Fit(r) /\ r.stage = "activating"
    BY Program DEF Fitting, Activated, Returned
  <2> QED BY <2>1 DEF Fit, InStore
<1>2. PICK s : Sets(p, s) /\ s.stage = "loading" /\ s.picked = r.picked /\ s.child = r.child
               /\ s.attempts = r.attempts /\ s.why = r.why
  BY GoesIs DEF Activated
<1>3. Fit(s)
  BY <1>1, <1>2 DEF Fit, InStore, HasChild, Registering
<1> QED BY <1>1, <1>2, <1>3 DEF Activated

LEMMA LoadedIs ==
  ASSUME Typed, Fitting, NEW p \in Proc, Loaded(p)
  PROVE  /\ Returned(p, "loading") /\ Clears(p)
         /\ UNCHANGED <<socketVars, commands, displaced>>
         /\ \E s : /\ Sets(p, s) /\ Fit(s) /\ s.child = None
                   /\ \/ s.stage = "failed" /\ s.why = "empty" /\ s.picked = None
                      \/ /\ s.stage = "checking" /\ s.contract = calls[p].id
                         /\ s.picked = program[p].picked /\ s.why = "none"
<1> DEFINE r == program[p]
           s == [r EXCEPT !.stage = "checking", !.contract = calls[p].id]
<1>1. /\ r \in ProgramState /\ Fit(r) /\ r.stage = "loading"
      /\ r.child = None /\ r.attempts = 0 /\ r.why = "none"
  <2>1. r \in ProgramState /\ Fit(r) /\ r.stage = "loading"
    BY Program DEF Fitting, Loaded, Returned
  <2> QED BY <2>1 DEF Fit, InStore
<1>2. Returned(p, "loading") /\ Clears(p) /\ UNCHANGED <<socketVars, commands, displaced>>
  BY DEF Loaded
<1>3. CASE Stops(p, "empty")
  <2>1. PICK t : Sets(p, t) /\ Fit(t) /\ t.stage = "failed" /\ t.why = "empty"
                 /\ t.child = r.child /\ t.picked = None
    BY <1>3, StopsIs
  <2> QED BY <1>1, <1>2, <2>1
<1>4. CASE /\ calls[p].id # None
           /\ program' = [program EXCEPT ![p].stage = "checking", ![p].contract = calls[p].id]
  <2>1. calls[p].id \in Id
    BY <1>4, Frame
  <2>2. s \in ProgramState
    BY <1>1, <2>1 DEF ProgramState, Registering
  <2>3. s.stage = "checking" /\ s.contract = calls[p].id /\ s.child = None /\ s.attempts = 0
        /\ s.why = "none" /\ s.picked = r.picked
    BY <1>1 DEF ProgramState
  <2>4. Sets(p, s)
    <3>1. program' = [program EXCEPT ![p] = s]
      BY <1>4
    <3> QED BY <2>2, <3>1 DEF Sets
  <2> HIDE DEF s
  <2>5. Fit(s)
    BY <2>1, <2>3 DEF Fit, InStore, HasChild, Registering
  <2> QED BY <1>2, <2>3, <2>4, <2>5
<1> QED BY <1>3, <1>4 DEF Loaded

LEMMA StoreFailedIs ==
  ASSUME Typed, NEW p \in Proc, StoreFailed(p)
  PROVE  /\ At(p, "failed") /\ Clears(p) /\ UNCHANGED <<socketVars, commands, displaced>>
         /\ \E s : /\ Sets(p, s) /\ Fit(s) /\ s.stage = "failed" /\ s.why = "store"
                   /\ s.child = program[p].child /\ s.picked = None
BY StopsIs DEF StoreFailed

LEMMA CheckSocketIs ==
  ASSUME Typed, Fitting, NEW p \in Proc, CheckSocket(p)
  PROVE  /\ program[p].stage = "checking" /\ UNCHANGED <<storeVars, commands, displaced>>
         /\ \E s : /\ Sets(p, s) /\ Fit(s)
                   /\ \/ /\ s.stage = "failed" /\ s.why = "io" /\ s.child = None
                         /\ s.picked = None /\ UNCHANGED socketVars
                      \/ /\ s.why = "none"
                         /\ s.picked = program[p].picked /\ s.contract = program[p].contract
                         /\ \/ /\ s.stage = "registering" /\ s.child = None
                               /\ Live /\ UNCHANGED socketVars
                            \/ \E d \in Daemon :
                                 /\ s.stage = "attempting" /\ s.child = d /\ ~Live
                                 /\ daemon[d] = "off" /\ Spawn(d)
<1> DEFINE r == program[p]
<1>1. /\ r \in ProgramState /\ Fit(r) /\ r.stage = "checking"
      /\ r.child = None /\ r.attempts = 0 /\ r.why = "none" /\ r.contract \in Id
  <2>1. r \in ProgramState /\ Fit(r) /\ r.stage = "checking"
    BY Program DEF Fitting, CheckSocket
  <2> QED BY <2>1 DEF Fit, InStore, Registering
<1>2. program[p].stage = "checking" /\ UNCHANGED <<storeVars, commands, displaced>>
  BY DEF CheckSocket
<1>3. CASE Live /\ Goes(p, "registering") /\ UNCHANGED socketVars
  <2>1. PICK s : Sets(p, s) /\ s.stage = "registering" /\ s.picked = r.picked
                 /\ s.child = r.child /\ s.attempts = r.attempts /\ s.why = r.why
                 /\ s.contract = r.contract
    BY <1>3, GoesIs
  <2>2. Fit(s)
    BY <1>1, <2>1 DEF Fit, InStore, HasChild, Registering
  <2> QED BY <1>1, <1>2, <1>3, <2>1, <2>2
<1>4. ASSUME ~Live, NEW d \in Spare, Spawn(d),
             program' = [program EXCEPT ![p].stage = "attempting", ![p].child = d]
      PROVE  \E s : /\ Sets(p, s) /\ Fit(s) /\ s.why = "none"
                    /\ s.picked = r.picked /\ s.contract = r.contract
                    /\ s.stage = "attempting" /\ s.child = d
                    /\ d \in Daemon /\ daemon[d] = "off"
  <2> DEFINE s == [r EXCEPT !.stage = "attempting", !.child = d]
  <2>1. d \in Daemon /\ daemon[d] = "off"
    BY DEF Spare
  <2>2. s \in ProgramState
    BY <1>1, <2>1 DEF ProgramState, Registering
  <2>3. s.stage = "attempting" /\ s.child = d /\ s.attempts = 0
        /\ s.why = "none" /\ s.picked = r.picked /\ s.contract = r.contract
    BY <1>1 DEF ProgramState
  <2>4. Sets(p, s)
    <3>1. program' = [program EXCEPT ![p] = s]
      BY <1>4
    <3> QED BY <2>2, <3>1 DEF Sets
  <2> HIDE DEF s
  <2>5. Fit(s)
    BY <1>1, <2>1, <2>3, Constants DEF Fit, InStore, HasChild, Registering
  <2> QED BY <2>1, <2>3, <2>4, <2>5
<1>5. CASE /\ ~Live
           /\ \E d \in Spare :
                /\ program' = [program EXCEPT ![p].stage = "attempting", ![p].child = d]
                /\ Spawn(d)
  <2>1. PICK d \in Spare :
          /\ program' = [program EXCEPT ![p].stage = "attempting", ![p].child = d]
          /\ Spawn(d)
    BY <1>5
  <2>2. PICK s : /\ Sets(p, s) /\ Fit(s) /\ s.why = "none"
                 /\ s.picked = r.picked /\ s.contract = r.contract
                 /\ s.stage = "attempting" /\ s.child = d
                 /\ d \in Daemon /\ daemon[d] = "off"
    BY <1>4, <1>5, <2>1
  <2> QED BY <1>2, <1>5, <2>1, <2>2
<1>6. CASE Stops(p, "io") /\ UNCHANGED socketVars
  BY <1>1, <1>2, <1>6, StopsIs
<1> QED BY <1>3, <1>5, <1>6 DEF CheckSocket

LEMMA RegistersIs ==
  ASSUME Typed, Fitting, NEW p \in Proc, program[p].stage \in {"registering", "attempting"},
         Registers(p)
  PROVE  /\ SetContractAt(program[p].contract) /\ program[p].contract \in Id
         /\ \E s : /\ Sets(p, s) /\ Fit(s) /\ s.why = "none" /\ s.stage = "agent"
                   /\ s.peer = address /\ address \in Daemon
                   /\ s.picked = program[p].picked /\ s.contract = program[p].contract
<1> DEFINE r == program[p]
           s == [r EXCEPT !.stage = "agent", !.peer = address]
<1>1. r \in ProgramState /\ r.why = "none" /\ r.contract \in Id
  <2>1. r \in ProgramState /\ Fit(r)
    BY Program DEF Fitting
  <2> QED BY <2>1 DEF Fit, Registering
<1>2. SetContractAt(r.contract) /\ address \in Daemon
  BY DEF Registers, SetContractAt, Live
<1>3. s \in ProgramState
  BY <1>1, <1>2 DEF ProgramState
<1>4. s.stage = "agent" /\ s.peer = address
      /\ s.why = "none" /\ s.picked = r.picked /\ s.contract = r.contract
  BY <1>1 DEF ProgramState
<1>5. Sets(p, s)
  BY <1>1, <1>3 DEF Sets, ProgramState, Registers
<1> HIDE DEF s
<1>6. Fit(s)
  BY <1>4 DEF Fit, InStore, HasChild, Registering
<1> QED BY <1>1, <1>2, <1>4, <1>5, <1>6

LEMMA RegisterIs ==
  ASSUME Typed, Fitting, NEW p \in Proc, Register(p)
  PROVE  /\ program[p].stage = "registering" /\ UNCHANGED <<storeVars, commands, displaced>>
         /\ program[p].contract \in Id
         /\ \/ Registers(p)
            \/ /\ SetContractAt(program[p].contract) \/ UNCHANGED socketVars
               /\ \E s : /\ Sets(p, s) /\ Fit(s) /\ s.stage = "failed" /\ s.why = "rejected"
                         /\ s.child = None /\ s.picked = None
<1>1. /\ program[p].stage = "registering" /\ UNCHANGED <<storeVars, commands, displaced>>
      /\ Registers(p) \/ (Refused(p) /\ Stops(p, "rejected"))
  BY DEF Register
<1>2. program[p].contract \in Id /\ program[p].child = None
  BY <1>1 DEF Fitting, Fit, Registering
<1>3. ASSUME Stops(p, "rejected")
      PROVE  \E s : /\ Sets(p, s) /\ Fit(s) /\ s.stage = "failed" /\ s.why = "rejected"
                    /\ s.child = None /\ s.picked = None
  BY <1>2, <1>3, StopsIs
<1> QED BY <1>1, <1>2, <1>3 DEF Refused

LEMMA AttemptIs ==
  ASSUME Typed, Fitting, NEW p \in Proc, Attempt(p)
  PROVE  /\ program[p].stage = "attempting" /\ UNCHANGED <<storeVars, commands, displaced>>
         /\ program[p].contract \in Id
         /\ \/ Registers(p)
            \/ /\ SetContractAt(program[p].contract) \/ UNCHANGED socketVars
               /\ \E s : /\ Sets(p, s) /\ Fit(s) /\ s.stage = "waiting" /\ s.why = "none"
                         /\ s.child = program[p].child /\ s.picked = program[p].picked
                         /\ s.contract = program[p].contract
<1> DEFINE r == program[p]
<1>1. /\ r.stage = "attempting" /\ UNCHANGED <<storeVars, commands, displaced>>
      /\ Registers(p) \/ (Refused(p) /\ Goes(p, "waiting"))
  BY DEF Attempt
<1>2. Fit(r) /\ r.contract \in Id /\ r.why = "none"
  BY <1>1 DEF Fitting, Fit, Registering
<1>3. ASSUME Goes(p, "waiting")
      PROVE  \E s : /\ Sets(p, s) /\ Fit(s) /\ s.stage = "waiting" /\ s.why = "none"
                    /\ s.child = r.child /\ s.picked = r.picked /\ s.contract = r.contract
  <2>1. PICK s : Sets(p, s) /\ s.stage = "waiting" /\ s.picked = r.picked
                 /\ s.child = r.child /\ s.attempts = r.attempts /\ s.why = r.why
                 /\ s.contract = r.contract
    BY <1>3, GoesIs
  <2>2. Fit(s)
    BY <1>1, <1>2, <2>1 DEF Fit, InStore, HasChild, Registering
  <2> QED BY <1>2, <2>1, <2>2
<1> QED BY <1>1, <1>2, <1>3 DEF Refused

LEMMA TryWaitIs ==
  ASSUME Typed, Fitting, NEW p \in Proc, TryWait(p)
  PROVE  /\ program[p].stage = "waiting"
         /\ UNCHANGED <<storeVars, socketVars, commands, displaced>>
         /\ program[p].child \in Daemon
         /\ \E s :
              /\ Sets(p, s) /\ Fit(s) /\ s.child = program[p].child
              /\ \/ /\ daemon[program[p].child] = "gone" /\ s.stage = "failed"
                    /\ s.why = "exited" /\ s.picked = None
                 \/ s.stage = "failed" /\ s.why = "io" /\ s.picked = None
                 \/ /\ s.stage \in {"attempting", "killing"} /\ s.why = "none"
                    /\ s.picked = program[p].picked /\ s.contract = program[p].contract
<1> DEFINE r == program[p]
<1>1. /\ r.stage = "waiting" /\ UNCHANGED <<storeVars, socketVars, commands, displaced>>
      /\ \/ daemon[r.child] = "gone" /\ Stops(p, "exited")
         \/ Stops(p, "io")
         \/ program' = [program EXCEPT ![p].attempts = @ + 1,
              ![p].stage = IF program[p].attempts + 1 < MaxAttempts THEN "attempting" ELSE "killing"]
  BY DEF TryWait
<1>2. /\ r \in ProgramState /\ Fit(r) /\ r.contract \in Id /\ r.why = "none"
      /\ r.child \in Daemon /\ r.attempts < MaxAttempts /\ r.attempts \in Nat
  <2>1. r \in ProgramState /\ Fit(r) /\ r.attempts \in Nat
    BY Program, Constants DEF Fitting
  <2> QED BY <1>1, <2>1 DEF Fit, Registering, HasChild
<1>3. CASE daemon[r.child] = "gone" /\ Stops(p, "exited")
  BY <1>1, <1>2, <1>3, StopsIs
<1>4. CASE program' = [program EXCEPT ![p].attempts = @ + 1,
             ![p].stage = IF program[p].attempts + 1 < MaxAttempts THEN "attempting" ELSE "killing"]
  <2> DEFINE next == IF r.attempts + 1 < MaxAttempts THEN "attempting" ELSE "killing"
             s == [r EXCEPT !.attempts = r.attempts + 1, !.stage = next]
  <2>1. next \in {"attempting", "killing"} /\ (next = "attempting" => r.attempts + 1 < MaxAttempts)
    OBVIOUS
  <2>2. r.attempts + 1 \in 0 .. MaxAttempts
    BY <1>2, Constants
  <2>3. program' = [program EXCEPT ![p] = s]
    BY <1>2, <1>4 DEF ProgramState
  <2> HIDE DEF next
  <2>4. s \in ProgramState
    BY <1>2, <2>1, <2>2 DEF ProgramState, Registering
  <2>5. s.stage = next /\ s.child = r.child /\ s.attempts = r.attempts + 1
        /\ s.why = "none" /\ s.picked = r.picked /\ s.contract = r.contract
    BY <1>2 DEF ProgramState
  <2>6. Sets(p, s)
    BY <2>3, <2>4 DEF Sets
  <2> HIDE DEF s
  <2>7. Fit(s)
    BY <1>2, <2>1, <2>5 DEF Fit, InStore, HasChild, Registering
  <2> QED BY <1>1, <1>2, <2>1, <2>5, <2>6, <2>7
<1>5. CASE Stops(p, "io")
  BY <1>1, <1>2, <1>5, StopsIs
<1> QED BY <1>1, <1>3, <1>4, <1>5

LEMMA KillChildIs ==
  ASSUME Typed, Fitting, NEW p \in Proc, KillChild(p)
  PROVE  /\ program[p].stage = "killing" /\ UNCHANGED <<storeVars, commands, displaced>>
         /\ program[p].child \in Daemon /\ Killed(program[p].child) /\ UNCHANGED deaths
         /\ \E s : /\ Sets(p, s) /\ Fit(s) /\ s.stage = "failed" /\ s.why = "timeout"
                   /\ s.child = program[p].child /\ s.picked = None
<1>1. program[p].child \in Daemon
  BY DEF KillChild, Fitting, Fit, HasChild
<1> QED BY <1>1, StopsIs DEF KillChild

LEMMA CodexEndsIs ==
  ASSUME NEW p \in Proc, CodexEnds(p)
  PROVE  /\ program[p].stage = "agent" /\ Sets(p, Off) /\ Fit(Off)
         /\ UNCHANGED <<storeVars, socketVars, commands, displaced>>
BY QuitsIs DEF CodexEnds

LEMMA CodexFailsIs ==
  ASSUME Typed, NEW p \in Proc, CodexFails(p)
  PROVE  /\ program[p].stage = "agent"
         /\ UNCHANGED <<storeVars, socketVars, commands, displaced>>
         /\ \E s : /\ Sets(p, s) /\ Fit(s) /\ s.stage = "failed" /\ s.why = "codex"
                   /\ s.child = program[p].child /\ s.picked = None
BY StopsIs DEF CodexFails

LEMMA InterruptIs ==
  ASSUME NEW p \in Proc, Interrupt(p)
  PROVE  /\ Sets(p, Off) /\ Fit(Off) /\ UNCHANGED <<socketVars, commands, displaced>>
         /\ \/ Crash(p)
            \/ /\ program[p].stage \in Registering /\ crashes < MaxCrashes
               /\ crashes' = crashes + 1
               /\ UNCHANGED <<documents, stateFile, calls, contended>>
BY QuitsIs DEF Interrupt

-----------------------------------------------------------------------------
(* What a step of the system touches *)

ProgramMoves == UNCHANGED program \/ \E p \in Proc : \E s : Sets(p, s) /\ Fit(s)
FrameMoves == UNCHANGED calls \/ \E p \in Proc : \E f : Turns(p, f) /\ Coherent(f)
RestTyped ==
  /\ DocumentsTyped' /\ stateFile' \in StoreState
  /\ crashes' \in 0 .. MaxCrashes /\ contended' \in BOOLEAN
  /\ commands' \in 0 .. MaxCommands /\ displaced' \in [Proc -> BOOLEAN]

\* The variables that a step on one side leaves alone keep their types.
LEMMA StoreAlone ==
  ASSUME Typed, UNCHANGED <<storeVars, commands, displaced>>
  PROVE  FrameMoves /\ RestTyped
BY DEF storeVars, Typed, FrameMoves, RestTyped, DocumentsTyped

LEMMA SocketAlone ==
  ASSUME UNCHANGED socketVars
  PROVE  SocketMoves
BY DEF SocketMoves

\* A call begins, or its result is taken.
LEMMA CallBegins ==
  ASSUME Typed, NEW p \in Proc, NEW f, Enter(p, f), Turns(p, f), Entry(f)
  PROVE  /\ FrameMoves
         /\ DocumentsTyped' /\ stateFile' \in StoreState
         /\ crashes' \in 0 .. MaxCrashes /\ contended' \in BOOLEAN
<1>1. Coherent(f)
  BY EntryCoherent
<1>2. UNCHANGED <<documents, stateFile, crashes>> /\ contended' \in BOOLEAN
  BY DEF Enter, Typed
<1> QED BY <1>1, <1>2 DEF FrameMoves, Typed, DocumentsTyped

LEMMA CallCleared ==
  ASSUME Typed, NEW p \in Proc, Clears(p)
  PROVE  /\ FrameMoves
         /\ DocumentsTyped' /\ stateFile' \in StoreState
         /\ crashes' \in 0 .. MaxCrashes /\ contended' \in BOOLEAN
<1>1. Reads(p, NoCall) /\ Coherent(NoCall)
  BY ClearsIs, EndingCoherent
<1> QED BY <1>1 DEF Reads, FrameMoves, Typed, DocumentsTyped

LEMMA AnyEntry ==
  ASSUME Typed, NEW p \in Proc,
         \/ Create(p) \/ LoadActive(p) \/ List(p)
         \/ \E i \in Id \union {None} : Activate(p, i)
         \/ \E n \in Limits : SetRetentionLimit(p, n)
  PROVE  \E f : Enter(p, f) /\ Turns(p, f) /\ Entry(f)
BY EntryIs

LEMMA Steps ==
  ASSUME Typed, Fitting, Coherence, [Next]_launchVars
  PROVE  ProgramMoves /\ SocketMoves /\ FrameMoves /\ RestTyped
<1> DEFINE Goal == ProgramMoves /\ SocketMoves /\ FrameMoves /\ RestTyped
<1> HIDE DEF Goal
<1>1. ASSUME NEW p \in Proc, NEW s, Sets(p, s), Fit(s) PROVE ProgramMoves
  BY <1>1 DEF ProgramMoves
<1>2. commands \in 0 .. MaxCommands /\ displaced \in [Proc -> BOOLEAN] /\ MaxCommands \in Nat
      /\ crashes \in 0 .. MaxCrashes /\ MaxCrashes \in Nat
  BY Constants DEF Typed
<1>3. ASSUME NEW p \in Proc,
             NEW command \in {"new", "codex", "launch", "retain"}, NEW stage \in InStore,
             Begin(p, command, stage),
             NEW f, Enter(p, f), Turns(p, f), Entry(f)
      PROVE  Goal
  <2>1. PICK s : /\ Sets(p, s) /\ Fit(s) /\ commands < MaxCommands /\ commands' = commands + 1
                 /\ displaced' = [displaced EXCEPT ![p] = FALSE] /\ UNCHANGED socketVars
    BY <1>3, BeginIs
  <2>2. commands' \in 0 .. MaxCommands /\ displaced' \in [Proc -> BOOLEAN]
    BY <1>2, <2>1
  <2>3. FrameMoves /\ RestTyped
    BY <1>3, <2>2, CallBegins DEF RestTyped
  <2> QED BY <1>1, <2>1, <2>3, SocketAlone DEF Goal
<1>4. ASSUME NEW p \in Proc, RunNew(p) \/ RunCodex(p) \/ RunLaunch(p) \/ RunRetain(p)
      PROVE  Goal
  <2>1. CASE RunNew(p)
    BY <1>3, <2>1, AnyEntry DEF RunNew, InStore
  <2>2. CASE RunCodex(p)
    BY <1>3, <2>2, AnyEntry DEF RunCodex, InStore
  <2>3. CASE RunLaunch(p)
    BY <1>3, <2>3, AnyEntry DEF RunLaunch, InStore
  <2>4. CASE RunRetain(p)
    BY <1>3, <2>4, AnyEntry DEF RunRetain, InStore
  <2> QED BY <1>4, <2>1, <2>2, <2>3, <2>4
<1>5. ASSUME NEW p \in Proc, NEW s, Sets(p, s), Fit(s),
             UNCHANGED <<socketVars, commands, displaced>>,
             Clears(p) \/ \E f : Enter(p, f) /\ Turns(p, f) /\ Entry(f)
      PROVE  Goal
  <2>1. FrameMoves /\ RestTyped
    BY <1>2, <1>5, CallBegins, CallCleared DEF RestTyped
  <2> QED BY <1>1, <1>5, <2>1, SocketAlone DEF Goal
<1>6. ASSUME NEW p \in Proc, SelectContract(p) PROVE Goal
  <2>1. PICK s : /\ Sets(p, s) /\ Fit(s)
                 /\ Create(p) \/ Clears(p) \/ \E i \in Id : Activate(p, i)
    BY <1>6, SelectContractIs
  <2>2. UNCHANGED <<socketVars, commands, displaced>>
    BY <1>6, SelectContractIs
  <2>3. Clears(p) \/ \E f : Enter(p, f) /\ Turns(p, f) /\ Entry(f)
    BY <2>1, AnyEntry
  <2> QED BY <1>5, <2>1, <2>2, <2>3
<1>7. ASSUME NEW p \in Proc, UseStore(p) PROVE Goal
  <2>1. /\ StoreStep(p) /\ UNCHANGED <<socketVars, program, commands>>
        /\ displaced' \in [Proc -> BOOLEAN]
    BY <1>2, <1>7 DEF UseStore, Vulnerable, At
  <2>2. FrameMoves /\ RestTyped
    BY <1>2, <2>1, StoreStepTyped DEF FrameMoves, RestTyped, Typed
  <2> QED BY <2>1, <2>2, SocketAlone DEF Goal, ProgramMoves
<1>8. ASSUME NEW p \in Proc, StoreFailed(p) PROVE Goal
  BY <1>5, <1>8, StoreFailedIs
<1>9. ASSUME NEW p \in Proc, Created(p) PROVE Goal
  <2>1. PICK s : /\ Sets(p, s) /\ Fit(s)
                 /\ Clears(p) \/ Activate(p, calls[p].id)
    BY <1>9, CreatedIs
  <2>2. UNCHANGED <<socketVars, commands, displaced>>
    BY <1>9, CreatedIs
  <2>3. Clears(p) \/ \E f : Enter(p, f) /\ Turns(p, f) /\ Entry(f)
    BY <2>1, Frame, AnyEntry
  <2> QED BY <1>5, <2>1, <2>2, <2>3
<1>10. ASSUME NEW p \in Proc, Retained(p) PROVE Goal
  BY <1>5, <1>10, RetainedIs
<1>11. ASSUME NEW p \in Proc, Activated(p) PROVE Goal
  BY <1>5, <1>11, ActivatedIs, AnyEntry
<1>12. ASSUME NEW p \in Proc, Loaded(p) PROVE Goal
  BY <1>5, <1>12, LoadedIs
<1>13. ASSUME NEW p \in Proc, NEW s, Sets(p, s), Fit(s), UNCHANGED <<storeVars, commands, displaced>>,
              SocketMoves
       PROVE  Goal
  BY <1>1, <1>13, StoreAlone DEF Goal
<1>14. ASSUME NEW p \in Proc, CheckSocket(p) PROVE Goal
  <2>1. PICK s : Sets(p, s) /\ Fit(s) /\ (UNCHANGED socketVars \/ \E d \in Daemon : Spawn(d))
    BY <1>14, CheckSocketIs
  <2>2. SocketMoves
    BY <2>1 DEF SocketMoves
  <2> QED BY <1>13, <1>14, <2>1, <2>2, CheckSocketIs
<1>15. ASSUME NEW p \in Proc, Register(p) \/ Attempt(p) PROVE Goal
  <2>1. /\ program[p].stage \in {"registering", "attempting"}
        /\ UNCHANGED <<storeVars, commands, displaced>> /\ program[p].contract \in Id
        /\ \/ Registers(p)
           \/ /\ SetContractAt(program[p].contract) \/ UNCHANGED socketVars
              /\ \E s : Sets(p, s) /\ Fit(s)
    BY <1>15, RegisterIs, AttemptIs
  <2>2. PICK s : Sets(p, s) /\ Fit(s)
    BY <2>1, RegistersIs
  <2>3. SocketMoves
    BY <2>1, RegistersIs DEF SocketMoves
  <2> QED BY <1>13, <2>1, <2>2, <2>3
<1>16. ASSUME NEW p \in Proc, TryWait(p) PROVE Goal
  <2>1. PICK s : Sets(p, s) /\ Fit(s)
    BY <1>16, TryWaitIs
  <2>2. UNCHANGED <<storeVars, socketVars, commands, displaced>>
    BY <1>16, TryWaitIs
  <2> QED BY <1>13, <2>1, <2>2, SocketAlone
<1>17. ASSUME NEW p \in Proc, KillChild(p) PROVE Goal
  <2>1. PICK s : Sets(p, s) /\ Fit(s) /\ s.stage = "failed"
    BY <1>17, KillChildIs
  <2>2. SocketMoves
    BY <1>17, <2>1, KillChildIs, OneProgram DEF SocketMoves
  <2> QED BY <1>13, <1>17, <2>1, <2>2, KillChildIs
<1>18. ASSUME NEW p \in Proc, CodexEnds(p) \/ CodexFails(p) PROVE Goal
  <2>1. PICK s : Sets(p, s) /\ Fit(s)
    BY <1>18, CodexEndsIs, CodexFailsIs
  <2>2. UNCHANGED <<storeVars, socketVars, commands, displaced>>
    BY <1>18, CodexEndsIs, CodexFailsIs
  <2> QED BY <1>13, <2>1, <2>2, SocketAlone
<1>19. ASSUME NEW p \in Proc, Interrupt(p) PROVE Goal
  <2>1. /\ crashes' = crashes + 1 /\ crashes < MaxCrashes
        /\ UNCHANGED <<documents, stateFile, contended>>
        /\ UNCHANGED calls \/ Turns(p, NoCall)
    BY <1>19, InterruptIs, CrashIs
  <2>2. FrameMoves
    BY <2>1, EndingCoherent DEF FrameMoves
  <2>3. crashes' \in 0 .. MaxCrashes
    BY <1>2, <2>1
  <2>4. RestTyped
    BY <1>19, <2>1, <2>3, InterruptIs DEF RestTyped, Typed, DocumentsTyped
  <2> QED BY <1>1, <1>19, <2>2, <2>4, InterruptIs, SocketAlone DEF Goal
<1>20. ASSUME NEW d \in Daemon, RunDaemon(d) PROVE Goal
  <2>1. SocketMoves /\ UNCHANGED <<storeVars, program, commands, displaced>>
    BY <1>20 DEF RunDaemon, SocketMoves
  <2> QED BY <2>1, StoreAlone DEF Goal, ProgramMoves
<1>21. ASSUME UNCHANGED launchVars PROVE Goal
  <2>1. UNCHANGED <<storeVars, commands, displaced>> /\ UNCHANGED socketVars /\ UNCHANGED program
    BY <1>21 DEF launchVars
  <2>2. SocketMoves /\ FrameMoves /\ RestTyped
    BY <2>1, StoreAlone, SocketAlone
  <2> QED BY <2>1, <2>2 DEF Goal, ProgramMoves
<1>22. Goal
  <2>1. ASSUME NEW p \in Proc, Proceed(p) PROVE Goal
    BY <1>7, <1>8, <1>9, <1>10, <1>11, <1>12, <1>14, <1>15, <1>16, <1>17, <2>1, Zenon DEF Proceed
  <2>2. CASE Next
    BY <1>4, <1>6, <1>18, <1>19, <1>20, <2>1, <2>2, Zenon DEF Next
  <2> QED BY <1>21, <2>2
<1> QED BY <1>22 DEF Goal

LEMMA StepTyped ==
  ASSUME Typed, Fitting, Coherence, [Next]_launchVars
  PROVE  Typed' /\ Fitting' /\ Coherence'
<1>1. ProgramMoves /\ SocketMoves /\ FrameMoves /\ RestTyped
  BY Steps
<1>2. ProgramTyped' /\ Fitting'
  <2>1. CASE UNCHANGED program
    BY <2>1 DEF Typed, ProgramTyped, Fitting
  <2>2. CASE \E p \in Proc : \E s : Sets(p, s) /\ Fit(s)
    BY <2>2, OneProgram DEF Fitting
  <2> QED BY <1>1, <2>1, <2>2 DEF ProgramMoves
<1>3. CallsTyped' /\ Coherence'
  <2>1. CASE UNCHANGED calls
    BY <2>1 DEF Typed, CallsTyped, Coherence
  <2>2. CASE \E p \in Proc : \E f : Turns(p, f) /\ Coherent(f)
    BY <2>2, OneCall DEF Coherence
  <2> QED BY <1>1, <2>1, <2>2 DEF FrameMoves
<1>4. SocketTypeOK'
  BY <1>1, SocketTyped
<1> QED BY <1>1, <1>2, <1>3, <1>4 DEF RestTyped, Typed

LEMMA InitTyped ==
  ASSUME Init
  PROVE  Typed /\ Fitting /\ Coherence
<1>1. PICK n \in Initial :
        /\ documents = [i \in Id |-> IF i <= n THEN [created |-> i, used |-> i] ELSE Unmade]
        /\ stateFile = [active |-> IF n = 0 THEN None ELSE n, limit |-> DefaultLimit]
        /\ calls = [p \in Proc |-> NoCall]
        /\ crashes = 0 /\ contended = FALSE
  BY DEF Init, StoreInit
<1>2. DocumentsTyped
  BY <1>1, Constants DEF DocumentsTyped, Document
<1>3. stateFile \in StoreState
  <2>1. n = 0 \/ n \in Id
    BY Constants
  <2> QED BY <1>1, <2>1, Constants DEF StoreState
<1>4. CallsTyped /\ Coherence
  BY <1>1, Idle, EndingCoherent DEF CallsTyped, Coherence
<1>5. SocketTypeOK
  <2>1. Foreign \subseteq Daemon /\ 0 \in 0 .. MaxDeaths
    BY Constants
  <2>2. SocketInit
    BY DEF Init
  <2> QED BY <2>1, <2>2 DEF SocketInit, SocketTypeOK
<1>6. ProgramTyped /\ Fitting
  <2>1. program = [p \in Proc |-> Off]
    BY DEF Init
  <2>2. Fit(Off)
    BY OffIs DEF Fit, InStore, HasChild, Registering
  <2> QED BY <2>1, <2>2, OffIs DEF ProgramTyped, Fitting
<1>7. /\ crashes \in 0 .. MaxCrashes /\ contended \in BOOLEAN
      /\ commands \in 0 .. MaxCommands /\ displaced \in [Proc -> BOOLEAN]
  <2>1. 0 \in 0 .. MaxCrashes /\ 0 \in 0 .. MaxCommands
    BY Constants
  <2> QED BY <1>1, <2>1 DEF Init
<1> QED BY <1>2, <1>3, <1>4, <1>5, <1>6, <1>7 DEF Typed

\* The files, the calls, the daemons and the commands always have their types: no
\* attempt is made beyond the last, and what a call writes back is a document.
THEOREM TypeCorrect == Spec => []TypeOK
<1>1. Init => Typed /\ Fitting /\ Coherence
  BY InitTyped
<1>2. Typed /\ Fitting /\ Coherence /\ [Next]_launchVars => (Typed /\ Fitting /\ Coherence)'
  BY StepTyped
<1>3. Typed /\ Fitting /\ Coherence => TypeOK
  BY TypedMeans
<1> QED BY <1>1, <1>2, <1>3, PTL DEF Spec

-----------------------------------------------------------------------------
(* The launcher's daemon and its contract *)

\* A command has a call in the store, or its result, only in the stages that use it.
InCalls == \A p \in Proc : ~At(p, "idle") => program[p].stage \in InStore

LEMMA StoreStepIsBusy ==
  ASSUME NEW p \in Proc, StoreStep(p)
  PROVE  Busy(p)
BY DEF StoreStep, ReadActiveId, ReadState, ReadDirectory, ReadDocument, Listed, WriteNew, ReadChosen,
       WriteChosen, PruneLru, WriteState, SavingState, Pruning, AllRead, At, Busy

\* p alone moves, in the store and as a command.
LEMMA OneMoves ==
  ASSUME Typed, InCalls, NEW p \in Proc, NEW f, NEW s, Turns(p, f), Sets(p, s),
         f.at = "idle" \/ s.stage \in InStore
  PROVE  InCalls'
<1>1. calls'[p] = f /\ \A q \in Proc \ {p} : calls'[q] = calls[q]
  BY OneCall
<1>2. program'[p] = s /\ \A q \in Proc \ {p} : program'[q] = program[q]
  BY OneProgram
<1> QED BY <1>1, <1>2 DEF InCalls, At

LEMMA OneLaunches ==
  ASSUME Typed, InCalls, NEW p \in Proc, NEW s, UNCHANGED calls, Sets(p, s),
         program[p].stage \notin InStore \/ s.stage \in InStore
  PROVE  InCalls'
<1>1. program'[p] = s /\ \A q \in Proc \ {p} : program'[q] = program[q]
  BY OneProgram
<1> QED BY <1>1 DEF InCalls, At

LEMMA CallsKept ==
  ASSUME Typed, Fitting, Coherence, InCalls, [Next]_launchVars
  PROVE  InCalls'
<1>1. ASSUME NEW p \in Proc, NEW s, Sets(p, s), s.stage \in InStore,
             \E f : Enter(p, f) /\ Turns(p, f) /\ Entry(f)
      PROVE  InCalls'
  BY <1>1, OneMoves
<1>2. ASSUME NEW p \in Proc, NEW s, Sets(p, s), Clears(p)
      PROVE  InCalls'
  <2>1. Turns(p, NoCall) /\ NoCall.at = "idle"
    BY <1>2, ClearsIs, Idle DEF Reads
  <2> QED BY <1>2, <2>1, OneMoves
<1>3. ASSUME NEW p \in Proc, NEW s, UNCHANGED storeVars, Sets(p, s),
             program[p].stage \in Registering \union {"agent"}
      PROVE  InCalls'
  BY <1>3, OneLaunches DEF storeVars, Registering, InStore
<1>4. ASSUME NEW p \in Proc,
             NEW command \in {"new", "codex", "launch", "retain"}, NEW stage \in InStore,
             Begin(p, command, stage), \E f : Enter(p, f) /\ Turns(p, f) /\ Entry(f)
      PROVE  InCalls'
  BY <1>1, <1>4, BeginIs
<1>5. ASSUME NEW p \in Proc, RunNew(p) \/ RunCodex(p) \/ RunLaunch(p) \/ RunRetain(p)
      PROVE  InCalls'
  <2>1. CASE RunNew(p)
    BY <1>4, <2>1, AnyEntry DEF RunNew, InStore
  <2>2. CASE RunCodex(p)
    BY <1>4, <2>2, AnyEntry DEF RunCodex, InStore
  <2>3. CASE RunLaunch(p)
    BY <1>4, <2>3, AnyEntry DEF RunLaunch, InStore
  <2>4. CASE RunRetain(p)
    BY <1>4, <2>4, AnyEntry DEF RunRetain, InStore
  <2> QED BY <1>5, <2>1, <2>2, <2>3, <2>4
<1>6. ASSUME NEW p \in Proc, SelectContract(p) PROVE InCalls'
  <2>1. PICK s : /\ Sets(p, s)
                 /\ \/ Clears(p)
                    \/ /\ s.stage \in InStore
                       /\ Create(p) \/ \E i \in Id : Activate(p, i)
    BY <1>6, SelectContractIs DEF InStore
  <2> QED BY <1>1, <1>2, <2>1, AnyEntry
<1>7. ASSUME NEW p \in Proc, UseStore(p) PROVE InCalls'
  <2>1. StoreStep(p) /\ UNCHANGED program /\ program[p].stage \in InStore
    BY <1>7, StoreStepIsBusy DEF UseStore, InCalls, At, Busy
  <2>2. PICK f : Turns(p, f)
    BY <2>1, StoreStepTyped
  <2>3. \A q \in Proc \ {p} : calls'[q] = calls[q]
    BY <2>2, OneCall
  <2> QED BY <2>1, <2>3 DEF InCalls, At
<1>8. ASSUME NEW p \in Proc, StoreFailed(p) \/ Retained(p) \/ Loaded(p) PROVE InCalls'
  BY <1>2, <1>8, StoreFailedIs, RetainedIs, LoadedIs
<1>9. ASSUME NEW p \in Proc, Created(p) PROVE InCalls'
  <2>1. PICK s : /\ Sets(p, s)
                 /\ Clears(p) \/ (s.stage \in InStore /\ Activate(p, calls[p].id))
    BY <1>9, CreatedIs DEF InStore
  <2> QED BY <1>1, <1>2, <2>1, Frame, AnyEntry
<1>10. ASSUME NEW p \in Proc, Activated(p) PROVE InCalls'
  <2>1. PICK s : Sets(p, s) /\ s.stage \in InStore
    BY <1>10, ActivatedIs DEF InStore
  <2> QED BY <1>1, <1>10, <2>1, ActivatedIs, AnyEntry
<1>11. ASSUME NEW p \in Proc, \/ CheckSocket(p) \/ TryWait(p) \/ KillChild(p)
                               \/ CodexEnds(p) \/ CodexFails(p)
       PROVE  InCalls'
  <2>1. /\ UNCHANGED storeVars /\ program[p].stage \in Registering \union {"agent"}
        /\ \E s : Sets(p, s)
    BY <1>11, CheckSocketIs, TryWaitIs, KillChildIs, CodexEndsIs, CodexFailsIs DEF Registering
  <2> QED BY <1>3, <2>1
<1>12. ASSUME NEW p \in Proc, Register(p) \/ Attempt(p) PROVE InCalls'
  <2>1. /\ UNCHANGED storeVars /\ program[p].stage \in {"registering", "attempting"}
        /\ Registers(p) \/ \E s : Sets(p, s)
    BY <1>12, RegisterIs, AttemptIs
  <2>2. \E s : Sets(p, s)
    BY <2>1, RegistersIs
  <2> QED BY <1>3, <2>1, <2>2 DEF Registering
<1>13. ASSUME NEW p \in Proc, Interrupt(p) PROVE InCalls'
  <2>1. CASE Crash(p)
    <3>1. Turns(p, NoCall) /\ NoCall.at = "idle" /\ Sets(p, Off)
      BY <1>13, <2>1, CrashIs, InterruptIs, Idle
    <3> QED BY <3>1, OneMoves
  <2>2. CASE program[p].stage \in Registering /\ UNCHANGED calls
    BY <1>13, <2>2, InterruptIs, OneLaunches DEF Registering, InStore
  <2> QED BY <1>13, <2>1, <2>2, InterruptIs
<1>14. ASSUME UNCHANGED <<storeVars, program>> PROVE InCalls'
  BY <1>14 DEF storeVars, InCalls, At
<1>15. ASSUME NEW d \in Daemon, RunDaemon(d) PROVE InCalls'
  BY <1>14, <1>15 DEF RunDaemon
<1>16. ASSUME UNCHANGED launchVars PROVE InCalls'
  BY <1>14, <1>16 DEF launchVars
<1>17. ASSUME NEW p \in Proc, Proceed(p) PROVE InCalls'
  BY <1>7, <1>8, <1>9, <1>10, <1>11, <1>12, <1>17, Zenon DEF Proceed
<1>18. CASE Next
  BY <1>5, <1>6, <1>11, <1>13, <1>15, <1>17, <1>18, Zenon DEF Next
<1> QED BY <1>16, <1>18

\* A command that moves holds no daemon of its own and runs no agent afterwards,
\* but for the launcher's own steps.
LauncherStep(p) ==
  CheckSocket(p) \/ Register(p) \/ Attempt(p) \/ TryWait(p) \/ KillChild(p) \/ CodexFails(p)

LEMMA CommandMoves ==
  ASSUME Typed, Fitting, Coherence, InCalls, [Next]_launchVars, NEW p \in Proc
  PROVE  \/ program'[p] = program[p]
         \/ /\ program'[p].child = None /\ program'[p].stage \notin HasChild \union {"agent"}
            /\ program'[p].why # "exited"
         \/ LauncherStep(p)
<1> DEFINE Quiet(s) == /\ s.child = None /\ s.stage \notin HasChild \union {"agent"}
                       /\ s.why # "exited"
           Goal == program'[p] = program[p] \/ Quiet(program'[p]) \/ LauncherStep(p)
<1>1. ASSUME NEW q \in Proc, NEW s, Sets(q, s), Quiet(s) \/ LauncherStep(q)
      PROVE  Goal
  <2>1. program'[q] = s /\ \A r \in Proc \ {q} : program'[r] = program[r]
    BY <1>1, OneProgram
  <2> QED BY <1>1, <2>1
<1>2. ASSUME NEW s, s.child = None, s.stage \in InStore \union {"off", "checking"}, s.why = "none"
      PROVE  Quiet(s)
  BY <1>2 DEF InStore, HasChild
<1>3. Quiet(Off)
  BY OffIs DEF HasChild
<1>4. ASSUME NEW q \in Proc, RunNew(q) \/ RunCodex(q) \/ RunLaunch(q) \/ RunRetain(q)
      PROVE  Goal
  <2>1. PICK command \in {"new", "codex", "launch", "retain"}, stage \in InStore :
          Begin(q, command, stage)
    BY <1>4 DEF RunNew, RunCodex, RunLaunch, RunRetain, InStore
  <2>2. PICK s : Sets(q, s) /\ s.stage = stage /\ s.child = None /\ s.why = "none"
    BY <2>1, BeginIs
  <2>3. Quiet(s)
    BY <1>2, <2>2
  <2> QED BY <1>1, <2>2, <2>3
<1>5. ASSUME NEW q \in Proc, SelectContract(q) \/ Created(q) \/ Activated(q)
      PROVE  Goal
  <2>1. PICK s : Sets(q, s) /\ s.child = None /\ s.why = "none"
                 /\ s.stage \in InStore \union {"off", "checking"}
    BY <1>5, SelectContractIs, CreatedIs, ActivatedIs, OffIs DEF InStore
  <2>2. Quiet(s)
    BY <1>2, <2>1
  <2> QED BY <1>1, <2>1, <2>2
<1>6. ASSUME NEW q \in Proc, Retained(q) \/ CodexEnds(q) \/ Interrupt(q)
      PROVE  Goal
  BY <1>1, <1>3, <1>6, RetainedIs, CodexEndsIs, InterruptIs
<1>7. ASSUME NEW q \in Proc, Loaded(q)
      PROVE  Goal
  <2>1. PICK s : /\ Sets(q, s) /\ s.child = None
                 /\ \/ s.stage = "failed" /\ s.why = "empty"
                    \/ s.stage = "checking" /\ s.why = "none"
    BY <1>7, LoadedIs
  <2>2. Quiet(s)
    BY <2>1 DEF HasChild
  <2> QED BY <1>1, <2>1, <2>2
<1>8. ASSUME NEW q \in Proc, StoreFailed(q)
      PROVE  Goal
  <2>1. PICK s : /\ Sets(q, s) /\ s.child = program[q].child /\ s.stage = "failed" /\ s.why = "store"
    BY <1>8, StoreFailedIs
  <2>2. program[q].child = None
    BY <1>8, StoreFailedIs DEF InCalls, At, Fitting, Fit
  <2>3. Quiet(s)
    BY <2>1, <2>2 DEF HasChild
  <2> QED BY <1>1, <2>1, <2>3
<1>9. ASSUME NEW q \in Proc, LauncherStep(q)
      PROVE  Goal
  <2>1. \E s : Sets(q, s)
    <3>1. CASE Register(q) \/ Attempt(q)
      <4>1. /\ program[q].stage \in {"registering", "attempting"}
            /\ Registers(q) \/ \E s : Sets(q, s)
        BY <3>1, RegisterIs, AttemptIs
      <4> QED BY <4>1, RegistersIs
    <3>2. CASE CheckSocket(q) \/ TryWait(q) \/ KillChild(q) \/ CodexFails(q)
      BY <3>2, CheckSocketIs, TryWaitIs, KillChildIs, CodexFailsIs
    <3> QED BY <1>9, <3>1, <3>2 DEF LauncherStep
  <2> QED BY <1>1, <1>9, <2>1
<1>10. ASSUME UNCHANGED program PROVE Goal
  BY <1>10
<1>11. ASSUME NEW q \in Proc, UseStore(q) PROVE Goal
  BY <1>10, <1>11 DEF UseStore
<1>12. ASSUME NEW d \in Daemon, RunDaemon(d) PROVE Goal
  BY <1>10, <1>12 DEF RunDaemon
<1>13. ASSUME UNCHANGED launchVars PROVE Goal
  BY <1>10, <1>13 DEF launchVars
<1> HIDE DEF Goal
<1>14. ASSUME NEW q \in Proc, Proceed(q) PROVE Goal
  BY <1>5, <1>6, <1>7, <1>8, <1>9, <1>11, <1>14, Zenon DEF Proceed, LauncherStep
<1>15. ASSUME NEW q \in Proc, CodexFails(q) PROVE Goal
  BY <1>9, <1>15 DEF LauncherStep
<1>16. Goal
  <2>1. CASE Next
    BY <1>4, <1>5, <1>6, <1>12, <1>14, <1>15, <2>1, Zenon DEF Next
  <2> QED BY <1>13, <2>1
<1> QED BY <1>16 DEF Goal

\* The facts about single commands and calls that every invariant below rests on.
Orderly == Typed /\ Fitting /\ Coherence /\ InCalls

LEMMA InitOrderly == Init => Orderly
<1>1. Init => InCalls
  BY Idle DEF Init, StoreInit, InCalls, At
<1> QED BY <1>1, InitTyped DEF Orderly

LEMMA StepOrderly == Orderly /\ [Next]_launchVars => Orderly' /\ SocketMoves
BY StepTyped, CallsKept, Steps DEF Orderly

LEMMA NoStrayDaemonStep ==
  ASSUME Orderly, NoStrayDaemon, [Next]_launchVars
  PROVE  NoStrayDaemon'
<1> USE DEF Orderly
<1>1. SocketMoves /\ Typed'
  BY StepOrderly
<1>2. SUFFICES ASSUME NEW p \in Proc, program'[p].stage = "failed", program'[p].child # None
               PROVE  daemon'[program'[p].child] = "gone" \/ program'[p].why \in {"io", "codex"}
  BY DEF NoStrayDaemon
<1>3. program'[p].child \in Daemon
  <2>1. program'[p].child \in Daemon \union {None}
    BY <1>1 DEF Typed, ProgramTyped, ProgramState
  <2> QED BY <1>2, <2>1
<1>4. CASE program'[p] = program[p]
  <2>1. daemon[program[p].child] = "gone" \/ program[p].why \in {"io", "codex"}
    BY <1>2, <1>4 DEF NoStrayDaemon
  <2> QED BY <1>1, <1>3, <1>4, <2>1, DaemonsEnd
<1>5. ASSUME NEW s, Sets(p, s) PROVE program'[p] = s
  BY <1>5, OneProgram
<1>6. CASE TryWait(p)
  <2>1. PICK s : Sets(p, s) /\ s.child = program[p].child
                 /\ (s.stage = "failed" => daemon[program[p].child] = "gone" \/ s.why = "io")
    BY <1>6, TryWaitIs
  <2>2. daemon[program'[p].child] = "gone" \/ program'[p].why = "io"
    BY <1>2, <1>5, <2>1
  <2> QED BY <1>1, <1>3, <2>2, DaemonsEnd
<1>7. CASE KillChild(p)
  <2>1. PICK s : Sets(p, s) /\ s.child = program[p].child
    BY <1>7, KillChildIs
  <2>2. daemon' = [daemon EXCEPT ![program'[p].child] = "gone"]
    BY <1>5, <1>7, <2>1, KillChildIs DEF Killed
  <2> QED BY <1>3, <2>2, Daemons
<1>8. CASE CheckSocket(p)
  <2>1. PICK s : Sets(p, s) /\ (s.stage = "failed" => s.child = None)
    BY <1>8, CheckSocketIs
  <2> QED BY <1>2, <1>5, <2>1
<1>9. CASE Register(p) \/ Attempt(p)
  <2>1. CASE Registers(p)
    <3>1. program[p].stage \in {"registering", "attempting"}
      BY <1>9, RegisterIs, AttemptIs
    <3>2. PICK s : Sets(p, s) /\ s.stage = "agent"
      BY <2>1, <3>1, RegistersIs
    <3> QED BY <1>2, <1>5, <3>2
  <2>2. CASE ~Registers(p)
    <3>1. PICK s : Sets(p, s) /\ (s.stage = "failed" => s.child = None)
      BY <1>9, <2>2, RegisterIs, AttemptIs
    <3> QED BY <1>2, <1>5, <3>1
  <2> QED BY <2>1, <2>2
<1>10. CASE CodexFails(p)
  <2>1. PICK s : Sets(p, s) /\ s.why = "codex"
    BY <1>10, CodexFailsIs
  <2> QED BY <1>5, <2>1
<1> QED BY <1>2, <1>4, <1>6, <1>7, <1>8, <1>9, <1>10, CommandMoves DEF LauncherStep

\* A launch that gives up on its daemon leaves none running: it was there when it saw
\* it exit, or it killed it.
THEOREM NoDaemonLeftBehind == Spec => []NoStrayDaemon
<1>1. Init => NoStrayDaemon
  BY OffIs DEF Init, NoStrayDaemon
<1>2. Orderly /\ NoStrayDaemon /\ [Next]_launchVars => (Orderly /\ NoStrayDaemon)'
  BY StepOrderly, NoStrayDaemonStep
<1> QED BY <1>1, <1>2, InitOrderly, PTL DEF Spec

\* A daemon holds what it was given until it ends.
LEMMA RegisteredKept ==
  ASSUME Typed, SocketMoves, NEW d \in Daemon
  PROVE  registered[d] \subseteq registered'[d] \/ daemon'[d] = "gone"
<1>1. CASE UNCHANGED socketVars
  BY <1>1 DEF socketVars
<1>2. ASSUME NEW e \in Daemon, Spawn(e) \/ DaemonStep(e) \/ Die(e)
      PROVE  registered[d] \subseteq registered'[d] \/ daemon'[d] = "gone"
  <2>1. CASE Spawn(e) \/ DaemonStep(e)
    BY <2>1 DEF Spawn, DaemonStep, Probe, Connect, Unlink, Bind, Listen
  <2>2. CASE Die(e)
    BY <2>2, Daemons DEF Die, Killed
  <2> QED BY <1>2, <2>1, <2>2
<1>3. ASSUME NEW k \in Id, SetContractAt(k)
      PROVE  registered[d] \subseteq registered'[d]
  BY <1>3, Daemons DEF SetContractAt
<1>4. ASSUME NEW e \in Daemon, Killed(e)
      PROVE  registered[d] \subseteq registered'[d] \/ daemon'[d] = "gone"
  BY <1>4, Daemons DEF Killed
<1> QED BY <1>1, <1>2, <1>3, <1>4 DEF SocketMoves

LEMMA AgentRegisteredStep ==
  ASSUME Orderly, AgentRegistered, [Next]_launchVars
  PROVE  AgentRegistered'
<1> USE DEF Orderly
<1>1. SocketMoves
  BY StepOrderly
<1>2. SUFFICES ASSUME NEW p \in Proc, program'[p].stage = "agent"
               PROVE  /\ program'[p].peer \in Daemon \ Foreign
                      /\ daemon'[program'[p].peer] # "gone" =>
                           program'[p].contract \in registered'[program'[p].peer]
  BY DEF AgentRegistered
<1>3. CASE program'[p] = program[p]
  <2>1. program[p].peer \in Daemon \ Foreign
        /\ (daemon[program[p].peer] # "gone" => program[p].contract \in registered[program[p].peer])
    BY <1>2, <1>3 DEF AgentRegistered
  <2>2. /\ daemon[program[p].peer] = "gone" => daemon'[program[p].peer] = "gone"
        /\ \/ registered[program[p].peer] \subseteq registered'[program[p].peer]
           \/ daemon'[program[p].peer] = "gone"
    BY <1>1, <2>1, DaemonsEnd, RegisteredKept
  <2> QED BY <1>3, <2>1, <2>2
<1>4. ASSUME NEW s, Sets(p, s) PROVE program'[p] = s
  BY <1>4, OneProgram
<1>5. CASE TryWait(p) \/ KillChild(p) \/ CheckSocket(p) \/ CodexFails(p)
  <2>1. PICK s : Sets(p, s) /\ s.stage # "agent"
    BY <1>5, TryWaitIs, KillChildIs, CheckSocketIs, CodexFailsIs
  <2> QED BY <1>2, <1>4, <2>1
<1>6. CASE Register(p) \/ Attempt(p)
  <2>1. CASE Registers(p)
    <3>1. program[p].stage \in {"registering", "attempting"}
      BY <1>6, RegisterIs, AttemptIs
    <3>2. PICK s : Sets(p, s) /\ s.peer = address /\ s.contract = program[p].contract
      BY <2>1, <3>1, RegistersIs
    <3>3. SetContractAt(program[p].contract)
      BY <2>1, <3>1, RegistersIs
    <3>4. /\ address \in Daemon \ Foreign
          /\ program[p].contract \in registered'[address]
      BY <3>3, Daemons DEF SetContractAt, Live
    <3> QED BY <1>4, <3>2, <3>4
  <2>2. CASE ~Registers(p)
    <3>1. PICK s : Sets(p, s) /\ s.stage # "agent"
      BY <1>6, <2>2, RegisterIs, AttemptIs
    <3> QED BY <1>2, <1>4, <3>1
  <2> QED BY <2>1, <2>2
<1> QED BY <1>2, <1>3, <1>5, <1>6, CommandMoves DEF LauncherStep

\* Codex runs only under a contract that a daemon of this workspace took and holds as
\* long as it lives, however many daemons come and go on the address.
THEOREM AgentIsCovered == Spec => []AgentRegistered
<1>1. Init => AgentRegistered
  BY OffIs DEF Init, AgentRegistered
<1>2. Orderly /\ AgentRegistered /\ [Next]_launchVars => (Orderly /\ AgentRegistered)'
  BY StepOrderly, AgentRegisteredStep
<1> QED BY <1>1, <1>2, InitOrderly, PTL DEF Spec

-----------------------------------------------------------------------------
(* Daemons that start one at a time *)

OneStarts == \A d, e \in Daemon : Starting(d) /\ Starting(e) => d = e

\* What a daemon saw on the path is still so: nobody else was there to change it.
Path ==
  \A d \in Daemon :
    /\ daemon[d] \in {"connecting", "unlinking"} => address # NoFile
    /\ daemon[d] = "unlinking" => ~Live
    /\ daemon[d] = "binding" => address = NoFile

Alone == ~raced => OneStarts /\ Path

\* A launcher has killed its daemon d.
EndsChild(p, d) ==
  program[p].stage = "killing" /\ program[p].child = d /\ program'[p].stage = "failed"

\* Which daemons start after a step; only the end of a start makes a socket live.
LEMMA Starts ==
  ASSUME Typed, SocketMoves, Alone, ~raced'
  PROVE  /\ ~raced /\ OneStarts' /\ Path'
         /\ \A d \in Daemon : Starting(d) /\ Live' => Live \/ ~Starting(d)'
         /\ \A d \in Daemon : ~Starting(d) /\ daemon[d] # "off" => ~Starting(d)'
         /\ \A d \in Daemon : Starting(d) /\ daemon'[d] = "gone" =>
              \/ Live
              \/ \E p \in Proc : EndsChild(p, d)
         /\ \A d \in Daemon : daemon'[d] = "gone" =>
              \/ daemon[d] = "gone" \/ Starting(d) \/ deaths' > 0
              \/ \E p \in Proc : EndsChild(p, d)
<1> DEFINE Goal ==
         /\ ~raced /\ OneStarts' /\ Path'
         /\ \A d \in Daemon : Starting(d) /\ Live' => Live \/ ~Starting(d)'
         /\ \A d \in Daemon : ~Starting(d) /\ daemon[d] # "off" => ~Starting(d)'
         /\ \A d \in Daemon : Starting(d) /\ daemon'[d] = "gone" =>
              \/ Live
              \/ \E p \in Proc : EndsChild(p, d)
         /\ \A d \in Daemon : daemon'[d] = "gone" =>
              \/ daemon[d] = "gone" \/ Starting(d) \/ deaths' > 0
              \/ \E p \in Proc : EndsChild(p, d)
<1> USE Daemons, Constants DEF OneStarts, Path, Starting, Live, EndsChild
<1>1. ASSUME UNCHANGED socketVars PROVE Goal
  BY <1>1 DEF socketVars, Alone
<1>2. ASSUME NEW d \in Daemon, Spawn(d)
      PROVE  Goal
  <2>1. ~raced /\ (\A e \in Daemon : ~Starting(e)) /\ UNCHANGED <<address, deaths>>
        /\ daemon[d] = "off" /\ daemon' = [daemon EXCEPT ![d] = "probing"]
    BY <1>2 DEF Spawn, Become
  <2> QED BY <2>1
<1>3. ASSUME NEW d \in Daemon, DaemonStep(d)
      PROVE  Goal
  <2>1. ~raced /\ Starting(d) /\ \A e \in Daemon : Starting(e) => e = d
    BY <1>3 DEF DaemonStep, Probe, Connect, Unlink, Bind, Listen, Become, Alone
  <2>2. /\ daemon[d] \in {"connecting", "unlinking"} => address # NoFile
        /\ daemon[d] = "unlinking" => ~Live
        /\ daemon[d] = "binding" => address = NoFile
    BY <2>1 DEF Alone
  <2>3. CASE Probe(d)
    BY <2>1, <2>3 DEF Probe, Become
  <2>4. CASE Connect(d)
    BY <2>1, <2>2, <2>4 DEF Connect, Become
  <2>5. CASE Unlink(d)
    BY <2>1, <2>2, <2>5 DEF Unlink, Become
  <2>6. CASE Bind(d)
    BY <2>1, <2>2, <2>6 DEF Bind, Become
  <2>7. CASE Listen(d)
    BY <2>1, <2>7 DEF Listen, Become
  <2> QED BY <1>3, <2>3, <2>4, <2>5, <2>6, <2>7 DEF DaemonStep
<1>4. ASSUME NEW d \in Daemon, Die(d)
      PROVE  Goal
  <2>1. /\ ~raced /\ daemon[d] = "serving" /\ daemon' = [daemon EXCEPT ![d] = "gone"]
        /\ address' = address /\ deaths' > 0
    BY <1>4 DEF Die, Killed
  <2> QED BY <2>1 DEF Alone
<1>5. ASSUME NEW k \in Id, SetContractAt(k)
      PROVE  Goal
  BY <1>5 DEF SetContractAt, Alone
<1>6. ASSUME NEW p \in Proc, program[p].stage = "killing", program[p].child \in Daemon,
             Killed(program[p].child), program'[p].stage = "failed"
      PROVE  Goal
  <2>1. /\ ~raced /\ daemon' = [daemon EXCEPT ![program[p].child] = "gone"]
        /\ address' = address
    BY <1>6 DEF Killed
  <2> QED BY <1>6, <2>1 DEF Alone
<1> HIDE DEF Goal
<1>7. Goal
  BY <1>2, <1>3, <1>4, <1>5, <1>6, <1>1 DEF SocketMoves
<1> QED BY <1>7 DEF Goal

LEMMA RacedForever ==
  ASSUME Typed, SocketMoves
  PROVE  (raced => raced') /\ deaths <= deaths'
BY Daemons, Constants DEF SocketMoves, socketVars, Spawn, DaemonStep, Probe, Connect, Unlink, Bind,
   Listen, Die, Killed, SetContractAt

LEMMA AloneStep ==
  ASSUME Orderly, Alone, [Next]_launchVars
  PROVE  Alone' /\ [raced \/ KeepsPeer]_address
<1>1. Typed /\ SocketMoves
  BY StepOrderly DEF Orderly
<1>2. Alone'
  BY <1>1, Starts DEF Alone
<1>3. ASSUME address' # address, ~raced PROVE KeepsPeer
  <2>1. PICK d \in Daemon : Unlink(d) \/ Bind(d)
    BY <1>1, <1>3 DEF SocketMoves, socketVars, Spawn, DaemonStep, Probe, Connect, Listen, Die,
       Killed, SetContractAt
  <2>2. ~Live
    <3>1. CASE Unlink(d)
      BY <1>3, <3>1 DEF Alone, Path, Unlink, Become
    <3>2. CASE Bind(d)
      BY <1>3, <3>2, Constants DEF Bind, Live
    <3> QED BY <2>1, <3>1, <3>2
  <2> QED BY <2>2 DEF KeepsPeer, Live
<1> QED BY <1>2, <1>3

\* Nobody takes the path from a daemon that listens on it, whatever stale files, killed
\* daemons and late starters there were, unless two daemons were starting at once.
THEOREM SocketKeptAlone == Spec => LiveSocketKeptAlone
<1>1. Init => Alone
  BY Constants DEF Init, SocketInit, Alone, OneStarts, Path, Starting
<1>2. Orderly /\ Alone /\ [Next]_launchVars => (Orderly /\ Alone)' /\ [raced \/ KeepsPeer]_address
  BY StepOrderly, AloneStep
<1> QED BY <1>1, <1>2, InitOrderly, PTL DEF Spec, LiveSocketKeptAlone

-----------------------------------------------------------------------------
(* Why a launch fails *)

\* The daemons of two launchers are different ones, and a launcher's own ends early
\* only if another was starting, or one was killed.
Distinct ==
  \A p, q \in Proc :
    program[p].stage \in HasChild /\ program[q].stage \in HasChild /\ p # q =>
      program[p].child # program[q].child

Attended ==
  \A p \in Proc : program[p].stage \in HasChild =>
    /\ daemon[program[p].child] # "off"
    /\ ~raced =>
         /\ Starting(program[p].child) => ~Live
         /\ deaths = 0 => daemon[program[p].child] # "gone"

Exits == \A p \in Proc : program[p].why = "exited" => raced \/ deaths > 0

LEMMA ChildMoves ==
  ASSUME Orderly, [Next]_launchVars, NEW p \in Proc, program'[p].stage \in HasChild
  PROVE  /\ program'[p].child \in Daemon
         /\ \/ program[p].stage \in HasChild /\ program'[p].child = program[p].child
            \/ /\ program[p].stage = "checking" /\ ~Live
               /\ daemon[program'[p].child] = "off" /\ Spawn(program'[p].child)
               /\ \A q \in Proc \ {p} : program'[q] = program[q]
<1> USE DEF Orderly
<1>1. program'[p].child \in Daemon
  BY StepOrderly DEF Fitting, Fit
<1>2. ASSUME NEW s, Sets(p, s)
      PROVE  program'[p] = s /\ \A q \in Proc \ {p} : program'[q] = program[q]
  BY <1>2, OneProgram
<1>3. CASE program'[p] = program[p]
  BY <1>1, <1>3
<1>4. CASE TryWait(p)
  <2>1. program[p].stage \in HasChild
    BY <1>4, TryWaitIs DEF HasChild
  <2>2. PICK s : Sets(p, s) /\ s.child = program[p].child
    BY <1>4, TryWaitIs
  <2> QED BY <1>1, <1>2, <2>1, <2>2
<1>5. CASE KillChild(p) \/ CodexFails(p)
  <2>1. PICK s : Sets(p, s) /\ s.stage = "failed"
    BY <1>5, KillChildIs, CodexFailsIs
  <2> QED BY <1>2, <2>1 DEF HasChild
<1>6. CASE CheckSocket(p)
  <2>1. program[p].stage = "checking"
    BY <1>6, CheckSocketIs
  <2>2. PICK s : /\ Sets(p, s)
                 /\ \/ s.stage \in {"registering", "failed"}
                    \/ \E d \in Daemon : s.child = d /\ ~Live /\ daemon[d] = "off" /\ Spawn(d)
    BY <1>6, CheckSocketIs
  <2>3. program'[p] = s /\ \A q \in Proc \ {p} : program'[q] = program[q]
    BY <1>2, <2>2
  <2>4. s.stage \notin {"registering", "failed"}
    BY <2>3 DEF HasChild
  <2> QED BY <1>1, <2>1, <2>2, <2>3, <2>4
<1>7. CASE Register(p) \/ Attempt(p)
  <2>1. program[p].stage \in {"registering", "attempting"}
    BY <1>7, RegisterIs, AttemptIs
  <2>2. CASE Registers(p)
    <3>1. PICK s : Sets(p, s) /\ s.stage = "agent"
      BY <2>1, <2>2, RegistersIs
    <3> QED BY <1>2, <3>1 DEF HasChild
  <2>3. CASE Register(p) /\ ~Registers(p)
    <3>1. PICK s : Sets(p, s) /\ s.stage = "failed"
      BY <2>3, RegisterIs
    <3> QED BY <1>2, <3>1 DEF HasChild
  <2>4. CASE Attempt(p) /\ ~Registers(p)
    <3>1. program[p].stage \in HasChild
      BY <2>4, AttemptIs DEF HasChild
    <3>2. PICK s : Sets(p, s) /\ s.child = program[p].child
      BY <2>4, AttemptIs
    <3> QED BY <1>1, <1>2, <3>1, <3>2
  <2> QED BY <1>7, <2>2, <2>3, <2>4
<1> QED BY <1>3, <1>4, <1>5, <1>6, <1>7, CommandMoves DEF LauncherStep

LEMMA DistinctStep ==
  ASSUME Orderly, Distinct, Attended, [Next]_launchVars
  PROVE  Distinct'
<1> SUFFICES ASSUME NEW p \in Proc, NEW q \in Proc, p # q,
                    program'[p].stage \in HasChild, program'[q].stage \in HasChild
             PROVE  program'[p].child # program'[q].child
  BY DEF Distinct
<1>1. ASSUME NEW r \in Proc, program[r].stage \in HasChild PROVE daemon[program[r].child] # "off"
  BY <1>1 DEF Attended
<1>2. CASE program[p].stage \in HasChild /\ program'[p].child = program[p].child
  <2>1. CASE program[q].stage \in HasChild /\ program'[q].child = program[q].child
    BY <1>2, <2>1 DEF Distinct
  <2>2. CASE daemon[program'[q].child] = "off"
    BY <1>1, <1>2, <2>2
  <2> QED BY <2>1, <2>2, ChildMoves
<1>3. CASE /\ daemon[program'[p].child] = "off" /\ program'[q] = program[q]
  BY <1>1, <1>3
<1> QED BY <1>2, <1>3, ChildMoves

LEMMA AttendedStep ==
  ASSUME Orderly, Alone, Distinct, Attended, [Next]_launchVars
  PROVE  Attended'
<1>1. Typed /\ SocketMoves
  BY StepOrderly DEF Orderly
<1> SUFFICES ASSUME NEW p \in Proc, program'[p].stage \in HasChild,
                    NEW c \in Daemon, c = program'[p].child
             PROVE  /\ daemon'[c] # "off"
                    /\ ~raced' =>
                         /\ Starting(c)' => ~Live'
                         /\ deaths' = 0 => daemon'[c] # "gone"
  BY ChildMoves DEF Attended, Starting
<1>2. CASE program[p].stage \in HasChild /\ c = program[p].child
  <2>1. /\ daemon[c] # "off"
        /\ ~raced =>
             /\ Starting(c) => ~Live
             /\ deaths = 0 => daemon[c] # "gone"
    BY <1>2 DEF Attended
  <2>2. daemon'[c] # "off"
    BY <1>1, <2>1, DaemonsEnd
  <2>3. ASSUME NEW q \in Proc PROVE ~EndsChild(q, c)
    <3>1. CASE q = p
      BY <3>1 DEF EndsChild, HasChild
    <3>2. CASE q # p
      BY <1>2, <3>2 DEF Distinct, EndsChild, HasChild
    <3> QED BY <3>1, <3>2
  <2>4. ASSUME ~raced' PROVE Starting(c)' => ~Live'
    <3>1. ~raced /\ (Starting(c) /\ Live' => Live \/ ~Starting(c)')
          /\ (~Starting(c) /\ daemon[c] # "off" => ~Starting(c)')
      BY <1>1, <2>4, Starts
    <3> QED BY <2>1, <3>1
  <2>5. ASSUME ~raced', deaths' = 0 PROVE daemon'[c] # "gone"
    <3>1. /\ ~raced
          /\ Starting(c) /\ daemon'[c] = "gone" => Live
          /\ daemon'[c] = "gone" => daemon[c] = "gone" \/ Starting(c) \/ deaths' > 0
      BY <1>1, <2>3, <2>5, Starts
    <3>2. deaths = 0
      BY <1>1, <2>5, RacedForever, Daemons, Constants
    <3> QED BY <2>1, <2>5, <3>1, <3>2
  <2> QED BY <2>2, <2>4, <2>5
<1>3. CASE daemon[c] = "off" /\ Spawn(c) /\ ~Live
  <2>1. /\ daemon' = [daemon EXCEPT ![c] = "probing"] /\ address' = address
    BY <1>3 DEF Spawn, Become
  <2>2. daemon'[c] = "probing" /\ ~Live'
    BY <1>1, <1>3, <2>1, Daemons DEF Live
  <2> QED BY <1>1, <2>2
<1> QED BY <1>2, <1>3, ChildMoves

LEMMA ExitsStep ==
  ASSUME Orderly, Attended, Exits, [Next]_launchVars
  PROVE  Exits'
<1> USE DEF Orderly
<1> SUFFICES ASSUME NEW p \in Proc, program'[p].why = "exited"
             PROVE  raced' \/ deaths' > 0
  BY DEF Exits
<1>1. (raced => raced') /\ deaths <= deaths' /\ deaths \in Nat /\ deaths' \in Nat
  BY StepOrderly, RacedForever, Constants DEF Typed, SocketTypeOK
<1>2. SUFFICES raced \/ deaths > 0
  BY <1>1
<1>3. ASSUME NEW s, Sets(p, s) PROVE program'[p] = s
  BY <1>3, OneProgram
<1>4. CASE program'[p] = program[p]
  BY <1>4 DEF Exits
<1>5. CASE TryWait(p)
  <2>1. PICK s : Sets(p, s) /\ (s.why = "exited" => daemon[program[p].child] = "gone")
    BY <1>5, TryWaitIs
  <2>2. daemon[program[p].child] = "gone" /\ program[p].stage \in HasChild
    BY <1>3, <1>5, <2>1, TryWaitIs DEF HasChild
  <2> QED BY <1>1, <2>2 DEF Attended
<1>6. CASE KillChild(p) \/ CheckSocket(p) \/ CodexFails(p)
  <2>1. PICK s : Sets(p, s) /\ s.why # "exited"
    BY <1>6, KillChildIs, CheckSocketIs, CodexFailsIs
  <2> QED BY <1>3, <2>1
<1>7. CASE Register(p) \/ Attempt(p)
  <2>1. PICK s : Sets(p, s) /\ s.why # "exited"
    <3>1. CASE Registers(p)
      <4>1. program[p].stage \in {"registering", "attempting"}
        BY <1>7, RegisterIs, AttemptIs
      <4>2. PICK s : Sets(p, s) /\ s.why = "none"
        BY <3>1, <4>1, RegistersIs
      <4> QED BY <4>2
    <3>2. CASE ~Registers(p)
      <4>1. PICK s : Sets(p, s) /\ s.why \in {"none", "rejected"}
        BY <1>7, <3>2, RegisterIs, AttemptIs
      <4> QED BY <4>1
    <3> QED BY <3>1, <3>2
  <2> QED BY <1>3, <2>1
<1> QED BY <1>4, <1>5, <1>6, <1>7, CommandMoves DEF LauncherStep

\* What a launcher knows of its own daemon, and the path to it.
Launching == Orderly /\ Alone /\ Distinct /\ Attended /\ Exits

LEMMA InitLaunching == Init => Launching
<1>1. Init => Alone
  BY Constants DEF Init, SocketInit, Alone, OneStarts, Path, Starting
<1>2. Init => Distinct /\ Attended /\ Exits
  BY OffIs DEF Init, Distinct, Attended, Exits, HasChild
<1> QED BY <1>1, <1>2, InitOrderly DEF Launching

LEMMA StepLaunching == Launching /\ [Next]_launchVars => Launching'
BY StepOrderly, AloneStep, DistinctStep, AttendedStep, ExitsStep DEF Launching

-----------------------------------------------------------------------------
(* The choice of one command *)

\* What p's own step may change besides its command and its call, when it is not a
\* step of the store: nothing that another command looks at.
Touches(p) ==
  /\ UNCHANGED calls \/ \E f : Turns(p, f)
  /\ UNCHANGED program \/ \E s : Sets(p, s)
  /\ UNCHANGED stateFile
  /\ UNCHANGED displaced \/ displaced' = [displaced EXCEPT ![p] = FALSE]

Begins(p) == RunNew(p) \/ RunCodex(p) \/ RunLaunch(p) \/ RunRetain(p)
Chooses(p) == SelectContract(p) \/ Created(p) \/ Retained(p) \/ Activated(p) \/ Loaded(p)
              \/ StoreFailed(p)
CommandStep(p) ==
  \/ Begins(p) \/ Chooses(p) \/ UseStore(p) \/ LauncherStep(p) \/ CodexEnds(p) \/ Interrupt(p)

LEMMA LauncherSets ==
  ASSUME Typed, Fitting, NEW p \in Proc, LauncherStep(p)
  PROVE  /\ UNCHANGED <<storeVars, displaced>>
         /\ program[p].stage \in Registering \union {"agent"}
         /\ \E s : Sets(p, s) /\ Fit(s)
                   /\ \/ s.picked = None /\ s.stage = "failed"
                      \/ s.picked = program[p].picked /\ s.contract = program[p].contract
                         /\ s.stage \in Registering \union {"agent"}
<1>1. CASE CheckSocket(p)
  <2>1. PICK s : Sets(p, s) /\ Fit(s)
                 /\ \/ s.picked = None /\ s.stage = "failed"
                    \/ s.picked = program[p].picked /\ s.contract = program[p].contract
                       /\ s.stage \in Registering
    BY <1>1, CheckSocketIs DEF Registering
  <2> QED BY <1>1, <2>1, CheckSocketIs DEF Registering
<1>2. CASE TryWait(p)
  <2>1. PICK s : Sets(p, s) /\ Fit(s)
                 /\ \/ s.picked = None /\ s.stage = "failed"
                    \/ s.picked = program[p].picked /\ s.contract = program[p].contract
                       /\ s.stage \in Registering
    BY <1>2, TryWaitIs DEF Registering
  <2> QED BY <1>2, <2>1, TryWaitIs DEF Registering
<1>3. CASE KillChild(p)
  BY <1>3, KillChildIs DEF Registering
<1>4. CASE Register(p) \/ Attempt(p)
  <2>1. /\ program[p].stage \in {"registering", "attempting"}
        /\ UNCHANGED <<storeVars, displaced>>
    BY <1>4, RegisterIs, AttemptIs
  <2>2. CASE Registers(p)
    <3>1. PICK s : Sets(p, s) /\ Fit(s) /\ s.picked = program[p].picked
                   /\ s.contract = program[p].contract /\ s.stage = "agent"
      BY <2>1, <2>2, RegistersIs
    <3> QED BY <2>1, <3>1 DEF Registering
  <2>3. CASE ~Registers(p)
    <3>1. PICK s : Sets(p, s) /\ Fit(s)
                   /\ \/ s.picked = None /\ s.stage = "failed"
                      \/ s.picked = program[p].picked /\ s.contract = program[p].contract
                         /\ s.stage = "waiting"
      BY <1>4, <2>3, RegisterIs, AttemptIs
    <3> QED BY <2>1, <3>1 DEF Registering
  <2> QED BY <2>2, <2>3
<1>5. CASE CodexFails(p)
  BY <1>5, CodexFailsIs
<1> QED BY <1>1, <1>2, <1>3, <1>4, <1>5 DEF LauncherStep

LEMMA CommandTouches ==
  ASSUME Orderly, NEW p \in Proc, CommandStep(p), ~UseStore(p)
  PROVE  Touches(p)
<1> USE DEF Orderly
<1>1. ASSUME NEW f, Enter(p, f), Turns(p, f) PROVE UNCHANGED stateFile /\ \E g : Turns(p, g)
  BY <1>1 DEF Enter
<1>2. ASSUME Clears(p) PROVE UNCHANGED stateFile /\ \E g : Turns(p, g)
  BY <1>2, ClearsIs DEF Reads
<1>3. ASSUME NEW command \in {"new", "codex", "launch", "retain"}, NEW stage \in InStore,
             Begin(p, command, stage), \E f : Enter(p, f) /\ Turns(p, f)
      PROVE  Touches(p)
  BY <1>1, <1>3, BeginIs DEF Touches
<1>4. CASE Begins(p)
  <2>1. CASE RunNew(p)
    BY <1>3, <2>1, AnyEntry DEF RunNew, InStore
  <2>2. CASE RunCodex(p)
    BY <1>3, <2>2, AnyEntry DEF RunCodex, InStore
  <2>3. CASE RunLaunch(p)
    BY <1>3, <2>3, AnyEntry DEF RunLaunch, InStore
  <2>4. CASE RunRetain(p)
    BY <1>3, <2>4, AnyEntry DEF RunRetain, InStore
  <2> QED BY <1>4, <2>1, <2>2, <2>3, <2>4 DEF Begins
<1>5. CASE Chooses(p)
  <2>1. ASSUME \E s : Sets(p, s), UNCHANGED displaced,
               Clears(p) \/ \E f : Enter(p, f) /\ Turns(p, f)
        PROVE  Touches(p)
    BY <1>1, <1>2, <2>1 DEF Touches
  <2>2. CASE SelectContract(p)
    <3>1. /\ \E s : Sets(p, s)
          /\ Create(p) \/ Clears(p) \/ \E i \in Id : Activate(p, i)
          /\ UNCHANGED displaced
      BY <2>2, SelectContractIs
    <3> QED BY <2>1, <3>1, AnyEntry
  <2>3. CASE Created(p)
    <3>1. /\ \E s : Sets(p, s)
          /\ Clears(p) \/ Activate(p, calls[p].id)
          /\ UNCHANGED displaced
      BY <2>3, CreatedIs
    <3> QED BY <2>1, <3>1, Frame, AnyEntry
  <2>4. CASE Retained(p) \/ Loaded(p) \/ StoreFailed(p)
    BY <2>1, <2>4, RetainedIs, LoadedIs, StoreFailedIs
  <2>5. CASE Activated(p)
    BY <2>1, <2>5, ActivatedIs, AnyEntry
  <2> QED BY <1>5, <2>2, <2>3, <2>4, <2>5 DEF Chooses
<1>6. CASE LauncherStep(p)
  BY <1>6, LauncherSets DEF Touches, storeVars
<1>7. CASE CodexEnds(p)
  BY <1>7, CodexEndsIs DEF Touches, storeVars
<1>8. CASE Interrupt(p)
  BY <1>8, InterruptIs, CrashIs DEF Touches
<1> QED BY <1>4, <1>5, <1>6, <1>7, <1>8 DEF CommandStep

\* The state file is only written with SavingState.
LEMMA StateFileWritten ==
  ASSUME NEW p \in Proc, StoreStep(p)
  PROVE  stateFile' = stateFile \/ SavingState(p)
<1>1. CASE WriteState(p)
  BY <1>1 DEF WriteState
<1>2. CASE ~WriteState(p)
  BY <1>2 DEF StoreStep, ReadActiveId, ReadState, ReadDirectory, ReadDocument, Listed, WriteNew,
     ReadChosen, WriteChosen, PruneLru, Proceeds, Fails
<1> QED BY <1>1, <1>2

\* Who does not move keeps its command, its call and, unless it is displaced, what it
\* made active.
LEMMA OthersStand ==
  ASSUME Orderly, [Next]_launchVars, NEW p \in Proc
  PROVE  \/ CommandStep(p)
         \/ /\ program'[p] = program[p] /\ calls'[p] = calls[p]
            /\ displaced[p] => displaced'[p]
            /\ stateFile'.active = stateFile.active \/ (Vulnerable(p) => displaced'[p])
<1> USE DEF Orderly
<1> DEFINE Stands == /\ program'[p] = program[p] /\ calls'[p] = calls[p]
                     /\ displaced[p] => displaced'[p]
                     /\ stateFile'.active = stateFile.active \/ (Vulnerable(p) => displaced'[p])
<1>1. displaced \in [Proc -> BOOLEAN]
  BY DEF Typed
<1>2. ASSUME NEW q \in Proc \ {p}, CommandStep(q) PROVE Stands
  <2>1. CASE UseStore(q)
    <3>1. /\ StoreStep(q) /\ UNCHANGED program
          /\ displaced' = IF SavingState(q)
                          THEN [r \in Proc |-> displaced[r] \/ (r # q /\ Vulnerable(r))]
                          ELSE displaced
      BY <2>1 DEF UseStore
    <3>2. calls'[p] = calls[p]
      BY <3>1, StoreStepTyped, OneCall
    <3>3. CASE SavingState(q)
      BY <3>1, <3>2, <3>3
    <3>4. CASE ~SavingState(q)
      BY <3>1, <3>2, <3>4, StateFileWritten
    <3> QED BY <3>3, <3>4
  <2>2. CASE ~UseStore(q)
    <3>1. Touches(q)
      BY <1>2, <2>2, CommandTouches
    <3>2. calls'[p] = calls[p] /\ program'[p] = program[p]
      BY <3>1, OneCall, OneProgram DEF Touches
    <3> QED BY <1>1, <3>1, <3>2 DEF Touches
  <2> QED BY <2>1, <2>2
<1>3. ASSUME UNCHANGED <<storeVars, program, displaced>> PROVE Stands
  BY <1>3 DEF storeVars
<1>4. ASSUME NEW d \in Daemon, RunDaemon(d) PROVE Stands
  BY <1>3, <1>4 DEF RunDaemon
<1>5. ASSUME UNCHANGED launchVars PROVE Stands
  BY <1>3, <1>5 DEF launchVars
<1> HIDE DEF Stands
<1>6. ASSUME Next PROVE CommandStep(p) \/ Stands
  <2>1. ASSUME NEW q \in Proc, Proceed(q) PROVE CommandStep(q)
    BY <2>1, Zenon DEF Proceed, CommandStep, Chooses, LauncherStep
  <2>2. \/ \E q \in Proc : CommandStep(q)
        \/ \E d \in Daemon : RunDaemon(d)
    BY <1>6, <2>1, Zenon DEF Next, CommandStep, Begins, Chooses, LauncherStep
  <2> QED BY <1>2, <1>4, <2>2
<1>7. CommandStep(p) \/ Stands
  BY <1>5, <1>6
<1> QED BY <1>7 DEF Stands

\* How far a call of the store comes in one step: what it is about stays, unless it
\* makes a document, or has just learned the active one.
LEMMA StoreStepKeeps ==
  ASSUME Orderly, NEW p \in Proc, StoreStep(p)
  PROVE  \/ calls'[p].at = "failed"
         \/ /\ calls'[p].at = "done" /\ calls'[p].id = calls[p].id
            /\ SavingState(p) /\ stateFile' = calls[p].state
         \/ /\ calls'[p].at = "done" /\ calls'[p].op = "list" /\ calls[p].op = "list"
         \/ /\ calls[p].at = "loading" /\ calls'[p].at = "done" /\ stateFile.active = None
         \/ /\ calls[p].at = "loading" /\ calls'[p].op = calls[p].op
            /\ calls'[p].at = "readingState" /\ calls'[p].id = stateFile.active
         \/ /\ calls[p].at # "loading" /\ calls'[p].op = calls[p].op
            /\ calls'[p].at \notin {"loading", "done", "failed", "idle"}
            /\ calls[p].op # "create" => calls'[p].id = calls[p].id
<1> USE DEF Orderly
<1> DEFINE g == calls[p]
<1>1. g \in Frames
  BY Frame
<1>2. ASSUME NEW f, Turns(p, f) PROVE calls'[p] = f
  BY <1>2, OneCall
<1>3. ASSUME NEW f, Reads(p, f) PROVE calls'[p] = f
  BY <1>2, <1>3 DEF Reads
<1>4. CASE ReadActiveId(p)
  <2>1. PICK f : /\ Reads(p, f) /\ g.at = "loading"
                 /\ \/ stateFile.active = None /\ f = Answer(None)
                    \/ f = [g EXCEPT !.at = "readingState", !.id = stateFile.active]
    BY <1>4, ReadActiveIdIs
  <2>2. calls'[p] = f
    BY <1>3, <2>1
  <2>3. Answer(None).at = "done"
    BY Endings
  <2> QED BY <1>1, <2>1, <2>2, <2>3 DEF Frames
<1>5. CASE ReadState(p)
  <2>1. PICK f : /\ Reads(p, f) /\ g.at = "readingState"
                 /\ f = [g EXCEPT !.at = "readingDirectory", !.state = StateToWrite(p)]
    BY <1>5, ReadStateIs
  <2>2. calls'[p] = f
    BY <1>3, <2>1
  <2> QED BY <1>1, <2>1, <2>2 DEF Frames
<1>6. CASE ReadDirectory(p)
  <2>1. PICK f : /\ Reads(p, f) /\ g.at = "readingDirectory"
                 /\ f = [g EXCEPT !.at = "readingDocuments", !.listed = Kept]
    BY <1>6, ReadDirectoryIs
  <2>2. calls'[p] = f
    BY <1>3, <2>1
  <2> QED BY <1>1, <2>1, <2>2 DEF Frames
<1>7. CASE ReadDocument(p)
  <2>1. PICK i, f :
          /\ i \in g.listed /\ Reads(p, f) /\ g.at = "readingDocuments"
          /\ \/ f = Error
             \/ f = [g EXCEPT !.listed = g.listed \ {i},
                              !.seen = SeenToo(g.seen, i, documents[i])]
    BY <1>7, ReadDocumentIs
  <2>2. calls'[p] = f
    BY <1>3, <2>1
  <2>3. CASE f = Error
    BY <2>2, <2>3, Endings
  <2>4. CASE f # Error
    BY <1>1, <2>1, <2>2, <2>4 DEF Frames
  <2> QED BY <2>3, <2>4
<1>8. CASE Listed(p)
  <2>1. PICK f : Reads(p, f) /\ g.op = "list" /\ f = [g EXCEPT !.at = "done"]
    BY <1>8, ListedIs
  <2>2. calls'[p] = f
    BY <1>3, <2>1
  <2> QED BY <1>1, <2>1, <2>2 DEF Frames
<1>9. CASE WriteNew(p)
  <2>1. PICK f : /\ Turns(p, f) /\ g.at = "readingDocuments" /\ g.op = "create"
                 /\ f.op = "create" /\ f.at = "pruning"
    BY <1>9, WriteNewIs
  <2> QED BY <1>2, <2>1
<1>10. CASE ReadChosen(p)
  <2>1. PICK f : /\ Reads(p, f) /\ g.at = "readingDocuments" /\ g.op = "activate"
                 /\ \/ f = Error
                    \/ f.op = "activate" /\ f.at = "writingChosen" /\ f.id = g.id
    BY <1>10, ReadChosenIs
  <2>2. calls'[p] = f
    BY <1>3, <2>1
  <2>3. CASE f = Error
    BY <2>2, <2>3, Endings
  <2> QED BY <2>1, <2>2, <2>3
<1>11. CASE WriteChosen(p)
  <2>1. PICK f : /\ Turns(p, f) /\ g.at = "writingChosen"
                 /\ f.op = g.op /\ f.at = "writingState" /\ f.id = g.id
    BY <1>11, WriteChosenIs
  <2> QED BY <1>2, <2>1
<1>12. CASE PruneLru(p)
  <2>1. PICK f : /\ Turns(p, f) /\ Pruning(p)
                 /\ \/ f = Error
                    \/ f.op = g.op /\ f.at = "pruning" /\ f.id = g.id
    BY <1>12, PruneLruIs
  <2>2. calls'[p] = f /\ g.at # "loading"
    BY <1>2, <2>1 DEF Pruning, At, AllRead
  <2>3. CASE f = Error
    BY <2>2, <2>3, Endings
  <2> QED BY <2>1, <2>2, <2>3
<1>13. CASE WriteState(p)
  <2>1. PICK f : /\ Turns(p, f) /\ f = Answer(g.id) /\ SavingState(p)
                 /\ stateFile' = g.state
    BY <1>13, WriteStateIs
  <2>2. Answer(g.id).at = "done" /\ Answer(g.id).id = g.id
    BY Frame, Endings
  <2> QED BY <1>2, <2>1, <2>2
<1> QED BY <1>4, <1>5, <1>6, <1>7, <1>8, <1>9, <1>10, <1>11, <1>12, <1>13 DEF StoreStep

\* Which call a command waits for, in each of its stages.
CoupledAt(p) ==
  /\ program[p].stage = "listing" => calls[p].op = "list" \/ At(p, "failed")
  /\ program[p].stage = "creating" =>
       calls[p].op = "create" \/ At(p, "failed") \/ (At(p, "done") /\ calls[p].id # None)
  /\ program[p].stage = "activating" =>
       /\ program[p].picked # None
       /\ \/ At(p, "done") \/ At(p, "failed")
          \/ calls[p].op = "activate" /\ ~At(p, "loading") /\ calls[p].id = program[p].picked
  /\ program[p].stage = "loading" =>
       calls[p].op = "activate" \/ At(p, "done") \/ At(p, "failed")

\* What was picked is active until it is looked up, and then what the call is about.
ChosenAt(p) ==
  program[p].picked # None /\ ~displaced[p] =>
    /\ program[p].stage = "activating" /\ At(p, "done") => stateFile.active = program[p].picked
    /\ program[p].stage = "loading" =>
         IF At(p, "loading") THEN stateFile.active = program[p].picked
         ELSE At(p, "failed") \/ calls[p].id = program[p].picked
    /\ program[p].stage \in Registering \union {"agent"} =>
         program[p].contract = program[p].picked

Choosing == \A p \in Proc : CoupledAt(p) /\ ChosenAt(p)

LEMMA ChoosingStep ==
  ASSUME Orderly, Choosing, [Next]_launchVars
  PROVE  Choosing'
<1> USE DEF Orderly
<1> SUFFICES ASSUME NEW p \in Proc PROVE CoupledAt(p)' /\ ChosenAt(p)'
  BY DEF Choosing
<1> DEFINE r == program[p]
           g == calls[p]
           Goal == CoupledAt(p)' /\ ChosenAt(p)'
<1>1. /\ g \in Frames /\ Coherent(g) /\ Fit(r) /\ CoupledAt(p) /\ ChosenAt(p) /\ None \notin Id
      /\ displaced \in [Proc -> BOOLEAN]
  BY Frame, Constants DEF Choosing, Coherence, Fitting, Typed
<1>2. ASSUME NEW s, Sets(p, s) PROVE program'[p] = s
  BY <1>2, OneProgram
<1>3. ASSUME NEW f, Turns(p, f) PROVE calls'[p] = f
  BY <1>3, OneCall
<1>4. ASSUME /\ program'[p] = r /\ calls'[p] = g
             /\ displaced[p] => displaced'[p]
             /\ stateFile'.active = stateFile.active \/ (Vulnerable(p) => displaced'[p])
      PROVE  Goal
  <2>1. CoupledAt(p)'
    BY <1>1, <1>4 DEF CoupledAt, At
  <2>2. ChosenAt(p)'
    BY <1>1, <1>4 DEF ChosenAt, At, Vulnerable
  <2> QED BY <2>1, <2>2
\* Nothing is asked of a command that is over, or that has not chosen yet.
<1>5. ASSUME NEW s, Sets(p, s), s.picked = None,
             s.stage \notin {"listing", "creating", "activating", "loading"}
      PROVE  Goal
  <2>1. program'[p] = s
    BY <1>2, <1>5
  <2> QED BY <1>5, <2>1 DEF CoupledAt, ChosenAt
<1>6. CASE Begins(p)
  <2>1. ASSUME NEW command \in {"new", "codex", "launch", "retain"}, NEW stage \in InStore,
               Begin(p, command, stage),
               NEW f, Turns(p, f),
               \/ stage = "listing" /\ f.op = "list"
               \/ stage = "creating" /\ f.op = "create"
               \/ stage = "loading" /\ f.op = "activate"
               \/ stage = "retaining"
        PROVE  Goal
    <3>1. PICK s : Sets(p, s) /\ s.stage = stage /\ s.picked = None
      BY <2>1, BeginIs
    <3>2. program'[p] = s /\ calls'[p] = f
      BY <1>2, <1>3, <2>1, <3>1
    <3> QED BY <2>1, <3>1, <3>2 DEF CoupledAt, ChosenAt
  <2>2. CASE RunNew(p)
    BY <2>1, <2>2, EntryIs DEF RunNew, InStore
  <2>3. CASE RunCodex(p)
    BY <2>1, <2>3, EntryIs DEF RunCodex, InStore
  <2>4. CASE RunLaunch(p)
    BY <2>1, <2>4, EntryIs DEF RunLaunch, InStore
  <2>5. CASE RunRetain(p)
    <3>1. PICK n \in Limits : SetRetentionLimit(p, n)
      BY <2>5 DEF RunRetain
    <3>2. \E f : Turns(p, f)
      BY <3>1, EntryIs
    <3> QED BY <2>1, <2>5, <3>2 DEF RunRetain, InStore
  <2> QED BY <1>6, <2>2, <2>3, <2>4, <2>5 DEF Begins
<1>7. ASSUME NEW s, Sets(p, s), s.stage = "activating", s.picked \in Id, Activate(p, s.picked)
      PROVE  Goal
  <2>1. PICK f : Turns(p, f) /\ f.op = "activate" /\ f.at = "readingState" /\ f.id = s.picked
    BY <1>7, EntryIs
  <2>2. program'[p] = s /\ calls'[p] = f
    BY <1>2, <1>3, <1>7, <2>1
  <2> QED BY <1>1, <1>7, <2>1, <2>2 DEF CoupledAt, ChosenAt, At, Registering
<1>8. CASE SelectContract(p)
  <2>1. PICK s : /\ Sets(p, s)
                 /\ \/ s.stage = "creating" /\ Create(p)
                    \/ s.stage = "activating" /\ s.picked \in Id /\ Activate(p, s.picked)
                    \/ s = Off
    BY <1>8, SelectContractIs
  <2>2. CASE s.stage = "creating" /\ Create(p)
    <3>1. PICK f : Turns(p, f) /\ f.op = "create"
      BY <2>2, EntryIs
    <3>2. program'[p] = s /\ calls'[p] = f
      BY <1>2, <1>3, <2>1, <3>1
    <3> QED BY <2>2, <3>1, <3>2 DEF CoupledAt, ChosenAt, Registering
  <2>3. CASE s = Off
    BY <1>5, <2>1, <2>3, OffIs
  <2> QED BY <1>7, <2>1, <2>2, <2>3
<1>9. CASE Created(p)
  <2>1. PICK s : /\ Sets(p, s)
                 /\ \/ s = Off
                    \/ s.stage = "activating" /\ s.picked = g.id /\ Activate(p, g.id)
    BY <1>9, CreatedIs
  <2>2. r.stage = "creating" /\ g.at = "done"
    BY <1>9 DEF Created, Returned, At
  <2>3. g.id # None
    BY <1>1, <2>2 DEF CoupledAt, Coherent, Reading, At
  <2>4. g.id \in Id
    BY <2>3, Frame
  <2>5. CASE s = Off
    BY <1>5, <2>1, <2>5, OffIs
  <2> QED BY <1>7, <2>1, <2>4, <2>5
<1>10. CASE Retained(p) \/ CodexEnds(p) \/ Interrupt(p)
  BY <1>5, <1>10, RetainedIs, CodexEndsIs, InterruptIs, OffIs
<1>11. CASE StoreFailed(p)
  <2>1. PICK s : Sets(p, s) /\ s.stage = "failed" /\ s.picked = None
    BY <1>11, StoreFailedIs
  <2> QED BY <1>5, <2>1
<1>12. CASE Activated(p)
  <2>1. PICK s : Sets(p, s) /\ s.stage = "loading" /\ s.picked = r.picked
    BY <1>12, ActivatedIs
  <2>2. PICK f : Enter(p, f) /\ Turns(p, f) /\ f.op = "activate" /\ f.at = "loading"
    BY <1>12, ActivatedIs, EntryIs
  <2>3. program'[p] = s /\ calls'[p] = f /\ stateFile' = stateFile /\ displaced' = displaced
    BY <1>2, <1>3, <1>12, <2>1, <2>2, ActivatedIs DEF Enter
  <2>4. r.stage = "activating" /\ At(p, "done")
    BY <1>12 DEF Activated, Returned
  <2> QED BY <1>1, <2>1, <2>2, <2>3, <2>4 DEF CoupledAt, ChosenAt, At, Registering
<1>13. CASE Loaded(p)
  <2>1. PICK s : /\ Sets(p, s)
                 /\ \/ s.stage = "failed" /\ s.picked = None
                    \/ s.stage = "checking" /\ s.contract = g.id /\ s.picked = r.picked
    BY <1>13, LoadedIs
  <2>2. program'[p] = s /\ displaced' = displaced
    BY <1>2, <1>13, <2>1, LoadedIs
  <2>3. r.stage = "loading" /\ g.at = "done"
    BY <1>13 DEF Loaded, Returned, At
  <2>4. CASE s.stage = "failed" /\ s.picked = None
    BY <1>5, <2>1, <2>4
  <2>5. CASE s.stage = "checking" /\ s.contract = g.id /\ s.picked = r.picked
    BY <1>1, <2>2, <2>3, <2>5 DEF CoupledAt, ChosenAt, At
  <2> QED BY <2>1, <2>4, <2>5
<1>14. CASE LauncherStep(p)
  <2>1. /\ UNCHANGED displaced /\ r.stage \in Registering \union {"agent"}
        /\ \E s : Sets(p, s)
                   /\ \/ s.picked = None /\ s.stage = "failed"
                      \/ s.picked = r.picked /\ s.contract = r.contract
                         /\ s.stage \in Registering \union {"agent"}
    BY <1>14, LauncherSets
  <2>2. PICK s : /\ Sets(p, s)
                 /\ \/ s.picked = None /\ s.stage = "failed"
                    \/ s.picked = r.picked /\ s.contract = r.contract
                       /\ s.stage \in Registering \union {"agent"}
    BY <2>1
  <2>3. program'[p] = s /\ displaced' = displaced
    BY <1>2, <2>1, <2>2
  <2>4. CASE s.picked = None /\ s.stage = "failed"
    BY <1>5, <2>2, <2>4
  <2>5. CASE /\ s.picked = r.picked /\ s.contract = r.contract
             /\ s.stage \in Registering \union {"agent"}
    BY <1>1, <2>1, <2>3, <2>5 DEF CoupledAt, ChosenAt, At, Registering
  <2> QED BY <2>2, <2>4, <2>5
<1>15. CASE UseStore(p)
  <2> DEFINE f == calls'[p]
  <2>1. /\ StoreStep(p) /\ program'[p] = r
        /\ displaced'[p] = displaced[p]
    BY <1>1, <1>15 DEF UseStore
  <2>2. Busy(p) /\ (stateFile' = stateFile \/ SavingState(p))
    BY <2>1, StoreStepIsBusy, StateFileWritten
  <2>3. SavingState(p) => /\ g.op \in {"create", "activate", "retain"}
                          /\ g.op = "activate" => g.at = "writingState"
                          /\ g.at = "writingState" => g.op = "activate"
                          /\ g.op = "create" => g.id \in Id
    <3>1. g.seen \in Seens
      BY Frame
    <3>2. DOMAIN g.seen \subseteq Id
      BY <3>1, SeenIs
    <3> QED BY <1>1, <3>2, Frame DEF SavingState, Pruning, AllRead, At, Coherent, Reading
  <2>4. g.at \notin {"idle", "done", "failed"}
    BY <2>2 DEF Busy
  <2>5. CASE f.at = "failed"
    BY <2>1, <2>5, <1>1, <2>4 DEF CoupledAt, ChosenAt, At, Registering, Fit
  <2>6. CASE /\ f.at = "done" /\ f.id = g.id /\ SavingState(p) /\ stateFile' = g.state
    <3>1. CoupledAt(p)'
      BY <1>1, <2>1, <2>3, <2>4, <2>6 DEF CoupledAt, At
    <3>2. r.stage = "activating" => stateFile'.active = r.picked
      <4>1. r.stage = "activating" => g.op = "activate" /\ g.id = r.picked
        BY <1>1, <2>4 DEF CoupledAt, At
      <4>2. g.at = "writingState" => g.state.active = g.id
        BY <1>1 DEF Coherent
      <4> QED BY <2>3, <2>6, <4>1, <4>2
    <3>3. r.stage = "loading" => g.at # "loading"
      BY <1>1, <2>3, <2>4, <2>6 DEF CoupledAt, At
    <3>4. ChosenAt(p)'
      BY <1>1, <2>1, <2>4, <2>6, <3>2, <3>3 DEF ChosenAt, At, Registering
    <3> QED BY <3>1, <3>4
  <2>7. CASE f.at = "done" /\ f.op = "list" /\ g.op = "list"
    <3>1. r.stage \notin {"creating", "activating", "loading"}
      BY <1>1, <2>4, <2>7 DEF CoupledAt, At
    <3> QED BY <1>1, <2>1, <2>7, <3>1 DEF CoupledAt, ChosenAt
  <2>8. CASE g.at = "loading" /\ f.at = "done" /\ stateFile.active = None
    <3>1. r.stage \notin {"creating", "activating", "listing"}
      BY <1>1, <2>8, Frame DEF CoupledAt, Coherent, Reading, At
    <3> QED BY <1>1, <2>1, <2>8, <3>1 DEF CoupledAt, ChosenAt, At, Registering
  <2>9. CASE /\ g.at = "loading" /\ f.op = g.op
             /\ f.at = "readingState" /\ f.id = stateFile.active
    <3>1. r.stage \notin {"creating", "activating", "listing"}
      BY <1>1, <2>9, Frame DEF CoupledAt, Coherent, Reading, At
    <3> QED BY <1>1, <2>1, <2>9, <3>1 DEF CoupledAt, ChosenAt, At, Registering
  <2>10. CASE /\ g.at # "loading" /\ f.op = g.op
              /\ f.at \notin {"loading", "done", "failed", "idle"}
              /\ g.op # "create" => f.id = g.id
    <3>1. CoupledAt(p)'
      BY <1>1, <2>1, <2>4, <2>10 DEF CoupledAt, At
    <3>2. r.stage = "loading" => f.id = g.id
      BY <1>1, <2>4, <2>10 DEF CoupledAt, At
    <3>3. ChosenAt(p)'
      BY <1>1, <2>1, <2>4, <2>10, <3>2 DEF ChosenAt, At, Registering
    <3> QED BY <3>1, <3>3
  <2> QED BY <2>1, <2>5, <2>6, <2>7, <2>8, <2>9, <2>10, StoreStepKeeps
<1> QED
  <2>1. CASE CommandStep(p)
    BY <1>6, <1>8, <1>9, <1>10, <1>11, <1>12, <1>13, <1>14, <1>15, <2>1, Zenon
    DEF CommandStep, Chooses
  <2> QED BY <1>4, <2>1, OthersStand

LEMMA InitChoosing == Init => Choosing
<1>1. ASSUME Init, NEW p \in Proc PROVE CoupledAt(p) /\ ChosenAt(p)
  <2>1. program[p].stage = "off" /\ program[p].picked = None
    BY <1>1, OffIs DEF Init
  <2> QED BY <2>1 DEF CoupledAt, ChosenAt
<1> QED BY <1>1 DEF Choosing

LEMMA StepChoosing == Orderly /\ Choosing /\ [Next]_launchVars => Choosing'
BY ChoosingStep

\* Codex runs under the contract that was picked, through two reads of the state file
\* and two writes, unless another process made its own choice active in between.
THEOREM PickedIsEnforced == Spec => []ChoiceEnforced
<1>1. Choosing => ChoiceEnforced
  <2> SUFFICES ASSUME Choosing, NEW p \in Proc, program[p].stage = "agent",
                      program[p].picked # None, ~displaced[p]
               PROVE  program[p].contract = program[p].picked
    BY DEF ChoiceEnforced
  <2> QED BY DEF Choosing, ChosenAt
<1>2. Orderly /\ Choosing /\ [Next]_launchVars => (Orderly /\ Choosing)'
  BY StepOrderly, StepChoosing
<1> QED BY <1>1, <1>2, InitOrderly, InitChoosing, PTL DEF Spec

-----------------------------------------------------------------------------
(* What a call knows of the documents *)

\* The ids that were ever given away: their files are there, or were pruned.
MadeIds == {i \in Id : documents[i] # Unmade}

\* What a call has read was made before.
Knows(f, made) ==
  /\ f.id # None => f.id \in made
  /\ f.listed \subseteq made /\ DOMAIN f.seen \subseteq made
  /\ f.state.active # None => f.state.active \in made

Aimed(f) == f.op = "activate" /\ f.at # "loading" => f.id # None

Knowing ==
  /\ stateFile.active # None => stateFile.active \in MadeIds
  /\ \A p \in Proc : Knows(calls[p], MadeIds) /\ Aimed(calls[p])

\* What p's step of the store leaves behind, with f as its frame: no id is taken back, a
\* pruned document stays pruned unless p writes it once more, and p fails only on
\* one that was pruned.
Leaves(p, f) ==
  /\ Turns(p, f)
  /\ MadeIds \subseteq MadeIds'
  /\ stateFile'.active # None => stateFile'.active \in MadeIds'
  /\ Knows(f, MadeIds') /\ Aimed(f)
  /\ f.at = "failed" => \E i \in Id : documents[i] = Pruned
  /\ f.at = "writingChosen" => f.id \in Kept /\ UNCHANGED documents
  /\ \A i \in Id : documents[i] = Pruned =>
       documents'[i] = Pruned \/ (calls[p].at = "writingChosen" /\ calls[p].id = i)
  /\ UNCHANGED contended

LEMMA ReadLeaves ==
  ASSUME Orderly, Knowing, NEW p \in Proc, NEW f, Reads(p, f),
         Knows(f, MadeIds), Aimed(f),
         f.at = "failed" => \E i \in Id : documents[i] = Pruned,
         f.at = "writingChosen" => f.id \in Kept
  PROVE  Leaves(p, f)
<1>1. MadeIds' = MadeIds /\ UNCHANGED <<documents, stateFile, contended>> /\ Turns(p, f)
  BY DEF Reads, MadeIds
<1> QED BY <1>1 DEF Leaves, Knowing

\* A document that was made and is not there was pruned.
LEMMA MadeOrPruned ==
  ASSUME Typed, NEW i \in MadeIds, i \notin Kept
  PROVE  i \in Id /\ documents[i] = Pruned
BY DEF Typed, DocumentsTyped, MadeIds, Kept

LEMMA KeptIsMade == Typed => Kept \subseteq MadeIds
BY Constants DEF MadeIds, Kept

LEMMA EndingKnows ==
  ASSUME NEW made
  PROVE  /\ Knows(NoCall, made) /\ Aimed(NoCall) /\ Knows(Error, made) /\ Aimed(Error)
         /\ \A i \in Id \union {None} : (i # None => i \in made) => Knows(Answer(i), made) /\ Aimed(Answer(i))
<1>1. Knows(NoCall, made) /\ Aimed(NoCall)
  BY Idle, NothingSeen DEF Knows, Aimed
<1>2. Knows(Error, made) /\ Aimed(Error)
  BY Endings, NothingSeen DEF Knows, Aimed
<1>3. ASSUME NEW i \in Id \union {None}, i # None => i \in made
      PROVE  Knows(Answer(i), made) /\ Aimed(Answer(i))
  BY <1>3, Endings, NothingSeen DEF Knows, Aimed
<1> QED BY <1>1, <1>2, <1>3

LEMMA StoreStepLeaves ==
  ASSUME Orderly, Knowing, NEW p \in Proc, StoreStep(p)
  PROVE  \E f : Leaves(p, f)
<1> USE DEF Orderly
<1> DEFINE g == calls[p]
<1>1. /\ g \in Frames /\ g.seen \in Seens /\ g.state \in StoreState /\ g.id \in Id \union {None}
      /\ Coherent(g) /\ Knows(g, MadeIds) /\ Aimed(g) /\ None \notin Id
      /\ Kept \subseteq MadeIds /\ MadeIds \subseteq Id
  BY Frame, Constants, KeptIsMade DEF Knowing, Coherence, MadeIds
<1>2. ASSUME NEW f, Reads(p, f), Knows(f, MadeIds), Aimed(f),
             f.at = "failed" => \E i \in Id : documents[i] = Pruned,
             f.at = "writingChosen" => f.id \in Kept
      PROVE  \E e : Leaves(p, e)
  BY <1>2, ReadLeaves
\* p fails for want of a document that it knows of.
<1>3. ASSUME NEW i \in MadeIds, i \notin Kept, Reads(p, Error)
      PROVE  \E e : Leaves(p, e)
  BY <1>2, <1>3, MadeOrPruned, EndingKnows, Endings
<1>4. CASE ReadActiveId(p)
  <2>1. PICK f : /\ Reads(p, f) /\ g.at = "loading"
                 /\ \/ stateFile.active = None /\ f = Answer(None)
                    \/ /\ stateFile.active # None
                       /\ f = [g EXCEPT !.at = "readingState", !.id = stateFile.active]
    BY <1>4, ReadActiveIdIs
  <2>2. CASE f = Answer(None)
    BY <1>2, <2>1, <2>2, EndingKnows, Endings
  <2>3. CASE stateFile.active # None /\ f = [g EXCEPT !.at = "readingState", !.id = stateFile.active]
    <3>1. /\ f.op = g.op /\ f.at = "readingState" /\ f.id = stateFile.active
          /\ f.listed = g.listed /\ f.seen = g.seen /\ f.state = g.state
      BY <1>1, <2>3 DEF Frames
    <3>2. Knows(f, MadeIds) /\ Aimed(f)
      BY <1>1, <2>3, <3>1 DEF Knows, Aimed, Knowing
    <3> QED BY <1>2, <2>1, <3>1, <3>2
  <2> QED BY <2>1, <2>2, <2>3
<1>5. CASE ReadState(p)
  <2>1. PICK f : /\ Reads(p, f) /\ g.at = "readingState"
                 /\ f = [g EXCEPT !.at = "readingDirectory", !.state = StateToWrite(p)]
    BY <1>5, ReadStateIs
  <2>2. /\ f.op = g.op /\ f.at = "readingDirectory" /\ f.id = g.id
        /\ f.listed = g.listed /\ f.seen = g.seen /\ f.state.active = stateFile.active
    BY <1>1, <2>1, StateToWriteIs DEF Frames
  <2>3. Knows(f, MadeIds) /\ Aimed(f)
    BY <1>1, <2>1, <2>2 DEF Knows, Aimed, Knowing
  <2> QED BY <1>2, <2>1, <2>2, <2>3
<1>6. CASE ReadDirectory(p)
  <2>1. PICK f : /\ Reads(p, f) /\ g.at = "readingDirectory"
                 /\ f = [g EXCEPT !.at = "readingDocuments", !.listed = Kept]
    BY <1>6, ReadDirectoryIs
  <2>2. /\ f.op = g.op /\ f.at = "readingDocuments" /\ f.id = g.id
        /\ f.listed = Kept /\ f.seen = g.seen /\ f.state = g.state
    BY <1>1, <2>1 DEF Frames
  <2>3. Knows(f, MadeIds) /\ Aimed(f)
    BY <1>1, <2>1, <2>2 DEF Knows, Aimed
  <2> QED BY <1>2, <2>1, <2>2, <2>3
<1>7. CASE ReadDocument(p)
  <2>1. PICK i, f :
          /\ i \in g.listed /\ Reads(p, f) /\ g.at = "readingDocuments"
          /\ \/ i \notin Kept /\ f = Error
             \/ /\ i \in Kept
                /\ f = [g EXCEPT !.listed = g.listed \ {i},
                                 !.seen = SeenToo(g.seen, i, documents[i])]
    BY <1>7, ReadDocumentIs
  <2>2. i \in MadeIds
    BY <1>1, <2>1 DEF Knows
  <2>3. CASE i \notin Kept /\ f = Error
    BY <1>3, <2>1, <2>2, <2>3
  <2>4. CASE i \in Kept /\ f = [g EXCEPT !.listed = g.listed \ {i},
                                         !.seen = SeenToo(g.seen, i, documents[i])]
    <3>1. /\ f.op = g.op /\ f.at = g.at /\ f.id = g.id
          /\ f.listed = g.listed \ {i} /\ f.seen = SeenToo(g.seen, i, documents[i])
          /\ f.state = g.state
      BY <1>1, <2>4 DEF Frames
    <3>2. DOMAIN f.seen = DOMAIN g.seen \union {i}
      <4>1. documents[i] \in Document /\ i \in Id /\ g.seen \in Seens
        BY <1>1, <2>4 DEF Kept
      <4> HIDE DEF g
      <4>2. DOMAIN SeenToo(g.seen, i, documents[i]) = DOMAIN g.seen \union {i}
        BY <4>1, SeenTooIs
      <4> QED BY <3>1, <4>2
    <3>3. Knows(f, MadeIds) /\ Aimed(f)
      BY <1>1, <2>1, <2>2, <3>1, <3>2 DEF Knows, Aimed
    <3> QED BY <1>2, <2>1, <3>1, <3>3
  <2> QED BY <2>1, <2>3, <2>4
<1>8. CASE Listed(p)
  <2>1. PICK f : Reads(p, f) /\ g.op = "list" /\ f = [g EXCEPT !.at = "done"]
    BY <1>8, ListedIs
  <2>2. /\ f.op = "list" /\ f.at = "done" /\ f.id = g.id
        /\ f.listed = g.listed /\ f.seen = g.seen /\ f.state = g.state
    BY <1>1, <2>1 DEF Frames
  <2>3. Knows(f, MadeIds) /\ Aimed(f)
    BY <1>1, <2>2 DEF Knows, Aimed
  <2> QED BY <1>2, <2>1, <2>2, <2>3
<1>9. CASE WriteNew(p)
  <2>1. PICK i, d, f :
          /\ Turns(p, f) /\ g.at = "readingDocuments" /\ g.op = "create"
          /\ g.listed = {}
          /\ i \in NewIds /\ d \in Document
          /\ \A j \in DOMAIN g.seen : g.seen[j].used < d.used
          /\ documents' = [documents EXCEPT ![i] = d]
          /\ f.op = "create" /\ f.at = "pruning" /\ f.id = i /\ f.listed = {}
          /\ f.state = [g.state EXCEPT !.active = i]
          /\ f.seen = SeenToo(g.seen, i, d)
          /\ UNCHANGED <<stateFile, crashes, contended>>
    <3>1. Typed
      OBVIOUS
    <3> QED BY <1>9, <3>1, WriteNewIs, Zenon
  <2>2. i \in Id /\ documents[i] = Unmade /\ documents \in [Id -> Document \union {Unmade, Pruned}]
    BY <2>1 DEF NewIds, Typed, DocumentsTyped
  <2>3. d # Unmade /\ Pruned # Unmade
    BY <2>1, Constants
  <2>4. documents'[i] = d /\ \A j \in Id \ {i} : documents'[j] = documents[j]
    BY <2>1, <2>2
  <2>5. MadeIds' = MadeIds \union {i}
    BY <2>2, <2>3, <2>4 DEF MadeIds
  <2>6. DOMAIN f.seen = DOMAIN g.seen \union {i}
    <3>1. d \in Document /\ f.seen = SeenToo(g.seen, i, d) /\ g.seen \in Seens
      BY <1>1, <2>1
    <3> HIDE DEF g
    <3>2. DOMAIN SeenToo(g.seen, i, d) = DOMAIN g.seen \union {i}
      BY <2>2, <3>1, SeenTooIs
    <3> QED BY <3>1, <3>2
  <2>7. f.state.active = i
    BY <1>1, <2>1 DEF StoreState
  <2>8. Knows(f, MadeIds') /\ Aimed(f)
    BY <1>1, <2>1, <2>5, <2>6, <2>7 DEF Knows, Aimed
  <2>9. \A j \in Id : documents[j] = Pruned => documents'[j] = Pruned
    BY <2>2, <2>3, <2>4
  <2>10. Leaves(p, f)
    BY <2>1, <2>5, <2>8, <2>9 DEF Leaves, Knowing
  <2> QED BY <2>10
<1>10. CASE ReadChosen(p)
  <2>1. PICK f :
          /\ Reads(p, f) /\ g.at = "readingDocuments" /\ g.op = "activate"
          /\ \/ g.id \notin Kept /\ f = Error
             \/ /\ g.id \in Kept
                /\ f.op = "activate" /\ f.at = "writingChosen" /\ f.id = g.id
                /\ f.state = [g.state EXCEPT !.active = g.id]
                /\ f.listed = {} /\ DOMAIN f.seen = {g.id}
    BY <1>10, ReadChosenIs
  <2>2. g.id # None /\ g.id \in MadeIds
    BY <1>1, <2>1 DEF Aimed, Knows
  <2>3. CASE g.id \notin Kept /\ f = Error
    BY <1>3, <2>1, <2>2, <2>3
  <2>4. CASE ~(g.id \notin Kept /\ f = Error)
    <3>1. f.state.active = g.id
      BY <1>1, <2>1, <2>4 DEF StoreState
    <3>2. Knows(f, MadeIds) /\ Aimed(f)
      BY <2>1, <2>2, <2>4, <3>1 DEF Knows, Aimed
    <3> QED BY <1>2, <2>1, <2>4, <3>2
  <2> QED BY <2>3, <2>4
<1>11. CASE WriteChosen(p)
  <2>1. PICK f :
          /\ Turns(p, f) /\ g.at = "writingChosen"
          /\ documents' = [documents EXCEPT ![g.id] = g.seen[g.id]]
          /\ f.op = g.op /\ f.at = "writingState" /\ f.id = g.id
          /\ f.state = g.state /\ f.listed = g.listed /\ f.seen = <<>>
          /\ UNCHANGED <<stateFile, crashes, contended>>
    BY <1>11, WriteChosenIs
  <2>2. g.id \in MadeIds /\ g.seen[g.id] \in Document /\ g.op = "activate" /\ g.id # None
    BY <1>1, <2>1, SeenIs DEF Coherent, Knows, Reading, Frames
  <2>3. /\ documents \in [Id -> Document \union {Unmade, Pruned}]
        /\ g.seen[g.id] # Unmade /\ g.seen[g.id] # Pruned
    BY <2>2, Constants DEF Typed, DocumentsTyped
  <2>4. \A j \in Id : documents'[j] = IF j = g.id THEN g.seen[g.id] ELSE documents[j]
    BY <1>1, <2>1, <2>2, <2>3
  <2>5. MadeIds' = MadeIds
    BY <2>2, <2>3, <2>4 DEF MadeIds
  <2>6. Knows(f, MadeIds') /\ Aimed(f)
    BY <1>1, <2>1, <2>2, <2>5, NothingSeen DEF Knows, Aimed
  <2>7. \A j \in Id : documents[j] = Pruned => documents'[j] = Pruned \/ g.id = j
    BY <2>4
  <2>8. Leaves(p, f)
    BY <2>1, <2>5, <2>6, <2>7 DEF Leaves, Knowing
  <2> QED BY <2>8
<1>12. CASE PruneLru(p)
  <2>1. PICK v, f :
          /\ Turns(p, f) /\ Pruning(p) /\ v \in DOMAIN g.seen
          /\ UNCHANGED <<stateFile, crashes, contended>>
          /\ \/ v \notin Kept /\ f = Error /\ UNCHANGED documents
             \/ /\ v \in Kept
                /\ documents' = [documents EXCEPT ![v] = Pruned]
                /\ f.op = g.op /\ f.at = "pruning" /\ f.id = g.id
                /\ f.state = g.state /\ f.listed = g.listed
                /\ f.seen = SeenLess(g.seen, v)
    BY <1>12, PruneLruIs
  <2>2. v \in MadeIds
    BY <1>1, <2>1 DEF Knows
  <2>3. CASE v \notin Kept /\ f = Error /\ UNCHANGED documents
    BY <1>3, <2>1, <2>2, <2>3 DEF Reads
  <2>4. CASE /\ v \in Kept /\ documents' = [documents EXCEPT ![v] = Pruned]
             /\ f.op = g.op /\ f.at = "pruning" /\ f.id = g.id
             /\ f.state = g.state /\ f.listed = g.listed
             /\ f.seen = SeenLess(g.seen, v)
    <3>1. /\ documents \in [Id -> Document \union {Unmade, Pruned}] /\ Unmade # Pruned
      BY Constants DEF Typed, DocumentsTyped
    <3>2. \A j \in Id : documents'[j] = IF j = v THEN Pruned ELSE documents[j]
      BY <1>1, <2>2, <2>4, <3>1
    <3>3. MadeIds' = MadeIds
      BY <2>2, <3>1, <3>2 DEF MadeIds
    <3>4. DOMAIN f.seen = DOMAIN g.seen \ {v}
      <4>1. g.seen \in Seens
        BY <1>1
      <4>2. DOMAIN SeenLess(g.seen, v) = DOMAIN g.seen \ {v}
        BY <4>1, SeenLessIs
      <4> QED BY <2>4, <4>2
    <3>5. Knows(f, MadeIds') /\ Aimed(f)
      BY <1>1, <2>4, <3>3, <3>4, <2>1 DEF Knows, Aimed, Pruning, AllRead, At, Coherent, Reading
    <3>6. Leaves(p, f)
      BY <2>1, <2>4, <3>2, <3>3, <3>5 DEF Leaves, Knowing
    <3> QED BY <3>6
  <2> QED BY <2>1, <2>3, <2>4
<1>13. CASE WriteState(p)
  <2>1. PICK f : /\ Turns(p, f) /\ f = Answer(g.id) /\ SavingState(p)
                 /\ stateFile' = g.state
                 /\ UNCHANGED <<documents, crashes, contended>>
    BY <1>13, WriteStateIs
  <2>2. MadeIds' = MadeIds
    BY <2>1 DEF MadeIds
  <2>3. Knows(f, MadeIds') /\ Aimed(f)
    BY <1>1, <2>1, <2>2, EndingKnows DEF Knows
  <2>4. f.at = "done"
    BY <1>1, <2>1, Endings
  <2>5. Leaves(p, f)
    BY <1>1, <2>1, <2>2, <2>3, <2>4 DEF Leaves, Knows
  <2> QED BY <2>5
<1> QED BY <1>4, <1>5, <1>6, <1>7, <1>8, <1>9, <1>10, <1>11, <1>12, <1>13 DEF StoreStep

\* What a step does to the store when it is none of the store's own: nothing; or a call
\* is over, or was cut off; or one begins, about a document that p knows of.
Rests == UNCHANGED <<documents, stateFile, calls, contended>> /\ crashes <= crashes'
Forgets(p) ==
  /\ Turns(p, NoCall) /\ UNCHANGED <<documents, stateFile, contended>>
  /\ crashes <= crashes' /\ (Busy(p) => crashes' = crashes + 1)
Calls(p, f) ==
  /\ Enter(p, f) /\ Turns(p, f) /\ Entry(f) /\ Aimed(f)
  /\ f.id # None => f.id \in DOMAIN calls[p].seen \/ f.id = calls[p].id

LEMMA CommandCalls ==
  ASSUME Orderly, Choosing, NEW p \in Proc, CommandStep(p)
  PROVE  StoreStep(p) \/ Rests \/ Forgets(p) \/ \E f : Calls(p, f)
<1> USE DEF Orderly
<1>1. crashes \in Nat /\ None \notin Id
  BY Constants DEF Typed
<1>2. ASSUME Create(p) \/ LoadActive(p) \/ List(p) \/ \E n \in Limits : SetRetentionLimit(p, n)
      PROVE  \E f : Calls(p, f)
  <2>1. PICK f : Enter(p, f) /\ Turns(p, f) /\ Entry(f)
                 /\ (f.op # "activate" \/ f.at = "loading")
    BY <1>2, EntryIs
  <2>2. f.id = None /\ Aimed(f)
    BY <2>1 DEF Entry, Aimed
  <2> QED BY <2>1, <2>2 DEF Calls
<1>3. ASSUME NEW i \in Id, Activate(p, i), i \in DOMAIN calls[p].seen \/ i = calls[p].id
      PROVE  \E f : Calls(p, f)
  <2>1. PICK f : Enter(p, f) /\ Turns(p, f) /\ Entry(f) /\ f.id = i
    BY <1>3, EntryIs
  <2>2. Aimed(f)
    BY <1>1, <2>1 DEF Aimed
  <2> QED BY <1>3, <2>1, <2>2 DEF Calls
<1>4. ASSUME Clears(p), ~Busy(p)
      PROVE  Forgets(p)
  BY <1>1, <1>4, ClearsIs DEF Forgets, Reads
<1>5. ASSUME UNCHANGED storeVars
      PROVE  Rests
  BY <1>1, <1>5 DEF Rests, storeVars
<1>6. CASE Begins(p)
  <2>1. Create(p) \/ LoadActive(p) \/ List(p) \/ \E n \in Limits : SetRetentionLimit(p, n)
    BY <1>6 DEF Begins, RunNew, RunCodex, RunLaunch, RunRetain
  <2> QED BY <1>2, <2>1
<1>7. CASE SelectContract(p)
  <2>1. /\ ~Busy(p)
        /\ Create(p) \/ Clears(p) \/ \E i \in DOMAIN calls[p].seen : i \in Id /\ Activate(p, i)
    BY <1>7, SelectContractIs DEF Returned, At, Busy
  <2> QED BY <1>2, <1>3, <1>4, <2>1
<1>8. CASE Created(p)
  <2>1. /\ Returned(p, "creating")
        /\ Clears(p) \/ Activate(p, calls[p].id)
    BY <1>8, CreatedIs
  <2>2. ~Busy(p) /\ calls[p].id \in Id
    <3>1. /\ CoupledAt(p) /\ Coherent(calls[p]) /\ calls[p].id \in Id \union {None}
          /\ program[p].stage = "creating" /\ calls[p].at = "done"
      BY <2>1, Frame DEF Choosing, Coherence, Returned, At
    <3> QED BY <3>1 DEF CoupledAt, Coherent, Reading, At, Busy
  <2> QED BY <1>3, <1>4, <2>1, <2>2
<1>9. CASE Retained(p) \/ Loaded(p) \/ StoreFailed(p)
  <2>1. Clears(p) /\ ~Busy(p)
    BY <1>9, RetainedIs, LoadedIs, StoreFailedIs DEF Returned, At, Busy
  <2> QED BY <1>4, <2>1
<1>10. CASE Activated(p)
  BY <1>2, <1>10, ActivatedIs
<1>11. CASE UseStore(p)
  BY <1>11 DEF UseStore
<1>12. CASE LauncherStep(p) \/ CodexEnds(p)
  BY <1>5, <1>12, LauncherSets, CodexEndsIs
<1>13. CASE Interrupt(p)
  <2>1. CASE Crash(p)
    <3>1. Forgets(p)
      BY <1>1, <2>1, CrashIs DEF Forgets
    <3> QED BY <3>1
  <2>2. CASE crashes' = crashes + 1 /\ UNCHANGED <<documents, stateFile, calls, contended>>
    <3>1. Rests
      BY <1>1, <2>2 DEF Rests
    <3> QED BY <3>1
  <2> QED BY <1>13, <2>1, <2>2, InterruptIs
<1> QED
  BY <1>6, <1>7, <1>8, <1>9, <1>10, <1>11, <1>12, <1>13, Zenon DEF CommandStep, Chooses

\* A command says that the store failed only when its call had.
LEMMA CommandBlames ==
  ASSUME Orderly, NEW p \in Proc, CommandStep(p), program'[p].why = "store"
  PROVE  program[p].why = "store" \/ At(p, "failed")
<1> USE DEF Orderly
<1>1. ASSUME \E s : Sets(p, s) /\ s.why # "store" PROVE FALSE
  BY <1>1, OneProgram
<1>2. ~Begins(p)
  <2> SUFFICES ASSUME Begins(p) PROVE FALSE
    OBVIOUS
  <2>1. PICK command \in {"new", "codex", "launch", "retain"}, stage \in InStore :
          Begin(p, command, stage)
    BY DEF Begins, RunNew, RunCodex, RunLaunch, RunRetain, InStore
  <2> QED BY <1>1, <2>1, BeginIs
<1>3. ~SelectContract(p) /\ ~Created(p) /\ ~Activated(p) /\ ~Loaded(p)
  BY <1>1, SelectContractIs, CreatedIs, ActivatedIs, LoadedIs
<1>4. ~Retained(p) /\ ~CodexEnds(p) /\ ~Interrupt(p)
  BY <1>1, OffIs, RetainedIs, CodexEndsIs, InterruptIs
<1>5. ~CheckSocket(p) /\ ~TryWait(p) /\ ~KillChild(p) /\ ~CodexFails(p)
  BY <1>1, CheckSocketIs, TryWaitIs, KillChildIs, CodexFailsIs
<1>6. ~Register(p) /\ ~Attempt(p)
  BY <1>1, RegisterIs, AttemptIs, RegistersIs
<1>7. CASE StoreFailed(p)
  BY <1>7, StoreFailedIs
<1>8. CASE UseStore(p)
  BY <1>8 DEF UseStore
<1> QED BY <1>2, <1>3, <1>4, <1>5, <1>6, <1>7, <1>8, Zenon DEF CommandStep, Chooses, LauncherStep

LEMMA WhoMoves ==
  ASSUME [Next]_launchVars
  PROVE  \/ \E p \in Proc : CommandStep(p)
         \/ UNCHANGED <<storeVars, program>>
<1>1. ASSUME NEW q \in Proc, Proceed(q) PROVE CommandStep(q)
  BY <1>1, Zenon DEF Proceed, CommandStep, Chooses, LauncherStep
<1>2. ASSUME NEW d \in Daemon, RunDaemon(d) PROVE UNCHANGED <<storeVars, program>>
  BY <1>2 DEF RunDaemon
<1>3. CASE Next
  BY <1>1, <1>2, <1>3, Zenon DEF Next, CommandStep, Begins, Chooses, LauncherStep
<1>4. CASE UNCHANGED launchVars
  BY <1>4 DEF launchVars
<1> QED BY <1>3, <1>4

\* Two calls have overlapped, or a document was pruned.
Blamed == contended \/ \E i \in Id : documents[i] = Pruned
Unrivalled ==
  ~contended =>
    /\ \A p, q \in Proc : Busy(p) /\ Busy(q) => p = q
    /\ \A p \in Proc : At(p, "writingChosen") => calls[p].id \in Kept
Failing == \A p \in Proc : At(p, "failed") \/ program[p].why = "store" => Blamed

Surviving == Knowing /\ Unrivalled /\ Failing

\* The moving call, and no other, is another one afterwards.
LEMMA SurvivingStep ==
  ASSUME Orderly, Choosing, Surviving, [Next]_launchVars
  PROVE  Surviving'
<1> USE DEF Orderly
<1> DEFINE Kind(p, f) ==
             \/ Leaves(p, f) /\ Busy(p)
             \/ Forgets(p) /\ f = NoCall
             \/ Calls(p, f)
<1>1. Rests \/ \E p \in Proc : \E f : Kind(p, f)
  <2>1. ASSUME NEW p \in Proc, CommandStep(p)
        PROVE  Rests \/ \E f : Kind(p, f)
    BY <2>1, CommandCalls, StoreStepLeaves, StoreStepIsBusy DEF Surviving
  <2>2. ASSUME UNCHANGED <<storeVars, program>> PROVE Rests
    BY <2>2, Constants DEF Rests, storeVars, Typed
  <2> QED BY <2>1, <2>2, WhoMoves
<1>2. /\ Knowing /\ Unrivalled /\ Failing /\ Pruned \notin Document /\ contended \in BOOLEAN
  BY Constants DEF Surviving, Typed
<1>3. ASSUME NEW p \in Proc, NEW f, Kind(p, f)
      PROVE  /\ calls'[p] = f /\ \A q \in Proc \ {p} : calls'[q] = calls[q]
             /\ Turns(p, f)
  <2>1. Turns(p, f)
    BY <1>3 DEF Leaves, Forgets, Calls
  <2> QED BY <2>1, OneCall
<1>4. Blamed => Blamed'
  <2>1. CASE Rests
    BY <2>1 DEF Rests, Blamed
  <2>2. ASSUME NEW p \in Proc, NEW f, Leaves(p, f), Blamed PROVE Blamed'
    <3>1. CASE contended
      BY <2>2, <3>1 DEF Leaves, Blamed
    <3>2. CASE ~contended
      <4>1. PICK i \in Id : documents[i] = Pruned
        BY <2>2, <3>2 DEF Blamed
      <4>2. calls[p].at = "writingChosen" => calls[p].id # i
        BY <1>2, <3>2, <4>1 DEF Unrivalled, At, Kept
      <4>3. documents'[i] = Pruned
        BY <2>2, <4>1, <4>2 DEF Leaves
      <4> QED BY <4>3 DEF Blamed
    <3> QED BY <3>1, <3>2
  <2>3. ASSUME NEW p \in Proc, NEW f, Forgets(p) \/ Calls(p, f), Blamed PROVE Blamed'
    <3>1. /\ documents' = documents
          /\ \/ contended' = contended
             \/ contended' = (contended \/ \E q \in Proc \ {p} : Busy(q))
      BY <2>3 DEF Forgets, Calls, Enter
    <3>2. contended => contended'
      BY <3>1, Zenon
    <3> QED BY <2>3, <3>1, <3>2 DEF Blamed
  <2> QED BY <1>1, <2>1, <2>2, <2>3
<1>5. Knowing'
  <2>1. CASE Rests
    BY <1>2, <2>1 DEF Rests, Knowing, MadeIds
  <2>2. ASSUME NEW p \in Proc, NEW f, Kind(p, f)
        PROVE  Knowing'
    <3>1. MadeIds \subseteq MadeIds' /\ (stateFile'.active # None => stateFile'.active \in MadeIds')
      BY <1>2, <2>2 DEF Leaves, Forgets, Calls, Enter, MadeIds, Knowing
    <3>2. Knows(f, MadeIds') /\ Aimed(f)
      <4>1. CASE Leaves(p, f)
        BY <4>1 DEF Leaves
      <4>2. CASE f = NoCall
        BY <4>2, EndingKnows
      <4>3. CASE Calls(p, f)
        <5>1. Knows(calls[p], MadeIds) /\ f.listed = {} /\ f.seen = <<>> /\ f.state.active = None
          BY <1>2, <4>3 DEF Knowing, Calls, Entry
        <5>2. f.id # None => f.id \in MadeIds
          BY <4>3, <5>1 DEF Calls, Knows
        <5> QED BY <3>1, <4>3, <5>1, <5>2, NothingSeen DEF Knows, Calls
      <4> QED BY <2>2, <4>1, <4>2, <4>3
    <3>3. \A q \in Proc \ {p} : Knows(calls'[q], MadeIds') /\ Aimed(calls'[q])
      <4>1. \A q \in Proc \ {p} : calls'[q] = calls[q]
        BY <1>3, <2>2
      <4> QED BY <1>2, <3>1, <4>1 DEF Knowing, Knows
    <3>4. Knows(calls'[p], MadeIds') /\ Aimed(calls'[p])
      BY <1>3, <2>2, <3>2
    <3> QED BY <3>1, <3>3, <3>4 DEF Knowing
  <2> QED BY <1>1, <2>1, <2>2
<1>6. Unrivalled'
  <2>1. CASE Rests
    BY <1>2, <2>1 DEF Rests, Unrivalled, Busy, At, Kept
  <2>2. ASSUME NEW p \in Proc, NEW f, Kind(p, f), ~contended'
        PROVE  /\ \A q, r \in Proc : Busy(q)' /\ Busy(r)' => q = r
               /\ \A q \in Proc : At(q, "writingChosen")' => calls'[q].id \in Kept'
    <3>1. calls'[p] = f /\ \A q \in Proc \ {p} : calls'[q] = calls[q]
      BY <1>3, <2>2
    <3>2. CASE f = NoCall /\ Forgets(p)
      BY <1>2, <2>2, <3>1, <3>2, Idle DEF Forgets, Unrivalled, Busy, At, Kept
    <3>3. CASE ~(f = NoCall /\ Forgets(p))
      <4>1. ~contended /\ \A q \in Proc \ {p} : ~Busy(q)
        <5>1. CASE Leaves(p, f) /\ Busy(p)
          <6>1. ~contended
            BY <2>2, <5>1 DEF Leaves
          <6> QED BY <1>2, <5>1, <6>1 DEF Unrivalled
        <5>2. CASE Calls(p, f)
          BY <2>2, <5>2 DEF Calls, Enter
        <5> QED BY <2>2, <3>3, <5>1, <5>2
      <4>2. \A q \in Proc \ {p} : ~Busy(q)'
        BY <3>1, <4>1 DEF Busy
      <4>3. At(p, "writingChosen")' => calls'[p].id \in Kept'
        BY <2>2, <3>1, <3>3 DEF Leaves, Calls, Entry, At, Kept
      <4> QED BY <4>2, <4>3 DEF Busy, At
    <3> QED BY <3>2, <3>3
  <2> QED BY <1>1, <2>1, <2>2 DEF Unrivalled
<1>7. Failing'
  <2> SUFFICES ASSUME NEW q \in Proc, At(q, "failed")' \/ program'[q].why = "store"
               PROVE  Blamed
    BY <1>4 DEF Failing
  <2>1. CASE program'[q].why = "store"
    <3>1. CASE CommandStep(q)
      BY <1>2, <2>1, <3>1, CommandBlames DEF Failing
    <3>2. CASE ~CommandStep(q)
      BY <1>2, <2>1, <3>2, OthersStand DEF Failing
    <3> QED BY <3>1, <3>2
  <2>2. CASE calls'[q] = calls[q] /\ At(q, "failed")'
    BY <1>2, <2>2 DEF Failing, At
  <2>3. CASE Rests /\ At(q, "failed")'
    BY <2>2, <2>3 DEF Rests
  <2>4. ASSUME NEW p \in Proc, NEW f, Kind(p, f), At(q, "failed")'
        PROVE  Blamed
    <3>1. CASE q # p
      BY <1>3, <2>2, <2>4, <3>1
    <3>2. CASE q = p
      <4>1. f.at = "failed"
        BY <1>3, <2>4, <3>2 DEF At
      <4> QED BY <2>4, <4>1, Idle DEF Leaves, Calls, Entry, Blamed
    <3> QED BY <3>1, <3>2
  <2> QED BY <1>1, <2>1, <2>3, <2>4
<1> QED BY <1>5, <1>6, <1>7 DEF Surviving

LEMMA InitSurviving == Init => Surviving
<1> SUFFICES ASSUME Init PROVE Surviving
  OBVIOUS
<1>1. PICK n \in Initial :
        /\ documents = [i \in Id |-> IF i <= n THEN [created |-> i, used |-> i] ELSE Unmade]
        /\ stateFile = [active |-> IF n = 0 THEN None ELSE n, limit |-> DefaultLimit]
        /\ calls = [p \in Proc |-> NoCall]
  BY DEF Init, StoreInit
<1>2. n \in {0} \union Id /\ n \in Nat /\ Id \subseteq Nat /\ Unmade \notin Document
  BY Constants
<1>3. stateFile.active # None => stateFile.active \in MadeIds
  <2> SUFFICES ASSUME n \in Id PROVE n \in MadeIds
    BY <1>1, <1>2
  <2>1. documents[n] = [created |-> n, used |-> n]
    BY <1>1, <1>2
  <2>2. documents[n] \in Document
    BY <1>2, <2>1 DEF Document
  <2> QED BY <1>2, <2>2 DEF MadeIds
<1>4. \A p \in Proc : calls[p] = NoCall /\ calls[p].at = "idle" /\ program[p].why = "none"
  BY <1>1, Idle, OffIs DEF Init
<1>5. Knowing
  BY <1>3, <1>4, EndingKnows DEF Knowing
<1> QED BY <1>4, <1>5 DEF Surviving, Unrivalled, Failing, Busy, At

LEMMA StepSurviving == Orderly /\ Choosing /\ Surviving /\ [Next]_launchVars => Surviving'
BY SurvivingStep

\* A launch gives up on a document only when another process has pruned it or works
\* on the store at the same time, and on its own daemon's early end only when another
\* one was starting or was killed: never on its own.
THEOREM OnlyRivalsMakeItFail == Spec => []FailsOnlyByRivals
<1>1. Exits /\ Failing => FailsOnlyByRivals
  BY DEF Exits, Failing, Blamed, FailsOnlyByRivals
<1>2. Init => Launching /\ Choosing /\ Surviving
  BY InitLaunching, InitChoosing, InitSurviving
<1>3. Launching /\ Choosing /\ Surviving /\ [Next]_launchVars => (Launching /\ Choosing /\ Surviving)'
  BY StepLaunching, StepChoosing, StepSurviving DEF Launching
<1>4. Launching /\ Choosing /\ Surviving => FailsOnlyByRivals
  BY <1>1 DEF Launching, Surviving
<1> QED BY <1>2, <1>3, <1>4, PTL DEF Spec

-----------------------------------------------------------------------------
(* The store as a shelf *)

\* No two calls overlap: what a call has read is what is there, and what it is
\* about to make active is more recent than all the rest.
KeptIn(docs) == {i \in Id : docs[i] \in Document}
AsRead(f, docs) == \A i \in DOMAIN f.seen : f.seen[i] = docs[i]
Newest(i, docs) ==
  i \in KeptIn(docs) /\ \A j \in KeptIn(docs) \ {i} : docs[j].used < docs[i].used
Synced(f, docs, active) ==
  /\ f.at \in {"loading", "readingState", "readingDirectory"} => DOMAIN f.seen = {}
  /\ f.at \in {"readingDirectory", "readingDocuments"} /\ f.op # "list" => f.state.active = active
  /\ f.at = "readingDocuments" =>
       f.listed \union DOMAIN f.seen = KeptIn(docs) /\ AsRead(f, docs)
  /\ f.at = "writingChosen" =>
       /\ f.id \in KeptIn(docs)
       /\ \A j \in KeptIn(docs) : docs[j].used < f.seen[f.id].used
  /\ f.at = "writingState" => Newest(f.id, docs)
  /\ f.at = "pruning" =>
       /\ DOMAIN f.seen = KeptIn(docs) /\ AsRead(f, docs)
       /\ IF f.op = "create" THEN Newest(f.id, docs) ELSE f.state.active = active

\* The documents that have overtaken the active one: none, but for the one that a call
\* has written and is about to make active, and one for each call that died in between.
Late(docs, active) ==
  {i \in KeptIn(docs) \ {active} :
     active \in KeptIn(docs) /\ docs[active].used <= docs[i].used}
Excused(f) ==
  {i \in {f.id} : f.at = "writingState" \/ (f.at = "pruning" /\ f.op = "create")}
Tally(f) == Cardinality(Late(documents, stateFile.active) \ Excused(f))

Shelved ==
  ~contended =>
    /\ \A p \in Proc : Synced(calls[p], documents, stateFile.active)
    /\ \A p \in Proc : Busy(p) => Tally(calls[p]) <= crashes
    /\ (\A p \in Proc : ~Busy(p)) => Tally(NoCall) <= crashes

\* What p's step of the store does to the shelf, with f as its frame.
Shelves(p, f) ==
  /\ Turns(p, f) /\ UNCHANGED <<crashes, contended>>
  /\ Synced(f, documents', stateFile'.active)
  /\ Late(documents', stateFile'.active) \ Excused(f)
       \subseteq Late(documents, stateFile.active) \ Excused(calls[p])
  /\ OnShelf!Next \/ UNCHANGED <<Kept, stateFile.active>> \/ PruneLru(p)

LEMMA ShelfIs ==
  ASSUME Typed
  PROVE  /\ Kept = KeptIn(documents) /\ Kept' = KeptIn(documents')
         /\ documents \in [Id -> Document \union {Unmade, Pruned}]
         /\ stateFile.active \in Id \union {None}
         /\ \A i \in Kept : i \in Id /\ documents[i] \in Document /\ documents[i].used \in Nat
<1>1. \A i \in Kept : i \in Id /\ documents[i] \in Document
  BY DEF Kept
<1>2. \A i \in Kept : documents[i].used \in Nat
  BY <1>1 DEF Document
<1> QED BY <1>1, <1>2 DEF Kept, KeptIn, Typed, DocumentsTyped, StoreState

\* Reading takes nothing off the shelf.
LEMMA ReadShelves ==
  ASSUME NEW p \in Proc, NEW f, Reads(p, f), Excused(calls[p]) = {},
         Synced(f, documents, stateFile.active)
  PROVE  Shelves(p, f)
<1>1. UNCHANGED <<documents, stateFile, crashes, contended>> /\ Turns(p, f)
  BY DEF Reads
<1>2. UNCHANGED <<Kept, stateFile.active>>
  BY <1>1 DEF Kept
<1>3. Synced(f, documents', stateFile'.active)
  BY <1>1
<1>4. Late(documents', stateFile'.active) = Late(documents, stateFile.active)
  BY <1>1
<1> QED BY <1>1, <1>2, <1>3, <1>4 DEF Shelves

LEMMA ReadingExcuses ==
  ASSUME NEW f, f.at \in {"loading", "idle", "done", "failed", "writingChosen"} \union Reading
  PROVE  Excused(f) = {}
BY DEF Excused, Reading

LEMMA EndingSynced ==
  ASSUME NEW f, f.at \in {"idle", "done", "failed"}, NEW docs, NEW active
  PROVE  Synced(f, docs, active)
BY DEF Synced

LEMMA StoreStepShelves ==
  ASSUME Orderly, Knowing, NEW p \in Proc, StoreStep(p),
         Synced(calls[p], documents, stateFile.active)
  PROVE  \E f : Shelves(p, f)
<1> USE DEF Orderly
<1> DEFINE g == calls[p]
           a == stateFile.active
<1>1. /\ g \in Frames /\ g.seen \in Seens /\ g.state \in StoreState /\ g.id \in Id \union {None}
      /\ Coherent(g) /\ Aimed(g) /\ None \notin Id /\ Synced(g, documents, a)
  BY Frame, Constants DEF Knowing, Coherence
<1>2. /\ Kept = KeptIn(documents) /\ Kept' = KeptIn(documents')
      /\ documents \in [Id -> Document \union {Unmade, Pruned}] /\ a \in Id \union {None}
      /\ Unmade \notin Document /\ Pruned \notin Document
      /\ \A i \in Kept : i \in Id /\ documents[i] \in Document /\ documents[i].used \in Nat
  BY ShelfIs, Constants
<1>3. ASSUME NEW f, Reads(p, f), g.at \in {"loading"} \union Reading, Synced(f, documents, a)
      PROVE  \E e : Shelves(p, e)
  BY <1>3, ReadShelves, ReadingExcuses
<1>4. CASE ReadActiveId(p)
  <2>1. PICK f : /\ Reads(p, f) /\ g.at = "loading"
                 /\ \/ a = None /\ f = Answer(None)
                    \/ a # None /\ f = [g EXCEPT !.at = "readingState", !.id = a]
    BY <1>4, ReadActiveIdIs
  <2>2. CASE f = Answer(None)
    BY <1>3, <2>1, <2>2, EndingSynced, Endings
  <2>3. CASE f = [g EXCEPT !.at = "readingState", !.id = a]
    <3>1. f.at = "readingState" /\ f.seen = g.seen
      BY <1>1, <2>3 DEF Frames
    <3>2. Synced(f, documents, a)
      BY <1>1, <2>1, <3>1 DEF Synced
    <3> QED BY <1>3, <2>1, <3>2
  <2> QED BY <2>1, <2>2, <2>3
<1>5. CASE ReadState(p)
  <2>1. PICK f : /\ Reads(p, f) /\ g.at = "readingState"
                 /\ f = [g EXCEPT !.at = "readingDirectory", !.state = StateToWrite(p)]
    BY <1>5, ReadStateIs
  <2>2. f.at = "readingDirectory" /\ f.seen = g.seen /\ f.state.active = a
    BY <1>1, <2>1, StateToWriteIs DEF Frames
  <2>3. Synced(f, documents, a)
    BY <1>1, <2>1, <2>2 DEF Synced
  <2> QED BY <1>3, <2>1, <2>3 DEF Reading
<1>6. CASE ReadDirectory(p)
  <2>1. PICK f : /\ Reads(p, f) /\ g.at = "readingDirectory"
                 /\ f = [g EXCEPT !.at = "readingDocuments", !.listed = Kept]
    BY <1>6, ReadDirectoryIs
  <2>2. /\ f.op = g.op /\ f.at = "readingDocuments" /\ f.listed = Kept
        /\ f.seen = g.seen /\ f.state = g.state
    BY <1>1, <2>1 DEF Frames
  <2>3. Synced(f, documents, a)
    BY <1>1, <1>2, <2>1, <2>2 DEF Synced, AsRead
  <2> QED BY <1>3, <2>1, <2>3 DEF Reading
<1>7. CASE ReadDocument(p)
  <2>1. PICK i, f :
          /\ i \in g.listed /\ Reads(p, f) /\ g.at = "readingDocuments"
          /\ \/ i \notin Kept /\ f = Error
             \/ /\ i \in Kept
                /\ f = [g EXCEPT !.listed = g.listed \ {i},
                                 !.seen = SeenToo(g.seen, i, documents[i])]
    BY <1>7, ReadDocumentIs
  <2>2. CASE i \notin Kept /\ f = Error
    BY <1>3, <2>1, <2>2, EndingSynced, Endings DEF Reading
  <2>3. CASE i \in Kept /\ f = [g EXCEPT !.listed = g.listed \ {i},
                                         !.seen = SeenToo(g.seen, i, documents[i])]
    <3>1. /\ f.op = g.op /\ f.at = "readingDocuments" /\ f.listed = g.listed \ {i}
          /\ f.seen = SeenToo(g.seen, i, documents[i]) /\ f.state = g.state
      BY <1>1, <2>1, <2>3 DEF Frames
    <3>2. /\ DOMAIN f.seen = DOMAIN g.seen \union {i} /\ f.seen[i] = documents[i]
          /\ \A j \in DOMAIN g.seen \ {i} : f.seen[j] = g.seen[j]
      <4>1. f.seen = [j \in DOMAIN g.seen \union {i} |-> IF j = i THEN documents[i] ELSE g.seen[j]]
        BY <3>1 DEF SeenToo
      <4> DEFINE was == g.seen
                 more == f.seen
      <4>2. more = [j \in DOMAIN was \union {i} |-> IF j = i THEN documents[i] ELSE was[j]]
        BY <4>1
      <4> HIDE DEF was, more
      <4>3. DOMAIN more = DOMAIN was \union {i} /\ more[i] = documents[i]
        BY <4>2
      <4>4. \A j \in DOMAIN was \ {i} : more[j] = was[j]
        BY <4>2
      <4> QED BY <4>3, <4>4 DEF was, more
    <3>3. /\ g.listed \union DOMAIN g.seen = Kept /\ AsRead(g, documents)
          /\ g.op # "list" => g.state.active = a
      BY <1>1, <1>2, <2>1 DEF Synced
    <3>4. AsRead(f, documents)
      BY <3>2, <3>3 DEF AsRead
    <3>5. f.listed \union DOMAIN f.seen = Kept
      BY <2>1, <3>1, <3>2, <3>3
    <3>6. Synced(f, documents, a)
      BY <1>2, <3>1, <3>3, <3>4, <3>5 DEF Synced
    <3> QED BY <1>3, <2>1, <3>6 DEF Reading
  <2> QED BY <2>1, <2>2, <2>3
<1>8. CASE Listed(p)
  <2>1. PICK f : Reads(p, f) /\ g.at = "readingDocuments" /\ f = [g EXCEPT !.at = "done"]
    BY <1>8, ListedIs
  <2>2. f.at = "done"
    BY <1>1, <2>1 DEF Frames
  <2>3. Synced(f, documents, a)
    BY <2>2, EndingSynced
  <2> QED BY <1>3, <2>1, <2>3 DEF Reading
<1>9. CASE WriteNew(p)
  <2>1. PICK i, d, f :
          /\ Turns(p, f) /\ g.at = "readingDocuments" /\ g.op = "create"
          /\ g.listed = {}
          /\ i \in NewIds /\ d \in Document
          /\ \A j \in DOMAIN g.seen : g.seen[j].used < d.used
          /\ documents' = [documents EXCEPT ![i] = d]
          /\ f.op = "create" /\ f.at = "pruning" /\ f.id = i /\ f.listed = {}
          /\ f.state = [g.state EXCEPT !.active = i]
          /\ f.seen = SeenToo(g.seen, i, d)
          /\ UNCHANGED <<stateFile, crashes, contended>>
    <3>1. Typed
      OBVIOUS
    <3> QED BY <1>9, <3>1, WriteNewIs, Zenon
  <2>2. i \in Id /\ i \notin Kept
    BY <1>2, <2>1 DEF NewIds
  <2>3. documents'[i] = d /\ \A j \in Id \ {i} : documents'[j] = documents[j]
    BY <1>2, <2>1, <2>2
  <2>4. KeptIn(documents') = Kept \union {i}
    BY <1>2, <2>1, <2>2, <2>3 DEF KeptIn
  <2>5. DOMAIN g.seen = Kept /\ AsRead(g, documents)
    BY <1>1, <1>2, <2>1 DEF Synced
  <2>6. /\ DOMAIN f.seen = DOMAIN g.seen \union {i} /\ f.seen[i] = d
        /\ \A j \in DOMAIN g.seen \ {i} : f.seen[j] = g.seen[j]
    <3>1. d \in Document /\ f.seen = SeenToo(g.seen, i, d) /\ g.seen \in Seens
      BY <1>1, <2>1
    <3> DEFINE more == SeenToo(g.seen, i, d)
    <3>2. /\ DOMAIN more = DOMAIN g.seen \union {i} /\ more[i] = d
          /\ \A j \in DOMAIN g.seen \ {i} : more[j] = g.seen[j]
      <4> DEFINE was == g.seen
      <4>1. was \in Seens
        BY <3>1
      <4> HIDE DEF was
      <4>2. /\ DOMAIN SeenToo(was, i, d) = DOMAIN was \union {i} /\ SeenToo(was, i, d)[i] = d
            /\ \A j \in DOMAIN was \ {i} : SeenToo(was, i, d)[j] = was[j]
        BY <2>2, <3>1, <4>1, SeenTooIs
      <4> QED BY <4>2 DEF was
    <3>3. f.seen = more
      BY <3>1
    <3> HIDE DEF more
    <3> QED BY <3>2, <3>3
  <2>7. AsRead(f, documents')
    BY <1>2, <2>2, <2>3, <2>5, <2>6 DEF AsRead
  <2>8. Newest(i, documents')
    <3>1. \A j \in Kept : documents'[j] = documents[j] /\ documents[j].used < d.used
      BY <1>2, <2>1, <2>2, <2>3, <2>5 DEF AsRead
    <3> QED BY <2>3, <2>4, <3>1 DEF Newest
  <2>9. Synced(f, documents', stateFile'.active)
    BY <2>1, <2>4, <2>5, <2>6, <2>7, <2>8 DEF Synced
  <2>10. Late(documents', a) \ {i} \subseteq Late(documents, a)
    <3> SUFFICES ASSUME NEW j \in Late(documents', a), j # i PROVE j \in Late(documents, a)
      OBVIOUS
    <3>1. /\ j \in Kept \ {a} /\ a \in Kept \union {i}
          /\ documents'[a].used <= documents'[j].used
      BY <2>4 DEF Late
    <3>2. documents'[j] = documents[j] /\ documents[j].used < d.used
          /\ documents[j].used \in Nat /\ d.used \in Nat
      BY <1>2, <2>1, <2>2, <2>3, <2>5, <3>1 DEF AsRead, Document
    <3>3. a # i
      BY <2>3, <3>1, <3>2
    <3>4. documents'[a] = documents[a]
      BY <1>2, <2>3, <3>1, <3>3
    <3> QED BY <1>2, <3>1, <3>2, <3>3, <3>4 DEF Late
  <2>11. Excused(f) = {i} /\ Excused(g) = {}
    BY <2>1 DEF Excused
  <2>12. OnShelf!Add(i)
    BY <1>2, <2>1, <2>2, <2>4 DEF OnShelf!Add
  <2>13. Shelves(p, f)
    BY <2>1, <2>2, <2>9, <2>10, <2>11, <2>12 DEF Shelves, OnShelf!Next
  <2> QED BY <2>13
<1>10. CASE ReadChosen(p)
  <2>1. PICK f :
          /\ Reads(p, f) /\ g.at = "readingDocuments" /\ g.op = "activate"
          /\ \/ g.id \notin Kept /\ f = Error
             \/ /\ g.id \in Kept
                /\ f.op = "activate" /\ f.at = "writingChosen" /\ f.id = g.id
                /\ f.state = [g.state EXCEPT !.active = g.id]
                /\ f.listed = {} /\ DOMAIN f.seen = {g.id}
                /\ \E now \in Now :
                     f.seen[g.id] = Used(documents[g.id], NextTimestamp(g.seen, now))
    BY <1>10, ReadChosenIs
  <2>2. CASE f = Error
    BY <1>3, <2>1, <2>2, EndingSynced, Endings DEF Reading
  <2>3. CASE f # Error
    <3>1. PICK now \in Now : f.seen[g.id] = Used(documents[g.id], NextTimestamp(g.seen, now))
      BY <2>1, <2>3
    <3>2. /\ NextTimestamp(g.seen, now) \in Nat /\ MostRecent(g.seen) \in Nat
          /\ MostRecent(g.seen) < NextTimestamp(g.seen, now)
          /\ \A j \in DOMAIN g.seen : g.seen[j].used \in Nat /\ g.seen[j].used <= MostRecent(g.seen)
      <4>1. g.seen \in Seens
        BY <1>1
      <4> HIDE DEF g
      <4> QED BY <4>1, Timestamps, SeenIs
    <3>3. f.seen[g.id].used = NextTimestamp(g.seen, now)
      BY <1>2, <2>1, <2>3, <3>1, <3>2, Stamped
    <3>4. DOMAIN g.seen = Kept /\ AsRead(g, documents)
      <4>1. g.listed = {}
        BY <1>10 DEF ReadChosen, AllRead
      <4> QED BY <1>1, <1>2, <2>1, <4>1 DEF Synced
    <3>5. \A j \in Kept : documents[j].used < f.seen[g.id].used
      <4>1. \A j \in Kept : documents[j].used \in Nat /\ documents[j].used <= MostRecent(g.seen)
        BY <1>2, <3>2, <3>4 DEF AsRead
      <4> QED BY <3>2, <3>3, <4>1
    <3>6. Synced(f, documents, a)
      BY <1>2, <2>1, <2>3, <3>5 DEF Synced
    <3> QED BY <1>3, <2>1, <3>6 DEF Reading
  <2> QED BY <2>2, <2>3
<1>11. CASE WriteChosen(p)
  <2>1. PICK f :
          /\ Turns(p, f) /\ g.at = "writingChosen"
          /\ documents' = [documents EXCEPT ![g.id] = g.seen[g.id]]
          /\ f.op = g.op /\ f.at = "writingState" /\ f.id = g.id
          /\ f.state = g.state /\ f.listed = g.listed /\ f.seen = <<>>
          /\ UNCHANGED <<stateFile, crashes, contended>>
    BY <1>11, WriteChosenIs
  <2> DEFINE i == g.id
             d == g.seen[i]
  <2>2. /\ i \in Kept /\ d \in Document
        /\ \A j \in Kept : documents[j].used < d.used
    BY <1>1, <1>2, <2>1, SeenIs DEF Synced, Coherent
  <2>3. documents'[i] = d /\ \A j \in Id \ {i} : documents'[j] = documents[j]
    BY <1>2, <2>1, <2>2
  <2> HIDE DEF d
  <2>4. KeptIn(documents') = Kept
    BY <1>2, <2>2, <2>3 DEF KeptIn
  <2>5. Newest(i, documents')
    BY <1>2, <2>2, <2>3, <2>4 DEF Newest
  <2>6. Synced(f, documents', stateFile'.active)
    BY <2>1, <2>5 DEF Synced
  <2>7. Late(documents', a) \ {i} \subseteq Late(documents, a)
    <3> SUFFICES ASSUME NEW j \in Late(documents', a), j # i PROVE j \in Late(documents, a)
      OBVIOUS
    <3>1. /\ j \in Kept \ {a} /\ a \in Kept
          /\ documents'[a].used <= documents'[j].used
      BY <2>4 DEF Late
    <3>2. documents'[j] = documents[j] /\ documents[j].used < d.used
          /\ documents[j].used \in Nat /\ d.used \in Nat
      BY <1>2, <2>2, <2>3, <3>1 DEF Document
    <3>3. a # i
      BY <2>3, <3>1, <3>2
    <3>4. documents'[a] = documents[a]
      BY <1>2, <2>3, <3>1, <3>3
    <3> QED BY <1>2, <3>1, <3>2, <3>4 DEF Late
  <2>8. Excused(f) = {i} /\ Excused(g) = {}
    BY <2>1 DEF Excused
  <2>9. Shelves(p, f)
    BY <1>2, <2>1, <2>4, <2>6, <2>7, <2>8 DEF Shelves
  <2> QED BY <2>9
<1>12. CASE PruneLru(p)
  <2>1. PICK v, f :
          /\ Turns(p, f) /\ Pruning(p) /\ v \in DOMAIN g.seen /\ v # g.state.active
          /\ UNCHANGED <<stateFile, crashes, contended>>
          /\ \/ v \notin Kept /\ f = Error /\ UNCHANGED documents
             \/ /\ v \in Kept
                /\ documents' = [documents EXCEPT ![v] = Pruned]
                /\ f.op = g.op /\ f.at = "pruning" /\ f.id = g.id
                /\ f.state = g.state /\ f.listed = g.listed
                /\ f.seen = SeenLess(g.seen, v)
    BY <1>12, PruneLruIs
  <2>2. /\ DOMAIN g.seen = Kept /\ AsRead(g, documents)
        /\ g.at = "pruning" \/ (g.at = "readingDocuments" /\ g.op = "retain")
        /\ IF g.op = "create" THEN Newest(g.id, documents) ELSE g.state.active = a
    BY <1>1, <1>2, <2>1 DEF Synced, Pruning, AllRead, At
  <2>3. /\ v \in Kept
        /\ documents' = [documents EXCEPT ![v] = Pruned]
        /\ f.op = g.op /\ f.at = "pruning" /\ f.id = g.id
        /\ f.state = g.state /\ f.seen = SeenLess(g.seen, v)
    BY <2>1, <2>2
  <2>4. \A j \in Id : documents'[j] = IF j = v THEN Pruned ELSE documents[j]
    BY <1>2, <2>3
  <2>5. KeptIn(documents') = Kept \ {v}
    BY <1>2, <2>3, <2>4 DEF KeptIn
  <2>6. /\ DOMAIN f.seen = DOMAIN g.seen \ {v}
        /\ \A j \in DOMAIN g.seen \ {v} : f.seen[j] = g.seen[j]
    <3>1. g.seen \in Seens
      BY <1>1
    <3> DEFINE less == SeenLess(g.seen, v)
    <3>2. /\ DOMAIN less = DOMAIN g.seen \ {v}
          /\ \A j \in DOMAIN g.seen \ {v} : less[j] = g.seen[j]
      <4> HIDE DEF g
      <4> QED BY <3>1, SeenLessIs
    <3>3. f.seen = less
      BY <2>3
    <3> HIDE DEF less
    <3> QED BY <3>2, <3>3
  <2>7. AsRead(f, documents')
    BY <1>2, <2>2, <2>4, <2>6 DEF AsRead
  <2>8. g.op = "create" => Newest(g.id, documents')
    <3>1. g.op = "create" => g.id # v
      BY <1>1, <2>1, <2>2 DEF Coherent
    <3> QED BY <1>2, <2>2, <2>4, <2>5, <3>1 DEF Newest
  <2>9. Synced(f, documents', stateFile'.active)
    BY <2>1, <2>2, <2>3, <2>5, <2>6, <2>7, <2>8 DEF Synced
  <2>10. Late(documents', a) \subseteq Late(documents, a)
    BY <1>2, <2>4, <2>5 DEF Late
  <2>11. Excused(f) = Excused(g)
    BY <2>2, <2>3 DEF Excused
  <2>12. Shelves(p, f)
    BY <1>12, <2>1, <2>9, <2>10, <2>11 DEF Shelves
  <2> QED BY <2>12
<1>13. CASE WriteState(p)
  <2>1. PICK f : /\ Turns(p, f) /\ f = Answer(g.id) /\ SavingState(p)
                 /\ stateFile' = g.state
                 /\ UNCHANGED <<documents, crashes, contended>>
    BY <1>13, WriteStateIs
  <2>2. f.at = "done" /\ Kept' = Kept
    BY <1>1, <1>2, <2>1, Endings
  <2>3. Synced(f, documents', stateFile'.active) /\ Excused(f) = {}
    BY <2>2, EndingSynced, ReadingExcuses
  <2>4. CASE g.state.active = a /\ Excused(g) = {}
    BY <2>1, <2>2, <2>3, <2>4 DEF Shelves
  <2>5. CASE Newest(g.id, documents) /\ g.state.active = g.id
    <3>1. g.id \in Kept /\ g.id \in Id
      BY <1>2, <2>5 DEF Newest
    <3>2. Late(documents', stateFile'.active) = {}
      <4>1. \A j \in Kept \ {g.id} : documents[j].used < documents[g.id].used
        BY <1>2, <2>5 DEF Newest
      <4>2. Late(documents, g.id) = {}
        BY <1>2, <3>1, <4>1 DEF Late
      <4> QED BY <2>1, <2>5, <4>2
    <3>3. OnShelf!Select(g.id)
      BY <2>1, <2>2, <2>5, <3>1 DEF OnShelf!Select
    <3>4. Shelves(p, f)
      BY <2>1, <2>3, <3>1, <3>2, <3>3 DEF Shelves, OnShelf!Next
    <3> QED BY <3>4
  <2>6. \/ g.state.active = a /\ Excused(g) = {}
        \/ Newest(g.id, documents) /\ g.state.active = g.id
    BY <1>1, <2>1 DEF SavingState, Pruning, AllRead, At, Synced, Coherent, Excused, Reading
  <2> QED BY <2>4, <2>5, <2>6
<1> QED BY <1>4, <1>5, <1>6, <1>7, <1>8, <1>9, <1>10, <1>11, <1>12, <1>13, Zenon DEF StoreStep

LEMMA Counting ==
  ASSUME NEW docs, NEW active, NEW S
  PROVE  /\ IsFiniteSet(Late(docs, active) \ S) /\ Cardinality(Late(docs, active) \ S) \in Nat
         /\ \A T \in SUBSET (Late(docs, active) \ S) :
              /\ IsFiniteSet(T) /\ Cardinality(T) \in Nat
              /\ Cardinality(T) <= Cardinality(Late(docs, active) \ S)
<1>1. Late(docs, active) \ S \subseteq Id
  BY DEF Late, KeptIn
<1>2. IsFiniteSet(Late(docs, active) \ S)
  BY <1>1, Constants, FS_Subset
<1> QED BY <1>2, FS_Subset, FS_CardinalityType

LEMMA OneMore ==
  ASSUME NEW L, IsFiniteSet(L), NEW i
  PROVE  /\ Cardinality(L) \in Nat /\ Cardinality(L \ {i}) \in Nat
         /\ Cardinality(L) <= Cardinality(L \ {i}) + 1
<1>1. Cardinality(L) \in Nat /\ IsFiniteSet(L \ {i})
  BY FS_CardinalityType, FS_RemoveElement
<1>2. Cardinality(L \ {i}) \in Nat
  BY <1>1, FS_CardinalityType
<1>3. Cardinality(L \ {i}) = IF i \in L THEN Cardinality(L) - 1 ELSE Cardinality(L)
  BY FS_RemoveElement
<1> QED BY <1>1, <1>2, <1>3

\* What is excused of a call counts for one when the call is over.
LEMMA NoLongerExcused ==
  ASSUME NEW f
  PROVE  Tally(f) \in Nat /\ Tally(NoCall) \in Nat /\ Tally(NoCall) <= Tally(f) + 1
<1> DEFINE L == Late(documents, stateFile.active)
<1>1. L \ {} = L /\ IsFiniteSet(L \ {})
  BY Counting
<1>2. Excused(NoCall) = {}
  BY Idle, ReadingExcuses
<1>3. /\ Cardinality(L) \in Nat /\ Cardinality(L \ {f.id}) \in Nat
      /\ Cardinality(L) <= Cardinality(L \ {f.id}) + 1
  <2> HIDE DEF L
  <2> QED BY <1>1, OneMore
<1>4. Excused(f) = {} \/ Excused(f) = {f.id}
  BY DEF Excused
<1>5. Tally(NoCall) = Cardinality(L) /\ Tally(f) \in {Cardinality(L), Cardinality(L \ {f.id})}
  BY <1>1, <1>2, <1>4 DEF Tally
<1> HIDE DEF L
<1> QED BY <1>3, <1>5

LEMMA SmallestLimitIs ==
  SmallestLimit \in Nat /\ SmallestLimit \in Limits /\ \A n \in Limits : SmallestLimit <= n
<1>1. Limits \in SUBSET Nat /\ Limits # {}
  BY Constants
<1>2. \E n \in Limits : \A m \in Limits : n <= m
  BY <1>1, Least
<1> QED BY <1>1, <1>2 DEF SmallestLimit

\* The shelf counts as the store does.
LEMMA ShelfCounts ==
  ASSUME NEW S
  PROVE  OnShelf!Cardinality(S) = Cardinality(S)
BY DEF OnShelf!Cardinality, Cardinality

\* Only the excess is thrown away, and never the active document: it would have been
\* overtaken by all but the new one of a crowd, more than there were deaths.
LEMMA PruneDrops ==
  ASSUME Orderly, NEW p \in Proc, PruneLru(p),
         Synced(calls[p], documents, stateFile.active),
         Tally(calls[p]) <= crashes, crashes + 1 < SmallestLimit
  PROVE  OnShelf!Next
<1> USE DEF Orderly
<1> DEFINE g == calls[p]
           a == stateFile.active
<1>1. /\ g.seen \in Seens /\ g.state \in StoreState /\ Coherent(g) /\ crashes \in Nat
      /\ Synced(g, documents, a)
  BY Frame, Constants DEF Coherence, Typed
<1>2. /\ Kept = KeptIn(documents) /\ Kept' = KeptIn(documents')
      /\ documents \in [Id -> Document \union {Unmade, Pruned}]
      /\ Unmade \notin Document /\ Pruned \notin Document /\ Kept \subseteq Id
      /\ \A i \in Kept : documents[i] \in Document /\ documents[i].used \in Nat
  BY ShelfIs, Constants
<1>3. PICK v \in Victims(g.seen, g.state.active) :
        /\ Pruning(p) /\ Crowded(p) /\ v \in DOMAIN g.seen /\ UNCHANGED stateFile
        /\ v \notin Kept \/ documents' = [documents EXCEPT ![v] = Pruned]
  BY PruneLruIs
<1>4. /\ DOMAIN g.seen = Kept /\ AsRead(g, documents)
      /\ IF g.op = "create" THEN Newest(g.id, documents) ELSE g.state.active = a
      /\ g.op = "create" => g.state.active = g.id
  BY <1>1, <1>2, <1>3 DEF Synced, Pruning, AllRead, At, Coherent
<1>5. v \in Kept /\ documents' = [documents EXCEPT ![v] = Pruned]
  BY <1>3, <1>4
<1>6. Kept' = Kept \ {v}
  <2>1. \A j \in Id : documents'[j] = IF j = v THEN Pruned ELSE documents[j]
    BY <1>2, <1>5
  <2> QED BY <1>2, <1>5, <2>1 DEF KeptIn
<1>7. IsFiniteSet(Kept) /\ Cardinality(Kept) \in Nat /\ Cardinality(Kept) > SmallestLimit
  <2>1. IsFiniteSet(Kept) /\ Cardinality(Kept) \in Nat
    BY <1>2, Constants, FS_Subset, FS_CardinalityType
  <2>2. g.state.limit \in Limits
    BY <1>1 DEF StoreState
  <2>3. Cardinality(Kept) > g.state.limit
    BY <1>3, <1>4 DEF Crowded
  <2>4. g.state.limit \in Nat /\ SmallestLimit <= g.state.limit /\ SmallestLimit \in Nat
    BY <2>2, SmallestLimitIs, Constants
  <2> QED BY <2>1, <2>3, <2>4
<1>8. v # a
  <2> SUFFICES ASSUME v = a PROVE FALSE
    OBVIOUS
  <2> DEFINE others == (Kept \ {v}) \ {g.id}
  <2>1. v # g.state.active
    BY DEF Victims
  <2>2. g.op = "create" /\ g.state.active = g.id /\ v # g.id
    BY <1>4, <2>1
  <2>3. others \subseteq Late(documents, a) \ Excused(g)
    <3> SUFFICES ASSUME NEW i \in others PROVE i \in Late(documents, a) /\ i # g.id
      BY DEF Excused
    <3>1. Older(g.seen[v], g.seen[i])
      BY <1>4, <2>2 DEF Victims
    <3>2. Older(documents[v], documents[i])
      BY <1>4, <1>5, <3>1 DEF AsRead
    <3>3. documents[v].used <= documents[i].used
      BY <1>2, <1>5, <3>2 DEF Older
    <3> QED BY <1>2, <1>5, <3>3 DEF Late
  <2>4. Cardinality(others) <= crashes /\ Cardinality(others) \in Nat
    <3>1. /\ Cardinality(others) <= Tally(g) /\ Cardinality(others) \in Nat /\ Tally(g) \in Nat
      <4> HIDE DEF others, g
      <4> QED BY <2>3, Counting DEF Tally
    <3> QED BY <1>1, <3>1
  <2>5. Cardinality(Kept) <= Cardinality(others) + 2
    <3>1. IsFiniteSet(Kept \ {v}) /\ Cardinality(Kept \ {v}) = Cardinality(Kept) - 1
      BY <1>5, <1>7, FS_RemoveElement
    <3>2. g.id \in Kept \ {v}
      BY <1>2, <1>4, <2>2 DEF Newest
    <3>3. Cardinality(others) = Cardinality(Kept) - 1 - 1
      <4> DEFINE rest == Kept \ {v}
      <4>1. IsFiniteSet(rest) /\ Cardinality(rest) = Cardinality(Kept) - 1 /\ g.id \in rest
        BY <3>1, <3>2
      <4>2. Cardinality(rest \ {g.id}) = Cardinality(rest) - 1
        <5> HIDE DEF rest
        <5> QED BY <4>1, FS_RemoveElement
      <4> QED BY <4>1, <4>2
    <3> QED BY <1>7, <3>3
  <2> QED BY <1>1, <1>7, <2>4, <2>5, SmallestLimitIs
<1>9. OnShelf!Drop(v)
  <2>1. stateFile' = stateFile
    BY <1>3
  <2>2. v # stateFile.active /\ Cardinality(Kept) > SmallestLimit
        /\ Kept' = Kept \ {v} /\ stateFile'.active = stateFile.active
    BY <1>6, <1>7, <1>8, <2>1
  <2> QED BY <2>2, ShelfCounts DEF OnShelf!Drop
<1> QED BY <1>2, <1>5, <1>9 DEF OnShelf!Next

ShelfStep ==
  \/ contended' \/ crashes' + 1 >= SmallestLimit
  \/ OnShelf!Next \/ UNCHANGED <<Kept, stateFile.active>>

LEMMA ShelvedStep ==
  ASSUME Orderly, Choosing, Surviving, Shelved, [Next]_launchVars
  PROVE  Shelved' /\ ShelfStep
<1> USE DEF Orderly
<1> DEFINE Kind(p, f) ==
             \/ StoreStep(p) /\ Shelves(p, f) /\ Busy(p)
             \/ Forgets(p) /\ f = NoCall
             \/ Calls(p, f)
           docs == documents
           a == stateFile.active
<1>1. CASE contended'
  BY <1>1 DEF Shelved, ShelfStep
<1>2. ASSUME ~contended', ~contended
      PROVE  Rests \/ \E p \in Proc : \E f : Kind(p, f)
  <2>1. ASSUME NEW p \in Proc, CommandStep(p)
        PROVE  Rests \/ \E f : Kind(p, f)
    <3>1. Synced(calls[p], docs, a)
      BY <1>2 DEF Shelved
    <3>2. CASE StoreStep(p)
      <4>1. \E f : Shelves(p, f)
        BY <3>1, <3>2, StoreStepShelves DEF Surviving
      <4> QED BY <3>2, <4>1, StoreStepIsBusy
    <3> QED BY <2>1, <3>2, CommandCalls
  <2>2. ASSUME UNCHANGED <<storeVars, program>> PROVE Rests
    BY <2>2, Constants DEF Rests, storeVars, Typed
  <2> QED BY <2>1, <2>2, WhoMoves
<1>3. contended => contended'
  <2>1. CASE Rests
    BY <2>1 DEF Rests
  <2>2. ASSUME NEW p \in Proc, Forgets(p) \/ (\E f : Calls(p, f)) \/ StoreStep(p), contended
        PROVE  contended'
    <3>1. CASE StoreStep(p)
      BY <2>2, <3>1, StoreStepLeaves DEF Surviving, Leaves
    <3>2. ASSUME NEW f, Calls(p, f) PROVE contended'
      BY <2>2, <3>2 DEF Calls, Enter
    <3> QED BY <2>2, <3>1, <3>2 DEF Forgets
  <2>3. ASSUME UNCHANGED <<storeVars, program>> PROVE Rests
    BY <2>3, Constants DEF Rests, storeVars, Typed
  <2> QED BY <2>1, <2>2, <2>3, CommandCalls, WhoMoves
<1>4. CASE ~contended'
  <2>1. /\ ~contended /\ crashes \in Nat /\ crashes' \in Nat
        /\ \A q \in Proc : Synced(calls[q], docs, a)
        /\ \A q \in Proc : Busy(q) => Tally(calls[q]) <= crashes
        /\ (\A q \in Proc : ~Busy(q)) => Tally(NoCall) <= crashes
        /\ \A q, r \in Proc : Busy(q) /\ Busy(r) => q = r
    <3>1. Typed'
      BY StepOrderly
    <3>2. crashes \in Nat /\ crashes' \in Nat
      BY <3>1, Constants DEF Typed
    <3> QED BY <1>3, <1>4, <3>2 DEF Shelved, Surviving, Unrivalled
  <2>2. Excused(NoCall) = {} /\ \A q \in Proc : ~Busy(q) => Excused(calls[q]) = {}
    <3>1. \A q \in Proc : ~Busy(q) => calls[q].at \in {"idle", "done", "failed"}
      BY DEF Busy
    <3> QED BY <3>1, Idle, ReadingExcuses
  <2>3. CASE Rests
    <3>1. UNCHANGED <<documents, stateFile, calls>> /\ crashes <= crashes'
      BY <2>3 DEF Rests
    <3>2. /\ \A q \in Proc : Busy(q) => Tally(calls[q]) <= crashes'
          /\ (\A q \in Proc : ~Busy(q)) => Tally(NoCall) <= crashes'
      <4>1. \A h : Tally(h) \in Nat
        BY NoLongerExcused
      <4>2. ASSUME NEW n \in Nat, n <= crashes PROVE n <= crashes'
        BY <2>1, <3>1, <4>2
      <4> QED BY <2>1, <4>1, <4>2, Zenon
    <3>3. Shelved'
      BY <2>1, <3>1, <3>2 DEF Shelved, Busy, Tally
    <3>4. UNCHANGED <<Kept, stateFile.active>>
      BY <2>3 DEF Rests, Kept
    <3> QED BY <3>3, <3>4 DEF ShelfStep
  <2>4. ASSUME NEW p \in Proc, NEW f, StoreStep(p), Shelves(p, f), Busy(p)
        PROVE  Shelved' /\ ShelfStep
    <3>1. calls'[p] = f /\ \A q \in Proc \ {p} : calls'[q] = calls[q] /\ ~Busy(q)
      BY <2>1, <2>4, OneCall DEF Shelves
    <3>2. \A q \in Proc \ {p} : ~Busy(q)'
      BY <3>1 DEF Busy
    <3>3. \A q \in Proc : Synced(calls'[q], documents', stateFile'.active)
      <4>1. \A q \in Proc \ {p} : calls'[q].at \in {"idle", "done", "failed"}
        BY <3>1 DEF Busy
      <4> QED BY <2>4, <3>1, <4>1, EndingSynced DEF Shelves
    <3>4. Tally(f)' <= crashes'
      <4>1. crashes' = crashes /\ Tally(calls[p]) <= crashes
        BY <2>1, <2>4 DEF Shelves
      <4>2. Late(documents', stateFile'.active) \ Excused(f)
              \subseteq Late(documents, stateFile.active) \ Excused(calls[p])
        BY <2>4 DEF Shelves
      <4>3. /\ Cardinality(Late(documents', stateFile'.active) \ Excused(f)) <= Tally(calls[p])
            /\ Cardinality(Late(documents', stateFile'.active) \ Excused(f)) \in Nat
            /\ Tally(calls[p]) \in Nat
        BY <4>2, Counting DEF Tally
      <4> QED BY <2>1, <4>1, <4>3 DEF Tally
    <3>5. ~Busy(p)' => Tally(NoCall)' <= crashes'
      <4> SUFFICES ASSUME ~Busy(p)' PROVE Tally(NoCall)' <= crashes'
        OBVIOUS
      <4>1. f.at \in {"idle", "done", "failed"}
        BY <3>1 DEF Busy
      <4>2. Excused(f) = {}
        BY <4>1, ReadingExcuses
      <4> QED BY <2>2, <3>4, <4>2 DEF Tally
    <3>6. Shelved'
      BY <3>1, <3>2, <3>3, <3>4, <3>5 DEF Shelved, Tally
    <3>7. ShelfStep
      <4>1. CASE PruneLru(p) /\ crashes' + 1 < SmallestLimit
        <5>1. crashes' = crashes /\ Tally(calls[p]) <= crashes /\ Synced(calls[p], docs, a)
          BY <2>1, <2>4 DEF Shelves
        <5> QED BY <4>1, <5>1, PruneDrops DEF ShelfStep
      <4>2. crashes' + 1 < SmallestLimit \/ crashes' + 1 >= SmallestLimit
        <5>1. crashes' \in Nat /\ SmallestLimit \in Nat
          BY <2>1, SmallestLimitIs
        <5>2. \A n \in Nat : n + 1 < SmallestLimit \/ n + 1 >= SmallestLimit
          BY <5>1
        <5> QED BY <5>1, <5>2
      <4> QED BY <2>4, <4>1, <4>2 DEF Shelves, ShelfStep
    <3> QED BY <3>6, <3>7
  <2>5. ASSUME NEW p \in Proc, NEW f, Turns(p, f), UNCHANGED <<documents, stateFile>>,
               Synced(f, docs, a), Excused(f) = {},
               \A q \in Proc \ {p} : Busy(q) => Tally(calls[q]) <= crashes',
               (\A q \in Proc \ {p} : ~Busy(q)) => Tally(NoCall) <= crashes',
               f = NoCall \/ \A q \in Proc \ {p} : ~Busy(q)
        PROVE  Shelved' /\ ShelfStep
    <3>1. calls'[p] = f /\ \A q \in Proc \ {p} : calls'[q] = calls[q]
      BY <2>5, OneCall
    <3>2. \A q \in Proc : Synced(calls'[q], documents', stateFile'.active)
      BY <2>1, <2>5, <3>1
    <3>3. \A q \in Proc \ {p} : Busy(q)' = Busy(q)
      BY <3>1 DEF Busy
    <3>4. \A h : Tally(h)' = Tally(h)
      BY <2>5 DEF Tally
    <3>5. (\A q \in Proc : ~Busy(q)') => Tally(NoCall)' <= crashes'
      BY <2>5, <3>3, <3>4
    <3>6. \A q \in Proc \ {p} : Busy(q)' => Cardinality(
            Late(documents', stateFile'.active) \ Excused(calls'[q])) <= crashes'
      BY <2>5, <3>1, <3>3, <3>4 DEF Tally
    <3>7. Busy(p)' => Cardinality(
            Late(documents', stateFile'.active) \ Excused(calls'[p])) <= crashes'
      <4>1. f = NoCall => ~Busy(p)'
        BY <3>1, Idle DEF Busy
      <4>2. Tally(NoCall) = Cardinality(Late(documents', stateFile'.active) \ Excused(f))
        BY <2>2, <2>5 DEF Tally
      <4> QED BY <2>5, <3>1, <4>1, <4>2
    <3>8. Shelved'
      BY <3>2, <3>5, <3>6, <3>7 DEF Shelved, Tally
    <3>9. UNCHANGED <<Kept, stateFile.active>>
      BY <2>5 DEF Kept
    <3> QED BY <3>8, <3>9 DEF ShelfStep
  <2>6. ASSUME NEW p \in Proc, Forgets(p)
        PROVE  Shelved' /\ ShelfStep
    <3>1. /\ Turns(p, NoCall) /\ UNCHANGED <<documents, stateFile>> /\ crashes <= crashes'
          /\ Busy(p) => crashes' = crashes + 1
      BY <2>6 DEF Forgets
    <3>2. Synced(NoCall, docs, a)
      BY Idle, EndingSynced
    <3>3. \A q \in Proc : /\ Tally(calls[q]) \in Nat /\ Tally(NoCall) \in Nat
                          /\ Tally(NoCall) <= Tally(calls[q]) + 1
      BY NoLongerExcused
    <3>4. \A q \in Proc \ {p} : Busy(q) => Tally(calls[q]) <= crashes'
      BY <2>1, <3>1, <3>3
    <3>5. ASSUME \A q \in Proc \ {p} : ~Busy(q)
          PROVE  Tally(NoCall) <= crashes'
      <4>1. CASE Busy(p)
        BY <2>1, <3>1, <3>3, <4>1
      <4>2. CASE ~Busy(p)
        BY <2>1, <3>1, <3>3, <3>5, <4>2
      <4> QED BY <4>1, <4>2
    <3> QED BY <2>2, <2>5, <3>1, <3>2, <3>4, <3>5
  <2>7. ASSUME NEW p \in Proc, NEW f, Calls(p, f)
        PROVE  Shelved' /\ ShelfStep
    <3>1. /\ Turns(p, f) /\ Entry(f) /\ UNCHANGED <<documents, stateFile, crashes>>
          /\ ~Busy(p) /\ \A q \in Proc \ {p} : ~Busy(q)
      BY <1>4, <2>7 DEF Calls, Enter, Busy
    <3>2. Synced(f, docs, a) /\ Excused(f) = {}
      BY <3>1, NothingSeen DEF Entry, Synced, Excused
    <3>3. Tally(NoCall) <= crashes'
      BY <2>1, <3>1
    <3> QED BY <2>5, <3>1, <3>2, <3>3
  <2> QED BY <1>2, <1>4, <2>1, <2>3, <2>4, <2>6, <2>7
<1> QED BY <1>1, <1>4

LEMMA InitShelved == Init => Shelved
<1> SUFFICES ASSUME Init PROVE Shelved
  OBVIOUS
<1>1. PICK n \in Initial :
        /\ documents = [i \in Id |-> IF i <= n THEN [created |-> i, used |-> i] ELSE Unmade]
        /\ stateFile = [active |-> IF n = 0 THEN None ELSE n, limit |-> DefaultLimit]
        /\ calls = [p \in Proc |-> NoCall] /\ crashes = 0
  BY DEF Init, StoreInit
<1>2. /\ n \in {0} \union Id /\ n \in Nat /\ Id \subseteq Nat
      /\ Unmade \notin Document /\ None \notin Id
  BY Constants
<1>3. \A p \in Proc : calls[p] = NoCall /\ calls[p].at = "idle"
  BY <1>1, Idle
<1>4. Late(documents, stateFile.active) = {}
  <2> SUFFICES ASSUME NEW i \in Late(documents, stateFile.active) PROVE FALSE
    OBVIOUS
  <2>1. /\ i \in Id /\ documents[i] \in Document /\ i # stateFile.active
        /\ stateFile.active \in Id /\ documents[stateFile.active].used <= documents[i].used
    BY DEF Late, KeptIn
  <2>2. stateFile.active = n /\ n \in Id
    BY <1>1, <1>2, <2>1
  <2>3. i <= n /\ documents[i] = [created |-> i, used |-> i]
    BY <1>1, <1>2, <2>1
  <2>4. documents[n] = [created |-> n, used |-> n]
    BY <1>1, <1>2, <2>2
  <2> QED BY <1>2, <2>1, <2>2, <2>3, <2>4
<1>5. Tally(NoCall) <= crashes
  <2>1. Late(documents, stateFile.active) \ Excused(NoCall) = {}
    BY <1>4
  <2>2. Tally(NoCall) = 0
    BY <2>1, FS_EmptySet DEF Tally
  <2> QED BY <1>1, <2>2
<1>6. \A p \in Proc : Synced(calls[p], documents, stateFile.active) /\ ~Busy(p)
  BY <1>3, EndingSynced DEF Busy
<1> QED BY <1>5, <1>6 DEF Shelved

LEMMA StepShelved ==
  Orderly /\ Choosing /\ Surviving /\ Shelved /\ [Next]_launchVars => Shelved' /\ ShelfStep
BY ShelvedStep

\* As long as no two calls overlap and few processes die, the store keeps the promise
\* of a shelf: the state file names a document that exists, and pruning, which comes
\* before the state file is written, throws away only what is in excess.
THEOREM StoreIsAShelf == Spec => KeepsShelf
<1>1. Init => Launching /\ Choosing /\ Surviving /\ Shelved
  BY InitLaunching, InitChoosing, InitSurviving, InitShelved
<1>2. Launching /\ Choosing /\ Surviving /\ Shelved /\ [Next]_launchVars
        => (Launching /\ Choosing /\ Surviving /\ Shelved)' /\ ShelfStep
  BY StepLaunching, StepChoosing, StepSurviving, StepShelved DEF Launching
<1>3. ShelfStep =>
        [contended' \/ crashes' + 1 >= SmallestLimit \/ OnShelf!Next]_<<Kept, stateFile.active>>
  BY DEF ShelfStep
<1> QED BY <1>1, <1>2, <1>3, PTL DEF Spec, KeepsShelf
=============================================================================
