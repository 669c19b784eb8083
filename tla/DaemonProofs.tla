---------------------------- MODULE DaemonProofs ----------------------------
(***************************************************************************)
(* The daemon for any number of connections, ids, sessions, contracts and  *)
(* commands: what a verdict means, the types of the handlers' frames, what *)
(* the answers mean, what is remembered, and the firewall's promise.       *)
(***************************************************************************)
EXTENDS Daemon, TLAPS, SequenceTheorems, WellFoundedInduction

-----------------------------------------------------------------------------
(* What the ring buffer keeps and what a verdict means, for every window,  *)
(* threshold, contract and command.                                        *)

\* A suffix of a sequence is a sequence over the same set.
LEMMA SuffixType ==
  ASSUME NEW S, NEW s \in Seq(S), NEW m \in 1 .. Len(s) + 1
  PROVE  SubSeq(s, m, Len(s)) \in Seq(S) /\ Len(SubSeq(s, m, Len(s))) = Len(s) - m + 1
OBVIOUS

\* Replacing one element keeps the type.
LEMMA UpdateType ==
  ASSUME NEW S, NEW s \in Seq(S), NEW k \in DOMAIN s, NEW x \in S
  PROVE  [s EXCEPT ![k] = x] \in Seq(S)
OBVIOUS

\* Recording a compound leaves a well-formed history of at most Window entries
\* (record_execution pops the front after every push).
LEMMA RecordExecutionsType ==
  ASSUME NEW Runs, NEW h \in Seq(EntryOf(Runs)), NEW shapes \in Seq(Shape),
         NEW class \in ExitClass, NEW run \in Runs
  PROVE  /\ RecordExecutions(h, shapes, class, run) \in Seq(EntryOf(Runs))
         /\ Len(RecordExecutions(h, shapes, class, run)) <= Window
<1> DEFINE new == [k \in DOMAIN shapes |-> Entry(shapes[k], class, run, k)]
           log == h \o new
<1>1. new \in Seq(EntryOf(Runs))
  <2>1. \A k \in 1 .. Len(shapes) : new[k] \in EntryOf(Runs)
    BY DEF EntryOf, Entry, Signature, IsFailure, ExitClass
  <2>2. Len(shapes) \in Nat /\ DOMAIN shapes = 1 .. Len(shapes)
    OBVIOUS
  <2> QED BY <2>1, <2>2
<1>2. log \in Seq(EntryOf(Runs)) /\ Len(log) \in Nat
  BY <1>1
<1>3. Window \in Nat \ {0}
  BY WindowAssumption
<1>4. LastEntries(log) \in Seq(EntryOf(Runs)) /\ Len(LastEntries(log)) <= Window
  <2>1. CASE Len(log) > Window
    <3> DEFINE m == Len(log) - Window + 1
    <3>1. m \in 1 .. Len(log) + 1
      BY <1>2, <1>3, <2>1
    <3>3. /\ SubSeq(log, m, Len(log)) \in Seq(EntryOf(Runs))
          /\ Len(SubSeq(log, m, Len(log))) = Len(log) - m + 1
      BY <1>2, <3>1, SuffixType
    <3> QED BY <1>2, <1>3, <2>1, <3>1, <3>3 DEF LastEntries
  <2>2. CASE ~(Len(log) > Window)
    BY <1>2, <1>3, <2>2 DEF LastEntries
  <2> QED BY <2>1, <2>2
<1> QED BY <1>4 DEF RecordExecutions

\* An empty history holds no loop.
LEMMA NoLoopInEmptyHistory == ~LoopDetected(<<>>)
BY DEF LoopDetected, Repeats

\* A nonempty set of positions has a first one, and First finds it.
LEMMA FirstOfPositions ==
  ASSUME NEW S \in SUBSET Nat, S # {}
  PROVE  First(S) \in S /\ \A k \in S : First(S) <= k
<1> DEFINE R == OpToRel(<, Nat)
<1>1. \A j, k \in Nat : j < k => <<j, k>> \in R
  BY DEF OpToRel
<1>2. IsWellFoundedOn(R, Nat)
  BY NatLessThanWellFounded
<1> HIDE DEF R
<1>3. PICK m \in S : \A k \in S : <<k, m>> \notin R
  BY <1>2, WFMin
<1>4. ASSUME NEW k \in S PROVE m <= k
  <2>1. m \in Nat /\ k \in Nat
    OBVIOUS
  <2>2. <<k, m>> \notin R
    BY <1>3
  <2>3. ~(k < m)
    BY <1>1, <2>1, <2>2, Zenon
  <2> QED BY <2>1, <2>3
<1> QED BY <1>3, <1>4 DEF First

-----------------------------------------------------------------------------

\* Only a violation carries proofs, and it always does.
LEMMA VerdictShape ==
  \A v \in Verdicts :
    /\ v.kind \in {"in-scope", "violation", "needs-human", "loop"}
    /\ v.kind = "violation" <=> v.proofs # {}
BY DEF Verdicts, InScope, Loop, NeedsHuman, ScopeViolation

\* check returns a verdict: in scope, a loop, or a violation with a proof.
LEMMA CheckType ==
  ASSUME NEW effects \in Effects, NEW contract \in Contract, NEW looping \in BOOLEAN
  PROVE  Check(effects, contract, looping) \in Verdicts
<1>1. Breaches(effects, contract) \in SUBSET ProofTrace
  BY DEF Breaches, ProofTrace, TraceIf, PathTraces, Trace, Effects
<1> QED BY <1>1, Zenon DEF Check, Verdicts

\* check finds no breach exactly when every clause of the contract permits
\* the effects: no clause is forgotten and none is invented.
THEOREM NoBreachIffPermitted ==
  ASSUME NEW effects \in Effects, NEW contract \in Contract
  PROVE  Breaches(effects, contract) = {} <=> Permits(contract, effects)
<1>1. Breaches(effects, contract) = {} <=>
        /\ TraceIf(effects.privileged, "R-PRIV-01") = {}
        /\ TraceIf(effects.network /\ ~contract.network, "R-NET-01") = {}
        /\ TraceIf(effects.dep /\ ~contract.deps, "R-DEP-01") = {}
        /\ TraceIf(effects.git # NoGit /\ effects.git \notin contract.gitOps, "R-GIT-01") = {}
        /\ PathTraces(effects.writes, contract) = {}
        /\ PathTraces(effects.deletes, contract) = {}
        /\ TraceIf(effects.op \notin contract.ops, "R-OP-01") = {}
  BY Zenon DEF Breaches
<1>2. \A breached \in BOOLEAN : \A rule : TraceIf(breached, rule) = {} <=> ~breached
  BY Zenon DEF TraceIf
<1>3. \A paths : PathTraces(paths, contract) = {} <=> paths \subseteq contract.paths
  BY DEF PathTraces
<1>4. /\ effects.privileged \in BOOLEAN /\ effects.network \in BOOLEAN
      /\ effects.dep \in BOOLEAN /\ contract.network \in BOOLEAN /\ contract.deps \in BOOLEAN
  BY DEF Effects, Contract
<1>5. Breaches(effects, contract) = {} <=>
        /\ ~effects.privileged
        /\ ~(effects.network /\ ~contract.network)
        /\ ~(effects.dep /\ ~contract.deps)
        /\ ~(effects.git # NoGit /\ effects.git \notin contract.gitOps)
        /\ effects.writes \subseteq contract.paths /\ effects.deletes \subseteq contract.paths
        /\ effects.op \in contract.ops
  BY <1>1, <1>2, <1>3, <1>4
<1> QED BY <1>5 DEF Permits

\* A command is in scope exactly when no loop stands against it and the
\* contract permits all its effects.
THEOREM CheckInScope ==
  ASSUME NEW effects \in Effects, NEW contract \in Contract, NEW looping \in BOOLEAN
  PROVE  Check(effects, contract, looping).kind = "in-scope"
           <=> ~looping /\ Permits(contract, effects)
BY NoBreachIffPermitted DEF Check, InScope, Loop, ScopeViolation

\* A compound is in scope exactly when every one of its segments is.
THEOREM CombineInScope ==
  ASSUME NEW verdicts \in Seq(Verdicts)
  PROVE  CombineVerdicts(verdicts).kind = "in-scope"
           <=> \A k \in DOMAIN verdicts : verdicts[k].kind = "in-scope"
<1>1. \A k \in DOMAIN verdicts : verdicts[k] \in Verdicts
  OBVIOUS
<1>2. AllProofs(verdicts) # {} <=> \E k \in DOMAIN verdicts : verdicts[k].kind = "violation"
  BY <1>1, VerdictShape DEF AllProofs
<1>3. ASSUME Asking(verdicts) # {}
      PROVE  verdicts[First(Asking(verdicts))].kind = "needs-human"
  <2>1. Asking(verdicts) \in SUBSET Nat
    BY DEF Asking
  <2> QED BY <1>3, <2>1, FirstOfPositions DEF Asking
<1> QED BY <1>1, <1>2, <1>3, VerdictShape
     DEF CombineVerdicts, Asking, InScope, Loop, ScopeViolation

\* No proof of violation is lost when verdicts are combined, and a compound is
\* put to a human only when none of its segments violates or loops.
THEOREM CombineNeedsHuman ==
  ASSUME NEW verdicts \in Seq(Verdicts)
  PROVE  CombineVerdicts(verdicts).kind = "needs-human"
           => /\ AllProofs(verdicts) = {}
              /\ \A k \in DOMAIN verdicts : verdicts[k].kind \in {"in-scope", "needs-human"}
<1>1. \A k \in DOMAIN verdicts : verdicts[k] \in Verdicts
  OBVIOUS
<1> QED BY <1>1, VerdictShape DEF CombineVerdicts, AllProofs, InScope, Loop, ScopeViolation

-----------------------------------------------------------------------------
(***************************************************************************)
(* Types and frames.  The inductive invariant is TypeOK with Frame, which  *)
(* says what a handler's frame has gathered at each point: every verdict   *)
(* in it is the one its segment's effects get under the frame's own        *)
(* contract and history, whatever happened to the registry meanwhile.      *)
(***************************************************************************)

\* Segment k of a frame has been judged on its effects, or nobody knows them.
Grounded(h, k) ==
  \/ h.effects[k] = Unknown /\ h.verdicts[k].kind \in {"pending", "needs-human"}
  \/ /\ h.effects[k] \in Effects
     /\ h.verdicts[k] = Check(h.effects[k], h.contract, LoopDetected(h.history))

Frame(h) ==
  /\ h.key # None => h.contract # None
  /\ h.pc # "idle" => h.id \in Id
  /\ h.pc = "recording" => h.key # None
  /\ h.pc \in {"judging", "recording", "expired"} => h.decision = "none"
  /\ h.pc \in {"holding", "expired"} => h.mode = "daemon"
  /\ h.contract = None => \A k \in DOMAIN h.verdicts : h.verdicts[k].kind = "needs-human"
  /\ h.pc = "judging" => h.verdicts # <<>>
  /\ h.contract # None => /\ DOMAIN h.effects = DOMAIN h.verdicts
                          /\ \A k \in DOMAIN h.effects : Grounded(h, k)

Typed == TypeOK /\ \A c \in Conn : Frame(handlers[c])

-----------------------------------------------------------------------------
(* Frames *)

\* A frame moved on and answered is one still.
LEMMA AnswerType ==
  ASSUME NEW h \in Handler, NEW pc \in {"idle", "holding"},
         NEW answer \in {"allow", "block", "hold", "recorded"}
  PROVE  [h EXCEPT !.pc = pc, !.answer = answer] \in Handler
<1> DEFINE k == [h EXCEPT !.pc = pc]
<1>1. k \in Handler
  BY DEF Handler
<1>2. ASSUME NEW f \in Handler, NEW a \in {"none", "allow", "block", "hold", "recorded"}
      PROVE  [f EXCEPT !.answer = a] \in Handler
  <2> DEFINE Answer == {"none", "allow", "block", "hold", "recorded"}
             Decision == {"none", "approve", "reject", "dropped"}
             Stage == {"idle", "judging", "holding", "expired", "recording"}
  <2>1. Handler =
          [pc : Stage, peer : {"open", "gone"}, id : Id \union {None},
           requested : ContractId \union {None}, key : SessionKey \union {None},
           mode : {"daemon", "client"}, contract : Contract \union {None},
           history : Seq(EntryOf(Run)), shapes : Seq(Shape),
           effects : Seq(Effects \union {Unknown}), verdicts : Seq(SegVerdict),
           class : ExitClass, serial : Nat, decision : Decision, answer : Answer]
    BY Zenon DEF Handler
  <2>2. a \in Answer
    OBVIOUS
  <2> HIDE DEF Answer, Decision, Stage
  <2> QED BY <2>1, <2>2
<1>3. [h EXCEPT !.pc = pc, !.answer = answer] = [k EXCEPT !.answer = answer]
  BY DEF Handler
<1> HIDE DEF k
<1> QED BY <1>1, <1>2, <1>3

LEMMA FreshFrame == Fresh \in Handler /\ Frame(Fresh)
BY DEF Fresh, Handler, Frame, ExitClass

\* Answering keeps the frame well formed, or drops it with the connection.
LEMMA AnsweredFrame ==
  ASSUME NEW h \in Handler, Frame(h), NEW answer \in {"allow", "block", "hold", "recorded"}
  PROVE  Answered(h, answer) \in Handler /\ Frame(Answered(h, answer))
<1>1. CASE h.peer = "gone"
  BY <1>1, FreshFrame DEF Answered
<1>2. CASE h.peer # "gone"
  <2> DEFINE g == [h EXCEPT !.pc = "idle", !.answer = answer]
  <2>1. Answered(h, answer) = g
    BY <1>2 DEF Answered
  <2>2. g \in Handler
    BY AnswerType
  <2>3. Frame(g)
    BY DEF Frame, Grounded, Handler
  <2> QED BY <2>1, <2>2, <2>3
<1> QED BY <1>1, <1>2

\* Dropping a sender only tells a handler that still waits.
LEMMA DroppedFrames ==
  ASSUME NEW hs \in [Conn -> Handler], NEW holder, \A c \in Conn : Frame(hs[c])
  PROVE  /\ SenderDropped(hs, holder) \in [Conn -> Handler]
         /\ \A c \in Conn : Frame(SenderDropped(hs, holder)[c])
<1>1. CASE holder \in Conn /\ hs[holder].pc = "holding" /\ hs[holder].decision = "none"
  <2> DEFINE g == [hs[holder] EXCEPT !.decision = "dropped"]
  <2>1. SenderDropped(hs, holder) = [hs EXCEPT ![holder] = g]
    BY <1>1 DEF SenderDropped
  <2>2. g \in Handler
    <3>1. hs[holder] \in Handler
      BY <1>1
    <3> QED BY <3>1 DEF Handler
  <2>3. Frame(g)
    BY <1>1 DEF Frame, Grounded, Handler
  <2> HIDE DEF g
  <2> QED BY <1>1, <2>1, <2>2, <2>3
<1>2. CASE ~(holder \in Conn /\ hs[holder].pc = "holding" /\ hs[holder].decision = "none")
  BY <1>2 DEF SenderDropped
<1> QED BY <1>1, <1>2

\* A new value for one frame keeps every frame well formed.
LEMMA FrameUpdate ==
  ASSUME NEW hs \in [Conn -> Handler], \A d \in Conn : Frame(hs[d]),
         NEW c \in Conn, NEW g \in Handler, Frame(g)
  PROVE  /\ [hs EXCEPT ![c] = g] \in [Conn -> Handler]
         /\ \A d \in Conn : Frame([hs EXCEPT ![c] = g][d])
OBVIOUS

-----------------------------------------------------------------------------
(* New proposals *)

LEMMA GoverningType ==
  ASSUME TypeOK, NEW session \in Session, NEW requested \in ContractId \union {None}
  PROVE  /\ GoverningId(session, requested) \in ContractId \union {None}
         /\ Governing(session, requested) \in Contract \union {None}
         /\ KeyOf(session, requested) \in SessionKey
BY DEF TypeOK, GoverningId, Governing, KeyOf, SessionKey

LEMMA SegmentVerdictType ==
  ASSUME NEW effects \in Effects \union {Unknown}, NEW contract \in Contract, NEW history
  PROVE  /\ SegmentVerdict(effects, contract, history) \in SegVerdict
         /\ effects = Unknown => SegmentVerdict(effects, contract, history) = Pending
         /\ effects # Unknown => SegmentVerdict(effects, contract, history)
                                   = Check(effects, contract, LoopDetected(history))
BY CheckType, UnknownAssumption DEF SegmentVerdict, SegVerdict, LoopDetected

\* A frame built from well-typed parts is a frame.
LEMMA JudgingType ==
  ASSUME proposals \in Nat,
         NEW id \in Id, NEW requested \in ContractId \union {None},
         NEW mode \in {"daemon", "client"},
         NEW key \in SessionKey \union {None}, NEW contract \in Contract \union {None},
         NEW history \in Seq(EntryOf(Run)), NEW shapes \in Seq(Shape),
         NEW effects \in Seq(Effects \union {Unknown}), NEW verdicts \in Seq(SegVerdict)
  PROVE  Judging(id, requested, mode, key, contract, history, shapes, effects, verdicts)
           \in Handler
<1>1. "success" \in ExitClass
  BY DEF ExitClass
<1> QED BY <1>1 DEF Judging, Handler

\* A proposal no contract governs, or an edit of nothing, waits for a human.
LEMMA UngovernedFrame ==
  ASSUME proposals \in Nat, NEW id \in Id, NEW requested \in ContractId \union {None},
         NEW mode \in {"daemon", "client"}, NEW reason \in Reason
  PROVE  LET g == Judging(id, requested, mode, None, None, <<>>, <<>>, <<>>,
                          <<NeedsHuman(reason)>>)
         IN  g \in Handler /\ Frame(g)
<1>1. NeedsHuman(reason) \in SegVerdict
  BY DEF SegVerdict, Verdicts
<1>2. /\ <<NeedsHuman(reason)>> \in Seq(SegVerdict) /\ <<>> \in Seq(Shape)
      /\ <<>> \in Seq(EntryOf(Run)) /\ <<>> \in Seq(Effects \union {Unknown})
  BY <1>1
<1>3. Judging(id, requested, mode, None, None, <<>>, <<>>, <<>>, <<NeedsHuman(reason)>>)
        \in Handler
  BY <1>2, JudgingType
<1> QED BY <1>3 DEF Frame, Judging, NeedsHuman

\* Every segment of a command line starts out judged on its declared effects
\* or waiting for the twin; a line nobody could take apart starts out unknown.
LEMMA CommandFrameOK ==
  ASSUME TypeOK, NEW id \in Id, NEW session \in Session,
         NEW requested \in ContractId \union {None}, NEW mode \in {"daemon", "client"},
         NEW cmd \in Commands
  PROVE  LET g == CommandFrame(id, session, requested, mode, cmd) IN
         g \in Handler /\ Frame(g)
<1> DEFINE g == CommandFrame(id, session, requested, mode, cmd)
           contract == Governing(session, requested)
           key == KeyOf(session, requested)
<1>1. key \in SessionKey /\ contract \in Contract \union {None}
  BY GoverningType
<1>2. cmd \in Command /\ proposals \in Nat
  BY CommandsAssumption, BoundAssumption DEF TypeOK
<1>3. CASE contract = None
  BY <1>2, <1>3, UngovernedFrame DEF CommandFrame, Reason
<1>4. CASE contract # None
  <2> DEFINE segs == Segments(cmd)
             shapes == [k \in DOMAIN segs |-> segs[k].shape]
             effects == FirstEffects(cmd)
             history == histories[key]
             verdicts == FirstVerdicts(cmd, contract, history)
  <2>1. contract \in Contract /\ history \in Seq(EntryOf(Run))
    BY <1>1, <1>4 DEF TypeOK
  <2>2. /\ segs \in Seq(Segment) /\ cmd.segs \in Seq(Segment)
        /\ cmd.parse = "commands" => cmd.segs # <<>>
    BY <1>2 DEF Command, Segments
  <2>3. shapes \in Seq(Shape)
    <3>1. Len(segs) \in Nat /\ DOMAIN segs = 1 .. Len(segs)
      BY <2>2
    <3>2. \A k \in DOMAIN segs : segs[k].shape \in Shape
      <4> HIDE DEF segs
      <4> TAKE k \in DOMAIN segs
      <4>1. segs[k] \in Segment
        BY <2>2
      <4> QED BY <4>1 DEF Segment
    <3> HIDE DEF segs
    <3> QED BY <3>1, <3>2
  <2>4. /\ effects \in Seq(Effects \union {Unknown}) /\ verdicts \in Seq(SegVerdict)
        /\ DOMAIN effects = DOMAIN verdicts /\ verdicts # <<>>
        /\ \A k \in DOMAIN effects :
             \/ effects[k] = Unknown /\ verdicts[k].kind \in {"pending", "needs-human"}
             \/ /\ effects[k] \in Effects
                /\ verdicts[k] = Check(effects[k], contract, LoopDetected(history))
    <3>1. CASE cmd.parse = "commands"
      <4>1. /\ effects = [k \in DOMAIN cmd.segs |-> cmd.segs[k].effects]
            /\ verdicts = [k \in DOMAIN cmd.segs |->
                             SegmentVerdict(cmd.segs[k].effects, contract, history)]
        BY <3>1 DEF FirstEffects, FirstVerdicts
      <4>2. Len(cmd.segs) \in Nat /\ DOMAIN cmd.segs = 1 .. Len(cmd.segs)
        BY <2>2
      <4>3. \A k \in DOMAIN cmd.segs : cmd.segs[k].effects \in Effects \union {Unknown}
        <5> TAKE k \in DOMAIN cmd.segs
        <5>1. cmd.segs[k] \in Segment
          BY <2>2
        <5> QED BY <5>1 DEF Segment
      <4> HIDE DEF effects, verdicts, history, contract
      <4>4. ASSUME NEW k \in DOMAIN cmd.segs
            PROVE  /\ verdicts[k] \in SegVerdict
                   /\ \/ effects[k] = Unknown /\ verdicts[k].kind \in {"pending", "needs-human"}
                      \/ /\ effects[k] \in Effects
                         /\ verdicts[k] = Check(effects[k], contract, LoopDetected(history))
        <5> DEFINE e == cmd.segs[k].effects
        <5>1. effects[k] = e /\ verdicts[k] = SegmentVerdict(e, contract, history)
          BY <4>1
        <5>2. e \in Effects \union {Unknown}
          BY <4>3
        <5> HIDE DEF e
        <5>3. verdicts[k] \in SegVerdict
          BY <2>1, <5>1, <5>2, SegmentVerdictType
        <5>4. CASE e = Unknown
          BY <2>1, <5>1, <5>2, <5>3, <5>4, SegmentVerdictType DEF Pending
        <5>5. CASE e # Unknown
          BY <2>1, <5>1, <5>2, <5>3, <5>5, SegmentVerdictType
        <5> QED BY <5>4, <5>5
      <4>5. effects \in Seq(Effects \union {Unknown})
        BY <4>1, <4>2, <4>3
      <4>6. \A k \in 1 .. Len(cmd.segs) : verdicts[k] \in SegVerdict
        BY <4>2, <4>4
      <4>7. verdicts \in Seq(SegVerdict)
        <5> DEFINE n == Len(cmd.segs)
        <5>1. verdicts = [k \in 1 .. n |-> verdicts[k]]
          BY <4>1, <4>2
        <5> HIDE DEF n
        <5>2. verdicts \in [1 .. n -> SegVerdict]
          BY <4>6, <5>1 DEF n
        <5>3. n \in Nat
          BY <4>2 DEF n
        <5> QED BY <5>2, <5>3
      <4>8. verdicts # <<>>
        BY <2>2, <3>1, <4>1, <4>2
      <4> QED BY <4>1, <4>4, <4>5, <4>7, <4>8
    <3>2. CASE cmd.parse # "commands"
      <4>1. effects = <<Unknown>> /\ verdicts = <<NeedsHuman(cmd.parse)>>
        BY <3>2 DEF FirstEffects, FirstVerdicts
      <4>2. NeedsHuman(cmd.parse) \in SegVerdict
        BY <1>2, <3>2 DEF SegVerdict, Verdicts, Reason, Command, ParseOutcome
      <4> HIDE DEF effects, verdicts
      <4> QED BY <4>1, <4>2 DEF NeedsHuman
    <3> QED BY <3>1, <3>2
  <2>5. g = Judging(id, requested, mode, key, contract, history, shapes, effects, verdicts)
    BY <1>4 DEF CommandFrame
  <2> HIDE DEF g, key, contract, history, shapes, effects, verdicts
  <2>6. g \in Handler
    BY <1>1, <1>2, <2>1, <2>3, <2>4, <2>5, JudgingType
  <2>7. Frame(g)
    BY <1>4, <2>4, <2>5 DEF Frame, Grounded, Judging
  <2> QED BY <2>6, <2>7 DEF g
<1> QED BY <1>3, <1>4

\* An edit starts out judged on the paths it names, with no history.
LEMMA EditFrameOK ==
  ASSUME TypeOK, NEW id \in Id, NEW session \in Session,
         NEW requested \in ContractId \union {None}, NEW mode \in {"daemon", "client"},
         NEW effects \in Edits
  PROVE  LET g == EditFrame(id, session, requested, mode, effects) IN
         g \in Handler /\ Frame(g)
<1> DEFINE g == EditFrame(id, session, requested, mode, effects)
           contract == Governing(session, requested)
<1>1. contract \in Contract \union {None} /\ proposals \in Nat
  BY GoverningType, BoundAssumption DEF TypeOK
<1>2. CASE contract = None \/ Touched(effects) = {}
  BY <1>1, <1>2, UngovernedFrame DEF EditFrame, Reason
<1>3. CASE contract # None /\ Touched(effects) # {}
  <2>1. effects \in Effects /\ contract \in Contract
    BY <1>1, <1>3, EditsAssumption
  <2>2. Check(effects, contract, FALSE) \in SegVerdict
    BY <2>1, CheckType DEF SegVerdict
  <2>3. g = Judging(id, requested, mode, None, contract, <<>>, <<>>, <<effects>>,
                    <<Check(effects, contract, FALSE)>>)
    BY <1>3 DEF EditFrame
  <2> HIDE DEF g, contract
  <2> DEFINE v == Check(effects, contract, FALSE)
  <2> HIDE DEF v
  <2>4. /\ <<effects>> \in Seq(Effects \union {Unknown}) /\ <<v>> \in Seq(SegVerdict)
    <3>1. effects \in Effects \union {Unknown} /\ v \in SegVerdict
      BY <2>1, <2>2 DEF v
    <3> QED BY <3>1
  <2>5. g \in Handler
    <3>1. <<>> \in Seq(Shape) /\ <<>> \in Seq(EntryOf(Run))
      OBVIOUS
    <3> QED BY <1>1, <2>1, <2>3, <2>4, <3>1, JudgingType DEF v
  <2>6. Frame(g)
    <3>1. LoopDetected(<<>>) = FALSE
      BY NoLoopInEmptyHistory
    <3>2. v = Check(effects, contract, LoopDetected(<<>>))
      BY <3>1 DEF v
    <3>3. g = Judging(id, requested, mode, None, contract, <<>>, <<>>, <<effects>>, <<v>>)
      BY <2>3 DEF v
    <3>4. contract # None
      BY <1>3 DEF contract
    <3> QED BY <2>1, <3>2, <3>3, <3>4 DEF Frame, Grounded, Judging
  <2> QED BY <2>5, <2>6 DEF g
<1> QED BY <1>2, <1>3
-----------------------------------------------------------------------------
(* Later steps of a frame *)

\* What the twin settles is grounded in what it observed, or known by nobody.
LEMMA SettledFrame ==
  ASSUME NEW h \in Handler, Frame(h), h.pc = "judging", NEW k \in Awaiting(h),
         NEW verdict \in Verdicts, NEW effects \in Effects \union {Unknown},
         \/ effects = Unknown /\ verdict.kind = "needs-human"
         \/ /\ effects \in Effects
            /\ verdict = Check(effects, h.contract, LoopDetected(h.history))
  PROVE  LET g == [h EXCEPT !.verdicts[k] = verdict, !.effects[k] = effects] IN
         g \in Handler /\ Frame(g)
<1> DEFINE vs == [h.verdicts EXCEPT ![k] = verdict]
           es == [h.effects EXCEPT ![k] = effects]
           g == [h EXCEPT !.verdicts[k] = verdict, !.effects[k] = effects]
<1>1. k \in DOMAIN h.verdicts /\ h.verdicts[k].kind = "pending"
  BY DEF Awaiting, Pending
<1>2. h.contract # None /\ DOMAIN h.effects = DOMAIN h.verdicts
  BY <1>1 DEF Frame
<1>3. h.verdicts \in Seq(SegVerdict) /\ h.effects \in Seq(Effects \union {Unknown})
  BY DEF Handler
<1>4. vs \in Seq(SegVerdict)
  <2>1. verdict \in SegVerdict
    BY DEF SegVerdict
  <2> QED BY <1>1, <1>3, <2>1, UpdateType
<1>5. es \in Seq(Effects \union {Unknown})
  BY <1>1, <1>2, <1>3, UpdateType
<1>6. DOMAIN es = DOMAIN h.effects /\ DOMAIN vs = DOMAIN h.verdicts
  OBVIOUS
<1>7. \A j \in DOMAIN es :
        \/ es[j] = Unknown /\ vs[j].kind \in {"pending", "needs-human"}
        \/ es[j] \in Effects /\ vs[j] = Check(es[j], h.contract, LoopDetected(h.history))
  <2> TAKE j \in DOMAIN es
  <2>1. CASE j = k
    BY <1>1, <1>2, <2>1
  <2>2. CASE j # k
    <3>1. es[j] = h.effects[j] /\ vs[j] = h.verdicts[j]
      BY <1>6, <2>2
    <3> QED BY <1>2, <1>6, <3>1 DEF Frame, Grounded
  <2> QED BY <2>1, <2>2
<1>8. g = [h EXCEPT !.verdicts = vs, !.effects = es]
  BY DEF Handler
<1> HIDE DEF vs, es, g
<1>9. g \in Handler
  BY <1>4, <1>5, <1>8 DEF Handler
<1>10. /\ g.verdicts = vs /\ g.effects = es /\ g.contract = h.contract
       /\ g.history = h.history /\ g.key = h.key /\ g.pc = h.pc /\ g.id = h.id
       /\ g.class = h.class /\ g.shapes = h.shapes /\ g.decision = h.decision
       /\ g.mode = h.mode
  BY <1>8 DEF Handler
<1>11. Frame(g)
  BY <1>2, <1>6, <1>7, <1>10 DEF Frame, Grounded
<1> QED BY <1>9, <1>11 DEF g

\* An approved proposal owes a report only if a contract governed it.
LEMMA SavedReportsType ==
  ASSUME TypeOK, NEW h \in Handler, Frame(h), h.pc # "idle"
  PROVE  SavedReports(h) \in [Id -> PendingReport \union {None}]
<1>1. CASE h.key = None
  BY <1>1 DEF SavedReports, TypeOK
<1>2. CASE h.key # None
  <2> DEFINE report == [key |-> h.key, shapes |-> h.shapes,
                        run |-> [serial |-> h.serial, contract |-> h.contract]]
  <2>1. h.key \in SessionKey /\ h.contract \in Contract /\ h.id \in Id
    BY <1>2 DEF Handler, Frame
  <2>2. h.shapes \in Seq(Shape) /\ h.serial \in Nat
    BY DEF Handler
  <2>3. report \in PendingReport
    BY <2>1, <2>2 DEF PendingReport, Run
  <2>4. SavedReports(h) = [pendingReports EXCEPT ![h.id] = report]
    BY <1>2 DEF SavedReports
  <2> QED BY <2>1, <2>3, <2>4 DEF TypeOK
<1> QED BY <1>1, <1>2

LEMMA RecordingFrame ==
  ASSUME NEW id \in Id, NEW report \in PendingReport, NEW class \in ExitClass
  PROVE  Recording(id, report, class) \in Handler /\ Frame(Recording(id, report, class))
<1>1. /\ <<>> \in Seq(EntryOf(Run)) /\ <<>> \in Seq(SegVerdict)
      /\ <<>> \in Seq(Effects \union {Unknown})
  OBVIOUS
<1>2. /\ report.key \in SessionKey /\ report.shapes \in Seq(Shape)
      /\ report.run.serial \in Nat /\ report.run.contract \in Contract
  BY DEF PendingReport, Run
<1>3. report.key # None /\ report.run.contract # None
  BY <1>2, NoneAssumption
<1> QED BY <1>1, <1>2, <1>3 DEF Recording, Handler, Frame

-----------------------------------------------------------------------------
(* Every action keeps the types and the frames. *)

LEMMA TypedInit == Init => Typed
<1> SUFFICES ASSUME Init PROVE Typed
  OBVIOUS
<1>1. handlers \in [Conn -> Handler] /\ \A c \in Conn : Frame(handlers[c])
  BY FreshFrame DEF Init
<1>2. \A key \in SessionKey : histories[key] \in Seq(EntryOf(Run)) /\ Len(histories[key]) <= Window
  BY WindowAssumption DEF Init
<1> QED BY <1>1, <1>2, BoundAssumption DEF Init, Typed, TypeOK

\* A step that touches only the frames and the maps of pending work.
LEMMA HandlersStep ==
  ASSUME Typed, UNCHANGED <<registry, histories>>,
         handlers' \in [Conn -> Handler], \A c \in Conn : Frame(handlers'[c]),
         pendingHolds' \in [Id -> Conn \union {None, Orphan}],
         pendingReports' \in [Id -> PendingReport \union {None}],
         proposals' \in 0 .. MaxProposals
  PROVE  Typed'
BY DEF Typed, TypeOK, registry

LEMMA SetContractTyped ==
  ASSUME Typed, NEW reg \in Registrable, SetContract(reg[1], reg[2])
  PROVE  Typed'
<1>1. reg[1] \in ContractId \union {None} /\ reg[2] \in Contract
  BY RegistrableAssumption
<1> QED BY <1>1 DEF SetContract, Typed, TypeOK

LEMMA BindSessionType ==
  ASSUME TypeOK, NEW session \in Session, NEW requested \in ContractId \union {None},
         BindSession(session, requested)
  PROVE  sessionContracts' \in [Session -> ContractId \union {None}]
BY DEF BindSession, TypeOK

LEMMA ProposeTyped ==
  ASSUME Typed, NEW c \in Conn, NEW id \in Id, NEW session \in Session,
         NEW requested \in ContractId \union {None}, NEW mode \in {"daemon", "client"}
  PROVE  /\ \A cmd \in Commands : Propose(c, id, session, requested, mode, cmd) => Typed'
         /\ \A effects \in Edits : ProposeEdit(c, id, session, requested, mode, effects) => Typed'
<1>1. ASSUME NEW g \in Handler, Frame(g), handlers' = [handlers EXCEPT ![c] = g],
             sessionContracts' \in [Session -> ContractId \union {None}],
             proposals < MaxProposals, proposals' = proposals + 1,
             UNCHANGED <<activeContract, contracts, histories, pendingHolds, pendingReports>>
      PROVE  Typed'
  <2>1. handlers' \in [Conn -> Handler] /\ \A d \in Conn : Frame(handlers'[d])
    BY <1>1, FrameUpdate DEF Typed, TypeOK
  <2>2. proposals' \in 0 .. MaxProposals
    BY <1>1, BoundAssumption DEF Typed, TypeOK
  <2> QED BY <1>1, <2>1, <2>2 DEF Typed, TypeOK
<1>2. ASSUME NEW cmd \in Commands, Propose(c, id, session, requested, mode, cmd) PROVE Typed'
  <2>1. sessionContracts' \in [Session -> ContractId \union {None}]
    BY <1>2, BindSessionType DEF Propose, Typed
  <2> QED BY <1>1, <1>2, <2>1, CommandFrameOK DEF Propose, Typed
<1>3. ASSUME NEW effects \in Edits, ProposeEdit(c, id, session, requested, mode, effects)
      PROVE  Typed'
  <2>1. sessionContracts' \in [Session -> ContractId \union {None}]
    BY <1>3, BindSessionType DEF ProposeEdit, Typed, TypeOK
  <2> QED BY <1>1, <1>3, <2>1, EditFrameOK DEF ProposeEdit, Typed
<1> QED BY <1>2, <1>3

LEMMA TwinTyped == ASSUME Typed, NEW c \in Conn, Twin(c) PROVE Typed'
<1> DEFINE h == handlers[c]
           k == First(Awaiting(h))
<1>1. h \in Handler /\ Frame(h) /\ handlers \in [Conn -> Handler] /\ \A d \in Conn : Frame(handlers[d])
  BY DEF Typed, TypeOK
<1>2. h.pc = "judging" /\ Awaiting(h) # {}
  BY DEF Twin, TwinObserves, TwinFails
<1>3. k \in Awaiting(h)
  <2>1. Awaiting(h) \in SUBSET Nat
    BY <1>1 DEF Awaiting, Handler
  <2> QED BY <1>2, <2>1, FirstOfPositions
<1>4. ASSUME NEW verdict \in Verdicts, NEW effects \in Effects \union {Unknown},
             \/ effects = Unknown /\ verdict.kind = "needs-human"
             \/ /\ effects \in Effects
                /\ verdict = Check(effects, h.contract, LoopDetected(h.history)),
             TwinSettles(c, verdict, effects)
      PROVE  Typed'
  <2> DEFINE g == [h EXCEPT !.verdicts[k] = verdict, !.effects[k] = effects]
  <2>1. g \in Handler /\ Frame(g)
    BY <1>1, <1>2, <1>3, <1>4, SettledFrame
  <2>2. handlers' = [handlers EXCEPT ![c] = g]
    BY <1>4 DEF TwinSettles
  <2> HIDE DEF g
  <2>3. handlers' \in [Conn -> Handler] /\ \A d \in Conn : Frame(handlers'[d])
    BY <1>1, <2>1, <2>2, FrameUpdate
  <2> QED BY <1>4, <2>3, HandlersStep DEF TwinSettles, Typed, TypeOK
<1>5. ASSUME NEW effects \in TwinEffects, TwinObserves(c, effects) PROVE Typed'
  <2>1. effects \in Effects
    BY TwinAssumption
  <2>2. h.contract \in Contract
    BY <1>1, <1>2 DEF Frame, Handler, Awaiting, Pending
  <2>3. Check(effects, h.contract, LoopDetected(h.history)) \in Verdicts
    BY <2>1, <2>2, CheckType DEF LoopDetected
  <2> QED BY <1>4, <1>5, <2>1, <2>3 DEF TwinObserves
<1>6. ASSUME NEW reason \in {"opaque", "twin-timeout"}, TwinFails(c, reason) PROVE Typed'
  <2>1. NeedsHuman(reason) \in Verdicts /\ NeedsHuman(reason).kind = "needs-human"
    BY DEF Verdicts, NeedsHuman, Reason
  <2> QED BY <1>4, <1>6, <2>1 DEF TwinFails
<1> QED BY <1>5, <1>6 DEF Twin

LEMMA RespondTyped == ASSUME Typed, NEW c \in Conn, Respond(c) PROVE Typed'
<1> DEFINE h == handlers[c]
<1>1. /\ h \in Handler /\ Frame(h)
      /\ handlers \in [Conn -> Handler] /\ \A d \in Conn : Frame(handlers[d])
      /\ pendingHolds \in [Id -> Conn \union {None, Orphan}]
      /\ pendingReports \in [Id -> PendingReport \union {None}]
      /\ proposals \in 0 .. MaxProposals
  BY DEF Typed, TypeOK
<1>2. h.pc = "judging" /\ h.id \in Id
  <2>1. h.pc = "judging"
    BY DEF Respond, RespondAllow, RespondBlock, RespondHold, RespondHoldToClient, Judged, Unsure
  <2> QED BY <1>1, <2>1 DEF Frame
<1>3. ASSUME NEW answer \in {"allow", "block", "hold", "recorded"},
             handlers' = [handlers EXCEPT ![c] = Answered(h, answer)]
      PROVE  handlers' \in [Conn -> Handler] /\ \A d \in Conn : Frame(handlers'[d])
  BY <1>1, <1>3, AnsweredFrame, FrameUpdate
<1>4. CASE RespondAllow(c)
  <2>1. pendingReports' \in [Id -> PendingReport \union {None}]
    BY <1>1, <1>2, <1>4, SavedReportsType DEF RespondAllow, Typed
  <2> QED BY <1>1, <1>3, <1>4, <2>1, HandlersStep DEF RespondAllow
<1>5. CASE RespondBlock(c)
  BY <1>1, <1>3, <1>5, HandlersStep DEF RespondBlock
<1>6. CASE RespondHoldToClient(c)
  BY <1>1, <1>3, <1>6, HandlersStep DEF RespondHoldToClient
<1>7. CASE RespondHold(c)
  <2> DEFINE lost == h.peer = "gone"
             hs == SenderDropped(handlers, pendingHolds[h.id])
             g == IF lost THEN Fresh ELSE [h EXCEPT !.pc = "holding", !.answer = "hold"]
  <2>1. hs \in [Conn -> Handler] /\ (\A d \in Conn : Frame(hs[d])) /\ hs[c] = h
    <3>1. hs[c] = h
      BY <1>1, <1>2 DEF SenderDropped
    <3> QED BY <1>1, <3>1, DroppedFrames
  <2>2. g \in Handler /\ Frame(g)
    <3>1. CASE lost
      BY <3>1, FreshFrame
    <3>2. CASE ~lost
      <4> DEFINE f == [h EXCEPT !.pc = "holding", !.answer = "hold"]
      <4>1. f \in Handler
        BY <1>1, AnswerType
      <4>2. Frame(f)
        BY <1>1, <1>2, <1>7 DEF Frame, Grounded, Handler, RespondHold
      <4> QED BY <3>2, <4>1, <4>2
    <3> QED BY <3>1, <3>2
  <2>3. handlers' = [hs EXCEPT ![c] = g]
    BY <1>7, <2>1 DEF RespondHold
  <2>4. pendingHolds' \in [Id -> Conn \union {None, Orphan}]
    BY <1>1, <1>2, <1>7 DEF RespondHold
  <2> HIDE DEF hs, g
  <2>5. handlers' \in [Conn -> Handler] /\ \A d \in Conn : Frame(handlers'[d])
    BY <2>1, <2>2, <2>3, FrameUpdate
  <2> QED BY <1>1, <1>7, <2>4, <2>5, HandlersStep DEF RespondHold
<1> QED BY <1>4, <1>5, <1>6, <1>7 DEF Respond

LEMMA DecisionType ==
  ASSUME NEW h \in Handler, NEW decision \in {"approve", "reject"}
  PROVE  [h EXCEPT !.decision = decision] \in Handler
BY DEF Handler

LEMMA HoldTyped ==
  ASSUME Typed
  PROVE  /\ \A id \in Id, decision \in {"approve", "reject"} : Resolve(id, decision) => Typed'
         /\ \A c \in Conn : HoldExpire(c) \/ HoldFinish(c) => Typed'
<1>1. /\ handlers \in [Conn -> Handler] /\ \A d \in Conn : Frame(handlers[d])
      /\ pendingHolds \in [Id -> Conn \union {None, Orphan}]
      /\ pendingReports \in [Id -> PendingReport \union {None}]
      /\ proposals \in 0 .. MaxProposals
  BY DEF Typed, TypeOK
<1>2. ASSUME NEW id \in Id, NEW decision \in {"approve", "reject"}, Resolve(id, decision)
      PROVE  Typed'
  <2> DEFINE holder == pendingHolds[id]
  <2>1. pendingHolds' \in [Id -> Conn \union {None, Orphan}]
    BY <1>1, <1>2 DEF Resolve
  <2>2. CASE holder \in Conn /\ handlers[holder].pc = "holding"
    <3> DEFINE g == [handlers[holder] EXCEPT !.decision = decision]
    <3>1. handlers[holder] \in Handler /\ Frame(handlers[holder])
      BY <1>1, <2>2
    <3>2. g \in Handler
      BY <3>1, DecisionType
    <3>3. Frame(g)
      BY <2>2, <3>1 DEF Frame, Grounded, Handler
    <3>4. handlers' = [handlers EXCEPT ![holder] = g]
      BY <1>2, <2>2 DEF Resolve
    <3> HIDE DEF g
    <3>5. handlers' \in [Conn -> Handler] /\ \A d \in Conn : Frame(handlers'[d])
      BY <1>1, <2>2, <3>2, <3>3, <3>4, FrameUpdate
    <3> QED BY <1>1, <1>2, <2>1, <3>5, HandlersStep DEF Resolve
  <2>3. CASE ~(holder \in Conn /\ handlers[holder].pc = "holding")
    BY <1>1, <1>2, <2>1, <2>3, HandlersStep DEF Resolve
  <2> QED BY <2>2, <2>3
<1>3. ASSUME NEW c \in Conn, HoldExpire(c) PROVE Typed'
  <2> DEFINE g == [handlers[c] EXCEPT !.pc = "expired"]
  <2>1. handlers[c] \in Handler /\ Frame(handlers[c])
    BY <1>1
  <2>2. g \in Handler
    BY <2>1 DEF Handler
  <2>3. Frame(g)
    BY <1>3, <2>1 DEF Frame, Grounded, Handler, HoldExpire
  <2>4. handlers' = [handlers EXCEPT ![c] = g]
    BY <1>3 DEF HoldExpire
  <2> HIDE DEF g
  <2>5. handlers' \in [Conn -> Handler] /\ \A d \in Conn : Frame(handlers'[d])
    BY <1>1, <2>2, <2>3, <2>4, FrameUpdate
  <2> QED BY <1>1, <1>3, <2>5, HandlersStep DEF HoldExpire
<1>4. ASSUME NEW c \in Conn, HoldFinish(c) PROVE Typed'
  <2> DEFINE h == handlers[c]
             approved == h.pc = "holding" /\ h.decision = "approve"
             hs == SenderDropped(handlers, pendingHolds[h.id])
             g == Answered(h, IF approved THEN "allow" ELSE "block")
  <2>1. h \in Handler /\ Frame(h) /\ h.pc # "idle"
    BY <1>1, <1>4 DEF HoldFinish
  <2>2. hs \in [Conn -> Handler] /\ \A d \in Conn : Frame(hs[d])
    BY <1>1, DroppedFrames
  <2>3. g \in Handler /\ Frame(g)
    BY <2>1, AnsweredFrame
  <2>4. handlers' = [hs EXCEPT ![c] = g]
    BY <1>4 DEF HoldFinish
  <2>5. pendingHolds' \in [Id -> Conn \union {None, Orphan}]
    BY <1>1, <1>4 DEF HoldFinish
  <2>6. pendingReports' \in [Id -> PendingReport \union {None}]
    BY <1>1, <1>4, <2>1, SavedReportsType DEF HoldFinish, Typed
  <2> HIDE DEF hs, g
  <2>7. handlers' \in [Conn -> Handler] /\ \A d \in Conn : Frame(handlers'[d])
    BY <2>2, <2>3, <2>4, FrameUpdate
  <2> QED BY <1>1, <1>4, <2>5, <2>6, <2>7, HandlersStep DEF HoldFinish
<1> QED BY <1>2, <1>3, <1>4

LEMMA ReportTyped ==
  ASSUME Typed, NEW c \in Conn
  PROVE  /\ \A id \in Id, class \in Exits : ReportTake(c, id, class) => Typed'
         /\ ReportAppend(c) => Typed'
<1>1. /\ handlers \in [Conn -> Handler] /\ \A d \in Conn : Frame(handlers[d])
      /\ pendingHolds \in [Id -> Conn \union {None, Orphan}]
      /\ pendingReports \in [Id -> PendingReport \union {None}]
      /\ proposals \in 0 .. MaxProposals
      /\ histories \in [SessionKey -> Seq(EntryOf(Run))]
      /\ \A key \in SessionKey : Len(histories[key]) <= Window
  BY DEF Typed, TypeOK
<1>2. ASSUME NEW id \in Id, NEW class \in Exits, ReportTake(c, id, class)
      PROVE  Typed'
  <2> DEFINE g == Recording(id, pendingReports[id], class)
  <2>1. class \in ExitClass
    BY ExitsAssumption
  <2>2. pendingReports[id] \in PendingReport
    BY <1>1, <1>2 DEF ReportTake
  <2>3. g \in Handler /\ Frame(g)
    BY <2>1, <2>2, RecordingFrame
  <2>4. handlers' = [handlers EXCEPT ![c] = g]
    BY <1>2 DEF ReportTake
  <2>5. pendingReports' \in [Id -> PendingReport \union {None}]
    BY <1>1, <1>2 DEF ReportTake
  <2> HIDE DEF g
  <2>6. handlers' \in [Conn -> Handler] /\ \A d \in Conn : Frame(handlers'[d])
    BY <1>1, <2>3, <2>4, FrameUpdate
  <2> QED BY <1>1, <1>2, <2>5, <2>6, HandlersStep DEF ReportTake
<1>3. ASSUME ReportAppend(c) PROVE Typed'
  <2> DEFINE h == handlers[c]
             run == [serial |-> h.serial, contract |-> h.contract]
             new == RecordExecutions(histories[h.key], h.shapes, h.class, run)
  <2>1. h \in Handler /\ Frame(h) /\ h.pc = "recording"
    BY <1>1, <1>3 DEF ReportAppend
  <2>2. /\ h.key \in SessionKey /\ h.contract \in Contract /\ h.serial \in Nat
        /\ h.shapes \in Seq(Shape) /\ h.class \in ExitClass
    BY <2>1 DEF Frame, Handler
  <2>3. run \in Run
    BY <2>2 DEF Run
  <2>5. new \in Seq(EntryOf(Run)) /\ Len(new) <= Window
    BY <1>1, <2>2, <2>3, RecordExecutionsType
  <2>6. handlers' \in [Conn -> Handler] /\ \A d \in Conn : Frame(handlers'[d])
    BY <1>1, <1>3, <2>1, AnsweredFrame, FrameUpdate DEF ReportAppend
  <2>7. histories' = [histories EXCEPT ![h.key] = new]
    BY <1>3 DEF ReportAppend
  <2> HIDE DEF new
  <2>8. /\ histories' \in [SessionKey -> Seq(EntryOf(Run))]
        /\ \A key \in SessionKey : Len(histories'[key]) <= Window
    BY <1>1, <2>2, <2>5, <2>7
  <2> QED BY <1>3, <2>6, <2>8 DEF ReportAppend, Typed, TypeOK, registry
<1> QED BY <1>2, <1>3

LEMMA FailureTyped ==
  ASSUME Typed
  PROVE  (\A c \in Conn : ClientGone(c) => Typed') /\ (Restart => Typed')
<1>1. ASSUME NEW c \in Conn, ClientGone(c) PROVE Typed'
  <2> DEFINE h == handlers[c]
             g == IF h.pc = "idle" THEN Fresh ELSE [h EXCEPT !.peer = "gone"]
  <2>1. h \in Handler /\ Frame(h) /\ handlers \in [Conn -> Handler] /\ \A d \in Conn : Frame(handlers[d])
    BY DEF Typed, TypeOK
  <2>2. g \in Handler /\ Frame(g)
    <3>1. CASE h.pc = "idle"
      BY <3>1, FreshFrame
    <3>2. CASE h.pc # "idle"
      <4> DEFINE f == [h EXCEPT !.peer = "gone"]
      <4>1. f \in Handler
        BY <2>1 DEF Handler
      <4>2. Frame(f)
        BY <2>1 DEF Frame, Grounded, Handler
      <4> QED BY <3>2, <4>1, <4>2
    <3> QED BY <3>1, <3>2
  <2>3. handlers' = [handlers EXCEPT ![c] = g]
    BY <1>1 DEF ClientGone
  <2> HIDE DEF g
  <2>4. handlers' \in [Conn -> Handler] /\ \A d \in Conn : Frame(handlers'[d])
    BY <2>1, <2>2, <2>3, FrameUpdate
  <2> QED BY <1>1, <2>4, HandlersStep DEF ClientGone, Typed, TypeOK
<1>2. ASSUME Restart PROVE Typed'
  <2>1. handlers' \in [Conn -> Handler] /\ \A d \in Conn : Frame(handlers'[d])
    BY <1>2, FreshFrame DEF Restart
  <2>2. /\ histories' \in [SessionKey -> Seq(EntryOf(Run))]
        /\ \A key \in SessionKey : Len(histories'[key]) <= Window
    BY <1>2, WindowAssumption DEF Restart
  <2> QED BY <1>2, <2>1, <2>2 DEF Restart, Typed, TypeOK
<1> QED BY <1>1, <1>2

LEMMA TypedStep == Typed /\ [Next]_vars => Typed'
<1> SUFFICES ASSUME Typed, [Next]_vars PROVE Typed'
  OBVIOUS
<1>1. ASSUME NEW c \in Conn, Request(c) PROVE Typed'
  BY <1>1, ProposeTyped, ReportTyped, BoundAssumption DEF Request
<1>2. CASE UNCHANGED vars
  BY <1>2 DEF vars, Typed, TypeOK
<1> QED BY <1>1, <1>2, SetContractTyped, TwinTyped, RespondTyped, HoldTyped, ReportTyped,
       FailureTyped DEF Next

\* The state never leaves its types, and no history outgrows its window.
THEOREM TypeCorrect == Spec => []TypeOK
<1>1. Spec => []Typed
  BY TypedInit, TypedStep, PTL DEF Spec
<1> QED BY <1>1, PTL DEF Typed

-----------------------------------------------------------------------------
(***************************************************************************)
(* What the daemon's answers mean, for any number of everything.  On top   *)
(* of the types and frames, three facts hold of each frame by itself - an  *)
(* allowed command is justified, a human is asked only when unsure, a      *)
(* decision is honoured - and one relates the frames to pending_holds.     *)
(***************************************************************************)

\* AllowJustified, of one frame.
Justified(h) ==
  h.pc = "idle" /\ h.answer = "allow" /\ h.decision # "approve" =>
    /\ h.contract # None
    /\ ~LoopDetected(h.history)
    /\ \A k \in DOMAIN h.effects : h.effects[k] # Unknown /\ Permits(h.contract, h.effects[k])

\* ApprovalOnlyWhenUnsure, of one frame, kept while the hold runs out as well.
Asked(h) ==
  h.pc \in {"holding", "expired"} \/ h.decision # "none" =>
    /\ AllProofs(h.verdicts) = {}
    /\ \A k \in DOMAIN h.verdicts : h.verdicts[k].kind \in {"in-scope", "needs-human"}

\* ResolveHonoured, of one frame.
Honoured(h) ==
  /\ h.pc = "expired" => h.decision = "none"
  /\ h.pc = "idle" /\ h.decision = "approve" => h.answer = "allow"
  /\ h.pc = "idle" /\ h.decision = "reject" => h.answer = "block"

Kept(h) == Justified(h) /\ Asked(h) /\ Honoured(h)

\* The inductive invariant of this module.
Sound == Typed /\ \A c \in Conn : Kept(handlers[c])

\* A frame that is judging or recording, and fresh from its request, promises nothing.
LEMMA BusyKept ==
  ASSUME NEW h, h.pc \in {"judging", "recording"}, h.decision = "none"
  PROVE  Kept(h)
BY DEF Kept, Justified, Asked, Honoured

LEMMA FreshKept == Kept(Fresh)
BY DEF Kept, Justified, Asked, Honoured, Fresh

\* A judged frame whose verdicts combine to in-scope: everything it does is known,
\* permitted, and no loop stands against it.
LEMMA InScopeMeaning ==
  ASSUME NEW h \in Handler, Frame(h), Judged(h), CombineVerdicts(h.verdicts).kind = "in-scope"
  PROVE  /\ h.contract # None /\ ~LoopDetected(h.history)
         /\ \A k \in DOMAIN h.effects : h.effects[k] # Unknown /\ Permits(h.contract, h.effects[k])
<1>1. h.verdicts \in Seq(SegVerdict) /\ h.verdicts # <<>> /\ h.pc = "judging"
  BY DEF Handler, Frame, Judged
<1>2. \A k \in 1 .. Len(h.verdicts) : h.verdicts[k] \in Verdicts
  BY <1>1 DEF Judged, Awaiting, SegVerdict
<1>3. h.verdicts \in Seq(Verdicts)
  <2>1. h.verdicts \in [1 .. Len(h.verdicts) -> Verdicts] /\ Len(h.verdicts) \in Nat
    BY <1>1, <1>2
  <2> QED BY <2>1
<1>4. \A k \in DOMAIN h.verdicts : h.verdicts[k].kind = "in-scope"
  BY <1>3, CombineInScope
<1>5. 1 \in DOMAIN h.verdicts
  BY <1>1
<1>6. h.contract \in Contract
  BY <1>4, <1>5 DEF Handler, Frame
<1>7. \A k \in DOMAIN h.effects :
        /\ h.effects[k] \in Effects /\ h.effects[k] # Unknown
        /\ ~LoopDetected(h.history) /\ Permits(h.contract, h.effects[k])
  <2> TAKE k \in DOMAIN h.effects
  <2>1. h.verdicts[k].kind = "in-scope" /\ Grounded(h, k)
    BY <1>4, <1>6, NoneAssumption DEF Frame
  <2>2. /\ h.effects[k] \in Effects
        /\ h.verdicts[k] = Check(h.effects[k], h.contract, LoopDetected(h.history))
    BY <2>1 DEF Grounded
  <2>3. LoopDetected(h.history) \in BOOLEAN
    BY DEF LoopDetected
  <2> QED BY <1>6, <2>1, <2>2, <2>3, CheckInScope, UnknownAssumption
<1>8. DOMAIN h.effects = DOMAIN h.verdicts
  BY <1>6, NoneAssumption DEF Frame
<1> QED BY <1>5, <1>6, <1>7, <1>8, NoneAssumption

\* A judged frame whose verdicts combine to a question: nothing it is known to
\* do violates the contract, and no loop stands against it.
LEMMA UnsureMeaning ==
  ASSUME NEW h \in Handler, Unsure(h)
  PROVE  /\ AllProofs(h.verdicts) = {}
         /\ \A k \in DOMAIN h.verdicts : h.verdicts[k].kind \in {"in-scope", "needs-human"}
<1>1. h.verdicts \in Seq(SegVerdict)
  BY DEF Handler
<1>2. \A k \in 1 .. Len(h.verdicts) : h.verdicts[k] \in Verdicts
  BY <1>1 DEF Judged, Awaiting, SegVerdict, Unsure
<1>3. h.verdicts \in [1 .. Len(h.verdicts) -> Verdicts] /\ Len(h.verdicts) \in Nat
  BY <1>1, <1>2
<1>4. h.verdicts \in Seq(Verdicts)
  BY <1>3
<1> QED BY <1>4, CombineNeedsHuman DEF Unsure

-----------------------------------------------------------------------------
(* One frame at a time *)

\* An answer given by a frame that kept its promises keeps them too.
LEMMA AnsweredKept ==
  ASSUME NEW h \in Handler, Frame(h), Kept(h), NEW answer \in {"allow", "block", "hold", "recorded"},
         h.pc \in {"judging", "recording", "holding", "expired"},
         answer = "allow" =>
           \/ h.pc = "holding" /\ h.decision = "approve"
           \/ Judged(h) /\ CombineVerdicts(h.verdicts).kind = "in-scope",
         h.decision = "approve" => answer = "allow",
         h.decision = "reject" => answer = "block"
  PROVE  Kept(Answered(h, answer))
<1>1. CASE h.peer = "gone"
  BY <1>1, FreshKept DEF Answered
<1>2. CASE h.peer # "gone"
  <2> DEFINE g == [h EXCEPT !.pc = "idle", !.answer = answer]
  <2>1. Answered(h, answer) = g
    BY <1>2 DEF Answered
  <2>2. /\ g.pc = "idle" /\ g.answer = answer /\ g.decision = h.decision
        /\ g.contract = h.contract /\ g.history = h.history
        /\ g.effects = h.effects /\ g.verdicts = h.verdicts
    BY DEF Handler
  <2> HIDE DEF g
  <2>3. Justified(g)
    BY <2>2, InScopeMeaning DEF Justified
  <2>4. Asked(g)
    BY <2>2 DEF Kept, Asked
  <2>5. Honoured(g)
    BY <2>2 DEF Honoured
  <2> QED BY <2>1, <2>3, <2>4, <2>5 DEF Kept
<1> QED BY <1>1, <1>2

\* A waiting frame may be told a decision, or have its timer fire before one.
LEMMA HeldKept ==
  ASSUME NEW h \in Handler, Kept(h), h.pc = "holding"
  PROVE  /\ \A decision \in {"approve", "reject", "dropped"} : Kept([h EXCEPT !.decision = decision])
         /\ h.decision = "none" => Kept([h EXCEPT !.pc = "expired"])
<1>1. ASSUME NEW decision \in {"approve", "reject", "dropped"}
      PROVE  Kept([h EXCEPT !.decision = decision])
  BY <1>1 DEF Kept, Justified, Asked, Honoured, Handler
<1>2. ASSUME h.decision = "none" PROVE Kept([h EXCEPT !.pc = "expired"])
  BY <1>2 DEF Kept, Justified, Asked, Honoured, Handler
<1> QED BY <1>1, <1>2

LEMMA DroppedKept ==
  ASSUME NEW hs \in [Conn -> Handler], NEW holder, \A c \in Conn : Kept(hs[c])
  PROVE  \A c \in Conn : Kept(SenderDropped(hs, holder)[c])
<1>1. CASE holder \in Conn /\ hs[holder].pc = "holding" /\ hs[holder].decision = "none"
  <2>1. SenderDropped(hs, holder) = [hs EXCEPT ![holder] = [hs[holder] EXCEPT !.decision = "dropped"]]
    BY <1>1 DEF SenderDropped
  <2>2. Kept([hs[holder] EXCEPT !.decision = "dropped"])
    BY <1>1, HeldKept
  <2> QED BY <1>1, <2>1, <2>2
<1>2. CASE ~(holder \in Conn /\ hs[holder].pc = "holding" /\ hs[holder].decision = "none")
  BY <1>2 DEF SenderDropped
<1> QED BY <1>1, <1>2

\* A new value for one frame.
LEMMA KeptUpdate ==
  ASSUME NEW hs \in [Conn -> Handler], \A d \in Conn : Kept(hs[d]),
         NEW c \in Conn, NEW g, Kept(g), handlers' = [hs EXCEPT ![c] = g]
  PROVE  \A d \in Conn : Kept(handlers'[d])
OBVIOUS

LEMMA SoundStep == Sound /\ [Next]_vars => Sound'
<1> SUFFICES ASSUME Sound, [Next]_vars PROVE \A d \in Conn : Kept(handlers'[d])
  BY TypedStep DEF Sound
<1> USE DEF Sound
<1>1. /\ Typed /\ handlers \in [Conn -> Handler]
      /\ \A d \in Conn : handlers[d] \in Handler /\ Frame(handlers[d]) /\ Kept(handlers[d])
  BY DEF Typed, TypeOK
<1>2. CASE \E reg \in Registrable : SetContract(reg[1], reg[2])
  BY <1>1, <1>2 DEF SetContract
<1>3. ASSUME NEW id \in Id, NEW decision \in {"approve", "reject"}, Resolve(id, decision)
      PROVE  \A d \in Conn : Kept(handlers'[d])
  <2> DEFINE holder == pendingHolds[id]
  <2>1. CASE holder \in Conn /\ handlers[holder].pc = "holding"
    <3>1. handlers' = [handlers EXCEPT ![holder] = [handlers[holder] EXCEPT !.decision = decision]]
      BY <1>3, <2>1 DEF Resolve
    <3>2. Kept([handlers[holder] EXCEPT !.decision = decision])
      BY <1>1, <2>1, HeldKept
    <3> QED BY <1>1, <2>1, <3>1, <3>2, KeptUpdate
  <2>2. CASE ~(holder \in Conn /\ handlers[holder].pc = "holding")
    BY <1>1, <1>3, <2>2 DEF Resolve
  <2> QED BY <2>1, <2>2
<1>4. ASSUME NEW c \in Conn, Request(c) PROVE \A d \in Conn : Kept(handlers'[d])
  <2>1. ASSUME NEW id \in Id, NEW session \in Session, NEW requested \in ContractId \union {None},
               NEW mode \in {"daemon", "client"}, NEW cmd \in Commands,
               Propose(c, id, session, requested, mode, cmd)
        PROVE  \A d \in Conn : Kept(handlers'[d])
    <3> DEFINE g == CommandFrame(id, session, requested, mode, cmd)
    <3>1. g.pc = "judging" /\ g.decision = "none"
      BY DEF CommandFrame, Judging
    <3>2. handlers' = [handlers EXCEPT ![c] = g]
      BY <2>1 DEF Propose
    <3> HIDE DEF g
    <3> QED BY <1>1, <3>1, <3>2, BusyKept, KeptUpdate
  <2>2. ASSUME NEW id \in Id, NEW session \in Session, NEW requested \in ContractId \union {None},
               NEW mode \in {"daemon", "client"}, NEW effects \in Edits,
               ProposeEdit(c, id, session, requested, mode, effects)
        PROVE  \A d \in Conn : Kept(handlers'[d])
    <3> DEFINE g == EditFrame(id, session, requested, mode, effects)
    <3>1. g.pc = "judging" /\ g.decision = "none"
      BY DEF EditFrame, Judging
    <3>2. handlers' = [handlers EXCEPT ![c] = g]
      BY <2>2 DEF ProposeEdit
    <3> HIDE DEF g
    <3> QED BY <1>1, <3>1, <3>2, BusyKept, KeptUpdate
  <2>3. ASSUME NEW id \in Id, NEW class, ReportTake(c, id, class)
        PROVE  \A d \in Conn : Kept(handlers'[d])
    <3> DEFINE g == Recording(id, pendingReports[id], class)
    <3>1. g.pc = "recording" /\ g.decision = "none"
      BY DEF Recording
    <3>2. handlers' = [handlers EXCEPT ![c] = g]
      BY <2>3 DEF ReportTake
    <3> HIDE DEF g
    <3> QED BY <1>1, <3>1, <3>2, BusyKept, KeptUpdate
  <2> QED BY <1>4, <2>1, <2>2, <2>3 DEF Request
<1>5. ASSUME NEW c \in Conn, Twin(c) PROVE \A d \in Conn : Kept(handlers'[d])
  <2>1. ASSUME NEW verdict, NEW effects, handlers[c].pc = "judging", TwinSettles(c, verdict, effects)
        PROVE  \A d \in Conn : Kept(handlers'[d])
    <3> DEFINE h == handlers[c]
               k == First(Awaiting(h))
               g == [h EXCEPT !.verdicts[k] = verdict, !.effects[k] = effects]
    <3>1. handlers' = [handlers EXCEPT ![c] = g]
      BY <2>1 DEF TwinSettles
    <3>2. g.pc = "judging" /\ g.decision = "none"
      BY <1>1, <2>1 DEF Handler, Frame
    <3> HIDE DEF g
    <3> QED BY <1>1, <3>1, <3>2, BusyKept, KeptUpdate
  <2> QED BY <1>5, <2>1 DEF Twin, TwinObserves, TwinFails
<1>6. ASSUME NEW c \in Conn, Respond(c) PROVE \A d \in Conn : Kept(handlers'[d])
  <2> DEFINE h == handlers[c]
  <2>1. h.pc = "judging" /\ h.decision = "none"
    BY <1>1, <1>6 DEF Respond, RespondAllow, RespondBlock, RespondHold, RespondHoldToClient,
                      Judged, Unsure, Frame
  <2>2. CASE RespondAllow(c)
    <3>1. Kept(Answered(h, "allow"))
      BY <1>1, <2>1, <2>2, AnsweredKept DEF RespondAllow
    <3> QED BY <1>1, <2>2, <3>1, KeptUpdate DEF RespondAllow
  <2>3. CASE RespondBlock(c)
    <3>1. Kept(Answered(h, "block"))
      BY <1>1, <2>1, AnsweredKept
    <3> QED BY <1>1, <2>3, <3>1, KeptUpdate DEF RespondBlock
  <2>4. CASE RespondHoldToClient(c)
    <3>1. Kept(Answered(h, "hold"))
      BY <1>1, <2>1, AnsweredKept
    <3> QED BY <1>1, <2>4, <3>1, KeptUpdate DEF RespondHoldToClient
  <2>5. CASE RespondHold(c)
    <3> DEFINE lost == h.peer = "gone"
               hs == SenderDropped(handlers, pendingHolds[h.id])
               g == IF lost THEN Fresh ELSE [h EXCEPT !.pc = "holding", !.answer = "hold"]
    <3>1. hs[c] = h /\ hs \in [Conn -> Handler] /\ \A d \in Conn : Kept(hs[d])
      <4>1. hs[c] = h
        BY <1>1, <2>1 DEF SenderDropped
      <4> QED BY <1>1, <4>1, DroppedFrames, DroppedKept
    <3>2. handlers' = [hs EXCEPT ![c] = g]
      BY <2>5, <3>1 DEF RespondHold
    <3>3. Kept(g)
      <4>1. CASE lost
        BY <4>1, FreshKept
      <4>2. CASE ~lost
        <5> DEFINE f == [h EXCEPT !.pc = "holding", !.answer = "hold"]
        <5>1. f.pc = "holding" /\ f.decision = "none" /\ f.verdicts = h.verdicts
          BY <1>1, <2>1 DEF Handler
        <5>2. Unsure(h)
          BY <2>5 DEF RespondHold
        <5> HIDE DEF f
        <5>3. Kept(f)
          BY <1>1, <5>1, <5>2, UnsureMeaning DEF Kept, Justified, Asked, Honoured
        <5> QED BY <4>2, <5>3 DEF f
      <4> QED BY <4>1, <4>2
    <3> HIDE DEF hs, g
    <3> QED BY <3>1, <3>2, <3>3, KeptUpdate
  <2> QED BY <1>6, <2>2, <2>3, <2>4, <2>5 DEF Respond
<1>7. ASSUME NEW c \in Conn, HoldExpire(c) PROVE \A d \in Conn : Kept(handlers'[d])
  <2>1. handlers' = [handlers EXCEPT ![c] = [handlers[c] EXCEPT !.pc = "expired"]]
    BY <1>7 DEF HoldExpire
  <2>2. Kept([handlers[c] EXCEPT !.pc = "expired"])
    BY <1>1, <1>7, HeldKept DEF HoldExpire
  <2> QED BY <1>1, <2>1, <2>2, KeptUpdate
<1>8. ASSUME NEW c \in Conn, HoldFinish(c) PROVE \A d \in Conn : Kept(handlers'[d])
  <2> DEFINE h == handlers[c]
             approved == h.pc = "holding" /\ h.decision = "approve"
             hs == SenderDropped(handlers, pendingHolds[h.id])
             answer == IF approved THEN "allow" ELSE "block"
  <2>1. handlers' = [hs EXCEPT ![c] = Answered(h, answer)]
    BY <1>8 DEF HoldFinish
  <2>2. h.pc \in {"holding", "expired"} /\ (h.pc = "expired" => h.decision = "none")
    BY <1>1, <1>8 DEF HoldFinish, Frame
  <2>3. Kept(Answered(h, answer))
    BY <1>1, <2>2, AnsweredKept
  <2>4. hs \in [Conn -> Handler] /\ \A d \in Conn : Kept(hs[d])
    BY <1>1, DroppedFrames, DroppedKept
  <2> HIDE DEF hs, answer
  <2> QED BY <2>1, <2>3, <2>4, KeptUpdate
<1>9. ASSUME NEW c \in Conn, ReportAppend(c) PROVE \A d \in Conn : Kept(handlers'[d])
  <2>1. handlers[c].pc = "recording" /\ handlers[c].decision = "none"
    BY <1>1, <1>9 DEF ReportAppend, Frame
  <2>2. Kept(Answered(handlers[c], "recorded"))
    BY <1>1, <2>1, AnsweredKept
  <2> QED BY <1>1, <1>9, <2>2, KeptUpdate DEF ReportAppend
<1>10. ASSUME NEW c \in Conn, ClientGone(c) PROVE \A d \in Conn : Kept(handlers'[d])
  <2> DEFINE h == handlers[c]
             g == IF h.pc = "idle" THEN Fresh ELSE [h EXCEPT !.peer = "gone"]
  <2>1. handlers' = [handlers EXCEPT ![c] = g]
    BY <1>10 DEF ClientGone
  <2>2. Kept(g)
    <3>1. CASE h.pc = "idle"
      BY <3>1, FreshKept
    <3>2. CASE h.pc # "idle"
      <4> DEFINE f == [h EXCEPT !.peer = "gone"]
      <4>1. /\ f.pc = h.pc /\ f.answer = h.answer /\ f.decision = h.decision
            /\ f.contract = h.contract /\ f.history = h.history
            /\ f.effects = h.effects /\ f.verdicts = h.verdicts
        BY <1>1 DEF Handler
      <4> HIDE DEF f
      <4>2. Kept(f)
        BY <1>1, <4>1 DEF Kept, Justified, Asked, Honoured
      <4> QED BY <3>2, <4>2 DEF f
    <3> QED BY <3>1, <3>2
  <2> HIDE DEF g
  <2> QED BY <1>1, <2>1, <2>2, KeptUpdate
<1>11. CASE Restart
  BY <1>11, FreshKept DEF Restart
<1>12. CASE UNCHANGED vars
  BY <1>1, <1>12 DEF vars
<1> QED BY <1>2, <1>3, <1>4, <1>5, <1>6, <1>7, <1>8, <1>9, <1>10, <1>11, <1>12 DEF Next

LEMMA SoundAlways == Spec => []Sound
<1>1. Init => Sound
  BY TypedInit, FreshKept DEF Init, Sound
<1> QED BY <1>1, SoundStep, PTL DEF Spec

\* A command let through without a human is permitted by the contract that
\* governed it when it arrived, in every effect declared or observed, and no
\* loop stood against it (evaluate, respond).
THEOREM AllowIsJustified == Spec => []AllowJustified
<1>1. Sound => AllowJustified
  BY DEF Sound, Kept, Justified, AllowJustified
<1> QED BY <1>1, SoundAlways, PTL

\* A human is asked, and can approve, only what no proof speaks against.
THEOREM ApprovalIsForTheUnsure == Spec => []ApprovalOnlyWhenUnsure
<1>1. Sound => ApprovalOnlyWhenUnsure
  BY DEF Sound, Kept, Asked, ApprovalOnlyWhenUnsure
<1> QED BY <1>1, SoundAlways, PTL

\* The answer to a held command is the decision that was acknowledged.
THEOREM DecisionIsHonoured == Spec => []ResolveHonoured
<1>1. Sound => ResolveHonoured
  BY DEF Sound, Kept, Honoured, ResolveHonoured
<1> QED BY <1>1, SoundAlways, PTL

-----------------------------------------------------------------------------
(* The senders in pending_holds and the handlers that wait for them *)

\* A handler that nobody is to resolve may take any frame that does not wait.
LEMMA UnheldStep ==
  ASSUME Typed, HoldsReachable, NEW c \in Conn, NEW g,
         handlers[c].pc \notin {"holding", "expired"}, g.pc # "holding",
         handlers' = [handlers EXCEPT ![c] = g], pendingHolds' = pendingHolds
  PROVE  HoldsReachable'
<1>1. handlers \in [Conn -> Handler]
  BY DEF Typed, TypeOK
<1>2. \A d \in Conn : d # c => handlers'[d] = handlers[d]
  BY <1>1
<1>3. handlers'[c] = g
  BY <1>1
<1> QED BY <1>2, <1>3 DEF HoldsReachable

LEMMA HoldsStep == Typed /\ HoldsReachable /\ [Next]_vars => HoldsReachable'
<1> SUFFICES ASSUME Typed, HoldsReachable, [Next]_vars PROVE HoldsReachable'
  OBVIOUS
<1>1. /\ handlers \in [Conn -> Handler] /\ \A d \in Conn : Frame(handlers[d])
      /\ pendingHolds \in [Id -> Conn \union {None, Orphan}]
      /\ None \notin Conn /\ Orphan \notin Conn
  BY NoneAssumption, OrphanAssumption DEF Typed, TypeOK
<1>2. CASE \E reg \in Registrable : SetContract(reg[1], reg[2])
  BY <1>2 DEF SetContract, HoldsReachable
<1>3. ASSUME NEW id \in Id, NEW decision \in {"approve", "reject"}, Resolve(id, decision)
      PROVE  HoldsReachable'
  <2> DEFINE holder == pendingHolds[id]
  <2>1. \A i \in Id : pendingHolds'[i] = IF i = id THEN None ELSE pendingHolds[i]
    BY <1>1, <1>3 DEF Resolve
  <2>2. CASE holder \in Conn /\ handlers[holder].pc = "holding"
    <3> DEFINE g == [handlers[holder] EXCEPT !.decision = decision]
    <3>1. handlers' = [handlers EXCEPT ![holder] = g]
      BY <1>3, <2>2 DEF Resolve
    <3>2. g.decision # "none"
      BY <1>1, <2>2 DEF Handler
    <3> HIDE DEF g
    <3>3. handlers'[holder] = g /\ \A d \in Conn : d # holder => handlers'[d] = handlers[d]
      BY <1>1, <2>2, <3>1
    <3>4. handlers[holder].id = id
      BY <2>2 DEF HoldsReachable
    <3> HIDE DEF holder
    <3>5. ASSUME NEW d \in Conn, handlers'[d].pc = "holding", handlers'[d].decision = "none"
          PROVE  pendingHolds'[handlers'[d].id] = d
      <4>1. d # holder /\ handlers'[d] = handlers[d]
        BY <2>2, <3>2, <3>3, <3>5
      <4>2. handlers[d].id \in Id /\ pendingHolds[handlers[d].id] = d
        BY <1>1, <3>5, <4>1 DEF HoldsReachable, Frame
      <4> QED BY <2>1, <4>1, <4>2 DEF holder
    <3>6. ASSUME NEW i \in Id, pendingHolds'[i] \in Conn
          PROVE  LET f == handlers'[pendingHolds'[i]] IN
                 /\ f.id = i /\ f.mode = "daemon" /\ f.decision = "none"
                 /\ f.pc \in {"holding", "expired"}
      <4>1. i # id /\ pendingHolds'[i] = pendingHolds[i]
        BY <1>1, <2>1, <3>6
      <4>2. pendingHolds[i] # holder
        BY <3>4, <3>6, <4>1 DEF HoldsReachable
      <4> QED BY <3>3, <3>6, <4>1, <4>2 DEF HoldsReachable
    <3> QED BY <3>5, <3>6 DEF HoldsReachable
  <2>3. CASE ~(holder \in Conn /\ handlers[holder].pc = "holding")
    <3>1. handlers' = handlers
      BY <1>3, <2>3 DEF Resolve
    <3>2. ASSUME NEW d \in Conn, handlers[d].pc = "holding", handlers[d].decision = "none"
          PROVE  pendingHolds'[handlers[d].id] = d
      <4>1. handlers[d].id \in Id /\ pendingHolds[handlers[d].id] = d
        BY <1>1, <3>2 DEF HoldsReachable, Frame
      <4>2. handlers[d].id # id
        BY <2>3, <3>2, <4>1
      <4> QED BY <2>1, <4>1, <4>2
    <3> QED BY <1>1, <2>1, <3>1, <3>2 DEF HoldsReachable
  <2> QED BY <2>2, <2>3
<1>4. ASSUME NEW c \in Conn, Request(c) PROVE HoldsReachable'
  <2>1. ASSUME NEW id \in Id, NEW session \in Session, NEW requested \in ContractId \union {None},
               NEW mode \in {"daemon", "client"}, NEW cmd \in Commands,
               Propose(c, id, session, requested, mode, cmd)
        PROVE  HoldsReachable'
    <3> DEFINE g == CommandFrame(id, session, requested, mode, cmd)
    <3>1. g.pc # "holding"
      BY DEF CommandFrame, Judging
    <3>2. handlers' = [handlers EXCEPT ![c] = g]
      BY <2>1 DEF Propose
    <3> HIDE DEF g
    <3> QED BY <2>1, <3>1, <3>2, UnheldStep DEF Propose
  <2>2. ASSUME NEW id \in Id, NEW session \in Session, NEW requested \in ContractId \union {None},
               NEW mode \in {"daemon", "client"}, NEW effects \in Edits,
               ProposeEdit(c, id, session, requested, mode, effects)
        PROVE  HoldsReachable'
    <3> DEFINE g == EditFrame(id, session, requested, mode, effects)
    <3>1. g.pc # "holding"
      BY DEF EditFrame, Judging
    <3>2. handlers' = [handlers EXCEPT ![c] = g]
      BY <2>2 DEF ProposeEdit
    <3> HIDE DEF g
    <3> QED BY <2>2, <3>1, <3>2, UnheldStep DEF ProposeEdit
  <2>3. ASSUME NEW id \in Id, NEW class, ReportTake(c, id, class) PROVE HoldsReachable'
    <3> DEFINE g == Recording(id, pendingReports[id], class)
    <3>1. g.pc # "holding"
      BY DEF Recording
    <3>2. handlers' = [handlers EXCEPT ![c] = g]
      BY <2>3 DEF ReportTake
    <3> HIDE DEF g
    <3> QED BY <2>3, <3>1, <3>2, UnheldStep DEF ReportTake
  <2> QED BY <1>4, <2>1, <2>2, <2>3 DEF Request
<1>5. ASSUME NEW c \in Conn, Twin(c) PROVE HoldsReachable'
  <2>1. ASSUME NEW verdict, NEW effects, handlers[c].pc = "judging", TwinSettles(c, verdict, effects)
        PROVE  HoldsReachable'
    <3> DEFINE h == handlers[c]
               k == First(Awaiting(h))
               g == [h EXCEPT !.verdicts[k] = verdict, !.effects[k] = effects]
    <3>1. handlers' = [handlers EXCEPT ![c] = g] /\ pendingHolds' = pendingHolds
      BY <2>1 DEF TwinSettles
    <3>2. g.pc # "holding"
      BY <1>1, <2>1 DEF Handler
    <3> HIDE DEF g
    <3> QED BY <2>1, <3>1, <3>2, UnheldStep
  <2> QED BY <1>5, <2>1 DEF Twin, TwinObserves, TwinFails
<1>6. ASSUME NEW c \in Conn, NEW answer, handlers[c].pc \notin {"holding", "expired"},
             handlers' = [handlers EXCEPT ![c] = Answered(handlers[c], answer)],
             pendingHolds' = pendingHolds
      PROVE  HoldsReachable'
  <2>1. Answered(handlers[c], answer).pc # "holding"
    BY <1>1 DEF Answered, Fresh, Handler
  <2> QED BY <1>6, <2>1, UnheldStep
<1>7. ASSUME NEW c \in Conn, Respond(c) PROVE HoldsReachable'
  <2> DEFINE h == handlers[c]
  <2>1. h.pc = "judging" /\ h.decision = "none" /\ h.id \in Id
    BY <1>1, <1>7 DEF Respond, RespondAllow, RespondBlock, RespondHold, RespondHoldToClient,
                      Judged, Unsure, Frame
  <2>2. CASE RespondAllow(c)
    BY <1>6, <2>1, <2>2 DEF RespondAllow
  <2>3. CASE RespondBlock(c)
    BY <1>6, <2>1, <2>3 DEF RespondBlock
  <2>4. CASE RespondHoldToClient(c)
    BY <1>6, <2>1, <2>4 DEF RespondHoldToClient
  <2>5. CASE RespondHold(c)
    <3> DEFINE lost == h.peer = "gone"
               old == pendingHolds[h.id]
               hs == SenderDropped(handlers, old)
               g == IF lost THEN Fresh ELSE [h EXCEPT !.pc = "holding", !.answer = "hold"]
    <3>1. hs \in [Conn -> Handler] /\ hs[c] = h
      BY <1>1, <2>1, DroppedFrames DEF SenderDropped
    <3>2. /\ handlers'[c] = g /\ \A d \in Conn : d # c => handlers'[d] = hs[d]
      BY <2>5, <3>1 DEF RespondHold
    <3>3. \A i \in Id : pendingHolds'[i] = IF i # h.id THEN pendingHolds[i]
                                           ELSE IF lost THEN Orphan ELSE c
      BY <1>1, <2>5 DEF RespondHold
    <3>4. IF lost THEN g.pc # "holding"
          ELSE g.pc = "holding" /\ g.id = h.id /\ g.mode = "daemon" /\ g.decision = "none"
      BY <1>1, <2>1, <2>5 DEF RespondHold, Fresh, Handler
    <3>5. \A d \in Conn : IF d = old /\ handlers[d].pc = "holding" /\ handlers[d].decision = "none"
                          THEN hs[d].decision # "none"
                          ELSE hs[d] = handlers[d]
      BY <1>1 DEF SenderDropped, Handler
    <3>6. \A i \in Id : pendingHolds[i] # c
      BY <1>1, <2>1 DEF HoldsReachable
    <3> HIDE DEF hs, g, old
    <3>7. ASSUME NEW d \in Conn, handlers'[d].pc = "holding", handlers'[d].decision = "none"
          PROVE  pendingHolds'[handlers'[d].id] = d
      <4>1. CASE d = c
        BY <2>1, <3>2, <3>3, <3>4, <3>7, <4>1
      <4>2. CASE d # c
        <5>1. handlers'[d] = handlers[d] /\ ~(d = old)
          BY <3>2, <3>5, <3>7, <4>2
        <5>2. handlers[d].id \in Id /\ pendingHolds[handlers[d].id] = d
          BY <1>1, <3>7, <5>1 DEF HoldsReachable, Frame
        <5>3. handlers[d].id # h.id
          BY <5>1, <5>2 DEF old
        <5> QED BY <3>3, <5>1, <5>2, <5>3
      <4> QED BY <4>1, <4>2
    <3>8. ASSUME NEW i \in Id, pendingHolds'[i] \in Conn
          PROVE  LET f == handlers'[pendingHolds'[i]] IN
                 /\ f.id = i /\ f.mode = "daemon" /\ f.decision = "none"
                 /\ f.pc \in {"holding", "expired"}
      <4>1. CASE i = h.id
        BY <1>1, <3>2, <3>3, <3>4, <3>8, <4>1
      <4>2. CASE i # h.id
        <5> DEFINE d == pendingHolds[i]
        <5>1. pendingHolds'[i] = d /\ d \in Conn /\ d # c /\ handlers[d].id = i
          BY <3>3, <3>6, <3>8, <4>2 DEF HoldsReachable
        <5>2. d # old
          BY <2>1, <4>2, <5>1 DEF HoldsReachable, old
        <5>3. handlers'[d] = handlers[d]
          BY <3>2, <3>5, <5>1, <5>2
        <5> QED BY <5>1, <5>3 DEF HoldsReachable
      <4> QED BY <4>1, <4>2
    <3> QED BY <3>7, <3>8 DEF HoldsReachable
  <2> QED BY <1>7, <2>2, <2>3, <2>4, <2>5 DEF Respond
<1>8. ASSUME NEW c \in Conn, HoldExpire(c) PROVE HoldsReachable'
  <2> DEFINE g == [handlers[c] EXCEPT !.pc = "expired"]
  <2>1. handlers'[c] = g /\ \A d \in Conn : d # c => handlers'[d] = handlers[d]
    BY <1>1, <1>8 DEF HoldExpire
  <2>2. /\ g.pc = "expired" /\ g.id = handlers[c].id /\ g.mode = handlers[c].mode
        /\ g.decision = handlers[c].decision
    BY <1>1 DEF Handler
  <2>3. pendingHolds' = pendingHolds
    BY <1>8 DEF HoldExpire
  <2> HIDE DEF g
  <2> QED BY <2>1, <2>2, <2>3 DEF HoldsReachable
<1>9. ASSUME NEW c \in Conn, HoldFinish(c) PROVE HoldsReachable'
  <2> DEFINE h == handlers[c]
             approved == h.pc = "holding" /\ h.decision = "approve"
             old == pendingHolds[h.id]
             hs == SenderDropped(handlers, old)
             g == Answered(h, IF approved THEN "allow" ELSE "block")
  <2>1. hs \in [Conn -> Handler] /\ h.id \in Id
    BY <1>1, <1>9, DroppedFrames DEF HoldFinish, Frame
  <2>2. handlers'[c] = g /\ \A d \in Conn : d # c => handlers'[d] = hs[d]
    BY <1>9, <2>1 DEF HoldFinish
  <2>3. \A i \in Id : pendingHolds'[i] = IF i = h.id THEN None ELSE pendingHolds[i]
    BY <1>1, <1>9 DEF HoldFinish
  <2>4. g.pc # "holding"
    BY <1>1 DEF Answered, Fresh, Handler
  <2>5. \A d \in Conn : IF d = old /\ handlers[d].pc = "holding" /\ handlers[d].decision = "none"
                        THEN hs[d].decision # "none"
                        ELSE hs[d] = handlers[d]
    BY <1>1 DEF SenderDropped, Handler
  <2> HIDE DEF hs, g, old
  <2>6. ASSUME NEW d \in Conn, handlers'[d].pc = "holding", handlers'[d].decision = "none"
        PROVE  pendingHolds'[handlers'[d].id] = d
    <3>1. d # c /\ handlers'[d] = handlers[d] /\ ~(d = old)
      BY <2>2, <2>4, <2>5, <2>6
    <3>2. handlers[d].id \in Id /\ pendingHolds[handlers[d].id] = d
      BY <1>1, <2>6, <3>1 DEF HoldsReachable, Frame
    <3> QED BY <2>3, <3>1, <3>2 DEF old
  <2>7. ASSUME NEW i \in Id, pendingHolds'[i] \in Conn
        PROVE  LET f == handlers'[pendingHolds'[i]] IN
               /\ f.id = i /\ f.mode = "daemon" /\ f.decision = "none"
               /\ f.pc \in {"holding", "expired"}
    <3> DEFINE d == pendingHolds[i]
    <3>1. i # h.id /\ pendingHolds'[i] = d /\ d \in Conn /\ handlers[d].id = i
      BY <1>1, <2>3, <2>7 DEF HoldsReachable
    <3>2. d # c /\ d # old
      BY <2>1, <3>1 DEF HoldsReachable, old
    <3>3. handlers'[d] = handlers[d]
      BY <2>2, <2>5, <3>1, <3>2
    <3> QED BY <3>1, <3>3 DEF HoldsReachable
  <2> QED BY <2>6, <2>7 DEF HoldsReachable
<1>10. ASSUME NEW c \in Conn, ReportAppend(c) PROVE HoldsReachable'
  BY <1>6, <1>10 DEF ReportAppend
<1>11. ASSUME NEW c \in Conn, ClientGone(c) PROVE HoldsReachable'
  <2>1. CASE handlers[c].pc = "idle"
    <3>1. handlers' = [handlers EXCEPT ![c] = Fresh] /\ pendingHolds' = pendingHolds
      BY <1>11, <2>1 DEF ClientGone
    <3>2. Fresh.pc # "holding"
      BY DEF Fresh
    <3> QED BY <2>1, <3>1, <3>2, UnheldStep
  <2>2. CASE handlers[c].pc # "idle"
    <3> DEFINE g == [handlers[c] EXCEPT !.peer = "gone"]
    <3>1. handlers'[c] = g /\ \A d \in Conn : d # c => handlers'[d] = handlers[d]
      BY <1>1, <1>11, <2>2 DEF ClientGone
    <3>2. /\ g.pc = handlers[c].pc /\ g.id = handlers[c].id /\ g.mode = handlers[c].mode
          /\ g.decision = handlers[c].decision
      BY <1>1 DEF Handler
    <3>3. pendingHolds' = pendingHolds
      BY <1>11 DEF ClientGone
    <3> HIDE DEF g
    <3> QED BY <3>1, <3>2, <3>3 DEF HoldsReachable
  <2> QED BY <2>1, <2>2
<1>12. CASE Restart
  BY <1>1, <1>12 DEF Restart, HoldsReachable, Fresh
<1>13. CASE UNCHANGED vars
  BY <1>13 DEF vars, HoldsReachable
<1> QED BY <1>2, <1>3, <1>4, <1>5, <1>7, <1>8, <1>9, <1>10, <1>11, <1>12, <1>13 DEF Next

\* A held command can always be resolved by its id, and a sender left in the
\* map never belongs to a handler that was already told a decision.
THEOREM HoldsAreReachable == Spec => []HoldsReachable
<1>1. Init => HoldsReachable
  BY NoneAssumption DEF Init, HoldsReachable, Fresh
<1>2. Spec => []Sound
  BY SoundAlways
<1>3. Sound => Typed
  BY DEF Sound
<1> QED BY <1>1, <1>2, <1>3, HoldsStep, PTL DEF Spec

-----------------------------------------------------------------------------
(***************************************************************************)
(* What the daemon remembers, for any number of everything: which contract *)
(* a proposal ran under, what a session is bound to, and how often an      *)
(* execution is recorded.  Most actions only move frames on, so two facts  *)
(* carry the proofs: a frame that moves on keeps its origin (Continues),   *)
(* and a proposal's serial sits in one place at a time - a frame, then a   *)
(* pending report, then a frame again, then a history.                     *)
(***************************************************************************)

\* f is what a step that is no request leaves of the frame h: the same
\* proposal, still live only if it was, or nothing.
Continues(f, h) ==
  \/ f = Fresh
  \/ /\ f.key = h.key /\ f.requested = h.requested /\ f.contract = h.contract
     /\ f.serial = h.serial
     /\ f.pc # "idle" => h.pc # "idle"

\* Every frame continues, and nothing else moves but the holds.
FramesOnly ==
  /\ \A c \in Conn : Continues(handlers'[c], handlers[c])
  /\ UNCHANGED <<registry, histories, pendingReports, proposals>>

\* c is done, its report is saved, and the other frames continue.
Saves(c) ==
  /\ \A d \in Conn : Continues(handlers'[d], handlers[d])
  /\ handlers[c].pc # "idle" /\ handlers'[c].pc = "idle"
  /\ pendingReports' = SavedReports(handlers[c])
  /\ UNCHANGED <<registry, histories, proposals>>

\* A handler takes up a proposal, with a serial of its own.
Takes(c) ==
  /\ handlers[c].pc = "idle" /\ handlers'[c].pc = "judging"
  /\ handlers'[c].serial = proposals + 1
  /\ \A d \in Conn : d # c => handlers'[d] = handlers[d]
  /\ proposals' = proposals + 1
  /\ UNCHANGED <<activeContract, contracts, histories, pendingReports>>

-----------------------------------------------------------------------------
(* The ring buffer's entries *)

\* An entry recorded is an old one or one of the new segments; the positions
\* are only shifted (record_execution pops the front after every push).
LEMMA RecordedEntries ==
  ASSUME NEW h \in Seq(EntryOf(Run)), NEW shapes \in Seq(Shape),
         NEW class \in ExitClass, NEW run \in Run
  PROVE  LET new == RecordExecutions(h, shapes, class, run) IN
         \E shift \in Nat : \A k \in DOMAIN new :
           /\ k \in Nat
           /\ k + shift <= Len(h) => k + shift \in DOMAIN h /\ new[k] = h[k + shift]
           /\ k + shift > Len(h) =>
                /\ new[k].run = run /\ new[k].seg = k + shift - Len(h)
<1> DEFINE segs == [k \in DOMAIN shapes |-> Entry(shapes[k], class, run, k)]
           log == h \o segs
           new == RecordExecutions(h, shapes, class, run)
<1>1. Len(shapes) \in Nat /\ DOMAIN shapes = 1 .. Len(shapes) /\ Len(h) \in Nat
  OBVIOUS
<1>2. segs \in Seq(EntryOf(Run)) /\ Len(segs) = Len(shapes)
  <2>1. \A k \in 1 .. Len(shapes) : segs[k] \in EntryOf(Run)
    BY DEF EntryOf, Entry, Signature, IsFailure, ExitClass
  <2> QED BY <1>1, <2>1
<1>3. \A k \in 1 .. Len(shapes) : segs[k].run = run /\ segs[k].seg = k
  BY <1>1 DEF Entry
<1> HIDE DEF segs
<1>4. /\ log \in Seq(EntryOf(Run)) /\ Len(log) = Len(h) + Len(shapes)
      /\ \A k \in 1 .. Len(log) : log[k] = IF k <= Len(h) THEN h[k] ELSE segs[k - Len(h)]
  BY <1>1, <1>2
<1>5. new = LastEntries(log)
  BY DEF RecordExecutions, segs
<1> HIDE DEF log, new
<1>6. PICK shift \in Nat : /\ Len(new) + shift = Len(log) /\ DOMAIN new = 1 .. Len(new)
                           /\ Len(new) \in Nat
                           /\ \A k \in DOMAIN new : new[k] = log[k + shift]
  <2>1. CASE Len(log) > Window
    <3> DEFINE m == Len(log) - Window + 1
    <3>1. m \in 1 .. Len(log) + 1 /\ m - 1 \in Nat
      BY <1>1, <1>4, <2>1, WindowAssumption
    <3>2. new = SubSeq(log, m, Len(log))
      BY <1>5, <2>1 DEF LastEntries
    <3>3. /\ Len(new) = Len(log) - m + 1 /\ Len(new) \in Nat /\ DOMAIN new = 1 .. Len(new)
          /\ \A k \in DOMAIN new : new[k] = log[k + (m - 1)]
      <4>1. log \in Seq(EntryOf(Run)) /\ Len(log) \in Nat
        BY <1>1, <1>4
      <4> HIDE DEF m
      <4> QED BY <3>1, <3>2, <4>1
    <3>4. Len(new) + (m - 1) = Len(log)
      BY <1>1, <1>4, <3>1, <3>3
    <3> HIDE DEF m
    <3> QED BY <3>1, <3>3, <3>4
  <2>2. CASE ~(Len(log) > Window)
    <3>1. new = log
      BY <1>5, <2>2 DEF LastEntries
    <3>2. DOMAIN log = 1 .. Len(log) /\ Len(log) \in Nat
      BY <1>1, <1>4
    <3>3. Len(log) + 0 = Len(log) /\ \A k \in DOMAIN log : k + 0 = k
      BY <3>2
    <3> QED BY <3>1, <3>2, <3>3
  <2> QED BY <2>1, <2>2
<1>7. ASSUME NEW k \in DOMAIN new
      PROVE  /\ k \in Nat
             /\ k + shift <= Len(h) => k + shift \in DOMAIN h /\ new[k] = h[k + shift]
             /\ k + shift > Len(h) => new[k].run = run /\ new[k].seg = k + shift - Len(h)
  <2>1. k \in Nat /\ k + shift \in 1 .. Len(log) /\ new[k] = log[k + shift]
    BY <1>1, <1>4, <1>6
  <2>2. CASE k + shift <= Len(h)
    BY <1>1, <1>4, <2>1, <2>2
  <2>3. CASE k + shift > Len(h)
    <3>1. k + shift - Len(h) \in 1 .. Len(shapes)
      BY <1>1, <1>4, <2>1, <2>3
    <3>2. log[k + shift] = segs[k + shift - Len(h)] /\ ~(k + shift <= Len(h))
      BY <1>1, <1>4, <2>1, <2>3
    <3>3. segs[k + shift - Len(h)].run = run /\ segs[k + shift - Len(h)].seg = k + shift - Len(h)
      BY <1>3, <3>1
    <3> QED BY <2>1, <3>2, <3>3, Zenon
  <2>4. k + shift > Len(h) <=> ~(k + shift <= Len(h))
    BY <1>1, <2>1
  <2> QED BY <2>1, <2>2, <2>3, <2>4, Zenon
<1> QED BY <1>6, <1>7 DEF new

-----------------------------------------------------------------------------
(* Frames that move on *)

\* An answer ends a frame, and changes nothing else of it.
LEMMA AnsweredContinues ==
  ASSUME NEW h \in Handler, NEW answer
  PROVE  Continues(Answered(h, answer), h) /\ Answered(h, answer).pc = "idle"
BY DEF Answered, Continues, Handler, Fresh

\* A dropped sender changes a decision, and nothing of a frame's origin.
LEMMA DroppedContinues ==
  ASSUME NEW hs \in [Conn -> Handler], NEW holder, NEW d \in Conn
  PROVE  Continues(SenderDropped(hs, holder)[d], hs[d])
<1>1. hs[d] \in Handler
  OBVIOUS
<1>2. SenderDropped(hs, holder)[d] \in {hs[d], [hs[d] EXCEPT !.decision = "dropped"]}
  BY DEF SenderDropped
<1>3. Continues([hs[d] EXCEPT !.decision = "dropped"], hs[d])
  BY <1>1 DEF Continues, Handler
<1> QED BY <1>2, <1>3 DEF Continues

\* One frame changes, and what it becomes continues what it was.
LEMMA OneContinues ==
  ASSUME NEW hs \in [Conn -> Handler], \A d \in Conn : Continues(hs[d], handlers[d]),
         NEW c \in Conn, NEW g, Continues(g, handlers[c]), handlers' = [hs EXCEPT ![c] = g]
  PROVE  \A d \in Conn : Continues(handlers'[d], handlers[d])
OBVIOUS

\* What a step can be, as far as the records are concerned.
LEMMA StepKinds ==
  ASSUME Typed, Next
  PROVE  \/ FramesOnly
         \/ \E c \in Conn : Saves(c) \/ ReportAppend(c)
         \/ \E c \in Conn, id \in Id, class \in Exits : ReportTake(c, id, class)
         \/ \E c \in Conn, id \in Id, session \in Session,
               requested \in ContractId \union {None}, mode \in {"daemon", "client"} :
              \/ \E cmd \in Commands : Propose(c, id, session, requested, mode, cmd)
              \/ \E effects \in Edits : ProposeEdit(c, id, session, requested, mode, effects)
         \/ \E reg \in Registrable : SetContract(reg[1], reg[2])
         \/ Restart
<1>1. /\ handlers \in [Conn -> Handler]
      /\ \A d \in Conn : handlers[d] \in Handler /\ Frame(handlers[d])
      /\ \A d \in Conn : Continues(handlers[d], handlers[d])
  BY DEF Typed, TypeOK, Continues
<1>2. ASSUME NEW c \in Conn, Twin(c) PROVE FramesOnly
  <2>1. ASSUME NEW verdict, NEW effects, TwinSettles(c, verdict, effects) PROVE FramesOnly
    <3> DEFINE h == handlers[c]
               k == First(Awaiting(h))
               g == [h EXCEPT !.verdicts[k] = verdict, !.effects[k] = effects]
    <3>1. handlers' = [handlers EXCEPT ![c] = g]
      BY <2>1 DEF TwinSettles
    <3>2. Continues(g, h)
      BY <1>1 DEF Continues, Handler
    <3> HIDE DEF g
    <3>3. \A d \in Conn : Continues(handlers'[d], handlers[d])
      BY <1>1, <3>1, <3>2, OneContinues
    <3> QED BY <2>1, <3>3 DEF TwinSettles, FramesOnly
  <2> QED BY <1>2, <2>1 DEF Twin, TwinObserves, TwinFails
<1>3. ASSUME NEW c \in Conn, NEW answer, handlers' = [handlers EXCEPT ![c] = Answered(@, answer)]
      PROVE  /\ \A d \in Conn : Continues(handlers'[d], handlers[d])
             /\ handlers'[c].pc = "idle"
  BY <1>1, <1>3, AnsweredContinues, OneContinues
<1>4. ASSUME NEW c \in Conn, Respond(c) PROVE FramesOnly \/ Saves(c)
  <2>1. CASE RespondAllow(c)
    BY <1>3, <2>1 DEF RespondAllow, Saves, Judged
  <2>2. CASE RespondBlock(c) \/ RespondHoldToClient(c)
    BY <1>3, <2>2 DEF RespondBlock, RespondHoldToClient, FramesOnly
  <2>3. CASE RespondHold(c)
    <3> DEFINE h == handlers[c]
               lost == h.peer = "gone"
               hs == SenderDropped(handlers, pendingHolds[h.id])
               g == IF lost THEN Fresh ELSE [h EXCEPT !.pc = "holding", !.answer = "hold"]
    <3>1. h.pc = "judging" /\ h.id \in Id
      BY <1>1, <2>3 DEF RespondHold, Unsure, Judged, Frame
    <3>2. hs[c] = h /\ hs \in [Conn -> Handler]
      BY <1>1, <3>1, DroppedFrames DEF SenderDropped
    <3>3. \A d \in Conn : Continues(hs[d], handlers[d])
      BY <1>1, DroppedContinues
    <3>4. handlers' = [hs EXCEPT ![c] = g]
      BY <2>3, <3>2 DEF RespondHold
    <3>5. Continues(g, h)
      BY <1>1, <3>1 DEF Continues, Handler
    <3> HIDE DEF hs, g
    <3>6. \A d \in Conn : Continues(handlers'[d], handlers[d])
      BY <3>2, <3>3, <3>4, <3>5, OneContinues
    <3> QED BY <2>3, <3>6 DEF RespondHold, FramesOnly
  <2> QED BY <1>4, <2>1, <2>2, <2>3 DEF Respond
<1>5. ASSUME NEW id \in Id, NEW decision, Resolve(id, decision) PROVE FramesOnly
  <2> DEFINE holder == pendingHolds[id]
             g == [handlers[holder] EXCEPT !.decision = decision]
  <2>1. CASE holder \in Conn /\ handlers[holder].pc = "holding"
    <3>1. handlers' = [handlers EXCEPT ![holder] = g]
      BY <1>5, <2>1 DEF Resolve
    <3>2. Continues(g, handlers[holder])
      BY <1>1, <2>1 DEF Continues, Handler
    <3> HIDE DEF g
    <3>3. \A d \in Conn : Continues(handlers'[d], handlers[d])
      BY <1>1, <2>1, <3>1, <3>2, OneContinues
    <3> QED BY <1>5, <3>3 DEF Resolve, FramesOnly
  <2>2. CASE ~(holder \in Conn /\ handlers[holder].pc = "holding")
    BY <1>1, <1>5, <2>2 DEF Resolve, FramesOnly
  <2> QED BY <2>1, <2>2
<1>6. ASSUME NEW c \in Conn, HoldExpire(c) PROVE FramesOnly
  <2>1. Continues([handlers[c] EXCEPT !.pc = "expired"], handlers[c])
    BY <1>1, <1>6 DEF Continues, Handler, HoldExpire
  <2>2. \A d \in Conn : Continues(handlers'[d], handlers[d])
    BY <1>1, <1>6, <2>1 DEF HoldExpire
  <2> QED BY <1>6, <2>2 DEF HoldExpire, FramesOnly
<1>7. ASSUME NEW c \in Conn, HoldFinish(c) PROVE FramesOnly \/ Saves(c)
  <2> DEFINE h == handlers[c]
             approved == h.pc = "holding" /\ h.decision = "approve"
             hs == SenderDropped(handlers, pendingHolds[h.id])
             g == Answered(h, IF approved THEN "allow" ELSE "block")
  <2>1. hs \in [Conn -> Handler] /\ \A d \in Conn : Continues(hs[d], handlers[d])
    BY <1>1, DroppedFrames, DroppedContinues
  <2>2. Continues(g, h) /\ g.pc = "idle"
    BY <1>1, AnsweredContinues
  <2>3. handlers' = [hs EXCEPT ![c] = g]
    BY <1>7 DEF HoldFinish
  <2> HIDE DEF hs, g
  <2>4. (\A d \in Conn : Continues(handlers'[d], handlers[d])) /\ handlers'[c].pc = "idle"
    BY <2>1, <2>2, <2>3, OneContinues
  <2> QED BY <1>7, <2>4 DEF HoldFinish, FramesOnly, Saves
<1>8. ASSUME NEW c \in Conn, ClientGone(c) PROVE FramesOnly
  <2> DEFINE h == handlers[c]
             g == IF h.pc = "idle" THEN Fresh ELSE [h EXCEPT !.peer = "gone"]
  <2>1. handlers' = [handlers EXCEPT ![c] = g]
    BY <1>8 DEF ClientGone
  <2>2. Continues(g, h)
    BY <1>1 DEF Continues, Handler
  <2> HIDE DEF g
  <2>3. \A d \in Conn : Continues(handlers'[d], handlers[d])
    BY <1>1, <2>1, <2>2, OneContinues
  <2> QED BY <1>8, <2>3 DEF ClientGone, FramesOnly
<1> QED BY <1>2, <1>4, <1>5, <1>6, <1>7, <1>8 DEF Next, Request

-----------------------------------------------------------------------------
(* Which contract *)

\* What is registered under an id is a contract some client sent for that id.
RegistryOwned ==
  \A i \in ContractId : contracts[i] # None => <<i, contracts[i]>> \in Registrable

OwnFrame(h) ==
  h.contract # None =>
    /\ Own(h.requested, h.contract)
    /\ h.key # None => Own(h.key.contract_id, h.contract)

OwnReport(report) == report # None => Own(report.key.contract_id, report.run.contract)

OwnHistory(key, history) ==
  \A k \in DOMAIN history : Own(key.contract_id, history[k].run.contract)

\* The inductive invariant: NamedContractGoverns, of each part, and the registry.
Governed ==
  /\ RegistryOwned
  /\ \A c \in Conn : OwnFrame(handlers[c])
  /\ \A i \in Id : OwnReport(pendingReports[i])
  /\ \A key \in SessionKey : OwnHistory(key, histories[key])

\* The contract a new frame is given is the registered one of the id it names,
\* and its key carries that id.
LEMMA NewFrameOwned ==
  ASSUME Typed, RegistryOwned, NEW id, NEW session \in Session,
         NEW requested \in ContractId \union {None}, NEW mode
  PROVE  /\ \A cmd : OwnFrame(CommandFrame(id, session, requested, mode, cmd))
         /\ \A effects : OwnFrame(EditFrame(id, session, requested, mode, effects))
<1> DEFINE named == GoverningId(session, requested)
           contract == Governing(session, requested)
<1>1. /\ named \in ContractId \union {None} /\ KeyOf(session, requested) \in SessionKey
      /\ requested # None => named = requested
  BY GoverningType DEF Typed, GoverningId
<1>2. contract # None => Own(named, contract)
  BY <1>1 DEF Governing, Own, RegistryOwned
<1>3. contract # None => Own(requested, contract)
  BY <1>1, <1>2 DEF Own
<1>4. KeyOf(session, requested).contract_id = named
  BY DEF KeyOf
<1> HIDE DEF named, contract
<1>5. ASSUME NEW cmd PROVE OwnFrame(CommandFrame(id, session, requested, mode, cmd))
  BY <1>2, <1>3, <1>4 DEF OwnFrame, CommandFrame, Judging, contract
<1>6. ASSUME NEW effects PROVE OwnFrame(EditFrame(id, session, requested, mode, effects))
  BY <1>3 DEF OwnFrame, EditFrame, Judging, contract
<1> QED BY <1>5, <1>6

LEMMA GovernedStep == Typed /\ Governed /\ [Next]_vars => Governed'
<1> SUFFICES ASSUME Typed, Governed, [Next]_vars PROVE Governed'
  OBVIOUS
<1>1. /\ handlers \in [Conn -> Handler]
      /\ \A d \in Conn : handlers[d] \in Handler /\ Frame(handlers[d])
      /\ contracts \in [ContractId -> Contract \union {None}]
      /\ histories \in [SessionKey -> Seq(EntryOf(Run))]
      /\ pendingReports \in [Id -> PendingReport \union {None}]
  BY DEF Typed, TypeOK
<1>2. ASSUME NEW f, NEW h, Continues(f, h), OwnFrame(h) PROVE OwnFrame(f)
  BY <1>2 DEF Continues, OwnFrame, Fresh
<1>3. CASE FramesOnly
  BY <1>2, <1>3 DEF FramesOnly, Governed, RegistryOwned, registry
<1>4. ASSUME NEW c \in Conn, Saves(c) PROVE Governed'
  <2> DEFINE h == handlers[c]
  <2>1. \A i \in Id : OwnReport(pendingReports'[i])
    <3>1. CASE h.key = None
      BY <1>4, <3>1 DEF Saves, SavedReports, Governed
    <3>2. CASE h.key # None
      <4> DEFINE report == [key |-> h.key, shapes |-> h.shapes,
                            run |-> [serial |-> h.serial, contract |-> h.contract]]
      <4>1. h.contract # None /\ OwnFrame(h)
        BY <1>1, <3>2 DEF Frame, Governed
      <4>2. OwnReport(report)
        BY <3>2, <4>1 DEF OwnReport, OwnFrame
      <4>3. pendingReports' = [pendingReports EXCEPT ![h.id] = report]
        BY <1>4, <3>2 DEF Saves, SavedReports
      <4> HIDE DEF report
      <4> QED BY <1>1, <4>2, <4>3 DEF Governed
    <3> QED BY <3>1, <3>2
  <2> QED BY <1>2, <1>4, <2>1 DEF Saves, Governed, RegistryOwned, registry
<1>5. ASSUME NEW c \in Conn, ReportAppend(c) PROVE Governed'
  <2> DEFINE h == handlers[c]
             run == [serial |-> h.serial, contract |-> h.contract]
             old == histories[h.key]
             new == RecordExecutions(old, h.shapes, h.class, run)
  <2>1. /\ h.key \in SessionKey /\ h.shapes \in Seq(Shape) /\ h.class \in ExitClass
        /\ run \in Run /\ h.contract # None /\ OwnFrame(h) /\ h.key # None
    BY <1>1, <1>5, NoneAssumption DEF ReportAppend, Frame, Handler, Run, Governed
  <2>2. \A d \in Conn : OwnFrame(handlers'[d])
    <3>1. OwnFrame(Answered(h, "recorded"))
      BY <1>1, <1>2, <2>1, AnsweredContinues
    <3> QED BY <1>1, <1>5, <3>1 DEF ReportAppend, Governed
  <2>3. PICK shift \in Nat : \A k \in DOMAIN new :
          /\ k \in Nat
          /\ k + shift <= Len(old) => k + shift \in DOMAIN old /\ new[k] = old[k + shift]
          /\ k + shift > Len(old) => new[k].run = run /\ new[k].seg = k + shift - Len(old)
    <3>1. old \in Seq(EntryOf(Run))
      BY <1>1, <2>1
    <3> HIDE DEF old, run
    <3> QED BY <2>1, <3>1, RecordedEntries
  <2>4. OwnHistory(h.key, new)
    <3>1. OwnHistory(h.key, old) /\ Len(old) \in Nat
      BY <1>1, <2>1 DEF Governed
    <3>2. Own(h.key.contract_id, run.contract)
      BY <2>1 DEF OwnFrame
    <3> HIDE DEF new, run, old
    <3> QED BY <2>3, <3>1, <3>2 DEF OwnHistory
  <2>5. histories' = [histories EXCEPT ![h.key] = new]
    BY <1>5 DEF ReportAppend
  <2> HIDE DEF new
  <2>6. \A key \in SessionKey : OwnHistory(key, histories'[key])
    BY <1>1, <2>4, <2>5 DEF Governed
  <2> QED BY <1>5, <2>2, <2>6 DEF ReportAppend, Governed, RegistryOwned, registry
<1>6. ASSUME NEW c \in Conn, NEW id \in Id, NEW class, ReportTake(c, id, class) PROVE Governed'
  <2>1. OwnFrame(Recording(id, pendingReports[id], class))
    BY <1>6 DEF ReportTake, Governed, OwnReport, OwnFrame, Recording, Own
  <2>2. \A d \in Conn : OwnFrame(handlers'[d])
    BY <1>1, <1>6, <2>1 DEF ReportTake, Governed
  <2>3. \A i \in Id : OwnReport(pendingReports'[i])
    BY <1>1, <1>6 DEF ReportTake, Governed, OwnReport
  <2> QED BY <1>6, <2>2, <2>3 DEF ReportTake, Governed, RegistryOwned, registry
<1>7. ASSUME NEW c \in Conn, NEW g, OwnFrame(g), handlers' = [handlers EXCEPT ![c] = g],
             UNCHANGED <<contracts, histories, pendingReports>>
      PROVE  Governed'
  BY <1>1, <1>7 DEF Governed, RegistryOwned
<1>8. ASSUME NEW c \in Conn, NEW id \in Id, NEW session \in Session,
             NEW requested \in ContractId \union {None}, NEW mode,
             \/ \E cmd \in Commands : Propose(c, id, session, requested, mode, cmd)
             \/ \E effects \in Edits : ProposeEdit(c, id, session, requested, mode, effects)
      PROVE  Governed'
  <2>1. ASSUME NEW cmd, Propose(c, id, session, requested, mode, cmd) PROVE Governed'
    <3> DEFINE g == CommandFrame(id, session, requested, mode, cmd)
    <3>1. OwnFrame(g)
      BY NewFrameOwned DEF Governed
    <3> HIDE DEF g
    <3> QED BY <1>7, <2>1, <3>1 DEF Propose, g
  <2>2. ASSUME NEW effects, ProposeEdit(c, id, session, requested, mode, effects) PROVE Governed'
    <3> DEFINE g == EditFrame(id, session, requested, mode, effects)
    <3>1. OwnFrame(g)
      BY NewFrameOwned DEF Governed
    <3> HIDE DEF g
    <3> QED BY <1>7, <2>2, <3>1 DEF ProposeEdit, g
  <2> QED BY <1>8, <2>1, <2>2
<1>9. ASSUME NEW reg \in Registrable, SetContract(reg[1], reg[2]) PROVE Governed'
  <2>1. reg = <<reg[1], reg[2]>> /\ reg[1] \in ContractId \union {None}
    BY RegistrableAssumption
  <2>2. RegistryOwned'
    BY <1>1, <1>9, <2>1 DEF SetContract, Governed, RegistryOwned
  <2> QED BY <1>9, <2>2 DEF SetContract, Governed
<1>10. CASE Restart
  <2>1. OwnFrame(Fresh)
    BY DEF OwnFrame, Fresh
  <2> QED BY <1>10, <2>1 DEF Restart, Governed, RegistryOwned, OwnReport, OwnHistory
<1>11. CASE UNCHANGED vars
  BY <1>11 DEF vars, Governed, RegistryOwned
<1> QED BY <1>3, <1>4, <1>5, <1>6, <1>8, <1>9, <1>10, <1>11, StepKinds

LEMMA TypedAlways == Spec => []Typed
BY TypedInit, TypedStep, PTL DEF Spec

\* Whatever carries a contract id ran under a contract registered for that id,
\* even when the session has moved on since (resolve_contract, record_report).
THEOREM NamedContractIsUsed == Spec => []NamedContractGoverns
<1>1. Init => Governed
  BY DEF Init, Governed, RegistryOwned, OwnFrame, OwnReport, OwnHistory, Fresh
<1>2. Governed => NamedContractGoverns
  BY DEF Governed, NamedContractGoverns, OwnFrame, OwnReport, OwnHistory
<1> QED BY <1>1, <1>2, TypedAlways, GovernedStep, PTL DEF Spec

-----------------------------------------------------------------------------
(* What a session is bound to *)

LEMMA BindingStep == Typed /\ BindingRegistered /\ [Next]_vars => BindingRegistered'
<1> SUFFICES ASSUME Typed, BindingRegistered, [Next]_vars PROVE BindingRegistered'
  OBVIOUS
<1>1. /\ contracts \in [ContractId -> Contract \union {None}]
      /\ sessionContracts \in [Session -> ContractId \union {None}]
  BY DEF Typed, TypeOK
<1>2. ASSUME UNCHANGED <<contracts, sessionContracts>> PROVE BindingRegistered'
  BY <1>2 DEF BindingRegistered
<1>3. ASSUME NEW session \in Session, NEW requested \in ContractId \union {None},
             BindSession(session, requested), contracts' = contracts
      PROVE  BindingRegistered'
  BY <1>1, <1>3 DEF BindSession, BindingRegistered
<1>4. ASSUME NEW c \in Conn, NEW id \in Id, NEW session \in Session,
             NEW requested \in ContractId \union {None}, NEW mode,
             \/ \E cmd \in Commands : Propose(c, id, session, requested, mode, cmd)
             \/ \E effects \in Edits : ProposeEdit(c, id, session, requested, mode, effects)
      PROVE  BindingRegistered'
  BY <1>2, <1>3, <1>4 DEF Propose, ProposeEdit
<1>5. ASSUME NEW reg \in Registrable, SetContract(reg[1], reg[2]) PROVE BindingRegistered'
  <2>1. reg[1] \in ContractId \union {None} /\ reg[2] \in Contract /\ reg[2] # None
    BY RegistrableAssumption, NoneAssumption
  <2> QED BY <1>1, <1>5, <2>1 DEF SetContract, BindingRegistered
<1>6. CASE Restart
  BY <1>6 DEF Restart, BindingRegistered
<1>7. CASE FramesOnly \/ \E c \in Conn : Saves(c) \/ ReportAppend(c)
  BY <1>2, <1>7 DEF FramesOnly, Saves, ReportAppend, registry
<1>8. CASE \E c \in Conn, id \in Id, class \in Exits : ReportTake(c, id, class)
  BY <1>2, <1>8 DEF ReportTake, registry
<1>9. CASE UNCHANGED vars
  BY <1>2, <1>9 DEF vars
<1> QED BY <1>4, <1>5, <1>6, <1>7, <1>8, <1>9, StepKinds

\* A session is never bound to an id that resolves to no contract: an unknown
\* id is looked up before it is bound (resolve_contract).
THEOREM BindingIsRegistered == Spec => []BindingRegistered
<1>1. Init => BindingRegistered
  BY DEF Init, BindingRegistered
<1> QED BY <1>1, TypedAlways, BindingStep, PTL DEF Spec

-----------------------------------------------------------------------------
(* How often an execution is recorded *)

Live(h) == h.pc # "idle"

Recorded(n) ==
  \E key \in SessionKey : \E k \in DOMAIN histories[key] : histories[key][k].run.serial = n

\* A proposal in a live frame is in no other frame and in no history.
FrameSerials ==
  \A c \in Conn : Live(handlers[c]) =>
    /\ handlers[c].serial <= proposals /\ ~Recorded(handlers[c].serial)
    /\ \A d \in Conn :
         Live(handlers[d]) /\ handlers[c].serial = handlers[d].serial => c = d

\* A proposal whose report is pending is in no live frame, in no history, and
\* owes no second report.
ReportSerials ==
  \A i \in Id : pendingReports[i] # None =>
    LET n == pendingReports[i].run.serial IN
    /\ n <= proposals /\ ~Recorded(n)
    /\ \A c \in Conn : Live(handlers[c]) => handlers[c].serial # n
    /\ \A j \in Id : pendingReports[j] # None /\ pendingReports[j].run.serial = n => i = j

\* One entry for each segment of a proposal, in one history.
Unrepeated ==
  \A key1, key2 \in SessionKey :
    \A j \in DOMAIN histories[key1], k \in DOMAIN histories[key2] :
      LET a == histories[key1][j]
          b == histories[key2][k]
      IN  a.run.serial = b.run.serial /\ a.seg = b.seg => key1 = key2 /\ j = k

\* The inductive invariant.
Ledger ==
  /\ \A n \in Nat : Recorded(n) => n <= proposals
  /\ FrameSerials /\ ReportSerials /\ Unrepeated

\* Appending the segments of a proposal that is recorded nowhere repeats none.
LEMMA AppendUnrepeated ==
  ASSUME histories \in [SessionKey -> Seq(EntryOf(Run))], Unrepeated,
         NEW key \in SessionKey, NEW shapes \in Seq(Shape), NEW class \in ExitClass,
         NEW run \in Run, ~Recorded(run.serial),
         histories' = [histories EXCEPT ![key] = RecordExecutions(@, shapes, class, run)]
  PROVE  /\ Unrepeated'
         /\ \A n \in Nat : Recorded(n)' => Recorded(n) \/ n = run.serial
<1> DEFINE old == histories[key]
           new == RecordExecutions(old, shapes, class, run)
<1>1. old \in Seq(EntryOf(Run)) /\ Len(old) \in Nat
  OBVIOUS
<1>2. PICK shift \in Nat : \A k \in DOMAIN new :
        /\ k \in Nat
        /\ k + shift <= Len(old) => k + shift \in DOMAIN old /\ new[k] = old[k + shift]
        /\ k + shift > Len(old) => new[k].run = run /\ new[k].seg = k + shift - Len(old)
  <2> HIDE DEF old
  <2> QED BY <1>1, RecordedEntries
<1>3. histories' = [histories EXCEPT ![key] = new]
  OBVIOUS
<1> HIDE DEF old, new
<1>4. histories'[key] = new /\ \A x \in SessionKey : x # key => histories'[x] = histories[x]
  BY <1>3
<1>5. \A k \in DOMAIN old : old[k].run.serial # run.serial
  BY DEF Recorded, old
<1>6. \A x \in SessionKey : \A k \in DOMAIN histories[x] : histories[x][k].run.serial # run.serial
  BY DEF Recorded
<1>7. ASSUME NEW k \in DOMAIN new
      PROVE  \/ /\ k \in Nat /\ k + shift \in DOMAIN old
                /\ new[k] = old[k + shift] /\ new[k].run.serial # run.serial
             \/ /\ k \in Nat /\ new[k].run = run /\ new[k].seg = k + shift - Len(old)
  <2>1. k \in Nat
    BY <1>2
  <2>2. CASE k + shift <= Len(old)
    BY <1>2, <1>5, <2>1, <2>2
  <2>3. CASE k + shift > Len(old)
    BY <1>2, <2>1, <2>3
  <2> QED BY <1>1, <2>1, <2>2, <2>3
<1>8. ASSUME NEW x \in SessionKey, x # key, NEW j \in DOMAIN histories'[x], NEW k \in DOMAIN new,
             histories'[x][j].run.serial = new[k].run.serial,
             histories'[x][j].seg = new[k].seg
      PROVE  FALSE
  <2>1. histories'[x] = histories[x]
    BY <1>4, <1>8
  <2>2. histories[x][j].run.serial # run.serial
    BY <1>6, <1>8, <2>1
  <2>3. k \in Nat /\ k + shift \in DOMAIN old /\ new[k] = old[k + shift]
    BY <1>7, <1>8, <2>1, <2>2
  <2> QED BY <1>8, <2>1, <2>3 DEF Unrepeated, old
<1>9. ASSUME NEW j \in DOMAIN new, NEW k \in DOMAIN new,
             new[j].run.serial = new[k].run.serial, new[j].seg = new[k].seg
      PROVE  j = k
  <2>1. CASE new[j].run.serial # run.serial
    <3>1. /\ j \in Nat /\ j + shift \in DOMAIN old /\ new[j] = old[j + shift]
          /\ k \in Nat /\ k + shift \in DOMAIN old /\ new[k] = old[k + shift]
      BY <1>7, <1>9, <2>1
    <3>2. j + shift = k + shift
      BY <1>9, <3>1 DEF Unrepeated, old
    <3> QED BY <3>1, <3>2
  <2>2. CASE new[j].run.serial = run.serial
    <3>1. /\ j \in Nat /\ new[j].seg = j + shift - Len(old)
          /\ k \in Nat /\ new[k].seg = k + shift - Len(old)
      BY <1>7, <1>9, <2>2
    <3>2. j + shift - Len(old) = k + shift - Len(old)
      BY <1>9, <3>1
    <3> DEFINE n == Len(old)
    <3>3. n \in Nat /\ j + shift - n = k + shift - n
      BY <1>1, <3>2
    <3> HIDE DEF n
    <3> QED BY <3>1, <3>3
  <2> QED BY <2>1, <2>2
<1>10. Unrepeated'
  <2> SUFFICES ASSUME NEW x \in SessionKey, NEW y \in SessionKey,
                      NEW j \in DOMAIN histories'[x], NEW k \in DOMAIN histories'[y],
                      histories'[x][j].run.serial = histories'[y][k].run.serial,
                      histories'[x][j].seg = histories'[y][k].seg
               PROVE  x = y /\ j = k
    BY DEF Unrepeated
  <2>1. CASE x = key /\ y = key
    BY <1>4, <1>9, <2>1
  <2>2. CASE x = key /\ y # key
    BY <1>4, <1>8, <2>2
  <2>3. CASE x # key /\ y = key
    BY <1>4, <1>8, <2>3
  <2>4. CASE x # key /\ y # key
    BY <1>4, <2>4 DEF Unrepeated
  <2> QED BY <2>1, <2>2, <2>3, <2>4
<1>11. ASSUME NEW n \in Nat, Recorded(n)' PROVE Recorded(n) \/ n = run.serial
  <2>1. PICK x \in SessionKey : \E k \in DOMAIN histories'[x] : histories'[x][k].run.serial = n
    BY <1>11 DEF Recorded
  <2>2. CASE x = key
    BY <1>4, <1>7, <2>1, <2>2 DEF Recorded, old
  <2>3. CASE x # key
    BY <1>4, <2>1, <2>3 DEF Recorded
  <2> QED BY <2>2, <2>3
<1> QED BY <1>10, <1>11

\* A serial belongs to at most one live frame or pending report, also when one
\* frame gives way to another of no new proposal.
LEMMA LedgerFrames ==
  ASSUME Typed, Ledger, UNCHANGED <<histories, pendingReports, proposals>>,
         \A d \in Conn : Live(handlers'[d]) =>
           Live(handlers[d]) /\ handlers'[d].serial = handlers[d].serial
  PROVE  Ledger'
<1>1. \A n : Recorded(n)' <=> Recorded(n)
  BY DEF Recorded
<1> QED BY <1>1 DEF Ledger, FrameSerials, ReportSerials, Unrepeated

LEMMA LedgerStep == Typed /\ Ledger /\ [Next]_vars => Ledger'
<1> SUFFICES ASSUME Typed, Ledger, [Next]_vars PROVE Ledger'
  OBVIOUS
<1>1. /\ handlers \in [Conn -> Handler]
      /\ \A d \in Conn : handlers[d] \in Handler /\ Frame(handlers[d])
      /\ \A d \in Conn : handlers[d].serial \in Nat
      /\ histories \in [SessionKey -> Seq(EntryOf(Run))]
      /\ pendingReports \in [Id -> PendingReport \union {None}]
      /\ \A i \in Id : pendingReports[i] # None => pendingReports[i].run.serial \in Nat
      /\ proposals \in Nat
  <2>1. /\ handlers \in [Conn -> Handler]
        /\ \A d \in Conn : Frame(handlers[d])
        /\ histories \in [SessionKey -> Seq(EntryOf(Run))]
        /\ pendingReports \in [Id -> PendingReport \union {None}]
        /\ proposals \in Nat
    BY BoundAssumption DEF Typed, TypeOK
  <2>2. \A h \in Handler : h.serial \in Nat
    BY DEF Handler
  <2>3. \A report \in PendingReport : report.run.serial \in Nat
    BY DEF PendingReport, Run
  <2> QED BY <2>1, <2>2, <2>3
<1>2. ASSUME NEW f, NEW h, Continues(f, h)
      PROVE  Live(f) => Live(h) /\ f.serial = h.serial
  BY <1>2 DEF Continues, Live, Fresh
<1>3. CASE FramesOnly
  BY <1>2, <1>3, LedgerFrames DEF FramesOnly
<1>4. ASSUME NEW c \in Conn, Saves(c) PROVE Ledger'
  <2> DEFINE h == handlers[c]
  <2>1. \A d \in Conn : Live(handlers'[d]) =>
          d # c /\ Live(handlers[d]) /\ handlers'[d].serial = handlers[d].serial
    BY <1>2, <1>4 DEF Saves, Live
  <2>2. CASE h.key = None
    BY <1>4, <2>1, <2>2, LedgerFrames DEF Saves, SavedReports
  <2>3. CASE h.key # None
    <3> DEFINE n == h.serial
               report == [key |-> h.key, shapes |-> h.shapes,
                          run |-> [serial |-> n, contract |-> h.contract]]
    <3>1. pendingReports' = [pendingReports EXCEPT ![h.id] = report] /\ h.id \in Id
      BY <1>1, <1>4, <2>3 DEF Saves, SavedReports, Frame
    <3>2. report.run.serial = n
      OBVIOUS
    <3> HIDE DEF report
    <3>3. \A i \in Id : IF i = h.id THEN pendingReports'[i] = report
                        ELSE pendingReports'[i] = pendingReports[i]
      BY <1>1, <3>1
    <3>4. /\ n <= proposals /\ ~Recorded(n)
          /\ \A d \in Conn : d # c /\ Live(handlers[d]) => handlers[d].serial # n
          /\ \A i \in Id : pendingReports[i] # None => pendingReports[i].run.serial # n
      BY <1>4 DEF Saves, Live, Ledger, FrameSerials, ReportSerials
    <3> HIDE DEF n
    <3>5. proposals' = proposals /\ \A m : Recorded(m)' <=> Recorded(m)
      BY <1>4 DEF Saves, Recorded
    <3>6. FrameSerials'
      BY <2>1, <3>5 DEF Ledger, FrameSerials
    <3>7. ReportSerials'
      BY <2>1, <3>2, <3>3, <3>4, <3>5 DEF Ledger, ReportSerials
    <3>8. Unrepeated'
      BY <1>4 DEF Saves, Ledger, Unrepeated
    <3> QED BY <3>5, <3>6, <3>7, <3>8 DEF Ledger
  <2> QED BY <2>2, <2>3
<1>5. ASSUME NEW c \in Conn, ReportAppend(c) PROVE Ledger'
  <2> DEFINE h == handlers[c]
             run == [serial |-> h.serial, contract |-> h.contract]
  <2>1. /\ h.key \in SessionKey /\ h.shapes \in Seq(Shape) /\ h.class \in ExitClass
        /\ run \in Run /\ run.serial = h.serial /\ Live(h)
    BY <1>1, <1>5 DEF ReportAppend, Frame, Handler, Run, Live
  <2>2. /\ h.serial <= proposals /\ ~Recorded(h.serial)
        /\ \A d \in Conn : d # c /\ Live(handlers[d]) => handlers[d].serial # h.serial
        /\ \A i \in Id : pendingReports[i] # None => pendingReports[i].run.serial # h.serial
    BY <2>1 DEF Ledger, FrameSerials, ReportSerials
  <2>3. histories' = [histories EXCEPT ![h.key] = RecordExecutions(@, h.shapes, h.class, run)]
    BY <1>5 DEF ReportAppend
  <2>4. Unrepeated' /\ \A n \in Nat : Recorded(n)' => Recorded(n) \/ n = h.serial
    <3> HIDE DEF run
    <3> QED BY <1>1, <2>1, <2>2, <2>3, AppendUnrepeated DEF Ledger
  <2>5. Answered(h, "recorded").pc = "idle"
    BY <1>1, AnsweredContinues
  <2>6. \A d \in Conn : Live(handlers'[d]) => d # c /\ handlers'[d] = handlers[d]
    BY <1>1, <1>5, <2>5 DEF ReportAppend, Live
  <2>7. pendingReports' = pendingReports /\ proposals' = proposals
    BY <1>5 DEF ReportAppend
  <2>8. FrameSerials' /\ ReportSerials'
    BY <1>1, <2>2, <2>4, <2>6, <2>7 DEF Ledger, FrameSerials, ReportSerials
  <2> QED BY <1>1, <2>2, <2>4, <2>7, <2>8 DEF Ledger
<1>6. ASSUME NEW c \in Conn, NEW id \in Id, NEW class, ReportTake(c, id, class) PROVE Ledger'
  <2> DEFINE n == pendingReports[id].run.serial
             g == Recording(id, pendingReports[id], class)
  <2>1. g.serial = n
    BY DEF Recording
  <2>2. /\ n <= proposals /\ ~Recorded(n)
        /\ \A d \in Conn : Live(handlers[d]) => handlers[d].serial # n
        /\ \A j \in Id : pendingReports[j] # None /\ j # id => pendingReports[j].run.serial # n
    BY <1>6 DEF ReportTake, Ledger, ReportSerials
  <2>3. handlers'[c] = g /\ \A d \in Conn : d # c => handlers'[d] = handlers[d]
    BY <1>1, <1>6 DEF ReportTake
  <2>4. \A i \in Id : pendingReports'[i] = IF i = id THEN None ELSE pendingReports[i]
    BY <1>1, <1>6 DEF ReportTake
  <2>5. proposals' = proposals /\ histories' = histories
    BY <1>6 DEF ReportTake
  <2>6. \A m : Recorded(m)' <=> Recorded(m)
    BY <2>5 DEF Recorded
  <2> HIDE DEF g, n
  <2>7. FrameSerials'
    BY <2>1, <2>2, <2>3, <2>5, <2>6 DEF Ledger, FrameSerials
  <2>8. ReportSerials'
    <3> SUFFICES ASSUME NEW i \in Id, pendingReports'[i] # None
                 PROVE  LET m == pendingReports'[i].run.serial IN
                        /\ m <= proposals /\ ~Recorded(m)
                        /\ \A d \in Conn : Live(handlers'[d]) => handlers'[d].serial # m
                        /\ \A j \in Id : pendingReports'[j] # None
                                         /\ pendingReports'[j].run.serial = m => i = j
      BY <2>5, <2>6 DEF ReportSerials
    <3>1. i # id /\ pendingReports'[i] = pendingReports[i]
      BY <2>4
    <3> QED BY <2>1, <2>2, <2>3, <2>4, <3>1 DEF Ledger, ReportSerials
  <2> QED BY <2>5, <2>6, <2>7, <2>8 DEF Ledger, Unrepeated
<1>7. ASSUME NEW c \in Conn, Takes(c) PROVE Ledger'
  <2>1. \A m : Recorded(m)' <=> Recorded(m)
    BY <1>7 DEF Takes, Recorded
  <2>2. ~Recorded(proposals + 1)
    BY <1>1 DEF Ledger
  <2>3. FrameSerials'
    <3>1. /\ handlers'[c].serial = proposals + 1 /\ proposals' = proposals + 1 /\ proposals \in Nat
          /\ \A d \in Conn : d # c => handlers'[d] = handlers[d]
      BY <1>1, <1>7 DEF Takes
    <3>2. \A d \in Conn : d # c /\ Live(handlers'[d]) =>
            handlers'[d].serial <= proposals /\ ~Recorded(handlers'[d].serial)
      BY <3>1 DEF Ledger, FrameSerials
    <3>3. \A d \in Conn : d # c /\ Live(handlers'[d]) => handlers'[d].serial # handlers'[c].serial
      BY <3>1, <3>2
    <3>4. \A d, e \in Conn :
            /\ d # c /\ e # c /\ Live(handlers'[d]) /\ Live(handlers'[e])
            /\ handlers'[d].serial = handlers'[e].serial
            => d = e
      BY <3>1 DEF Ledger, FrameSerials
    <3>5. \A d \in Conn : Live(handlers'[d]) =>
            handlers'[d].serial <= proposals' /\ ~Recorded(handlers[d].serial)'
      BY <1>1, <2>1, <2>2, <3>1, <3>2
    <3>6. \A d, e \in Conn :
            Live(handlers'[d]) /\ Live(handlers'[e]) /\ handlers'[d].serial = handlers'[e].serial
            => d = e
      BY <3>3, <3>4
    <3> QED BY <3>5, <3>6 DEF FrameSerials
  <2>4. ReportSerials'
    BY <1>1, <1>7, <2>1 DEF Takes, Ledger, ReportSerials
  <2>5. \A n \in Nat : Recorded(n)' => n <= proposals'
    BY <1>1, <1>7, <2>1 DEF Takes, Ledger
  <2> QED BY <1>7, <2>3, <2>4, <2>5 DEF Takes, Ledger, Unrepeated
<1>8. ASSUME NEW c \in Conn, NEW id \in Id, NEW session \in Session,
             NEW requested \in ContractId \union {None}, NEW mode,
             \/ \E cmd \in Commands : Propose(c, id, session, requested, mode, cmd)
             \/ \E effects \in Edits : ProposeEdit(c, id, session, requested, mode, effects)
      PROVE  Ledger'
  <2>1. ASSUME NEW cmd, Propose(c, id, session, requested, mode, cmd) PROVE Takes(c)
    <3> DEFINE g == CommandFrame(id, session, requested, mode, cmd)
    <3>1. g.pc = "judging" /\ g.serial = proposals + 1
      BY DEF CommandFrame, Judging
    <3> HIDE DEF g
    <3> QED BY <1>1, <2>1, <3>1 DEF Propose, Takes, g
  <2>2. ASSUME NEW effects, ProposeEdit(c, id, session, requested, mode, effects) PROVE Takes(c)
    <3> DEFINE g == EditFrame(id, session, requested, mode, effects)
    <3>1. g.pc = "judging" /\ g.serial = proposals + 1
      BY DEF EditFrame, Judging
    <3> HIDE DEF g
    <3> QED BY <1>1, <2>2, <3>1 DEF ProposeEdit, Takes, g
  <2> QED BY <1>7, <1>8, <2>1, <2>2
<1>9. CASE \E reg \in Registrable : SetContract(reg[1], reg[2])
  BY <1>9, LedgerFrames DEF SetContract
<1>10. CASE Restart
  BY <1>10 DEF Restart, Ledger, FrameSerials, ReportSerials, Unrepeated, Recorded, Live, Fresh
<1>11. CASE UNCHANGED vars
  BY <1>11, LedgerFrames DEF vars
<1> QED BY <1>3, <1>4, <1>5, <1>6, <1>8, <1>9, <1>10, <1>11, StepKinds

\* However many reports of an id race, an execution is written to one history
\* once, and while its report is on the way it is written to none
\* (record_report takes before it appends).
THEOREM RecordedAtMostOnce == Spec => []RecordedOnce
<1>1. Init => Ledger
  BY DEF Init, Ledger, FrameSerials, ReportSerials, Unrepeated, Recorded, Live, Fresh
<1>2. Ledger => RecordedOnce
  <2> SUFFICES ASSUME Ledger PROVE RecordedOnce
    OBVIOUS
  <2>1. ASSUME NEW key \in SessionKey, NEW k \in DOMAIN histories[key]
        PROVE  Recorded(histories[key][k].run.serial)
    BY DEF Recorded
  <2> QED BY <2>1 DEF Ledger, FrameSerials, ReportSerials, Unrepeated, RecordedOnce, Live
<1> QED BY <1>1, <1>2, TypedAlways, LedgerStep, PTL DEF Spec

-----------------------------------------------------------------------------
(***************************************************************************)
(* The daemon implements the firewall's promise, for any number of         *)
(* everything: every step, seen through PhaseOf and AnswerOf, moves each   *)
(* connection the way Firewall allows or leaves it where it is.  What the  *)
(* map calls fit or unfit is not what a verdict says but what the contract *)
(* permits, so the proof rests on the frames' being grounded.              *)
(***************************************************************************)

\* A frame at work has answered nothing yet, a held one its hold.
Answering(h) ==
  /\ h.pc \in {"judging", "recording"} => h.answer = "none"
  /\ h.pc \in {"holding", "expired"} => h.answer = "hold"

\* The inductive invariant the refinement needs.
Faithful == Sound /\ HoldsReachable /\ \A c \in Conn : Answering(handlers[c])

Undecided == {"judging", "fit", "unfit", "unsure"}

\* Firewall's Step, between the images of two frames.
Moved(h, f) ==
  \/ /\ PhaseOf(h) \in {"free", "judging"} /\ PhaseOf(f) \in Undecided
     /\ AnswerOf(f) = "none" /\ (PhaseOf(h) = "judging" => AnswerOf(h) = "none")
  \/ PhaseOf(h) = "fit" /\ PhaseOf(f) = "free" /\ AnswerOf(f) = "allow"
  \/ PhaseOf(h) = "unfit" /\ PhaseOf(f) = "free" /\ AnswerOf(f) = "block"
  \/ PhaseOf(h) = "unsure" /\ PhaseOf(f) \in {"free", "held"} /\ AnswerOf(f) = "hold"
  \/ PhaseOf(h) = "held" /\ PhaseOf(f) \in {"approved", "refused"} /\ AnswerOf(f) = "hold"
  \/ PhaseOf(h) = "approved" /\ PhaseOf(f) = "free" /\ AnswerOf(f) = "allow"
  \/ PhaseOf(h) = "refused" /\ PhaseOf(f) = "free" /\ AnswerOf(f) = "block"
  \/ PhaseOf(f) = "free" /\ AnswerOf(f) = "none"
  \/ PhaseOf(f) = PhaseOf(h) /\ AnswerOf(f) = AnswerOf(h)

-----------------------------------------------------------------------------
(* The map *)

LEMMA Images ==
  ASSUME NEW h \in Handler
  PROVE  /\ PhaseOf(h) \in {"free", "judging", "fit", "unfit", "unsure",
                            "held", "approved", "refused"}
         /\ AnswerOf(h) \in {"none", "allow", "block", "hold"}
         /\ h.pc \in {"idle", "recording"} => PhaseOf(h) = "free"
         /\ h.pc = "judging" => PhaseOf(h) \in Undecided
         /\ h.pc = "judging" /\ Awaiting(h) # {} => PhaseOf(h) = "judging"
         /\ Judged(h) => PhaseOf(h) = IF Fit(h) THEN "fit" ELSE IF Unfit(h) THEN "unfit" ELSE "unsure"
         /\ h.pc = "holding" /\ h.decision = "none" => PhaseOf(h) = "held"
         /\ h.pc = "holding" /\ h.decision = "approve" => PhaseOf(h) = "approved"
         /\ h.pc = "holding" /\ h.decision \in {"reject", "dropped"} => PhaseOf(h) = "refused"
         /\ h.pc = "expired" => PhaseOf(h) = "refused"
<1>1. h.pc \in {"idle", "judging", "holding", "expired", "recording"}
  BY DEF Handler
<1>2. h.answer \in {"none", "allow", "block", "hold", "recorded"}
  BY DEF Handler
<1>3. AnswerOf(h) \in {"none", "allow", "block", "hold"}
  BY <1>2 DEF AnswerOf
<1>4. CASE h.pc \in {"idle", "recording"}
  BY <1>3, <1>4 DEF PhaseOf, Judged
<1>5. CASE h.pc = "judging"
  BY <1>3, <1>5 DEF PhaseOf, Judged, Undecided
<1>6. CASE h.pc = "holding"
  BY <1>3, <1>6 DEF PhaseOf, Judged
<1>7. CASE h.pc = "expired"
  BY <1>3, <1>7 DEF PhaseOf, Judged
<1> QED BY <1>1, <1>4, <1>5, <1>6, <1>7

LEMMA FreshImage == PhaseOf(Fresh) = "free" /\ AnswerOf(Fresh) = "none"
BY DEF PhaseOf, AnswerOf, Fresh

\* Every frame moves as Firewall allows: the step is one of Firewall's.
LEMMA MovedStep ==
  ASSUME handlers \in [Conn -> Handler], handlers' \in [Conn -> Handler],
         \A c \in Conn : Moved(handlers[c], handlers'[c])
  PROVE  Promise!Next
<1>1. /\ [c \in Conn |-> PhaseOf(handlers'[c])] \in [Conn -> Promise!Phase]
      /\ [c \in Conn |-> AnswerOf(handlers'[c])] \in [Conn -> Promise!Answer]
  <2>1. \A c \in Conn : /\ PhaseOf(handlers'[c]) \in Promise!Phase
                        /\ AnswerOf(handlers'[c]) \in Promise!Answer
    BY Images DEF Promise!Phase, Promise!Answer
  <2> QED BY <2>1
<1>2. ASSUME NEW c \in Conn PROVE Promise!Step(c)
  <2>1. Moved(handlers[c], handlers'[c])
    OBVIOUS
  <2> QED BY <2>1
       DEF Moved, Undecided, Promise!Step, Promise!Submit, Promise!Judge, Promise!Allow,
           Promise!Block, Promise!HandBack, Promise!Hold, Promise!Decide, Promise!Obey,
           Promise!Lapse, Promise!Stays, Promise!Moves
<1> QED BY <1>1, <1>2 DEF Promise!Next

-----------------------------------------------------------------------------
(* What a judged frame is mapped to *)

\* Verdicts combine to a violation or a loop only if one of them is that.
LEMMA CombineUnfit ==
  ASSUME NEW verdicts \in Seq(Verdicts), CombineVerdicts(verdicts).kind \in {"violation", "loop"}
  PROVE  \E k \in DOMAIN verdicts : verdicts[k].kind \in {"violation", "loop"}
<1> SUFFICES ASSUME \A k \in DOMAIN verdicts : verdicts[k].kind \notin {"violation", "loop"}
             PROVE  FALSE
  OBVIOUS
<1>1. \A k \in DOMAIN verdicts :
        verdicts[k] \in Verdicts /\ verdicts[k].kind \in {"in-scope", "needs-human"}
  BY VerdictShape
<1>2. \A k \in DOMAIN verdicts : verdicts[k].proofs = {}
  BY <1>1, VerdictShape
<1>3. AllProofs(verdicts) = {}
  BY <1>2 DEF AllProofs
<1>4. Asking(verdicts) # {} => First(Asking(verdicts)) \in Asking(verdicts)
  <2>1. Asking(verdicts) \in SUBSET Nat
    BY DEF Asking
  <2> QED BY <2>1, FirstOfPositions
<1>5. \A k \in Asking(verdicts) : verdicts[k].kind = "needs-human"
  BY DEF Asking
<1> QED BY <1>1, <1>3, <1>4, <1>5 DEF CombineVerdicts, InScope

\* Verdicts combine to a question only if one of them is one.
LEMMA CombineAsks ==
  ASSUME NEW verdicts \in Seq(Verdicts), CombineVerdicts(verdicts).kind = "needs-human"
  PROVE  \E k \in DOMAIN verdicts : verdicts[k].kind = "needs-human"
<1>1. Asking(verdicts) # {}
  BY DEF CombineVerdicts, InScope, Loop, ScopeViolation
<1> QED BY <1>1 DEF Asking

\* A verdict on known effects is the contract's: never a question, and in scope
\* exactly when the effects are permitted and no loop stands.
LEMMA GroundedMeaning ==
  ASSUME NEW h \in Handler, Frame(h), h.contract # None, NEW k \in DOMAIN h.effects
  PROVE  /\ h.effects[k] = Unknown => h.verdicts[k].kind \in {"pending", "needs-human"}
         /\ h.effects[k] # Unknown =>
              /\ h.verdicts[k].kind \in {"in-scope", "violation", "loop"}
              /\ h.verdicts[k].kind = "in-scope" <=>
                   ~LoopDetected(h.history) /\ Permits(h.contract, h.effects[k])
<1>1. Grounded(h, k) /\ h.contract \in Contract
  BY DEF Frame, Handler
<1>2. CASE h.effects[k] = Unknown
  BY <1>1, <1>2, UnknownAssumption DEF Grounded
<1>3. CASE h.effects[k] # Unknown
  <2> DEFINE looping == LoopDetected(h.history)
             e == h.effects[k]
  <2>1. e \in Effects /\ h.verdicts[k] = Check(e, h.contract, looping) /\ looping \in BOOLEAN
    BY <1>1, <1>3 DEF Grounded, LoopDetected
  <2> HIDE DEF looping, e
  <2>2. Check(e, h.contract, looping).kind \in {"in-scope", "violation", "loop"}
    BY <2>1 DEF Check, InScope, Loop, ScopeViolation
  <2>3. Check(e, h.contract, looping).kind = "in-scope" <=> ~looping /\ Permits(h.contract, e)
    BY <1>1, <2>1, CheckInScope
  <2> QED BY <1>3, <2>1, <2>2, <2>3 DEF looping, e
<1> QED BY <1>2, <1>3

\* The verdict a judged frame is answered by says what the contract does: fit
\* commands are in scope, unfit ones are violations or loops, others questions.
LEMMA JudgedImage ==
  ASSUME NEW h \in Handler, Frame(h), Judged(h)
  PROVE  LET kind == CombineVerdicts(h.verdicts).kind IN
         /\ kind = "in-scope" => PhaseOf(h) = "fit"
         /\ kind \in {"violation", "loop"} => PhaseOf(h) = "unfit"
         /\ kind = "needs-human" => PhaseOf(h) = "unsure"
<1> DEFINE kind == CombineVerdicts(h.verdicts).kind
<1>1. h.verdicts \in Seq(Verdicts)
  <2>1. h.verdicts \in Seq(SegVerdict)
    BY DEF Handler
  <2>2. \A k \in 1 .. Len(h.verdicts) : h.verdicts[k] \in Verdicts
    BY <2>1 DEF Judged, Awaiting, SegVerdict
  <2>3. h.verdicts \in [1 .. Len(h.verdicts) -> Verdicts] /\ Len(h.verdicts) \in Nat
    BY <2>1, <2>2
  <2> QED BY <2>3
<1>2. PhaseOf(h) = IF Fit(h) THEN "fit" ELSE IF Unfit(h) THEN "unfit" ELSE "unsure"
  BY Images
<1>3. h.contract # None => DOMAIN h.effects = DOMAIN h.verdicts
  BY DEF Frame
<1>4. ASSUME kind = "in-scope" PROVE Fit(h)
  BY <1>4, InScopeMeaning DEF Fit, Unfit
<1>5. ASSUME kind \in {"violation", "loop"} PROVE Unfit(h) /\ ~Fit(h)
  <2>1. PICK k \in DOMAIN h.verdicts : h.verdicts[k].kind \in {"violation", "loop"}
    BY <1>1, <1>5, CombineUnfit
  <2>2. h.contract # None
    BY <2>1 DEF Frame
  <2> QED BY <1>3, <2>1, <2>2, GroundedMeaning DEF Unfit, Fit
<1>6. ASSUME kind = "needs-human" PROVE ~Unfit(h) /\ ~Fit(h)
  <2>1. \A k \in DOMAIN h.verdicts : h.verdicts[k].kind \in {"in-scope", "needs-human"}
    BY <1>6, UnsureMeaning DEF Unsure
  <2>2. PICK k \in DOMAIN h.verdicts : h.verdicts[k].kind = "needs-human"
    BY <1>1, <1>6, CombineAsks
  <2>3. ~Unfit(h)
    BY <1>3, <2>1, GroundedMeaning DEF Unfit
  <2>4. ~Fit(h)
    BY <1>3, <2>2, GroundedMeaning DEF Fit
  <2> QED BY <2>3, <2>4
<1> QED BY <1>2, <1>4, <1>5, <1>6

-----------------------------------------------------------------------------
(* How frames move *)

\* A frame moves as Firewall allows and is in step with its answers after it.
Moves(h, f) == Moved(h, f) /\ Answering(f)

\* A frame that is left alone, or given up.
LEMMA StaysOrLapses ==
  ASSUME NEW h \in Handler, Answering(h)
  PROVE  Moves(h, h) /\ Moves(h, Fresh)
BY FreshImage DEF Moves, Moved, Answering, Fresh

\* A frame that starts, or goes on with, work that is not answered yet.
LEMMA Works ==
  ASSUME NEW h \in Handler, NEW f \in Handler, Answering(h), f.answer = "none",
         \/ h.pc = "idle" /\ f.pc \in {"judging", "recording"}
         \/ h.pc = "judging" /\ Awaiting(h) # {} /\ f.pc = "judging"
  PROVE  Moves(h, f)
<1>1. AnswerOf(f) = "none" /\ Answering(f)
  BY DEF AnswerOf, Answering
<1>2. CASE f.pc = "judging"
  <2>1. PhaseOf(f) \in Undecided /\ PhaseOf(h) \in {"free", "judging"}
    BY <1>2, Images
  <2>2. PhaseOf(h) = "judging" => AnswerOf(h) = "none"
    BY Images DEF Answering, AnswerOf
  <2> QED BY <1>1, <2>1, <2>2 DEF Moves, Moved
<1>3. CASE f.pc = "recording"
  BY <1>1, <1>3, Images DEF Moves, Moved
<1> QED BY <1>2, <1>3

\* An answer is the one the frame's phase calls for, or a report's.
LEMMA Answers ==
  ASSUME NEW h \in Handler, Answering(h), NEW answer \in {"allow", "block", "hold", "recorded"},
         \/ PhaseOf(h) \in {"fit", "approved"} /\ answer = "allow"
         \/ PhaseOf(h) \in {"unfit", "refused"} /\ answer = "block"
         \/ PhaseOf(h) = "unsure" /\ answer = "hold"
         \/ answer = "recorded"
  PROVE  Moves(h, Answered(h, answer))
<1>1. CASE h.peer = "gone"
  BY <1>1, StaysOrLapses DEF Answered
<1>2. CASE h.peer # "gone"
  <2> DEFINE g == [h EXCEPT !.pc = "idle", !.answer = answer]
  <2>1. Answered(h, answer) = g
    BY <1>2 DEF Answered
  <2>2. g \in Handler
    BY AnswerType
  <2>3. g.pc = "idle" /\ g.answer = answer
    BY DEF Handler
  <2> HIDE DEF g
  <2>4. PhaseOf(g) = "free" /\ AnswerOf(g) = (IF answer = "recorded" THEN "none" ELSE answer)
    BY <2>2, <2>3, Images DEF AnswerOf
  <2> QED BY <2>1, <2>3, <2>4 DEF Moves, Moved, Answering
<1> QED BY <1>1, <1>2

\* A waiting frame is told a decision, or its timer fires.
LEMMA Decides ==
  ASSUME NEW h \in Handler, Answering(h), h.pc = "holding", h.decision = "none"
  PROVE  /\ \A decision \in {"approve", "reject", "dropped"} :
              Moves(h, [h EXCEPT !.decision = decision])
         /\ Moves(h, [h EXCEPT !.pc = "expired"])
<1>1. PhaseOf(h) = "held" /\ h.answer = "hold"
  BY Images DEF Answering
<1>2. ASSUME NEW decision \in {"approve", "reject", "dropped"}
      PROVE  Moves(h, [h EXCEPT !.decision = decision])
  <2> DEFINE g == [h EXCEPT !.decision = decision]
  <2>1. g \in Handler /\ g.pc = "holding" /\ g.decision = decision /\ g.answer = "hold"
    BY <1>1 DEF Handler
  <2> HIDE DEF g
  <2>2. PhaseOf(g) \in {"approved", "refused"} /\ AnswerOf(g) = "hold"
    BY <2>1, Images DEF AnswerOf
  <2> QED BY <1>1, <2>1, <2>2 DEF Moves, Moved, Answering, g
<1>3. Moves(h, [h EXCEPT !.pc = "expired"])
  <2> DEFINE g == [h EXCEPT !.pc = "expired"]
  <2>1. g \in Handler /\ g.pc = "expired" /\ g.answer = "hold"
    BY <1>1 DEF Handler
  <2> HIDE DEF g
  <2>2. PhaseOf(g) = "refused" /\ AnswerOf(g) = "hold"
    BY <2>1, Images DEF AnswerOf
  <2> QED BY <1>1, <2>1, <2>2 DEF Moves, Moved, Answering, g
<1> QED BY <1>2, <1>3

\* A dropped sender is a refusal for whoever still waits, and nothing to others.
LEMMA DroppedMoves ==
  ASSUME NEW hs \in [Conn -> Handler], NEW holder, NEW d \in Conn, Answering(hs[d])
  PROVE  Moves(hs[d], SenderDropped(hs, holder)[d])
<1>1. CASE d = holder /\ hs[d].pc = "holding" /\ hs[d].decision = "none"
  <2>1. SenderDropped(hs, holder)[d] = [hs[d] EXCEPT !.decision = "dropped"]
    BY <1>1 DEF SenderDropped
  <2> QED BY <1>1, <2>1, Decides
<1>2. CASE ~(d = holder /\ hs[d].pc = "holding" /\ hs[d].decision = "none")
  <2>1. SenderDropped(hs, holder)[d] = hs[d]
    BY <1>2 DEF SenderDropped
  <2> QED BY <2>1, StaysOrLapses
<1> QED BY <1>1, <1>2

-----------------------------------------------------------------------------
(* Every step *)

LEMMA EveryFrameMoves ==
  ASSUME Faithful, [Next]_vars
  PROVE  \A d \in Conn : Moves(handlers[d], handlers'[d])
<1> DEFINE AllMove == \A d \in Conn : Moves(handlers[d], handlers'[d])
<1>1. /\ handlers \in [Conn -> Handler] /\ handlers' \in [Conn -> Handler] /\ HoldsReachable
      /\ \A d \in Conn : /\ handlers[d] \in Handler /\ Frame(handlers[d])
                          /\ handlers'[d] \in Handler /\ Answering(handlers[d])
                          /\ Moves(handlers[d], handlers[d]) /\ Moves(handlers[d], Fresh)
  <2>1. Typed' /\ Typed
    BY TypedStep DEF Faithful, Sound
  <2>2. /\ handlers \in [Conn -> Handler] /\ handlers' \in [Conn -> Handler]
        /\ \A d \in Conn : Frame(handlers[d])
    BY <2>1 DEF Typed, TypeOK
  <2> QED BY <2>2, StaysOrLapses DEF Faithful
<1>2. ASSUME NEW c \in Conn, NEW g, handlers' = [handlers EXCEPT ![c] = g], Moves(handlers[c], g)
      PROVE  AllMove
  BY <1>1, <1>2
<1>3. CASE \E reg \in Registrable : SetContract(reg[1], reg[2])
  BY <1>1, <1>3 DEF SetContract
<1>4. ASSUME NEW id \in Id, NEW decision \in {"approve", "reject"}, Resolve(id, decision)
      PROVE  AllMove
  <2> DEFINE holder == pendingHolds[id]
  <2>1. CASE holder \in Conn /\ handlers[holder].pc = "holding"
    <3>1. handlers' = [handlers EXCEPT ![holder] = [handlers[holder] EXCEPT !.decision = decision]]
      BY <1>4, <2>1 DEF Resolve
    <3>2. handlers[holder].decision = "none"
      BY <1>1, <2>1 DEF HoldsReachable
    <3>3. Moves(handlers[holder], [handlers[holder] EXCEPT !.decision = decision])
      BY <1>1, <2>1, <3>2, Decides
    <3> QED BY <1>2, <2>1, <3>1, <3>3
  <2>2. CASE ~(holder \in Conn /\ handlers[holder].pc = "holding")
    BY <1>1, <1>4, <2>2 DEF Resolve
  <2> QED BY <2>1, <2>2
<1>5. ASSUME NEW c \in Conn, NEW g, handlers' = [handlers EXCEPT ![c] = g], g.answer = "none",
             \/ handlers[c].pc = "idle" /\ g.pc \in {"judging", "recording"}
             \/ handlers[c].pc = "judging" /\ Awaiting(handlers[c]) # {} /\ g.pc = "judging"
      PROVE  AllMove
  <2>1. g \in Handler
    BY <1>1, <1>5
  <2>2. Moves(handlers[c], g)
    BY <1>1, <1>5, <2>1, Works
  <2> QED BY <1>2, <1>5, <2>2
<1>6. ASSUME NEW c \in Conn, Request(c) PROVE AllMove
  <2>1. ASSUME NEW id \in Id, NEW session, NEW requested, NEW mode, NEW cmd,
               Propose(c, id, session, requested, mode, cmd)
        PROVE  AllMove
    <3> DEFINE g == CommandFrame(id, session, requested, mode, cmd)
    <3>1. g.pc = "judging" /\ g.answer = "none"
      BY DEF CommandFrame, Judging
    <3> HIDE DEF g
    <3> QED BY <1>5, <2>1, <3>1 DEF Propose, g
  <2>2. ASSUME NEW id \in Id, NEW session, NEW requested, NEW mode, NEW effects,
               ProposeEdit(c, id, session, requested, mode, effects)
        PROVE  AllMove
    <3> DEFINE g == EditFrame(id, session, requested, mode, effects)
    <3>1. g.pc = "judging" /\ g.answer = "none"
      BY DEF EditFrame, Judging
    <3> HIDE DEF g
    <3> QED BY <1>5, <2>2, <3>1 DEF ProposeEdit, g
  <2>3. ASSUME NEW id \in Id, NEW class, ReportTake(c, id, class) PROVE AllMove
    <3> DEFINE g == Recording(id, pendingReports[id], class)
    <3>1. g.pc = "recording" /\ g.answer = "none"
      BY DEF Recording
    <3> HIDE DEF g
    <3> QED BY <1>5, <2>3, <3>1 DEF ReportTake, g
  <2> QED BY <1>6, <2>1, <2>2, <2>3 DEF Request
<1>7. ASSUME NEW c \in Conn, Twin(c) PROVE AllMove
  <2>1. ASSUME NEW verdict, NEW effects, handlers[c].pc = "judging", Awaiting(handlers[c]) # {},
               TwinSettles(c, verdict, effects)
        PROVE  AllMove
    <3> DEFINE h == handlers[c]
               k == First(Awaiting(h))
               g == [h EXCEPT !.verdicts[k] = verdict, !.effects[k] = effects]
    <3>1. handlers' = [handlers EXCEPT ![c] = g]
      BY <2>1 DEF TwinSettles
    <3>2. g.pc = "judging" /\ g.answer = "none"
      BY <1>1, <2>1 DEF Handler, Answering
    <3> HIDE DEF g
    <3> QED BY <1>5, <2>1, <3>1, <3>2
  <2> QED BY <1>7, <2>1 DEF Twin, TwinObserves, TwinFails
<1>8. ASSUME NEW c \in Conn, Respond(c) PROVE AllMove
  <2> DEFINE h == handlers[c]
             kind == CombineVerdicts(h.verdicts).kind
  <2>1. Judged(h) /\ h.pc = "judging" /\ h.id \in Id
    BY <1>1, <1>8 DEF Respond, RespondAllow, RespondBlock, RespondHold, RespondHoldToClient,
                      Judged, Unsure, Frame
  <2>2. /\ kind = "in-scope" => PhaseOf(h) = "fit"
        /\ kind \in {"violation", "loop"} => PhaseOf(h) = "unfit"
        /\ kind = "needs-human" => PhaseOf(h) = "unsure"
    BY <1>1, <2>1, JudgedImage
  <2>3. CASE RespondAllow(c)
    BY <1>1, <1>2, <2>2, <2>3, Answers DEF RespondAllow
  <2>4. CASE RespondBlock(c)
    BY <1>1, <1>2, <2>2, <2>4, Answers DEF RespondBlock
  <2>5. CASE RespondHoldToClient(c)
    BY <1>1, <1>2, <2>2, <2>5, Answers DEF RespondHoldToClient, Unsure
  <2>6. CASE RespondHold(c)
    <3> DEFINE lost == h.peer = "gone"
               hs == SenderDropped(handlers, pendingHolds[h.id])
               f == [h EXCEPT !.pc = "holding", !.answer = "hold"]
               g == IF lost THEN Fresh ELSE f
    <3>1. hs[c] = h /\ DOMAIN hs = Conn
      BY <1>1, <2>1 DEF SenderDropped
    <3>2. handlers' = [hs EXCEPT ![c] = g]
      BY <2>6, <3>1 DEF RespondHold
    <3>3. \A d \in Conn : Moves(handlers[d], hs[d])
      BY <1>1, DroppedMoves
    <3>4. Moves(h, f)
      <4>1. f \in Handler
        BY <1>1, AnswerType
      <4>2. h.decision = "none"
        BY <1>1, <2>1 DEF Frame
      <4>3. f.pc = "holding" /\ f.decision = "none" /\ f.answer = "hold"
        BY <1>1, <4>2 DEF Handler
      <4> HIDE DEF f
      <4>4. PhaseOf(f) = "held" /\ AnswerOf(f) = "hold"
        BY <4>1, <4>3, Images DEF AnswerOf
      <4>5. PhaseOf(h) = "unsure"
        BY <2>2, <2>6 DEF RespondHold, Unsure
      <4> QED BY <4>3, <4>4, <4>5 DEF Moves, Moved, Answering
    <3> HIDE DEF hs, f
    <3> QED BY <1>1, <3>1, <3>2, <3>3, <3>4
  <2> QED BY <1>8, <2>3, <2>4, <2>5, <2>6 DEF Respond
<1>9. ASSUME NEW c \in Conn, HoldExpire(c) PROVE AllMove
  <2>1. Moves(handlers[c], [handlers[c] EXCEPT !.pc = "expired"])
    BY <1>1, <1>9, Decides DEF HoldExpire
  <2>2. handlers' = [handlers EXCEPT ![c] = [handlers[c] EXCEPT !.pc = "expired"]]
    BY <1>9 DEF HoldExpire
  <2> QED BY <1>2, <2>1, <2>2
<1>10. ASSUME NEW c \in Conn, HoldFinish(c) PROVE AllMove
  <2> DEFINE h == handlers[c]
             approved == h.pc = "holding" /\ h.decision = "approve"
             hs == SenderDropped(handlers, pendingHolds[h.id])
             answer == IF approved THEN "allow" ELSE "block"
             g == Answered(h, answer)
  <2>1. \A d \in Conn : Moves(handlers[d], hs[d])
    BY <1>1, DroppedMoves
  <2>2. DOMAIN hs = Conn
    BY <1>1 DEF SenderDropped
  <2>3. handlers' = [hs EXCEPT ![c] = g]
    BY <1>10 DEF HoldFinish
  <2>4. PhaseOf(h) = IF approved THEN "approved" ELSE "refused"
    <3>1. h.decision \in {"none", "approve", "reject", "dropped"}
      BY <1>1 DEF Handler
    <3> QED BY <1>1, <1>10, <3>1, Images DEF HoldFinish
  <2>5. Moves(h, g)
    BY <1>1, <2>4, Answers
  <2> HIDE DEF hs, g
  <2> QED BY <1>1, <2>1, <2>2, <2>3, <2>5
<1>11. ASSUME NEW c \in Conn, ReportAppend(c) PROVE AllMove
  BY <1>1, <1>2, <1>11, Answers DEF ReportAppend
<1>12. ASSUME NEW c \in Conn, ClientGone(c) PROVE AllMove
  <2> DEFINE h == handlers[c]
             f == [h EXCEPT !.peer = "gone"]
  <2>1. CASE h.pc = "idle"
    BY <1>1, <1>2, <1>12, <2>1 DEF ClientGone
  <2>2. CASE h.pc # "idle"
    <3>1. handlers' = [handlers EXCEPT ![c] = f]
      BY <1>12, <2>2 DEF ClientGone
    <3>2. /\ f.pc = h.pc /\ f.decision = h.decision /\ f.answer = h.answer
          /\ f.verdicts = h.verdicts /\ f.effects = h.effects /\ f.contract = h.contract
          /\ f.history = h.history
      BY <1>1 DEF Handler
    <3> HIDE DEF f
    <3>3. PhaseOf(f) = PhaseOf(h) /\ AnswerOf(f) = AnswerOf(h) /\ Answering(f)
      BY <1>1, <3>2 DEF PhaseOf, AnswerOf, Awaiting, Fit, Unfit, Answering
    <3>4. Moves(h, f)
      BY <3>3 DEF Moves, Moved
    <3> QED BY <1>2, <3>1, <3>4
  <2> QED BY <2>1, <2>2
<1>13. CASE Restart
  BY <1>1, <1>13 DEF Restart
<1>14. CASE UNCHANGED vars
  BY <1>1, <1>14 DEF vars
<1> QED BY <1>3, <1>4, <1>6, <1>7, <1>8, <1>9, <1>10, <1>11, <1>12, <1>13, <1>14 DEF Next

LEMMA FaithfulStep == Faithful /\ [Next]_vars => Faithful' /\ Promise!Next
<1> SUFFICES ASSUME Faithful, [Next]_vars PROVE Faithful' /\ Promise!Next
  OBVIOUS
<1>1. \A d \in Conn : Moved(handlers[d], handlers'[d]) /\ Answering(handlers'[d])
  BY EveryFrameMoves DEF Moves
<1>2. Sound' /\ HoldsReachable'
  BY SoundStep, HoldsStep DEF Faithful, Sound
<1>3. handlers \in [Conn -> Handler] /\ handlers' \in [Conn -> Handler]
  BY <1>2 DEF Faithful, Sound, Typed, TypeOK
<1> QED BY <1>1, <1>2, <1>3, MovedStep DEF Faithful

\* The daemon is a firewall: it answers every command as its judgement and the
\* human's decision call for, once, and whatever fails allows nothing
\* (handle_connection, respond, resolve).
THEOREM DaemonKeepsPromise == Spec => KeepsPromise
<1>1. Init => Faithful /\ Promise!Init
  <2> SUFFICES ASSUME Init PROVE Faithful /\ Promise!Init
    OBVIOUS
  <2>1. \A c \in Conn : handlers[c] = Fresh
    BY DEF Init
  <2>2. Promise!Init
    BY <2>1, FreshImage DEF Promise!Init
  <2>3. Sound
    BY <2>1, TypedInit, FreshKept DEF Sound
  <2>4. HoldsReachable
    BY NoneAssumption DEF Init, HoldsReachable, Fresh
  <2>5. \A c \in Conn : Answering(handlers[c])
    BY <2>1 DEF Answering, Fresh
  <2> QED BY <2>2, <2>3, <2>4, <2>5 DEF Faithful
<1> QED BY <1>1, FaithfulStep, PTL DEF Spec, KeepsPromise, Promise!Spec
=============================================================================
