------------------------------- MODULE Daemon -------------------------------
(***************************************************************************)
(* tractusd: the shared state of state.rs and the connection handlers of   *)
(* server.rs.                                                              *)
(*                                                                         *)
(* The daemon runs one task per connection on one thread.  A task gives up *)
(* the processor only where the code awaits: on the state lock, the twin,  *)
(* a held proposal's oneshot channel, or the socket.  An action is the     *)
(* code between two awaits that others can tell apart.  handlers[c] is     *)
(* the frame of connection c's task; an idle handler keeps the frame of    *)
(* its last request, with the answer it wrote.                             *)
(*                                                                         *)
(* SetContract and Resolve wait for nothing and leave nothing on their     *)
(* connection, so they are actions of no particular connection.            *)
(***************************************************************************)
EXTENDS Verdict

CONSTANTS
  Conn,          \* connections to the socket
  Id,            \* proposal ids: clients choose them, nothing rejects a reuse
  Session,       \* agent_session
  ContractId,
  Commands,      \* shell command lines, parsed and classified
  Edits,         \* effects of the native edits, op "edit"
  TwinEffects,   \* what speculation may observe
  Registrable,   \* the <<contract_id, contract>> pairs clients send
  Exits,         \* exit classes clients report
  MaxProposals,  \* bound on the proposals of one behaviour
  None,          \* Option::None
  Unknown,       \* effects nobody has determined: Unclassified, or an opaque line
  Orphan         \* a sender whose receiver is gone

VARIABLES
  activeContract, contracts, sessionContracts, histories,
  pendingHolds,    \* id -> the connection whose handler keeps the receiver
  pendingReports,
  handlers,
  proposals        \* proposals so far, to bound the model

vars == <<activeContract, contracts, sessionContracts, histories, pendingHolds,
          pendingReports, handlers, proposals>>
registry == <<activeContract, contracts, sessionContracts>>

Segment == [shape : Shape, effects : Effects \union {Unknown}]
SessionKey == [agent_session : Session, contract_id : ContractId \union {None}]
ParseOutcome == {"commands", "opaque", "unresolved-var"}
\* parse_with_env takes an empty line for an opaque one.
Command ==
  {cmd \in [parse : ParseOutcome, segs : Seq(Segment)] :
     cmd.parse = "commands" => cmd.segs # <<>>}

ASSUME CommandsAssumption == Commands \subseteq Command
ASSUME EditsAssumption == Edits \subseteq Effects
ASSUME TwinAssumption == TwinEffects \subseteq Effects
ASSUME RegistrableAssumption == Registrable \subseteq (ContractId \union {None}) \X Contract
ASSUME ExitsAssumption == Exits \subseteq ExitClass
ASSUME BoundAssumption == MaxProposals \in Nat
ASSUME NoneAssumption ==
  None \notin Contract \union ContractId \union Conn \union {Orphan} \union SessionKey
ASSUME UnknownAssumption == Unknown \notin Effects
ASSUME OrphanAssumption == Orphan \notin Conn

-----------------------------------------------------------------------------
(* State of the daemon *)

\* Auxiliary: which proposal an execution comes from, and its contract.
Run == [serial : Nat, contract : Contract]

PendingReport == [key : SessionKey, shapes : Seq(Shape), run : Run]

\* A segment waiting for the twin.
Pending == [kind |-> "pending", proofs |-> {}, why |-> "none"]

SegVerdict == Verdicts \union {Pending}

Fresh ==
  [pc |-> "idle", peer |-> "open", id |-> None, requested |-> None, key |-> None,
   mode |-> "daemon", contract |-> None, history |-> <<>>, shapes |-> <<>>,
   effects |-> <<>>, verdicts |-> <<>>, class |-> "success", serial |-> 0, decision |-> "none",
   answer |-> "none"]

Init ==
  /\ activeContract = None
  /\ contracts = [k \in ContractId |-> None]
  /\ sessionContracts = [s \in Session |-> None]
  /\ histories = [key \in SessionKey |-> <<>>]
  /\ pendingHolds = [i \in Id |-> None]
  /\ pendingReports = [i \in Id |-> None]
  /\ handlers = [c \in Conn |-> Fresh]
  /\ proposals = 0

-----------------------------------------------------------------------------
(* resolve_contract: an explicit id, else the session's binding, else the  *)
(* active contract; an id nobody registered resolves to nothing.           *)

GoverningId(session, requested) ==
  IF requested # None THEN requested ELSE sessionContracts[session]

\* Seeded fault: an unknown id falls back to the active contract.
GoverningWithFallback(session, requested) ==
  LET id == GoverningId(session, requested) IN
  IF id # None /\ contracts[id] # None THEN contracts[id] ELSE activeContract

Governing(session, requested) ==
  LET id == GoverningId(session, requested) IN
  IF id = None THEN activeContract ELSE contracts[id]

\* Seeded fault: the session is bound before the id is looked up.
BindUnchecked(session, requested) ==
  sessionContracts' = IF requested # None
                      THEN [sessionContracts EXCEPT ![session] = requested]
                      ELSE sessionContracts

BindSession(session, requested) ==
  sessionContracts' = IF requested # None /\ contracts[requested] # None
                      THEN [sessionContracts EXCEPT ![session] = requested]
                      ELSE sessionContracts

KeyOf(session, requested) ==
  [agent_session |-> session, contract_id |-> GoverningId(session, requested)]

\* set_contract: an anonymous contract replaces the active one.
SetContract(id, contract) ==
  /\ IF id = None
     THEN activeContract' = contract /\ UNCHANGED contracts
     ELSE contracts' = [contracts EXCEPT ![id] = contract] /\ UNCHANGED activeContract
  /\ UNCHANGED <<sessionContracts, histories, pendingHolds, pendingReports, handlers,
                 proposals>>

-----------------------------------------------------------------------------
(* Receiving a proposal: the lock section of evaluate, then the parse and   *)
(* the check of every classified segment against the contract and history   *)
(* read under that lock.                                                    *)

SegmentVerdict(effects, contract, history) ==
  IF effects = Unknown THEN Pending
  ELSE Check(effects, contract, LoopDetected(history))

Segments(cmd) == IF cmd.parse = "commands" THEN cmd.segs ELSE <<>>

FirstEffects(cmd) ==
  IF cmd.parse # "commands" THEN <<Unknown>>
  ELSE [k \in DOMAIN cmd.segs |-> cmd.segs[k].effects]

FirstVerdicts(cmd, contract, history) ==
  IF cmd.parse # "commands" THEN <<NeedsHuman(cmd.parse)>>
  ELSE [k \in DOMAIN cmd.segs |-> SegmentVerdict(cmd.segs[k].effects, contract, history)]

Touched(effects) == effects.writes \union effects.deletes

\* serial is auxiliary: proposals so far tell executions apart.
Judging(id, requested, mode, key, contract, history, shapes, effects, verdicts) ==
  [pc |-> "judging", peer |-> "open", id |-> id, requested |-> requested, key |-> key,
   mode |-> mode, contract |-> contract, history |-> history, shapes |-> shapes,
   effects |-> effects, verdicts |-> verdicts, class |-> "success",
   serial |-> proposals + 1, decision |-> "none", answer |-> "none"]

CommandFrame(id, session, requested, mode, cmd) ==
  LET contract == Governing(session, requested)
      key  == KeyOf(session, requested)
      segs == Segments(cmd)
  IN  IF contract = None
      THEN Judging(id, requested, mode, None, None, <<>>, <<>>, <<>>,
                   <<NeedsHuman("contract-ambiguous")>>)
      ELSE Judging(id, requested, mode, key, contract, histories[key],
                   [k \in DOMAIN segs |-> segs[k].shape], FirstEffects(cmd),
                   FirstVerdicts(cmd, contract, histories[key]))

\* An edit is judged against an empty history and never owes a report.  One
\* that touches nothing is opaque before any contract is looked up.
EditFrame(id, session, requested, mode, effects) ==
  LET contract == Governing(session, requested) IN
  IF Touched(effects) = {}
  THEN Judging(id, requested, mode, None, None, <<>>, <<>>, <<>>, <<NeedsHuman("opaque")>>)
  ELSE IF contract = None
  THEN Judging(id, requested, mode, None, None, <<>>, <<>>, <<>>,
               <<NeedsHuman("contract-ambiguous")>>)
  ELSE Judging(id, requested, mode, None, contract, <<>>, <<>>, <<effects>>,
               <<Check(effects, contract, FALSE)>>)

Propose(c, id, session, requested, mode, cmd) ==
  /\ handlers[c].pc = "idle" /\ proposals < MaxProposals
  /\ handlers' = [handlers EXCEPT ![c] = CommandFrame(id, session, requested, mode, cmd)]
  /\ BindSession(session, requested)
  /\ proposals' = proposals + 1
  /\ UNCHANGED <<activeContract, contracts, histories, pendingHolds, pendingReports>>

ProposeEdit(c, id, session, requested, mode, effects) ==
  /\ handlers[c].pc = "idle" /\ proposals < MaxProposals
  /\ handlers' = [handlers EXCEPT ![c] = EditFrame(id, session, requested, mode, effects)]
  /\ IF Touched(effects) = {} THEN UNCHANGED sessionContracts
     ELSE BindSession(session, requested)
  /\ proposals' = proposals + 1
  /\ UNCHANGED <<activeContract, contracts, histories, pendingHolds, pendingReports>>

-----------------------------------------------------------------------------
(* The await on the twin, one unclassified segment at a time. *)

Awaiting(h) == {k \in DOMAIN h.verdicts : h.verdicts[k] = Pending}

Judged(h) == h.pc = "judging" /\ Awaiting(h) = {}

TwinSettles(c, verdict, effects) ==
  LET k == First(Awaiting(handlers[c])) IN
  /\ handlers' = [handlers EXCEPT ![c] = [@ EXCEPT !.verdicts[k] = verdict,
                                                   !.effects[k] = effects]]
  /\ UNCHANGED <<registry, histories, pendingHolds, pendingReports, proposals>>

TwinObserves(c, effects) ==
  /\ handlers[c].pc = "judging" /\ Awaiting(handlers[c]) # {}
  /\ TwinSettles(c, Check(effects, handlers[c].contract, LoopDetected(handlers[c].history)),
                 effects)

TwinFails(c, reason) ==
  /\ handlers[c].pc = "judging" /\ Awaiting(handlers[c]) # {}
  /\ TwinSettles(c, NeedsHuman(reason), Unknown)

-----------------------------------------------------------------------------
(* Answers.  Writing to a peer that has gone fails, and the task ends.      *)

Answered(h, answer) ==
  IF h.peer = "gone" THEN Fresh ELSE [h EXCEPT !.pc = "idle", !.answer = answer]

\* apply_approve_action: only a shell proposal whose contract resolved owes a report.
SavedReports(h) ==
  IF h.key = None THEN pendingReports
  ELSE [pendingReports EXCEPT ![h.id] =
          [key |-> h.key, shapes |-> h.shapes,
           run |-> [serial |-> h.serial, contract |-> h.contract]]]

RespondAllow(c) ==
  /\ Judged(handlers[c]) /\ CombineVerdicts(handlers[c].verdicts).kind = "in-scope"
  /\ pendingReports' = SavedReports(handlers[c])
  /\ handlers' = [handlers EXCEPT ![c] = Answered(@, "allow")]
  /\ UNCHANGED <<registry, histories, pendingHolds, proposals>>

RespondBlock(c) ==
  /\ Judged(handlers[c])
  /\ CombineVerdicts(handlers[c].verdicts).kind \in {"violation", "loop"}
  /\ handlers' = [handlers EXCEPT ![c] = Answered(@, "block")]
  /\ UNCHANGED <<registry, histories, pendingHolds, pendingReports, proposals>>

\* A sender leaves pending_holds unsent: its receiver, if it still waits, fails.
SenderDropped(hs, holder) ==
  IF holder \in Conn /\ hs[holder].pc = "holding" /\ hs[holder].decision = "none"
  THEN [hs EXCEPT ![holder].decision = "dropped"]
  ELSE hs

\* Seeded fault: a proof of violation is put to the human as well.
HoldViolations(h) ==
  Judged(h) /\ CombineVerdicts(h.verdicts).kind \in {"needs-human", "violation"}

Unsure(h) == Judged(h) /\ CombineVerdicts(h.verdicts).kind = "needs-human"

\* A client that resolves holds itself gets the hold as its final answer.
RespondHoldToClient(c) ==
  /\ Unsure(handlers[c]) /\ handlers[c].mode = "client"
  /\ handlers' = [handlers EXCEPT ![c] = Answered(@, "hold")]
  /\ UNCHANGED <<registry, histories, pendingHolds, pendingReports, proposals>>

\* The sender is registered before the hold is written; when the write fails the
\* handler is gone and the sender stays behind.
RespondHold(c) ==
  /\ Unsure(handlers[c]) /\ handlers[c].mode = "daemon"
  /\ LET h == handlers[c]
         lost == h.peer = "gone"
     IN  /\ pendingHolds' = [pendingHolds EXCEPT ![h.id] = IF lost THEN Orphan ELSE c]
         /\ handlers' = [SenderDropped(handlers, pendingHolds[h.id]) EXCEPT
              ![c] = IF lost THEN Fresh ELSE [@ EXCEPT !.pc = "holding", !.answer = "hold"]]
  /\ UNCHANGED <<registry, histories, pendingReports, proposals>>

-----------------------------------------------------------------------------
(* Held proposals *)

\* Seeded fault: the sender is left in the map, to be used again.
ResolveKeepingSender(id, decision) ==
  /\ pendingHolds[id] # None
  /\ LET holder == pendingHolds[id] IN
     handlers' = IF holder \in Conn /\ handlers[holder].pc = "holding"
                 THEN [handlers EXCEPT ![holder].decision = decision]
                 ELSE handlers
  /\ UNCHANGED <<registry, histories, pendingHolds, pendingReports, proposals>>

\* resolve removes the sender, then sends; the send fails when the receiver is
\* gone, and then nothing else happens.
Resolve(id, decision) ==
  /\ pendingHolds[id] # None
  /\ pendingHolds' = [pendingHolds EXCEPT ![id] = None]
  /\ LET holder == pendingHolds[id] IN
     handlers' = IF holder \in Conn /\ handlers[holder].pc = "holding"
                 THEN [handlers EXCEPT ![holder].decision = decision]
                 ELSE handlers
  /\ UNCHANGED <<registry, histories, pendingReports, proposals>>

\* Seeded fault: the timer wins over a decision already sent.
ExpireRegardless(c) ==
  /\ handlers[c].pc = "holding"
  /\ handlers' = [handlers EXCEPT ![c].pc = "expired"]
  /\ UNCHANGED <<registry, histories, pendingHolds, pendingReports, proposals>>

\* Seeded fault: the timer runs only while the client is there to be answered.
ExpireWhileListening(c) ==
  /\ handlers[c].pc = "holding" /\ handlers[c].decision = "none" /\ handlers[c].peer = "open"
  /\ handlers' = [handlers EXCEPT ![c].pc = "expired"]
  /\ UNCHANGED <<registry, histories, pendingHolds, pendingReports, proposals>>

\* HOLD_TIMEOUT: tokio's timeout polls the receiver first, so a decision sent
\* in time is never overtaken by the timer.
HoldExpire(c) ==
  /\ handlers[c].pc = "holding" /\ handlers[c].decision = "none"
  /\ handlers' = [handlers EXCEPT ![c].pc = "expired"]
  /\ UNCHANGED <<registry, histories, pendingHolds, pendingReports, proposals>>

\* Seeded fault: only an explicit rejection blocks.
FinishUnlessRejected(c) ==
  LET h == handlers[c]
      approved == h.decision # "reject"
  IN  /\ h.pc = "expired" \/ (h.pc = "holding" /\ h.decision # "none")
      /\ pendingHolds' = [pendingHolds EXCEPT ![h.id] = None]
      /\ pendingReports' = IF approved THEN SavedReports(h) ELSE pendingReports
      /\ handlers' = [SenderDropped(handlers, pendingHolds[h.id]) EXCEPT
                        ![c] = Answered(h, IF approved THEN "allow" ELSE "block")]
      /\ UNCHANGED <<registry, histories, proposals>>

\* Every way out removes the id's entry, whoever put it there.
HoldFinish(c) ==
  LET h == handlers[c]
      approved == h.pc = "holding" /\ h.decision = "approve"
  IN  /\ h.pc = "expired" \/ (h.pc = "holding" /\ h.decision # "none")
      /\ pendingHolds' = [pendingHolds EXCEPT ![h.id] = None]
      /\ pendingReports' = IF approved THEN SavedReports(h) ELSE pendingReports
      /\ handlers' = [SenderDropped(handlers, pendingHolds[h.id]) EXCEPT
                        ![c] = Answered(h, IF approved THEN "allow" ELSE "block")]
      /\ UNCHANGED <<registry, histories, proposals>>

-----------------------------------------------------------------------------
(* Reports: one lock section takes the pending report, a second appends.    *)

Recording(id, report, class) ==
  [pc |-> "recording", peer |-> "open", id |-> id, requested |-> None, key |-> report.key,
   mode |-> "daemon", contract |-> report.run.contract, history |-> <<>>,
   shapes |-> report.shapes, effects |-> <<>>, verdicts |-> <<>>, class |-> class,
   serial |-> report.run.serial, decision |-> "none", answer |-> "none"]

\* Seeded fault: the pending report is read and left in the map.
ReportTakeCopy(c, id, class) ==
  /\ handlers[c].pc = "idle" /\ pendingReports[id] # None
  /\ handlers' = [handlers EXCEPT ![c] = Recording(id, pendingReports[id], class)]
  /\ UNCHANGED <<registry, histories, pendingHolds, pendingReports, proposals>>

\* class: how the compound ended, by the one exit code the client reports.
ReportTake(c, id, class) ==
  /\ handlers[c].pc = "idle" /\ pendingReports[id] # None
  /\ handlers' = [handlers EXCEPT ![c] = Recording(id, pendingReports[id], class)]
  /\ pendingReports' = [pendingReports EXCEPT ![id] = None]
  /\ UNCHANGED <<registry, histories, pendingHolds, proposals>>

\* The class of the whole is written against every segment.
ReportAppend(c) ==
  LET h == handlers[c]
      run == [serial |-> h.serial, contract |-> h.contract]
  IN  /\ h.pc = "recording"
      /\ histories' = [histories EXCEPT
           ![h.key] = RecordExecutions(@, h.shapes, h.class, run)]
      /\ handlers' = [handlers EXCEPT ![c] = Answered(@, "recorded")]
      /\ UNCHANGED <<registry, pendingHolds, pendingReports, proposals>>

-----------------------------------------------------------------------------
(* Failures *)

\* A client closes its connection.  A waiting task notices only when it writes.
ClientGone(c) ==
  /\ handlers[c].peer = "open"
  /\ handlers' = [handlers EXCEPT ![c] =
       IF @.pc = "idle" THEN Fresh ELSE [@ EXCEPT !.peer = "gone"]]
  /\ UNCHANGED <<registry, histories, pendingHolds, pendingReports, proposals>>

\* The daemon keeps nothing on disk.
Restart ==
  /\ activeContract' = None
  /\ contracts' = [k \in ContractId |-> None]
  /\ sessionContracts' = [s \in Session |-> None]
  /\ histories' = [key \in SessionKey |-> <<>>]
  /\ pendingHolds' = [i \in Id |-> None]
  /\ pendingReports' = [i \in Id |-> None]
  /\ handlers' = [c \in Conn |-> Fresh]
  /\ UNCHANGED proposals

-----------------------------------------------------------------------------
Request(c) ==
  \E id \in Id :
    \/ \E session \in Session, requested \in ContractId \union {None},
          mode \in {"daemon", "client"} :
         \/ \E cmd \in Commands : Propose(c, id, session, requested, mode, cmd)
         \/ \E effects \in Edits : ProposeEdit(c, id, session, requested, mode, effects)
    \/ \E class \in Exits : ReportTake(c, id, class)

Twin(c) ==
  \/ \E effects \in TwinEffects : TwinObserves(c, effects)
  \/ \E reason \in {"opaque", "twin-timeout"} : TwinFails(c, reason)

Respond(c) ==
  RespondAllow(c) \/ RespondBlock(c) \/ RespondHold(c) \/ RespondHoldToClient(c)

Next ==
  \/ \E reg \in Registrable : SetContract(reg[1], reg[2])
  \/ \E id \in Id, decision \in {"approve", "reject"} : Resolve(id, decision)
  \/ \E c \in Conn :
       \/ Request(c) \/ Twin(c) \/ Respond(c)
       \/ HoldExpire(c) \/ HoldFinish(c) \/ ReportAppend(c) \/ ClientGone(c)
  \/ Restart

Spec == Init /\ [][Next]_vars

(***************************************************************************)
(* tokio polls every task that can go on; the twin answers or is timed out *)
(* (TWIN_TIMEOUT) and a hold's timer fires (HOLD_TIMEOUT).  Clients,       *)
(* humans and failures owe nothing.                                        *)
(***************************************************************************)
Fairness ==
  \A c \in Conn :
    /\ WF_vars(Twin(c)) /\ WF_vars(Respond(c))
    /\ WF_vars(HoldExpire(c)) /\ WF_vars(HoldFinish(c)) /\ WF_vars(ReportAppend(c))

FairSpec == Spec /\ Fairness

-----------------------------------------------------------------------------
(* Types *)

Handler ==
  [pc : {"idle", "judging", "holding", "expired", "recording"},
   peer : {"open", "gone"}, id : Id \union {None}, requested : ContractId \union {None},
   key : SessionKey \union {None}, mode : {"daemon", "client"},
   contract : Contract \union {None}, history : Seq(EntryOf(Run)), shapes : Seq(Shape),
   effects : Seq(Effects \union {Unknown}), verdicts : Seq(SegVerdict),
   class : ExitClass, serial : Nat,
   decision : {"none", "approve", "reject", "dropped"},
   answer : {"none", "allow", "block", "hold", "recorded"}]

\* Every map and frame holds what its Rust type says, and no history outgrows
\* the detector's window (record_execution).
TypeOK ==
  /\ activeContract \in Contract \union {None}
  /\ contracts \in [ContractId -> Contract \union {None}]
  /\ sessionContracts \in [Session -> ContractId \union {None}]
  /\ histories \in [SessionKey -> Seq(EntryOf(Run))]
  /\ \A key \in SessionKey : Len(histories[key]) <= Window
  /\ pendingHolds \in [Id -> Conn \union {None, Orphan}]
  /\ pendingReports \in [Id -> PendingReport \union {None}]
  /\ handlers \in [Conn -> Handler]
  /\ proposals \in 0 .. MaxProposals

-----------------------------------------------------------------------------
(* Safety *)

\* A command is let through without a human only if every effect of every
\* segment, declared or observed, is permitted by one contract, the one that
\* governed the session when the proposal arrived, and no loop stood against
\* it (respond, evaluate), whatever changed during the await on the twin.
AllowJustified ==
  \A c \in Conn :
    LET h == handlers[c] IN
    h.pc = "idle" /\ h.answer = "allow" /\ h.decision # "approve" =>
      /\ h.contract # None
      /\ ~LoopDetected(h.history)
      /\ \A k \in DOMAIN h.effects :
           h.effects[k] # Unknown /\ Permits(h.contract, h.effects[k])

\* A human's approval lets through only what nobody could judge: it never
\* overrides a proof of violation or a loop (respond registers no hold then).
ApprovalOnlyWhenUnsure ==
  \A c \in Conn :
    LET h == handlers[c] IN
    h.pc = "holding" \/ h.decision # "none" =>
      /\ AllProofs(h.verdicts) = {}
      /\ \A k \in DOMAIN h.verdicts : h.verdicts[k].kind \in {"in-scope", "needs-human"}

\* Every waiting handler can be reached through pending_holds by its own id,
\* and every sender there belongs to a handler of that id that has had no
\* decision yet, or to none at all.
HoldsReachable ==
  /\ \A c \in Conn :
       handlers[c].pc = "holding" /\ handlers[c].decision = "none" =>
         pendingHolds[handlers[c].id] = c
  /\ \A i \in Id : pendingHolds[i] \in Conn =>
       LET h == handlers[pendingHolds[i]] IN
       /\ h.id = i /\ h.mode = "daemon" /\ h.decision = "none"
       /\ h.pc \in {"holding", "expired"}

\* A decision the daemon acknowledged (resolved: true) is the one the held
\* client gets: neither the timer nor a second resolve replaces it.
ResolveHonoured ==
  \A c \in Conn :
    LET h == handlers[c] IN
    /\ h.pc = "expired" => h.decision = "none"
    /\ h.pc = "idle" /\ h.decision = "approve" => h.answer = "allow"
    /\ h.pc = "idle" /\ h.decision = "reject" => h.answer = "block"

\* resolve_contract never falls back from a named contract: whatever carries a
\* contract id - a frame, a pending report, a history - ran under a contract
\* registered for that id, even when the session has moved on since.
Own(id, contract) == id # None => <<id, contract>> \in Registrable

NamedContractGoverns ==
  /\ \A c \in Conn :
       LET h == handlers[c] IN
       h.contract # None =>
         /\ Own(h.requested, h.contract)
         /\ h.key # None => Own(h.key.contract_id, h.contract)
  /\ \A i \in Id : pendingReports[i] # None =>
       Own(pendingReports[i].key.contract_id, pendingReports[i].run.contract)
  /\ \A key \in SessionKey : \A k \in DOMAIN histories[key] :
       Own(key.contract_id, histories[key][k].run.contract)

\* A session is bound only to a contract that exists, so a bound session is
\* never stranded on an id it cannot resolve (resolve_contract binds last).
BindingRegistered ==
  \A s \in Session :
    sessionContracts[s] # None => contracts[sessionContracts[s]] # None

\* An execution is recorded at most once, under one key, however many reports
\* of its id race (record_report takes before it appends).
RecordedOnce ==
  /\ \A key1, key2 \in SessionKey :
       \A j \in DOMAIN histories[key1], k \in DOMAIN histories[key2] :
         LET a == histories[key1][j]
             b == histories[key2][k]
         IN  a.run.serial = b.run.serial /\ a.seg = b.seg => key1 = key2 /\ j = k
  /\ \A key \in SessionKey : \A k \in DOMAIN histories[key] :
       LET n == histories[key][k].run.serial IN
       /\ \A i \in Id : pendingReports[i] # None => pendingReports[i].run.serial # n
       /\ \A c \in Conn : handlers[c].pc = "recording" => handlers[c].serial # n

-----------------------------------------------------------------------------
(* Liveness and the abstract specification *)

\* Every request a handler takes up ends: the task goes back to reading, or its
\* connection is gone (handle_connection's loop never wedges on a hold or twin).
EveryRequestEnds ==
  \A c \in Conn : handlers[c].pc # "idle" ~> handlers[c].pc = "idle"

\* What the judged command is known to do, against the contract: the meaning
\* that the verdicts stand for.
Unfit(h) ==
  /\ h.contract # None
  /\ \E k \in DOMAIN h.effects :
       /\ h.effects[k] # Unknown
       /\ LoopDetected(h.history) \/ ~Permits(h.contract, h.effects[k])

Fit(h) ==
  /\ h.contract # None /\ ~Unfit(h)
  /\ \A k \in DOMAIN h.effects : h.effects[k] # Unknown

PhaseOf(h) ==
  CASE h.pc \in {"idle", "recording"} -> "free"
    [] h.pc = "judging" -> IF Awaiting(h) # {} THEN "judging"
                           ELSE IF Fit(h) THEN "fit"
                           ELSE IF Unfit(h) THEN "unfit" ELSE "unsure"
    [] h.pc = "holding" -> IF h.decision = "none" THEN "held"
                           ELSE IF h.decision = "approve" THEN "approved" ELSE "refused"
    [] h.pc = "expired" -> "refused"

AnswerOf(h) == IF h.answer = "recorded" THEN "none" ELSE h.answer

Promise == INSTANCE Firewall WITH
  phase  <- [c \in Conn |-> PhaseOf(handlers[c])],
  answer <- [c \in Conn |-> AnswerOf(handlers[c])]

\* The daemon implements the firewall's promise, with "fit" meaning that the
\* contract permits all the command does and not merely that a verdict said so.
KeepsPromise == Promise!Spec

-----------------------------------------------------------------------------
(* What documents say and the code does not do *)

\* "failures under an old contract must not contribute to a loop verdict under
\* the newly selected one" (state.rs): the failures behind a loop verdict ran
\* under the contract the verdict is given for.
LoopFromOwnContract ==
  \A c \in Conn :
    LET h == handlers[c] IN
    h.pc = "judging" /\ LoopDetected(h.history) =>
      \A k \in DOMAIN h.history :
        h.history[k].sig = LoopSignature(h.history) => h.history[k].run.contract = h.contract

=============================================================================
