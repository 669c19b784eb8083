------------------------------ MODULE Session -------------------------------
(***************************************************************************)
(* One agent's commands from end to end: the shim or the hook that submits *)
(* each over a connection of its own (tractus-shim, tractus-hook), the     *)
(* handler that answers it and the events it emits (tractusd/server.rs),   *)
(* and the dashboards that show the events and resolve the holds           *)
(* (tractus-console/server.rs, assets/index.html).                         *)
(*                                                                         *)
(* How the daemon judges, and ids that are used twice, are the matter of   *)
(* Daemon: here a verdict is any of three, and every command has an id of  *)
(* its own, as command_id gives it.  Time is counted for each command, in  *)
(* units no longer than what HOLD_WAIT exceeds HOLD_TIMEOUT by.            *)
(***************************************************************************)
EXTENDS Naturals, Sequences

CONSTANTS
  Shim,          \* commands submitted by tractus-shim, which waits for the human
  Hook,          \* commands submitted by tractus-hook, which does not
  Console,       \* dashboards
  HoldTimeout,   \* HOLD_TIMEOUT of the daemon
  HoldWait,      \* HOLD_WAIT of the shim
  Capacity,      \* events the broadcast channel keeps
  Backlog,       \* bound: events between the daemon and the page: socket, mpsc
  MaxDeaths      \* bound: programs that are killed

Client == Shim \union Hook

ASSUME SessionAssumption ==
  /\ Shim \intersect Hook = {}
  /\ HoldTimeout \in Nat /\ HoldWait \in Nat /\ HoldTimeout < HoldWait
  /\ Capacity \in Nat \ {0} /\ Backlog \in Nat \ {0} /\ MaxDeaths \in Nat

VARIABLES
  client,    \* each adapter process
  arrived,   \* lines the daemon has written and the adapter has not read
  handler,   \* the daemon's side of each connection
  events,    \* everything emitted, in order
  page,      \* each dashboard: its place in the event stream and its ledger
  clicks,    \* the human's decision on each card, and what became of it
  alive,     \* the daemon runs
  deaths

clientVars == <<client, arrived>>
pageVars == <<page, clicks>>
vars == <<client, arrived, handler, events, page, clicks, alive, deaths>>

Event == [id : Client, kind : {"proposed", "allow", "blocked", "hold"}]

\* What submit_proposal, read_response and the executed command come to.
ClientState ==
  [stage : {"off", "first", "second", "running", "reporting", "over"},
   age : 0 .. HoldWait, ran : BOOLEAN, lost : BOOLEAN,
   why : {"none", "ran", "blocked", "held", "unreachable", "unjudged", "timeout", "killed", "failed"}]

\* verdict and decision are kept when the handler is done with them.
HandlerState ==
  [stage : {"reading", "proposed", "judging", "judged", "held", "decided", "reported", "closed"},
   verdict : {"none", "fit", "unfit", "unsure"}, decision : {"none", "approve", "reject", "expired"},
   age : 0 .. HoldTimeout]

Card == {"none", "allow", "block", "hold"}
PageState ==
  [stream : {"off", "open", "ended"}, from : Nat, next : Nat, seen : Nat,
   card : [Client -> Card], explaining : SUBSET Client]

TypeOK ==
  /\ client \in [Client -> ClientState]
  /\ arrived \in [Client -> Seq({"hold", "allow", "block", "ack"})]
  /\ handler \in [Client -> HandlerState]
  /\ events \in Seq(Event)
  /\ page \in [Console -> PageState]
  /\ \A s \in Console :
       /\ page[s].from <= page[s].seen /\ page[s].seen <= page[s].next
       /\ page[s].next <= Len(events) + 1 /\ page[s].next - page[s].seen <= Backlog
  /\ clicks \in [Console \X Client ->
       [decision : {"none", "approve", "reject"},
        state : {"none", "sent", "counted", "late", "shown", "shownLate"}]]
  /\ alive \in BOOLEAN /\ deaths \in 0 .. MaxDeaths

NoClick == [decision |-> "none", state |-> "none"]

Init ==
  /\ client = [c \in Client |->
       [stage |-> "off", age |-> 0, ran |-> FALSE, lost |-> FALSE, why |-> "none"]]
  /\ arrived = [c \in Client |-> <<>>]
  /\ handler = [c \in Client |->
       [stage |-> "reading", verdict |-> "none", decision |-> "none", age |-> 0]]
  /\ events = <<>>
  /\ page = [s \in Console |->
       [stream |-> "off", from |-> 1, next |-> 1, seen |-> 1,
        card |-> [c \in Client |-> "none"], explaining |-> {}]]
  /\ clicks = [x \in Console \X Client |-> NoClick]
  /\ alive = TRUE /\ deaths = 0

-----------------------------------------------------------------------------
\* The adapter.
Ends(c, why) == client' = [client EXCEPT ![c].stage = "over", ![c].why = why]
Waits(c) == client[c].stage \in {"first", "second"}
Connected(c) == client[c].stage \notin {"off", "over"}

\* submit_proposal connects and writes the proposal.
Submit(c) ==
  /\ client[c].stage = "off"
  /\ \/ /\ alive
        /\ client' = [client EXCEPT ![c].stage = "first"]
        /\ handler' = [handler EXCEPT ![c].stage = "proposed"]
     \/ ~alive /\ Ends(c, "unreachable") /\ UNCHANGED handler
  /\ UNCHANGED <<arrived, events, pageVars, alive, deaths>>

\* Each read has a buffer of its own: it takes in all that has arrived, uses the
\* first line and drops the rest.
Reads(c) == arrived[c] # <<>> /\ arrived' = [arrived EXCEPT ![c] = <<>>]
Loses(c) == client[c].lost \/ Len(arrived[c]) > 1

\* An allowed command is run: by the shim itself, or by the agent once the hook lets
\* it continue.
Runs(c) ==
  client' = [client EXCEPT ![c].lost = Loses(c), ![c].stage = "running"]

ReadFirst(c) ==
  /\ client[c].stage = "first" /\ Reads(c)
  /\ \/ arrived[c][1] = "allow" /\ Runs(c)
     \/ arrived[c][1] = "block" /\ Ends(c, "blocked")
     \/ /\ arrived[c][1] = "hold" /\ c \in Shim
        /\ client' = [client EXCEPT ![c].stage = "second", ![c].age = 0, ![c].lost = Loses(c)]
     \/ arrived[c][1] = "hold" /\ c \in Hook /\ Ends(c, "held")
  /\ UNCHANGED <<handler, events, pageVars, alive, deaths>>

ReadSecond(c) ==
  /\ client[c].stage = "second" /\ Reads(c)
  /\ \/ arrived[c][1] = "allow" /\ Runs(c)
     \/ arrived[c][1] = "block" /\ Ends(c, "blocked")
  /\ UNCHANGED <<handler, events, pageVars, alive, deaths>>

GivesUp(c) == Ends(c, IF client[c].stage = "first" THEN "unjudged" ELSE "timeout")

\* Mutant: the shim's patience ends with the daemon's hold.
TimeOutEarly(c) ==
  /\ Waits(c) /\ arrived[c] = <<>>
  /\ client[c].age >= HoldTimeout
  /\ GivesUp(c)
  /\ UNCHANGED <<arrived, handler, events, pageVars, alive, deaths>>

\* Mutant: only the wait for the human is limited.
TimeOutOfHold(c) ==
  /\ client[c].stage = "second" /\ arrived[c] = <<>>
  /\ client[c].age = HoldWait
  /\ GivesUp(c)
  /\ UNCHANGED <<arrived, handler, events, pageVars, alive, deaths>>

\* Nothing has arrived for HOLD_WAIT: the command is not executed.
TimeOut(c) ==
  /\ Waits(c) /\ arrived[c] = <<>>
  /\ client[c].age = HoldWait
  /\ GivesUp(c)
  /\ UNCHANGED <<arrived, handler, events, pageVars, alive, deaths>>

\* Mutant: a command whose connection is lost while it is held is executed.
EndOfStreamRuns(c) ==
  /\ Waits(c) /\ arrived[c] = <<>> /\ ~alive
  /\ IF client[c].stage = "second" THEN Runs(c) ELSE Ends(c, "unreachable")
  /\ UNCHANGED <<arrived, handler, events, pageVars, alive, deaths>>

EndOfStream(c) ==
  /\ Waits(c) /\ arrived[c] = <<>> /\ ~alive
  /\ Ends(c, "unreachable")
  /\ UNCHANGED <<arrived, handler, events, pageVars, alive, deaths>>

\* The command runs to its end; the shim then reports its exit code on the same
\* connection.  Nobody reports what the agent ran itself.
Execute(c) ==
  /\ client[c].stage = "running"
  /\ client' = [client EXCEPT ![c].ran = TRUE, ![c].why = "ran",
       ![c].stage = IF c \in Shim /\ alive THEN "reporting" ELSE "over"]
  /\ handler' = IF c \in Shim /\ alive
                THEN [handler EXCEPT ![c].stage = "reported"] ELSE handler
  /\ UNCHANGED <<arrived, events, pageVars, alive, deaths>>

\* The acknowledgment is read or waited for REPORT_ACK_WAIT, and either way ignored.
Acknowledged(c) ==
  /\ client[c].stage = "reporting"
  /\ client' = [client EXCEPT ![c].stage = "over"]
  /\ UNCHANGED <<arrived, handler, events, pageVars, alive, deaths>>

\* A hook is killed before it has answered.  Codex takes that for a failed hook and
\* runs the tool: its answer is all that the hook can stop it by.
HookFails(c) ==
  /\ c \in Hook /\ client[c].stage \in {"off", "first"} /\ deaths < MaxDeaths
  /\ deaths' = deaths + 1
  /\ client' = [client EXCEPT ![c].stage = "over", ![c].why = "failed", ![c].ran = TRUE]
  /\ UNCHANGED <<arrived, handler, events, pageVars, alive>>

\* Ctrl-C, in the terminal of the shim or of the agent and its hook.
Killed(c) ==
  /\ Connected(c) /\ deaths < MaxDeaths
  /\ deaths' = deaths + 1
  /\ Ends(c, "killed")
  /\ UNCHANGED <<arrived, handler, events, pageVars, alive>>

ClientStep(c) ==
  \/ ReadFirst(c) \/ ReadSecond(c) \/ TimeOut(c) \/ EndOfStream(c)
  \/ Execute(c) \/ Acknowledged(c)

-----------------------------------------------------------------------------
\* The daemon.  A line is written if the adapter has not gone; what goes wrong ends
\* the connection.
Emits(c, kind) == events' = Append(events, [id |-> c, kind |-> kind])
Writes(c, line, state) ==
  IF Connected(c)
  THEN /\ arrived' = [arrived EXCEPT ![c] = Append(@, line)]
       /\ handler' = [handler EXCEPT ![c] = state]
  ELSE /\ handler' = [handler EXCEPT ![c] = [state EXCEPT !.stage = "closed"]]
       /\ UNCHANGED arrived

Propose(c) ==
  /\ alive /\ handler[c].stage = "proposed"
  /\ Emits(c, "proposed")
  /\ handler' = [handler EXCEPT ![c].stage = "judging"]
  /\ UNCHANGED <<clientVars, pageVars, alive, deaths>>

\* The twin may take any time.
Evaluate(c) ==
  /\ alive /\ handler[c].stage = "judging"
  /\ \E v \in {"fit", "unfit", "unsure"} :
       handler' = [handler EXCEPT ![c].stage = "judged", ![c].verdict = v]
  /\ UNCHANGED <<clientVars, events, pageVars, alive, deaths>>

Allows(c) ==
  /\ Emits(c, "allow")
  /\ Writes(c, "allow", [handler[c] EXCEPT !.stage = "reading"])
Blocks(c) ==
  /\ Emits(c, "blocked")
  /\ Writes(c, "block", [handler[c] EXCEPT !.stage = "reading"])
Holds(c) ==
  /\ Emits(c, "hold")
  /\ Writes(c, "hold", [handler[c] EXCEPT !.stage = IF c \in Shim THEN "held" ELSE "reading"])

Respond(c) ==
  /\ alive /\ handler[c].stage = "judged"
  /\ \/ handler[c].verdict = "fit" /\ Allows(c)
     \/ handler[c].verdict = "unfit" /\ Blocks(c)
     \/ handler[c].verdict = "unsure" /\ Holds(c)
  /\ UNCHANGED <<client, pageVars, alive, deaths>>

\* timeout(HOLD_TIMEOUT, receiver): a decision that is there goes first.
Decide(c) ==
  /\ alive /\ handler[c].stage = "held"
  /\ handler[c].decision # "none" \/ handler[c].age = HoldTimeout
  /\ handler' = [handler EXCEPT ![c].stage = "decided",
       ![c].decision = IF @ = "none" THEN "expired" ELSE @]
  /\ UNCHANGED <<clientVars, events, pageVars, alive, deaths>>

\* Mutant: only an explicit rejection blocks.
ConcludeUnlessRejected(c) ==
  /\ alive /\ handler[c].stage = "decided"
  /\ IF handler[c].decision # "reject" THEN Allows(c) ELSE Blocks(c)
  /\ UNCHANGED <<client, pageVars, alive, deaths>>

Conclude(c) ==
  /\ alive /\ handler[c].stage = "decided"
  /\ IF handler[c].decision = "approve" THEN Allows(c) ELSE Blocks(c)
  /\ UNCHANGED <<client, pageVars, alive, deaths>>

Report(c) ==
  /\ alive /\ handler[c].stage = "reported"
  /\ Writes(c, "ack", [handler[c] EXCEPT !.stage = "reading"])
  /\ UNCHANGED <<client, events, pageVars, alive, deaths>>

HandlerStep(c) == Propose(c) \/ Respond(c) \/ Decide(c) \/ Conclude(c) \/ Report(c)

\* Whoever is held, and every subscriber, finds the connection closed.
DaemonDies ==
  /\ alive /\ deaths < MaxDeaths
  /\ alive' = FALSE /\ deaths' = deaths + 1
  /\ page' = [s \in Console |->
       IF page[s].stream = "open" THEN [page[s] EXCEPT !.stream = "ended"] ELSE page[s]]
  /\ UNCHANGED <<clientVars, handler, events, clicks>>

\* Time passes for the adapter and for the daemon's timer.  The daemon is prompt:
\* what is due it does before the next unit.
Due(c) ==
  /\ alive
  /\ \/ handler[c].stage \in {"proposed", "judged", "decided"}
     \/ handler[c].stage = "held" /\ (handler[c].decision # "none" \/ handler[c].age = HoldTimeout)
Grows(age, bound) == IF age < bound THEN age + 1 ELSE age
Tick(c) ==
  /\ ~Due(c)
  /\ \/ Waits(c) /\ client[c].age < HoldWait
     \/ alive /\ handler[c].stage = "held"
  /\ client' = IF Waits(c) THEN [client EXCEPT ![c].age = Grows(@, HoldWait)] ELSE client
  /\ handler' = IF alive /\ handler[c].stage = "held"
                THEN [handler EXCEPT ![c].age = @ + 1] ELSE handler
  /\ UNCHANGED <<arrived, events, pageVars, alive, deaths>>

-----------------------------------------------------------------------------
\* The event stream: from the channel through the daemon's handler of subscribe,
\* its connection and bridge_events to the page.
Subscribe(s) ==
  /\ alive /\ page[s].stream = "off"
  /\ LET here == Len(events) + 1 IN
     page' = [page EXCEPT ![s].stream = "open", ![s].from = here, ![s].next = here, ![s].seen = here]
  /\ UNCHANGED <<clientVars, handler, events, clicks, alive, deaths>>

Lagging(s) == Len(events) + 1 - page[s].next > Capacity
\* Mutant: what is sent to the page is queued without limit.
RoomAlways(s) == TRUE

\* bridge_events waits for the page to take what it has queued.
Room(s) == page[s].next - page[s].seen < Backlog

Forward(s) ==
  /\ page[s].stream = "open" /\ page[s].next <= Len(events) /\ ~Lagging(s) /\ Room(s)
  /\ page' = [page EXCEPT ![s].next = @ + 1]
  /\ UNCHANGED <<clientVars, handler, events, clicks, alive, deaths>>

\* Mutant: the subscriber skips what the channel has dropped and goes on.
LaggedGoesOn(s) ==
  /\ page[s].stream = "open" /\ Lagging(s) /\ page[s].seen = page[s].next
  /\ LET oldest == Len(events) + 1 - Capacity IN
     page' = [page EXCEPT ![s].next = oldest, ![s].seen = oldest]
  /\ UNCHANGED <<clientVars, handler, events, clicks, alive, deaths>>

\* recv fails with Lagged: the loop ends, and the connection with it.
Lagged(s) ==
  /\ page[s].stream = "open" /\ Lagging(s) /\ Room(s)
  /\ page' = [page EXCEPT ![s].stream = "ended"]
  /\ UNCHANGED <<clientVars, handler, events, clicks, alive, deaths>>

Verdicts == [kind \in {"allow", "blocked", "hold"} |-> IF kind = "blocked" THEN "block" ELSE kind]
Rendered(card, event) ==
  IF event.kind \in DOMAIN Verdicts THEN [card EXCEPT ![event.id] = Verdicts[event.kind]] ELSE card

\* handleDaemonEvent; bridge_events has an explanation written for what was blocked.
Show(s) ==
  /\ page[s].seen < page[s].next
  /\ LET event == events[page[s].seen] IN
     page' = [page EXCEPT
       ![s].seen = @ + 1,
       ![s].card = Rendered(@, event),
       ![s].explaining = IF event.kind = "blocked" THEN @ \union {event.id} ELSE @]
  /\ UNCHANGED <<clientVars, handler, events, clicks, alive, deaths>>

\* spawn_explanation sends the event once more, whenever the model has answered.
Explain(s) ==
  /\ \E c \in page[s].explaining :
       page' = [page EXCEPT ![s].explaining = @ \ {c}, ![s].card[c] = "block"]
  /\ UNCHANGED <<clientVars, handler, events, clicks, alive, deaths>>

-----------------------------------------------------------------------------
\* A human presses one of a hold's buttons; both are disabled.
Click(s, c) ==
  /\ page[s].card[c] = "hold" /\ clicks[s, c].state = "none"
  /\ \E d \in {"approve", "reject"} :
       clicks' = [clicks EXCEPT ![<<s, c>>] = [decision |-> d, state |-> "sent"]]
  /\ UNCHANGED <<clientVars, handler, events, page, alive, deaths>>

\* The daemon's resolve, over a connection of the console.  It counts if the
\* handler still waits and nobody was faster.  Without a daemon the request fails
\* and the buttons come back.
Awaits(c) == handler[c].stage = "held" /\ handler[c].decision = "none"

\* Mutant: a later decision replaces one that counts.
ResolveAgain(s, c) ==
  /\ clicks[s, c].state = "sent" /\ alive
  /\ clicks' = [clicks EXCEPT ![<<s, c>>].state = IF handler[c].stage = "held" THEN "counted" ELSE "late"]
  /\ handler' = IF handler[c].stage = "held"
                THEN [handler EXCEPT ![c].decision = clicks[s, c].decision] ELSE handler
  /\ UNCHANGED <<clientVars, events, page, alive, deaths>>

Resolve(s, c) ==
  /\ clicks[s, c].state = "sent"
  /\ \/ /\ alive /\ Awaits(c)
        /\ clicks' = [clicks EXCEPT ![<<s, c>>].state = "counted"]
        /\ handler' = [handler EXCEPT ![c].decision = clicks[s, c].decision]
     \/ /\ alive /\ ~Awaits(c)
        /\ clicks' = [clicks EXCEPT ![<<s, c>>].state = "late"]
        /\ UNCHANGED handler
     \/ /\ ~alive
        /\ clicks' = [clicks EXCEPT ![<<s, c>>] = NoClick]
        /\ UNCHANGED handler
  /\ UNCHANGED <<clientVars, events, page, alive, deaths>>

\* The page takes any answer for a success, whatever it says of "resolved".
Answered(s, c) ==
  /\ clicks[s, c].state \in {"counted", "late"}
  /\ clicks' = [clicks EXCEPT ![<<s, c>>].state = IF @ = "late" THEN "shownLate" ELSE "shown"]
  /\ page' = [page EXCEPT
       ![s].card[c] = IF clicks[s, c].decision = "approve" THEN "allow" ELSE "block"]
  /\ UNCHANGED <<clientVars, handler, events, alive, deaths>>

PageStep(s) ==
  \/ Forward(s) \/ Lagged(s) \/ Show(s) \/ Explain(s)
  \/ \E c \in Client : Resolve(s, c) \/ Answered(s, c)

Next ==
  \/ \E c \in Client : Submit(c) \/ ClientStep(c) \/ Killed(c) \/ HookFails(c)
       \/ HandlerStep(c) \/ Evaluate(c) \/ Tick(c)
  \/ \E s \in Console : Subscribe(s) \/ PageStep(s) \/ \E c \in Client : Click(s, c)
  \/ DaemonDies

\* The programs run and time passes.  A human, a twin and a dashboard owe nothing.
Fairness ==
  \A c \in Client : WF_vars(ClientStep(c)) /\ WF_vars(HandlerStep(c)) /\ WF_vars(Tick(c))

Spec == Init /\ [][Next]_vars
FairSpec == Spec /\ Fairness

-----------------------------------------------------------------------------
\* Nothing runs that the daemon has not let through: judged fit, or approved by a
\* human before the hold expired.  Lost lines, timeouts, a daemon or a shim that dies
\* never lead to an execution, and the hook never waits one out.  The hook itself must
\* live to answer: the agent runs the tool of one that fails.
Permitted(c) ==
  \/ handler[c].verdict = "fit"
  \/ handler[c].verdict = "unsure" /\ handler[c].decision = "approve" /\ c \in Shim
FailedHook(c) == c \in Hook /\ client[c].why = "failed"
RunsOnlyIfPermitted == \A c \in Client : client[c].ran => Permitted(c) \/ FailedHook(c)

\* A decision that the daemon counted is carried out: a rejected command never runs;
\* an approved one has run when the shim ends, unless the shim or the daemon was
\* killed or the answer was in the buffer that was dropped with the hold.
DecisionCarriedOut ==
  \A c \in Client, s \in Console :
    clicks[s, c].state \in {"counted", "shown"} =>
      /\ clicks[s, c].decision = "reject" => ~client[c].ran
      /\ clicks[s, c].decision = "approve" /\ client[c].stage = "over" =>
           client[c].ran \/ client[c].why = "killed" \/ client[c].lost \/ ~alive

\* "On approval the command runs normally".
ApprovedRuns ==
  \A c \in Client, s \in Console :
    clicks[s, c].state \in {"counted", "shown"} /\ clicks[s, c].decision = "approve" =>
      client[c].why \notin {"blocked", "timeout"}

\* The shim's patience outlasts the daemon's hold: told to wait, it gives up only if
\* it dropped the answer itself, or the daemon is dead.
WaitOutlastsHold ==
  \A c \in Shim : client[c].why = "timeout" => client[c].lost \/ ~alive

\* A ledger shows, of each command, the last verdict emitted since it subscribed:
\* events reach it in order and none is left out, however slow it is; if it misses
\* one its stream is over.  Only the answer to its own click is shown before.
LastVerdict(s, c) ==
  LET told == {k \in page[s].from .. page[s].seen - 1 :
                 events[k].id = c /\ events[k].kind \in DOMAIN Verdicts}
  IN  IF told = {} THEN "none"
      ELSE Verdicts[events[CHOOSE k \in told : \A j \in told : j <= k].kind]
LedgerFollows ==
  \A s \in Console, c \in Client :
    clicks[s, c].state \notin {"shown", "shownLate"} => page[s].card[c] = LastVerdict(s, c)

\* A ledger shows "allow" only for a command that was let through, or for one whose
\* approval came too late: the page does not look at what the answer says.
AllowShownIfPermitted ==
  \A s \in Console, c \in Client :
    page[s].card[c] = "allow" =>
      Permitted(c) \/ clicks[s, c] = [decision |-> "approve", state |-> "shownLate"]

\* Every command ends: whatever the twin, the human and the daemon do, the adapter
\* gives up.
EveryCommandEnds == \A c \in Client : client[c].stage = "first" ~> client[c].stage = "over"
=============================================================================
