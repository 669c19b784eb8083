------------------------------- MODULE Launch -------------------------------
(***************************************************************************)
(* The tractus commands: `new`, `codex`, and the bare command that offers  *)
(* the contracts, activates the one chosen and starts Codex                *)
(* (tractus/src/main.rs, launcher.rs).  Several run in one workspace: they *)
(* meet in the contract store and at the daemon's socket.                  *)
(***************************************************************************)
EXTENDS ContractStore, SocketBind

CONSTANTS
  MaxAttempts,   \* DAEMON_STARTUP_ATTEMPTS
  MaxCommands    \* bound: commands that are run

ASSUME LaunchAssumption ==
  /\ MaxAttempts \in Nat \ {0} /\ MaxCommands \in Nat
  /\ Id \subseteq Contract

VARIABLES
  program,    \* each tractus process
  commands,   \* commands run so far
  displaced   \* auxiliary: another process made its own choice active between this
              \* one's activation and its look at the active contract

launchVars == <<storeVars, socketVars, program, commands, displaced>>

Off == [command |-> "none", stage |-> "off", picked |-> None, contract |-> None,
        peer |-> None, child |-> None, attempts |-> 0, why |-> "none"]

Registering == {"checking", "registering", "attempting", "waiting", "killing"}
Over == {"off", "failed"}

TypeOK ==
  /\ StoreTypeOK /\ SocketTypeOK
  /\ program \in [Proc ->
       [command : {"none", "new", "codex", "launch", "retain"},
        stage : Over \union Registering \union
                {"listing", "creating", "activating", "loading", "retaining", "agent"},
        picked : Id \union {None}, contract : Id \union {None},
        peer : Daemon \union {None}, child : Daemon \union {None},
        attempts : 0 .. MaxAttempts,
        why : {"none", "store", "empty", "rejected", "exited", "timeout", "io", "codex"}]]
  /\ commands \in 0 .. MaxCommands
  /\ displaced \in [Proc -> BOOLEAN]

Init ==
  /\ StoreInit /\ SocketInit
  /\ program = [p \in Proc |-> Off]
  /\ commands = 0
  /\ displaced = [p \in Proc |-> FALSE]

-----------------------------------------------------------------------------
\* A command begins in a shell where nothing runs.
Begin(p, command, stage) ==
  /\ program[p].stage \in Over /\ commands < MaxCommands
  /\ \A q \in Proc : program[q].stage # "retaining"
  /\ commands' = commands + 1
  /\ program' = [program EXCEPT ![p] = [Off EXCEPT !.command = command, !.stage = stage]]
  /\ displaced' = [displaced EXCEPT ![p] = FALSE]
  /\ UNCHANGED socketVars

RunNew(p) == Begin(p, "new", "creating") /\ Create(p)
RunCodex(p) == Begin(p, "codex", "loading") /\ LoadActive(p)
RunLaunch(p) == Begin(p, "launch", "listing") /\ List(p)

\* No command changes the limit; a program that embeds the store does so while no
\* tractus runs.
RunRetain(p) ==
  /\ \A q \in Proc : program[q].stage \in Over
  /\ Begin(p, "retain", "retaining")
  /\ \E n \in Limits : SetRetentionLimit(p, n)

\* One step of the store; a write of the state displaces whoever has activated its
\* choice and has not yet looked up what is active.
Vulnerable(q) == At(q, "loading") \/ (program[q].stage = "activating" /\ At(q, "done"))
UseStore(p) ==
  /\ StoreStep(p)
  /\ displaced' = IF SavingState(p)
                  THEN [q \in Proc |-> displaced[q] \/ (q # p /\ Vulnerable(q))]
                  ELSE displaced
  /\ UNCHANGED <<socketVars, program, commands>>

\* The call ended with an error, and with it the command.
Stops(p, why) ==
  program' = [program EXCEPT ![p] = [Off EXCEPT !.stage = "failed", !.why = why, !.child = program[p].child]]
Clears(p) ==
  /\ calls' = [calls EXCEPT ![p] = NoCall]
  /\ UNCHANGED <<documents, stateFile, crashes, contended>>

StoreFailed(p) ==
  /\ At(p, "failed")
  /\ Stops(p, "store")
  /\ Clears(p)
  /\ UNCHANGED <<socketVars, commands, displaced>>

Quits(p) == program' = [program EXCEPT ![p] = Off]
Returned(p, stage) == program[p].stage = stage /\ At(p, "done")
Goes(p, stage) == program' = [program EXCEPT ![p].stage = stage]

\* Mutant: the choice is not activated before launch_codex reads the active one.
SelectWithoutActivating(p) ==
  /\ Returned(p, "listing")
  /\ \E i \in DOMAIN calls[p].seen :
       program' = [program EXCEPT ![p].stage = "loading", ![p].picked = i]
  /\ LoadActive(p)
  /\ UNCHANGED <<socketVars, commands, displaced>>

\* select_contract: the human picks one of those listed, asks for a new one, or
\* quits; where there is none, a new one is made.
SelectContract(p) ==
  /\ Returned(p, "listing")
  /\ \/ Goes(p, "creating") /\ Create(p)
     \/ \E i \in DOMAIN calls[p].seen :
          /\ program' = [program EXCEPT ![p].stage = "activating", ![p].picked = i]
          /\ Activate(p, i)
     \/ Quits(p) /\ Clears(p)
  /\ UNCHANGED <<socketVars, commands, displaced>>

Created(p) ==
  /\ Returned(p, "creating")
  /\ \/ program[p].command = "new" /\ Quits(p) /\ Clears(p)
     \/ /\ program[p].command = "launch"
        /\ program' = [program EXCEPT ![p].stage = "activating", ![p].picked = calls[p].id]
        /\ Activate(p, calls[p].id)
  /\ UNCHANGED <<socketVars, commands, displaced>>

Retained(p) ==
  /\ Returned(p, "retaining")
  /\ Quits(p) /\ Clears(p)
  /\ UNCHANGED <<socketVars, commands, displaced>>

\* launch_codex re-reads the active contract.
Activated(p) ==
  /\ Returned(p, "activating")
  /\ Goes(p, "loading") /\ LoadActive(p)
  /\ UNCHANGED <<socketVars, commands, displaced>>

Loaded(p) ==
  /\ Returned(p, "loading")
  /\ \/ calls[p].id = None /\ Stops(p, "empty")
     \/ /\ calls[p].id # None
        /\ program' = [program EXCEPT ![p].stage = "checking", ![p].contract = calls[p].id]
  /\ Clears(p)
  /\ UNCHANGED <<socketVars, commands, displaced>>

-----------------------------------------------------------------------------
\* register_contract: with the daemon that is there, or with one it starts, if it can
\* be started.  Daemons are started in the order of their numbers.
Spare == {d \in Daemon : daemon[d] = "off" /\ \A e \in Daemon : daemon[e] = "off" => d <= e}

\* Mutant: a daemon is started without a look for one that serves.
SpawnUnasked(p) ==
  /\ program[p].stage = "checking"
  /\ \E d \in Spare :
       /\ program' = [program EXCEPT ![p].stage = "attempting", ![p].child = d]
       /\ Spawn(d)
  /\ UNCHANGED <<storeVars, commands, displaced>>

CheckSocket(p) ==
  /\ program[p].stage = "checking"
  /\ \/ Live /\ Goes(p, "registering") /\ UNCHANGED socketVars
     \/ /\ ~Live
        /\ \E d \in Spare :
             /\ program' = [program EXCEPT ![p].stage = "attempting", ![p].child = d]
             /\ Spawn(d)
     \/ ~Live /\ Stops(p, "io") /\ UNCHANGED socketVars
  /\ UNCHANGED <<storeVars, commands, displaced>>

\* Mutant: any answer is taken for the acknowledgment.
RegistersUnconfirmed(p) ==
  /\ Live
  /\ program' = [program EXCEPT ![p].stage = "agent", ![p].peer = address]
  /\ UNCHANGED socketVars

\* set_contract_at is acknowledged: Codex starts, bound to the contract's id.
Registers(p) ==
  /\ SetContractAt(program[p].contract)
  /\ program' = [program EXCEPT ![p].stage = "agent", ![p].peer = address]

\* It is refused, nobody answers in time, or nobody is there; an answer that comes
\* too late leaves the contract registered.
Refused(p) ==
  \/ SetContractAt(program[p].contract)
  \/ (~Live \/ address \in Foreign) /\ UNCHANGED socketVars

Register(p) ==
  /\ program[p].stage = "registering"
  /\ Registers(p) \/ (Refused(p) /\ Stops(p, "rejected"))
  /\ UNCHANGED <<storeVars, commands, displaced>>

Attempt(p) ==
  /\ program[p].stage = "attempting"
  /\ Registers(p) \/ (Refused(p) /\ Goes(p, "waiting"))
  /\ UNCHANGED <<storeVars, commands, displaced>>

\* Mutant: the attempts are not limited.
TryWaitForever(p) ==
  /\ program[p].stage = "waiting"
  /\ daemon[program[p].child] # "gone"
  /\ program' = [program EXCEPT ![p].attempts = @ + 1, ![p].stage = "attempting"]
  /\ UNCHANGED <<storeVars, socketVars, commands, displaced>>

\* try_wait: the child has ended, it has not, or the call itself fails.
TryWait(p) ==
  /\ program[p].stage = "waiting"
  /\ \/ daemon[program[p].child] = "gone" /\ Stops(p, "exited")
     \/ Stops(p, "io")
     \/ /\ daemon[program[p].child] # "gone"
        /\ program' = [program EXCEPT ![p].attempts = @ + 1,
             ![p].stage = IF program[p].attempts + 1 < MaxAttempts THEN "attempting" ELSE "killing"]
  /\ UNCHANGED <<storeVars, socketVars, commands, displaced>>

\* Mutant: the launcher gives up and leaves its daemon running.
LeaveChild(p) ==
  /\ program[p].stage = "killing"
  /\ Stops(p, "timeout")
  /\ UNCHANGED <<storeVars, socketVars, commands, displaced>>

KillChild(p) ==
  /\ program[p].stage = "killing"
  /\ Killed(program[p].child) /\ UNCHANGED deaths
  /\ Stops(p, "timeout")
  /\ UNCHANGED <<storeVars, commands, displaced>>

CodexEnds(p) ==
  /\ program[p].stage = "agent"
  /\ Quits(p)
  /\ UNCHANGED <<storeVars, socketVars, commands, displaced>>

\* Codex cannot be started, or be waited for: the command fails, and its daemon, with
\* the contract it took, goes on.
CodexFails(p) ==
  /\ program[p].stage = "agent"
  /\ Stops(p, "codex")
  /\ UNCHANGED <<storeVars, socketVars, commands, displaced>>

\* The process is killed, in a store call or while it registers.
Interrupt(p) ==
  /\ \/ Crash(p)
     \/ /\ program[p].stage \in Registering /\ crashes < MaxCrashes
        /\ crashes' = crashes + 1
        /\ UNCHANGED <<documents, stateFile, calls, contended>>
  /\ Quits(p)
  /\ UNCHANGED <<socketVars, commands, displaced>>

\* A human may start a daemon by hand.
RunDaemon(d) ==
  /\ (d \in Spare /\ Spawn(d)) \/ DaemonStep(d) \/ Die(d)
  /\ UNCHANGED <<storeVars, program, commands, displaced>>

\* What the command does by itself, once a human has chosen.
Proceed(p) ==
  \/ UseStore(p) \/ StoreFailed(p) \/ Created(p) \/ Retained(p) \/ Activated(p)
  \/ Loaded(p) \/ CheckSocket(p) \/ Register(p) \/ Attempt(p) \/ TryWait(p) \/ KillChild(p)

Next ==
  \/ \E p \in Proc :
       \/ RunNew(p) \/ RunCodex(p) \/ RunLaunch(p) \/ RunRetain(p)
       \/ SelectContract(p) \/ Proceed(p) \/ CodexEnds(p) \/ CodexFails(p) \/ Interrupt(p)
  \/ \E d \in Daemon : RunDaemon(d)

Spec == Init /\ [][Next]_launchVars

-----------------------------------------------------------------------------
\* "activates your choice, then starts Codex with it enforced": Codex runs under the
\* contract that was picked, unless another process made its own choice active
\* after this one's activation and before launch_codex looked it up.
ChoiceEnforced ==
  \A p \in Proc :
    program[p].stage = "agent" /\ program[p].picked # None =>
      program[p].contract = program[p].picked \/ displaced[p]

\* Codex runs only after a daemon of this workspace took its contract: that
\* daemon holds it as long as it lives.
AgentRegistered ==
  \A p \in Proc :
    program[p].stage = "agent" =>
      /\ program[p].peer \in Daemon \ Foreign
      /\ daemon[program[p].peer] # "gone" => program[p].contract \in registered[program[p].peer]

\* "A slow or malformed daemon must not survive": a launch that gives up on the daemon
\* it started leaves it neither running nor yet to run, whatever came of its contract
\* in the meantime.  Where the system fails it, in waiting for its daemon or in
\* starting Codex, the daemon goes on.
NoStrayDaemon ==
  \A p \in Proc :
    program[p].stage = "failed" /\ program[p].child # None =>
      daemon[program[p].child] = "gone" \/ program[p].why \in {"io", "codex"}

\* A launch fails on a document only if another process pruned it, and on its
\* daemon's early end only if another daemon was starting, or was killed.
FailsOnlyByRivals ==
  \A p \in Proc :
    /\ program[p].why = "exited" => raced \/ deaths > 0
    /\ program[p].why = "store" =>
         contended \/ \E i \in Id : documents[i] = Pruned
=============================================================================
