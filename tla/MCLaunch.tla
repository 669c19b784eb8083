------------------------------ MODULE MCLaunch ------------------------------
(* A small workspace for TLC. *)
EXTENDS Launch, TLC

CONSTANTS p1, p2

Symmetry == Permutations(Proc)

\* Steps on the store and steps at the socket touch different variables, so that
\* their orders come to the same.  Only one is explored: first whatever the
\* commands do in the store, then whatever they do at the socket.
Spawned == \E d \in Daemon \ Foreign : daemon[d] # "off"
AtSocket ==
  \/ \E p \in Proc : program[p].stage \in (Registering \ {"checking"}) \union {"agent"}
  \/ Spawned
StoreFirst ==
  /\ AtSocket => UNCHANGED <<documents, stateFile, calls, contended, commands>>
  /\ (\E p \in Proc : Busy(p)) => UNCHANGED socketVars

\* Once a daemon was started the store's variables change no longer, and what the
\* properties say of them has been checked: states that differ in them alone are one.
\* There a contract is only known by the processes that run under it.
Sharing(k) == {p \in Proc : program[p].contract = k}
Course(p) ==
  LET r == program[p]
  IN  <<r.stage, Sharing(r.contract), r.peer, r.child, r.attempts, r.why,
        r.picked = None \/ r.picked = r.contract \/ displaced[p]>>
View ==
  IF Spawned
  THEN <<"socket", address, daemon, [d \in Daemon |-> {Sharing(k) : k \in registered[d]}],
         deaths, raced, crashes, [p \in Proc |-> Course(p)]>>
  ELSE <<"store", launchVars>>

\* Bound: by hand, a daemon is started only beside the one a running Codex uses,
\* before any process has died.
ByHandOnlyAsSecond ==
  program' = program /\ (\E d \in Spare : daemon'[d] # "off") =>
    /\ crashes + deaths = 0
    /\ \E p \in Proc : program[p].stage = "agent" /\ address = program[p].peer

\* Bound: one fault at a time, a process that dies, a tractus or a daemon, or a call
\* of the system that fails a command.
OneFault ==
  crashes' + deaths' + Cardinality({p \in Proc : program'[p].why \in {"io", "codex"}}) <= 1
=============================================================================
