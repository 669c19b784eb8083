------------------------------ MODULE Verdict ------------------------------
(***************************************************************************)
(* The contract checker, tractus-core/src/verdict.rs: effects against a    *)
(* compiled contract, and the verdicts of a compound's segments combined.  *)
(*                                                                         *)
(* A path is its normalised form and a contract's allowed_paths the set of *)
(* paths its globs match.  Reads are kept nowhere: check ignores them.     *)
(***************************************************************************)
EXTENDS History

CONSTANTS
  Path, Op, GitOp,
  NoGit       \* effects.git = None

ASSUME NoGitAssumption == NoGit \notin GitOp

Contract ==
  [paths : SUBSET Path, ops : SUBSET Op, gitOps : SUBSET GitOp,
   deps : BOOLEAN, network : BOOLEAN]

Effects ==
  [writes : SUBSET Path, deletes : SUBSET Path, op : Op, git : GitOp \union {NoGit},
   dep : BOOLEAN, network : BOOLEAN, privileged : BOOLEAN]

Reason == {"opaque", "twin-timeout", "unresolved-var", "contract-ambiguous"}

-----------------------------------------------------------------------------
(* Proof traces: the rule and what breached it.  The rendering is left out. *)

Trace(rule, on) == [rule |-> rule, on |-> on]

TraceIf(breached, rule) == IF breached THEN {Trace(rule, "command")} ELSE {}

PathTraces(paths, contract) == {Trace("R-PATH-01", p) : p \in paths \ contract.paths}

\* Seeded fault: deletions outside the allowed paths go unnoticed.
BreachesForgettingDeletes(effects, contract) ==
  TraceIf(effects.privileged, "R-PRIV-01")
  \union TraceIf(effects.network /\ ~contract.network, "R-NET-01")
  \union TraceIf(effects.dep /\ ~contract.deps, "R-DEP-01")
  \union TraceIf(effects.git # NoGit /\ effects.git \notin contract.gitOps, "R-GIT-01")
  \union PathTraces(effects.writes, contract)
  \union TraceIf(effects.op \notin contract.ops, "R-OP-01")

Breaches(effects, contract) ==
  TraceIf(effects.privileged, "R-PRIV-01")
  \union TraceIf(effects.network /\ ~contract.network, "R-NET-01")
  \union TraceIf(effects.dep /\ ~contract.deps, "R-DEP-01")
  \union TraceIf(effects.git # NoGit /\ effects.git \notin contract.gitOps, "R-GIT-01")
  \union PathTraces(effects.writes, contract)
  \union PathTraces(effects.deletes, contract)
  \union TraceIf(effects.op \notin contract.ops, "R-OP-01")

-----------------------------------------------------------------------------
(* Verdicts, one record shape for all four variants. *)

InScope == [kind |-> "in-scope", proofs |-> {}, why |-> "none"]
ScopeViolation(proofs) == [kind |-> "violation", proofs |-> proofs, why |-> "none"]
NeedsHuman(reason) == [kind |-> "needs-human", proofs |-> {}, why |-> reason]
Loop == [kind |-> "loop", proofs |-> {}, why |-> "none"]

ProofTrace ==
  {Trace(rule, "command") : rule \in {"R-PRIV-01", "R-NET-01", "R-DEP-01", "R-GIT-01", "R-OP-01"}}
  \union {Trace("R-PATH-01", p) : p \in Path}

Verdicts ==
  {InScope, Loop} \union {NeedsHuman(reason) : reason \in Reason}
  \union {ScopeViolation(proofs) : proofs \in (SUBSET ProofTrace) \ {{}}}

\* The loop test comes first; `looping` is history.loop_detected().is_some().
Check(effects, contract, looping) ==
  IF looping THEN Loop
  ELSE LET proofs == Breaches(effects, contract)
       IN  IF proofs = {} THEN InScope ELSE ScopeViolation(proofs)

AllProofs(verdicts) == UNION {verdicts[k].proofs : k \in DOMAIN verdicts}

Asking(verdicts) == {k \in DOMAIN verdicts : verdicts[k].kind = "needs-human"}

\* Seeded fault: a segment nobody could judge no longer holds up the compound.
CombineForgettingHumans(verdicts) ==
  IF \E k \in DOMAIN verdicts : verdicts[k].kind = "loop" THEN Loop
  ELSE IF AllProofs(verdicts) # {} THEN ScopeViolation(AllProofs(verdicts))
  ELSE InScope

\* combine_verdicts: a loop wins, then every proof of every segment, then the
\* first question for a human.
CombineVerdicts(verdicts) ==
  IF \E k \in DOMAIN verdicts : verdicts[k].kind = "loop" THEN Loop
  ELSE IF AllProofs(verdicts) # {} THEN ScopeViolation(AllProofs(verdicts))
  ELSE IF Asking(verdicts) # {} THEN verdicts[First(Asking(verdicts))]
  ELSE InScope

-----------------------------------------------------------------------------
(* What a contract permits, clause by clause: the reference for Check. *)

Permits(contract, effects) ==
  /\ effects.writes \union effects.deletes \subseteq contract.paths
  /\ effects.op \in contract.ops
  /\ effects.git \in contract.gitOps \union {NoGit}
  /\ effects.dep => contract.deps
  /\ effects.network => contract.network
  /\ ~effects.privileged
=============================================================================
