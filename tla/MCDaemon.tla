------------------------------ MODULE MCDaemon ------------------------------
(* Small instances of Daemon for TLC. *)
EXTENDS Daemon, TLC

CONSTANTS k1, k2, i1, i2, c1, c2, s1

Quiet ==
  [writes |-> {}, deletes |-> {}, op |-> "run", git |-> NoGit, dep |-> FALSE,
   network |-> FALSE, privileged |-> FALSE]
EditSrc  == [Quiet EXCEPT !.writes = {"src"}, !.op = "edit"]
EditDocs == [Quiet EXCEPT !.writes = {"docs"}, !.op = "edit"]
DropDocs == [Quiet EXCEPT !.deletes = {"docs"}]

Narrow ==
  [paths |-> {"src"}, ops |-> {"edit", "run"}, gitOps |-> {}, deps |-> FALSE, network |-> FALSE]
Wide == [Narrow EXCEPT !.paths = {"src", "docs"}]

Build == [shape |-> "build", effects |-> EditSrc]
Script == [shape |-> "script", effects |-> Unknown]

MCCommands ==
  {[parse |-> "commands", segs |-> <<Build, Script>>],
   [parse |-> "opaque", segs |-> <<>>]}
LiveCommands ==
  {[parse |-> "commands", segs |-> <<Script>>], [parse |-> "opaque", segs |-> <<>>]}
MCEdits == {EditDocs}
MCTwinEffects == {EditSrc, DropDocs}
MCRegistrable == {<<k1, Narrow>>, <<None, Wide>>}
Symmetry == Permutations(Conn) \union Permutations(Id)
LiveRegistrable == {<<None, Narrow>>}
MCAnonymous == {<<None, Narrow>>, <<None, Wide>>}
=============================================================================
