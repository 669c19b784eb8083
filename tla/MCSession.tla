----------------------------- MODULE MCSession ------------------------------
(* Two adapters and two dashboards for TLC. *)
EXTENDS Session, FiniteSets

Open(s) == page'[s].stream # "off"
Started(c) == client'[c].stage # "off"

\* Bound: three of them take part, or two and one program is killed.
AtMostThree ==
  Cardinality({c \in Client : Started(c)}) + Cardinality({s \in Console : Open(s)}) + deaths' <= 3

\* Bound: with a dashboard open the agent submits one command after another.
OneAfterAnother ==
  (\E s \in Console : Open(s)) =>
    \A c \in Client : \A d \in Client \ {c} : Started(c) /\ Started(d) =>
      "over" \in {client'[c].stage, client'[d].stage}

\* Dashboards are alike: they open in the order of their numbers.
InOrder == \A s \in Console : Open(s) => \A t \in 1 .. s : Open(t)
=============================================================================
