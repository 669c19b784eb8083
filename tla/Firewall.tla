------------------------------ MODULE Firewall ------------------------------
(***************************************************************************)
(* What tractusd promises to the other end of each connection.  A command  *)
(* submitted there is judged: fit, unfit, or unsure.  A fit one is         *)
(* allowed, an unfit one blocked.  An unsure one is answered with a hold,  *)
(* and either the client decides for itself or it waits for a human; only  *)
(* the human's approval, given while it waits, allows it then.  Nothing is *)
(* answered twice, and whatever fails leaves the command unanswered,       *)
(* never allowed.                                                          *)
(*                                                                         *)
(* Connections are independent: one step may move several of them.         *)
(***************************************************************************)
CONSTANT Conn

VARIABLES
  phase,    \* how far the connection's command has come
  answer    \* the last answer it was given

Phase == {"free", "judging", "fit", "unfit", "unsure", "held", "approved", "refused"}
Answer == {"none", "allow", "block", "hold"}

Init ==
  /\ phase = [c \in Conn |-> "free"]
  /\ answer = [c \in Conn |-> "none"]

Moves(c, from, to, reply) ==
  phase[c] = from /\ phase'[c] = to /\ answer'[c] = reply

Submit(c) ==
  \E to \in {"judging", "fit", "unfit", "unsure"} : Moves(c, "free", to, "none")
Judge(c) ==
  \E to \in {"fit", "unfit", "unsure"} : Moves(c, "judging", to, "none")
Allow(c) == Moves(c, "fit", "free", "allow")
Block(c) == Moves(c, "unfit", "free", "block")
HandBack(c) == Moves(c, "unsure", "free", "hold")
Hold(c) == Moves(c, "unsure", "held", "hold")
Decide(c) == \E to \in {"approved", "refused"} : Moves(c, "held", to, "hold")
Obey(c) ==
  Moves(c, "approved", "free", "allow") \/ Moves(c, "refused", "free", "block")

\* The connection or the daemon fails, or the connection turns to other business.
Lapse(c) == phase'[c] = "free" /\ answer'[c] = "none"

Stays(c) == phase'[c] = phase[c] /\ answer'[c] = answer[c]

Step(c) ==
  \/ Submit(c) \/ Judge(c) \/ Allow(c) \/ Block(c) \/ HandBack(c) \/ Hold(c)
  \/ Decide(c) \/ Obey(c) \/ Lapse(c) \/ Stays(c)

Next ==
  /\ phase' \in [Conn -> Phase] /\ answer' \in [Conn -> Answer]
  /\ \A c \in Conn : Step(c)

Spec == Init /\ [][Next]_<<phase, answer>>
=============================================================================
