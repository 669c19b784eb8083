---------------------------- MODULE SessionProofs ---------------------------
(* What a command's adapter, its handler and the dashboards agree on, for  *)
(* any number of them, any patience and any length of the event channel.   *)
EXTENDS Session, TLAPS

-----------------------------------------------------------------------------
(* Type correctness *)

Line == {"hold", "allow", "block", "ack"}
\* A button that was pressed stands for a decision.
ClickState ==
  {x \in [decision : {"none", "approve", "reject"},
           state : {"none", "sent", "counted", "late", "shown", "shownLate"}] :
     x.state # "none" => x.decision # "none"}

ClientTyped == client \in [Client -> ClientState]
ArrivedTyped == arrived \in [Client -> Seq(Line)]
HandlerTyped == handler \in [Client -> HandlerState]
ClicksTyped == clicks \in [Console \X Client -> ClickState]
LifeTyped == alive \in BOOLEAN /\ deaths \in 0 .. MaxDeaths

\* A page has been sent at most what was emitted, has shown at most what it was
\* sent, and has at most Backlog of it in flight.
InStream(p) ==
  /\ 1 <= p.from /\ p.from <= p.seen /\ p.seen <= p.next
  /\ p.next <= Len(events) + 1 /\ p.next - p.seen <= Backlog
PageTyped == page \in [Console -> PageState] /\ \A s \in Console : InStream(page[s])

Typed ==
  /\ ClientTyped /\ ArrivedTyped /\ HandlerTyped /\ events \in Seq(Event)
  /\ PageTyped /\ ClicksTyped /\ LifeTyped

LEMMA Constants ==
  /\ HoldTimeout \in Nat /\ HoldWait \in Nat /\ HoldTimeout < HoldWait
  /\ Capacity \in Nat \ {0} /\ Backlog \in Nat \ {0} /\ MaxDeaths \in Nat
  /\ \A c \in Client : c \in Shim <=> c \notin Hook
BY SessionAssumption DEF Client

\* The records of one adapter and of one handler.
LEMMA Records ==
  ASSUME Typed
  PROVE  /\ \A c \in Client :
              /\ client[c] \in ClientState
              /\ client[c].age \in 0 .. HoldWait
              /\ client[c].lost \in BOOLEAN /\ client[c].ran \in BOOLEAN
         /\ \A c \in Client :
              /\ handler[c] \in HandlerState
              /\ handler[c].age \in 0 .. HoldTimeout
         /\ \A c \in Client : arrived[c] \in Seq(Line)
BY DEF Typed, ClientTyped, ArrivedTyped, HandlerTyped, ClientState, HandlerState

\* Only one adapter's record, handler's record or queue of lines is replaced.
LEMMA OneClient ==
  ASSUME Typed, NEW c \in Client, NEW s \in ClientState, client' = [client EXCEPT ![c] = s]
  PROVE  ClientTyped' /\ client'[c] = s /\ \A d \in Client \ {c} : client'[d] = client[d]
BY DEF Typed, ClientTyped

LEMMA OneHandler ==
  ASSUME Typed, NEW c \in Client, NEW s \in HandlerState, handler' = [handler EXCEPT ![c] = s]
  PROVE  HandlerTyped' /\ handler'[c] = s /\ \A d \in Client \ {c} : handler'[d] = handler[d]
BY DEF Typed, HandlerTyped

LEMMA OneQueue ==
  ASSUME Typed, NEW c \in Client, NEW q \in Seq(Line), arrived' = [arrived EXCEPT ![c] = q]
  PROVE  ArrivedTyped' /\ arrived'[c] = q /\ \A d \in Client \ {c} : arrived'[d] = arrived[d]
BY DEF Typed, ArrivedTyped

\* What a step leaves alone keeps its type; a page's place in the stream is not
\* disturbed by an event that is emitted.
LEMMA TypedFrames ==
  ASSUME Typed
  PROVE  /\ UNCHANGED client => ClientTyped'
         /\ UNCHANGED arrived => ArrivedTyped'
         /\ UNCHANGED handler => HandlerTyped'
         /\ UNCHANGED clicks => ClicksTyped'
         /\ UNCHANGED <<alive, deaths>> => LifeTyped'
         /\ UNCHANGED <<page, events>> => PageTyped'
         /\ \A e \in Event : events' = Append(events, e) /\ UNCHANGED page =>
              events' \in Seq(Event) /\ PageTyped'
<1>1. ASSUME NEW e \in Event, events' = Append(events, e), UNCHANGED page
      PROVE  events' \in Seq(Event) /\ PageTyped'
  <2>1. /\ events' \in Seq(Event) /\ Len(events') = Len(events) + 1 /\ Len(events) \in Nat
    BY <1>1 DEF Typed
  <2>2. \A s \in Console : page[s].next \in Nat
    BY DEF Typed, PageTyped, PageState
  <2> QED BY <1>1, <2>1, <2>2 DEF Typed, PageTyped, InStream
<1> QED BY <1>1 DEF Typed, ClientTyped, ArrivedTyped, HandlerTyped, ClicksTyped, LifeTyped,
                    PageTyped, InStream

-----------------------------------------------------------------------------
(* What the building blocks of the actions do to one command's records *)

Whys == {"none", "ran", "blocked", "held", "unreachable", "unjudged", "timeout", "killed", "failed"}

LEMMA EndsEffect ==
  ASSUME Typed, NEW c \in Client, NEW why \in Whys, Ends(c, why)
  PROVE  /\ ClientTyped' /\ \A d \in Client \ {c} : client'[d] = client[d]
         /\ client'[c].stage = "over" /\ client'[c].why = why
         /\ client'[c].ran = client[c].ran /\ client'[c].lost = client[c].lost
<1> DEFINE s == [client[c] EXCEPT !.stage = "over", !.why = why]
<1>1. client[c] \in ClientState
  BY Records
<1>2. s \in ClientState
  BY <1>1 DEF ClientState, Whys
<1>3. /\ s.stage = "over" /\ s.why = why
      /\ s.ran = client[c].ran /\ s.lost = client[c].lost
  BY <1>1 DEF ClientState
<1>4. client' = [client EXCEPT ![c] = s]
  BY DEF Ends
<1> HIDE DEF s
<1> QED BY <1>2, <1>3, <1>4, OneClient

LEMMA RunsEffect ==
  ASSUME Typed, NEW c \in Client, Runs(c)
  PROVE  /\ ClientTyped' /\ \A d \in Client \ {c} : client'[d] = client[d]
         /\ client'[c].stage = "running" /\ client'[c].lost = Loses(c)
         /\ client'[c].why = client[c].why /\ client'[c].ran = client[c].ran
<1> DEFINE s == [client[c] EXCEPT !.lost = Loses(c), !.stage = "running"]
<1>1. client[c] \in ClientState
  BY Records
<1>2. Loses(c) \in BOOLEAN
  BY DEF Loses
<1>3. s \in ClientState
  BY <1>1, <1>2 DEF ClientState
<1>4. /\ s.stage = "running" /\ s.lost = Loses(c)
      /\ s.why = client[c].why /\ s.ran = client[c].ran
  BY <1>1 DEF ClientState
<1>5. client' = [client EXCEPT ![c] = s]
  BY DEF Runs
<1> HIDE DEF s
<1> QED BY <1>3, <1>4, <1>5, OneClient

\* Reading takes in all that has arrived.
LEMMA ReadsEffect ==
  ASSUME Typed, NEW c \in Client, Reads(c)
  PROVE  /\ ArrivedTyped' /\ arrived'[c] = <<>>
         /\ \A d \in Client \ {c} : arrived'[d] = arrived[d]
         /\ Len(arrived[c]) \in Nat \ {0} /\ 1 \in DOMAIN arrived[c]
<1>1. arrived' = [arrived EXCEPT ![c] = <<>>] /\ arrived[c] # <<>>
  BY DEF Reads
<1>2. arrived[c] \in Seq(Line)
  BY Records
<1>3. <<>> \in Seq(Line)
  OBVIOUS
<1>4. Len(arrived[c]) \in Nat \ {0} /\ 1 \in DOMAIN arrived[c]
  BY <1>1, <1>2
<1> QED BY <1>1, <1>3, <1>4, OneQueue

\* A handler's record with another stage.
LEMMA Staged ==
  ASSUME Typed, NEW c \in Client,
         NEW stage \in {"reading", "proposed", "judging", "judged", "held", "decided", "reported",
                        "closed"}
  PROVE  LET h == [handler[c] EXCEPT !.stage = stage]
         IN  /\ h \in HandlerState /\ h.stage = stage /\ h.verdict = handler[c].verdict
             /\ h.decision = handler[c].decision /\ h.age = handler[c].age
BY Records DEF HandlerState

LEMMA StageEffect ==
  ASSUME Typed, NEW c \in Client,
         NEW stage \in {"reading", "proposed", "judging", "judged", "held", "decided", "reported",
                        "closed"},
         handler' = [handler EXCEPT ![c].stage = stage]
  PROVE  /\ HandlerTyped' /\ \A d \in Client \ {c} : handler'[d] = handler[d]
         /\ handler'[c].stage = stage /\ handler'[c].verdict = handler[c].verdict
         /\ handler'[c].decision = handler[c].decision /\ handler'[c].age = handler[c].age
<1> DEFINE h == [handler[c] EXCEPT !.stage = stage]
<1>1. /\ h \in HandlerState /\ h.stage = stage /\ h.verdict = handler[c].verdict
      /\ h.decision = handler[c].decision /\ h.age = handler[c].age
  BY Staged
<1>2. handler' = [handler EXCEPT ![c] = h]
  OBVIOUS
<1> HIDE DEF h
<1> QED BY <1>1, <1>2, OneHandler

\* A line reaches an adapter that is still there; one that has gone is hung up on.
LEMMA WritesEffect ==
  ASSUME Typed, NEW c \in Client, NEW line \in Line,
         NEW stage \in {"reading", "held"},
         Writes(c, line, [handler[c] EXCEPT !.stage = stage])
  PROVE  /\ HandlerTyped' /\ \A d \in Client \ {c} : handler'[d] = handler[d]
         /\ ArrivedTyped' /\ \A d \in Client \ {c} : arrived'[d] = arrived[d]
         /\ handler'[c].verdict = handler[c].verdict
         /\ handler'[c].decision = handler[c].decision /\ handler'[c].age = handler[c].age
         /\ \/ /\ Connected(c) /\ handler'[c].stage = stage
               /\ arrived'[c] = Append(arrived[c], line)
            \/ /\ ~Connected(c) /\ handler'[c].stage = "closed"
               /\ arrived'[c] = arrived[c]
<1> DEFINE h == [handler[c] EXCEPT !.stage = stage]
<1>1. /\ h \in HandlerState /\ h.stage = stage /\ h.verdict = handler[c].verdict
      /\ h.decision = handler[c].decision /\ h.age = handler[c].age
  <2>1. stage \in {"reading", "proposed", "judging", "judged", "held", "decided", "reported",
                   "closed"}
    OBVIOUS
  <2> HIDE DEF h
  <2> QED BY <2>1, Staged DEF h
<1>2. CASE Connected(c)
  <2>1. /\ arrived' = [arrived EXCEPT ![c] = Append(arrived[c], line)]
        /\ handler' = [handler EXCEPT ![c] = h]
    BY <1>2 DEF Writes
  <2>2. Append(arrived[c], line) \in Seq(Line)
    BY Records
  <2> HIDE DEF h
  <2> QED BY <1>1, <1>2, <2>1, <2>2, OneHandler, OneQueue
<1>3. CASE ~Connected(c)
  <2> DEFINE g == [h EXCEPT !.stage = "closed"]
  <2>1. handler' = [handler EXCEPT ![c] = g] /\ UNCHANGED arrived
    BY <1>3 DEF Writes
  <2> HIDE DEF h
  <2>2. /\ g \in HandlerState /\ g.stage = "closed" /\ g.verdict = handler[c].verdict
        /\ g.decision = handler[c].decision /\ g.age = handler[c].age
    BY <1>1 DEF HandlerState
  <2> HIDE DEF g
  <2> QED BY <1>1, <1>3, <2>1, <2>2, OneHandler, TypedFrames
<1> QED BY <1>2, <1>3

\* One place of one page's stream, or its cards, are replaced.
LEMMA OnePage ==
  ASSUME Typed, NEW s \in Console, NEW p \in PageState, InStream(p),
         page' = [page EXCEPT ![s] = p], UNCHANGED events
  PROVE  /\ PageTyped' /\ page'[s] = p
         /\ \A r \in Console \ {s} : page'[r] = page[r]
<1>1. page \in [Console -> PageState] /\ \A r \in Console : InStream(page[r])
  BY DEF Typed, PageTyped
<1>2. page'[s] = p /\ \A r \in Console \ {s} : page'[r] = page[r]
  BY <1>1
<1>3. \A q : InStream(q) => InStream(q)'
  BY DEF InStream
<1> QED BY <1>1, <1>2, <1>3 DEF PageTyped, InStream

LEMMA OneClick ==
  ASSUME Typed, NEW s \in Console, NEW c \in Client, NEW x \in ClickState,
         clicks' = [clicks EXCEPT ![<<s, c>>] = x]
  PROVE  /\ ClicksTyped' /\ clicks'[s, c] = x
         /\ \A r \in Console, d \in Client : r # s \/ d # c => clicks'[r, d] = clicks[r, d]
BY DEF Typed, ClicksTyped

LEMMA ClickRecords ==
  ASSUME Typed, NEW s \in Console, NEW c \in Client
  PROVE  clicks[s, c] \in ClickState
BY DEF Typed, ClicksTyped

LEMMA PageRecords ==
  ASSUME Typed, NEW s \in Console
  PROVE  /\ page[s] \in PageState
         /\ page[s].from \in Nat /\ page[s].next \in Nat /\ page[s].seen \in Nat
         /\ page[s].card \in [Client -> Card] /\ page[s].explaining \in SUBSET Client
         /\ InStream(page[s]) /\ Len(events) \in Nat
BY DEF Typed, PageTyped, PageState

-----------------------------------------------------------------------------
(* One command: what its adapter, its handler and the lines between them   *)
(* can be at the same time                                                 *)

Allowed(c, h) ==
  h.verdict = "fit" \/ (h.verdict = "unsure" /\ h.decision = "approve" /\ c \in Shim)
Refused(h) == h.verdict = "unfit" \/ h.decision \in {"reject", "expired"}

\* The handler has no verdict before it judges, and no decision before it holds.
Judges(c, h) ==
  /\ h.stage \in {"proposed", "judging"} => h.verdict = "none"
  /\ h.stage \in {"proposed", "judging", "judged"} => h.decision = "none"
  /\ h.stage \in {"held", "decided"} => h.verdict = "unsure" /\ c \in Shim
  /\ h.stage = "decided" => h.decision # "none"
  /\ h.decision # "none" => h.verdict = "unsure" /\ c \in Shim

\* A line says what the handler has found.
Says(c, a, h) ==
  \A i \in DOMAIN a : (a[i] = "allow" => Allowed(c, h)) /\ (a[i] = "block" => Refused(h))

\* An adapter that waits for its first or its second line, and what has arrived.
WaitsFirst(c, a, h) ==
  \/ a = <<>> /\ h.stage \in {"proposed", "judging", "judged"}
  \/ Len(a) = 1 /\ a[1] = "hold" /\ c \in Shim /\ h.stage \in {"held", "decided"}
  \/ Len(a) = 1 /\ a[1] = "hold" /\ c \in Hook /\ h.stage = "reading"
  \/ Len(a) = 2 /\ a[1] = "hold" /\ c \in Shim /\ h.stage = "reading"
  \/ Len(a) = 1 /\ a[1] \in {"allow", "block"} /\ h.stage = "reading"

\* While it waits for the human, its clock is not ahead of the handler's: it began
\* when the hold was read, and both go on together while the daemon lives.
WaitsSecond(k, a, h, up) ==
  \/ a = <<>> /\ h.stage \in {"held", "decided"} /\ (up => k.age <= h.age)
  \/ a = <<>> /\ k.lost /\ h.stage = "reading"
  \/ Len(a) = 1 /\ a[1] \in {"allow", "block"} /\ h.stage = "reading"

Listens(c, k, a, h, up) ==
  /\ k.stage = "off" =>
       /\ ~k.lost /\ a = <<>>
       /\ h.stage = "reading" /\ h.verdict = "none" /\ h.decision = "none"
  /\ k.stage = "first" => ~k.lost /\ WaitsFirst(c, a, h)
  /\ k.stage = "second" => c \in Shim /\ WaitsSecond(k, a, h, up)

\* Why an adapter has ended, and what it has run.
Ended(c, k, h, up) ==
  /\ k.stage \in {"running", "reporting"} => Allowed(c, h)
  /\ k.ran => Allowed(c, h) \/ (c \in Hook /\ k.why = "failed" /\ k.stage = "over")
  /\ k.stage = "reporting" => k.ran /\ k.why = "ran"
  /\ k.stage = "over" => k.why # "none"
  /\ k.why \in {"ran", "failed"} => k.ran
  /\ k.why = "blocked" => Refused(h)
  /\ k.why = "held" => c \in Hook
  /\ k.why = "unreachable" => ~up
  /\ k.why = "unjudged" => /\ k.stage = "over" /\ h.decision = "none"
                           /\ h.stage \in {"proposed", "judging", "judged", "closed"}
  /\ k.why = "timeout" => k.lost \/ ~up

Agreed(c, k, a, h, up) ==
  Judges(c, h) /\ Says(c, a, h) /\ Listens(c, k, a, h, up) /\ Ended(c, k, h, up)

Conversation == \A c \in Client : Agreed(c, client[c], arrived[c], handler[c], alive)

\* A step of one command disturbs no other, and a dead daemon stays dead.
LEMMA OthersAgree ==
  ASSUME Typed, Conversation, LifeTyped', alive' => alive, NEW c \in Client,
         \A d \in Client \ {c} : client'[d] = client[d],
         \A d \in Client \ {c} : arrived'[d] = arrived[d],
         \A d \in Client \ {c} : handler'[d] = handler[d],
         Agreed(c, client'[c], arrived'[c], handler'[c], alive')
  PROVE  Conversation'
<1>1. alive \in BOOLEAN /\ alive' \in BOOLEAN
  BY DEF Typed, LifeTyped
<1>2. \A d, k, a, h : Agreed(d, k, a, h, alive) => Agreed(d, k, a, h, alive')
  BY <1>1 DEF Agreed, Listens, WaitsSecond, Ended
<1> QED BY <1>2 DEF Conversation

LEMMA NoneSpeaks ==
  ASSUME Typed, Conversation, LifeTyped', alive' => alive, UNCHANGED <<client, arrived, handler>>
  PROVE  Conversation'
<1>1. alive \in BOOLEAN /\ alive' \in BOOLEAN
  BY DEF Typed, LifeTyped
<1>2. \A d, k, a, h : Agreed(d, k, a, h, alive) => Agreed(d, k, a, h, alive')
  BY <1>1 DEF Agreed, Listens, WaitsSecond, Ended
<1> QED BY <1>2 DEF Conversation

\* What the handler has found and been told goes on to hold.
LEMMA FindingsStand ==
  ASSUME NEW c, NEW h, NEW g, Judges(c, h),
         \/ g.verdict = h.verdict
         \/ h.stage = "judging" /\ g.decision = h.decision,
         \/ g.decision = h.decision
         \/ h.stage = "held" /\ h.decision = "none" /\ g.verdict = h.verdict
  PROVE  (Allowed(c, h) => Allowed(c, g)) /\ (Refused(h) => Refused(g))
BY DEF Judges, Allowed, Refused

\* The adapter's steps.  Those that end it leave the handler alone.
LEMMA EndingAgrees ==
  ASSUME Typed, Conversation, NEW c \in Client, NEW why \in Whys \ {"none"}, Ends(c, why),
         client[c].stage # "over", UNCHANGED <<handler, alive>>, LifeTyped',
         ArrivedTyped', arrived'[c] \in {arrived[c], <<>>},
         \A d \in Client \ {c} : arrived'[d] = arrived[d],
         why \in {"ran", "failed"} => client[c].ran,
         why = "blocked" => Refused(handler[c]),
         why = "held" => c \in Hook,
         why = "unreachable" => ~alive,
         why = "unjudged" => /\ handler[c].decision = "none"
                             /\ handler[c].stage \in {"proposed", "judging", "judged", "closed"},
         why = "timeout" => client[c].lost \/ ~alive
  PROVE  ClientTyped' /\ Conversation'
<1>1. /\ ClientTyped' /\ \A d \in Client \ {c} : client'[d] = client[d]
      /\ client'[c].stage = "over" /\ client'[c].why = why
      /\ client'[c].ran = client[c].ran /\ client'[c].lost = client[c].lost
  BY EndsEffect
<1>2. Agreed(c, client[c], arrived[c], handler[c], alive)
  BY DEF Conversation
<1>3. Says(c, arrived'[c], handler[c])
  BY <1>2 DEF Agreed, Says
<1>4. Ended(c, client'[c], handler[c], alive)
  BY <1>1, <1>2 DEF Agreed, Ended
<1>5. Listens(c, client'[c], arrived'[c], handler[c], alive)
  BY <1>1 DEF Listens
<1>6. Agreed(c, client'[c], arrived'[c], handler'[c], alive')
  BY <1>2, <1>3, <1>4, <1>5 DEF Agreed
<1>7. Conversation'
  BY <1>1, <1>6, OthersAgree
<1> QED BY <1>1, <1>7

LEMMA SubmitAgrees ==
  ASSUME Typed, LifeTyped', Conversation, NEW c \in Client, Submit(c)
  PROVE  ClientTyped' /\ HandlerTyped' /\ Conversation'
<1>1. Agreed(c, client[c], arrived[c], handler[c], alive) /\ alive \in BOOLEAN
  BY DEF Conversation, Typed, LifeTyped
<1>2. CASE ~alive
  <2>1. Ends(c, "unreachable") /\ UNCHANGED <<handler, arrived, alive>> /\ client[c].stage # "over"
    BY <1>2 DEF Submit
  <2>2. ClientTyped' /\ Conversation'
    BY <1>2, <2>1, EndingAgrees, TypedFrames DEF Whys
  <2> QED BY <2>1, <2>2, TypedFrames
<1>3. CASE alive
  <2> DEFINE k == [client[c] EXCEPT !.stage = "first"]
  <2>1. /\ client' = [client EXCEPT ![c] = k]
        /\ handler' = [handler EXCEPT ![c].stage = "proposed"] /\ UNCHANGED <<arrived, alive>>
        /\ client[c].stage = "off"
    BY <1>3 DEF Submit
  <2>2. /\ k \in ClientState /\ k.stage = "first" /\ k.lost = client[c].lost
        /\ k.ran = client[c].ran /\ k.why = client[c].why
    BY Records DEF ClientState
  <2> HIDE DEF k
  <2>3. /\ ClientTyped' /\ client'[c] = k /\ \A d \in Client \ {c} : client'[d] = client[d]
    BY <2>1, <2>2, OneClient
  <2>4. /\ HandlerTyped' /\ \A d \in Client \ {c} : handler'[d] = handler[d]
        /\ handler'[c].stage = "proposed" /\ handler'[c].verdict = handler[c].verdict
        /\ handler'[c].decision = handler[c].decision
    BY <2>1, StageEffect
  <2>5. /\ ~client[c].lost /\ arrived[c] = <<>>
        /\ handler[c].verdict = "none" /\ handler[c].decision = "none"
    BY <1>1, <2>1 DEF Agreed, Listens
  <2>6. Judges(c, handler'[c]) /\ Says(c, arrived[c], handler'[c])
    BY <2>4, <2>5 DEF Judges, Says
  <2>7. Listens(c, k, arrived[c], handler'[c], alive)
    BY <2>2, <2>4, <2>5 DEF Listens, WaitsFirst
  <2>8. Ended(c, k, handler'[c], alive)
    BY <1>1, <2>1, <2>2, <2>4, <2>5 DEF Agreed, Ended, Allowed, Refused
  <2>9. Agreed(c, client'[c], arrived'[c], handler'[c], alive')
    BY <2>1, <2>3, <2>6, <2>7, <2>8 DEF Agreed
  <2>10. Conversation'
    BY <1>1, <2>1, <2>3, <2>4, <2>9, OthersAgree
  <2> QED BY <2>3, <2>4, <2>10
<1> QED BY <1>1, <1>2, <1>3

\* An allowed command is run.
LEMMA RunningAgrees ==
  ASSUME Typed, Conversation, NEW c \in Client, Runs(c), Reads(c), Waits(c),
         arrived[c][1] = "allow", UNCHANGED <<handler, alive>>, LifeTyped'
  PROVE  ClientTyped' /\ ArrivedTyped' /\ Conversation'
<1>1. Agreed(c, client[c], arrived[c], handler[c], alive) /\ alive \in BOOLEAN
  BY DEF Conversation, Typed, LifeTyped
<1>2. /\ ClientTyped' /\ \A d \in Client \ {c} : client'[d] = client[d]
      /\ client'[c].stage = "running"
      /\ client'[c].why = client[c].why /\ client'[c].ran = client[c].ran
      /\ client'[c].lost = Loses(c)
  BY RunsEffect
<1>3. /\ ArrivedTyped' /\ arrived'[c] = <<>>
      /\ \A d \in Client \ {c} : arrived'[d] = arrived[d] /\ 1 \in DOMAIN arrived[c]
  BY ReadsEffect
<1>4. Allowed(c, handler[c])
  BY <1>1, ReadsEffect DEF Agreed, Says
<1>5. client[c].lost => client'[c].lost
  BY <1>2 DEF Loses
<1>6. Says(c, arrived'[c], handler[c])
  BY <1>3 DEF Says
<1>7. Ended(c, client'[c], handler[c], alive)
  BY <1>1, <1>2, <1>4, <1>5 DEF Agreed, Ended, Waits
<1>8. Agreed(c, client'[c], arrived'[c], handler'[c], alive')
  BY <1>1, <1>2, <1>6, <1>7 DEF Agreed, Listens
<1>9. Conversation'
  BY <1>1, <1>2, <1>3, <1>8, OthersAgree
<1> QED BY <1>2, <1>3, <1>9

LEMMA ReadAgrees ==
  ASSUME Typed, Conversation, LifeTyped', NEW c \in Client, ReadFirst(c) \/ ReadSecond(c)
  PROVE  ClientTyped' /\ ArrivedTyped' /\ Conversation'
<1>1. Agreed(c, client[c], arrived[c], handler[c], alive)
  BY DEF Conversation
<1>2. /\ Reads(c) /\ UNCHANGED <<handler, alive>> /\ Waits(c) /\ client[c].stage # "over"
      /\ \/ arrived[c][1] = "allow" /\ Runs(c)
         \/ arrived[c][1] = "block" /\ Ends(c, "blocked")
         \/ arrived[c][1] = "hold" /\ c \in Hook /\ Ends(c, "held")
         \/ /\ client[c].stage = "first" /\ arrived[c][1] = "hold" /\ c \in Shim
            /\ client' = [client EXCEPT ![c].stage = "second", ![c].age = 0,
                                        ![c].lost = Loses(c)]
  BY DEF ReadFirst, ReadSecond, Waits
<1>3. /\ ArrivedTyped' /\ arrived'[c] = <<>> /\ 1 \in DOMAIN arrived[c]
      /\ Len(arrived[c]) \in Nat \ {0}
      /\ \A d \in Client \ {c} : arrived'[d] = arrived[d]
  BY <1>2, ReadsEffect
<1>4. CASE arrived[c][1] = "allow" /\ Runs(c)
  BY <1>2, <1>4, RunningAgrees
<1>5. CASE arrived[c][1] = "block" /\ Ends(c, "blocked")
  <2>1. Refused(handler[c])
    BY <1>1, <1>3, <1>5 DEF Agreed, Says
  <2> QED BY <1>2, <1>3, <1>5, <2>1, EndingAgrees DEF Whys
<1>6. CASE c \in Hook /\ Ends(c, "held")
  BY <1>2, <1>3, <1>6, EndingAgrees DEF Whys
<1>7. CASE /\ client[c].stage = "first" /\ arrived[c][1] = "hold" /\ c \in Shim
           /\ client' = [client EXCEPT ![c].stage = "second", ![c].age = 0, ![c].lost = Loses(c)]
  <2> DEFINE k == [client[c] EXCEPT !.stage = "second", !.age = 0, !.lost = Loses(c)]
  <2>1. /\ k \in ClientState /\ k.stage = "second" /\ k.age = 0 /\ k.lost = Loses(c)
        /\ k.ran = client[c].ran /\ k.why = client[c].why
    <3>1. Loses(c) \in BOOLEAN
      BY DEF Loses
    <3>2. 0 \in 0 .. HoldWait
      BY Constants
    <3> QED BY <3>1, <3>2, Records DEF ClientState
  <2>2. client' = [client EXCEPT ![c] = k]
    BY <1>7
  <2> HIDE DEF k
  <2>3. /\ ClientTyped' /\ client'[c] = k /\ \A d \in Client \ {c} : client'[d] = client[d]
    BY <2>1, <2>2, OneClient
  <2>4. /\ handler[c].age \in Nat /\ c \notin Hook
    BY <1>7, Records, Constants
  <2>5. WaitsSecond(k, <<>>, handler[c], alive)
    <3>1. WaitsFirst(c, arrived[c], handler[c])
      BY <1>1, <1>7 DEF Agreed, Listens
    <3>2. \/ handler[c].stage \in {"held", "decided"}
          \/ Len(arrived[c]) = 2 /\ handler[c].stage = "reading"
      BY <1>3, <1>7, <2>4, <3>1 DEF WaitsFirst
    <3>3. Len(arrived[c]) = 2 => k.lost
      <4>1. Len(arrived[c]) = 2 => Loses(c)
        BY DEF Loses
      <4> QED BY <2>1, <4>1, Zenon
    <3> QED BY <2>1, <2>4, <3>2, <3>3 DEF WaitsSecond
  <2>6. Says(c, <<>>, handler[c])
    BY DEF Says
  <2>7. Ended(c, k, handler[c], alive)
    <3>1. client[c].lost = FALSE
      BY <1>1, <1>7 DEF Agreed, Listens
    <3> QED BY <1>1, <1>7, <2>1, <3>1 DEF Agreed, Ended
  <2>8. Agreed(c, client'[c], arrived'[c], handler'[c], alive')
    BY <1>1, <1>2, <1>3, <1>7, <2>1, <2>3, <2>5, <2>6, <2>7 DEF Agreed, Listens
  <2>9. Conversation'
    BY <1>2, <1>3, <2>3, <2>8, OthersAgree
  <2> QED BY <1>3, <2>3, <2>9
<1> QED BY <1>2, <1>4, <1>5, <1>6, <1>7

\* An adapter that gives up has heard nothing; told to wait, it outlasts the hold.
LEMMA GivingUpAgrees ==
  ASSUME Typed, Conversation, LifeTyped', NEW c \in Client, TimeOut(c) \/ EndOfStream(c)
  PROVE  ClientTyped' /\ Conversation'
<1>1. Agreed(c, client[c], arrived[c], handler[c], alive)
  BY DEF Conversation
<1>2. /\ arrived[c] = <<>> /\ Waits(c) /\ UNCHANGED <<arrived, handler, alive>>
      /\ ArrivedTyped' /\ client[c].stage # "over"
  BY TypedFrames DEF TimeOut, EndOfStream, Waits
<1>3. CASE EndOfStream(c)
  <2>1. Ends(c, "unreachable") /\ ~alive
    BY <1>3 DEF EndOfStream
  <2> QED BY <1>2, <2>1, EndingAgrees DEF Whys
<1>4. CASE TimeOut(c) /\ client[c].stage = "first"
  <2>1. Ends(c, "unjudged")
    BY <1>4 DEF TimeOut, GivesUp
  <2>2. handler[c].stage \in {"proposed", "judging", "judged"}
    <3>1. WaitsFirst(c, arrived[c], handler[c])
      BY <1>1, <1>4 DEF Agreed, Listens
    <3> QED BY <1>2, <3>1 DEF WaitsFirst
  <2>3. handler[c].decision = "none"
    BY <1>1, <2>2 DEF Agreed, Judges
  <2> QED BY <1>2, <2>1, <2>2, <2>3, EndingAgrees DEF Whys
<1>5. CASE TimeOut(c) /\ client[c].stage = "second"
  <2>1. Ends(c, "timeout") /\ client[c].age = HoldWait
    BY <1>5 DEF TimeOut, GivesUp
  <2>2. client[c].lost \/ ~alive
    <3>1. WaitsSecond(client[c], arrived[c], handler[c], alive)
      BY <1>1, <1>5 DEF Agreed, Listens
    <3>2. client[c].lost \/ (alive => client[c].age <= handler[c].age)
      BY <1>2, <3>1 DEF WaitsSecond
    <3>3. ~(client[c].age <= handler[c].age)
      <4>1. handler[c].age \in 0 .. HoldTimeout
        BY Records
      <4> QED BY <2>1, <4>1, Constants
    <3> QED BY <3>2, <3>3
  <2> QED BY <1>2, <2>1, <2>2, EndingAgrees DEF Whys
<1> QED BY <1>2, <1>3, <1>4, <1>5 DEF Waits

LEMMA KilledAgrees ==
  ASSUME Typed, Conversation, LifeTyped', NEW c \in Client, Killed(c)
  PROVE  ClientTyped' /\ Conversation'
BY TypedFrames, EndingAgrees DEF Killed, Connected, Whys

\* What a failed hook comes to: its tool has run.
LEMMA FailsEffect ==
  ASSUME Typed, NEW c \in Client, HookFails(c)
  PROVE  /\ ClientTyped' /\ \A d \in Client \ {c} : client'[d] = client[d]
         /\ client'[c].stage = "over" /\ client'[c].why = "failed"
         /\ client'[c].ran /\ client'[c].lost = client[c].lost
<1> DEFINE k == [client[c] EXCEPT !.stage = "over", !.why = "failed", !.ran = TRUE]
<1>1. client' = [client EXCEPT ![c] = k]
  BY DEF HookFails
<1>2. /\ k \in ClientState /\ k.stage = "over" /\ k.why = "failed"
      /\ k.ran = TRUE /\ k.lost = client[c].lost
  BY Records DEF ClientState
<1> HIDE DEF k
<1> QED BY <1>1, <1>2, OneClient

LEMMA FailedAgrees ==
  ASSUME Typed, Conversation, LifeTyped', NEW c \in Client, HookFails(c)
  PROVE  ClientTyped' /\ Conversation'
<1>1. c \in Hook /\ UNCHANGED <<arrived, handler, alive>>
  BY DEF HookFails
<1>2. Agreed(c, client[c], arrived[c], handler[c], alive)
  BY DEF Conversation
<1>3. Ended(c, client'[c], handler[c], alive) /\ Listens(c, client'[c], arrived[c], handler[c], alive)
  BY <1>1, FailsEffect DEF Ended, Listens
<1>4. Agreed(c, client'[c], arrived'[c], handler'[c], alive')
  BY <1>1, <1>2, <1>3 DEF Agreed
<1> QED BY <1>1, <1>4, FailsEffect, OthersAgree

\* The command runs, and its exit is reported.
LEMMA ExecuteAgrees ==
  ASSUME Typed, Conversation, LifeTyped', NEW c \in Client, Execute(c) \/ Acknowledged(c)
  PROVE  ClientTyped' /\ HandlerTyped' /\ Conversation'
<1>1. Agreed(c, client[c], arrived[c], handler[c], alive)
  BY DEF Conversation
<1>2. UNCHANGED <<arrived, alive>>
  BY DEF Execute, Acknowledged
<1>3. CASE Execute(c)
  <2> DEFINE reports == c \in Shim /\ alive
             stage == IF reports THEN "reporting" ELSE "over"
             k == [client[c] EXCEPT !.ran = TRUE, !.why = "ran", !.stage = stage]
  <2>1. stage \in {"reporting", "over"}
    OBVIOUS
  <2>2. client' = [client EXCEPT ![c] = k] /\ client[c].stage = "running"
    BY <1>3 DEF Execute
  <2>3. \/ reports /\ handler' = [handler EXCEPT ![c].stage = "reported"]
        \/ UNCHANGED handler
    BY <1>3 DEF Execute
  <2> HIDE DEF reports, stage
  <2>4. /\ k \in ClientState /\ k.stage = stage /\ k.ran = TRUE /\ k.why = "ran"
        /\ k.lost = client[c].lost
    BY <2>1, Records DEF ClientState
  <2> HIDE DEF k
  <2>5. /\ ClientTyped' /\ client'[c] = k /\ \A d \in Client \ {c} : client'[d] = client[d]
    BY <2>2, <2>4, OneClient
  <2>6. /\ HandlerTyped' /\ \A d \in Client \ {c} : handler'[d] = handler[d]
        /\ handler'[c].stage \in {handler[c].stage, "reported"}
        /\ handler'[c].verdict = handler[c].verdict
        /\ handler'[c].decision = handler[c].decision
    BY <2>3, StageEffect, TypedFrames
  <2>7. Judges(c, handler'[c])
    BY <1>1, <2>6 DEF Agreed, Judges
  <2>8. \A i \in DOMAIN arrived[c] : arrived[c][i] = "block" => Refused(handler[c])
    BY <1>1 DEF Agreed, Says
  <2>9. Allowed(c, handler[c])
    BY <1>1, <2>2 DEF Agreed, Ended
  <2>10. Allowed(c, handler'[c]) /\ (Refused(handler[c]) => Refused(handler'[c]))
    BY <2>6, <2>9 DEF Allowed, Refused
  <2>11. Says(c, arrived'[c], handler'[c])
    BY <1>2, <2>8, <2>10 DEF Says
  <2>12. Ended(c, k, handler'[c], alive) /\ Listens(c, k, arrived[c], handler'[c], alive)
    BY <2>1, <2>4, <2>10 DEF Ended, Listens
  <2>13. Agreed(c, client'[c], arrived'[c], handler'[c], alive')
    BY <1>2, <2>5, <2>7, <2>11, <2>12 DEF Agreed
  <2>14. Conversation'
    BY <1>2, <2>5, <2>6, <2>13, OthersAgree
  <2> QED BY <2>5, <2>6, <2>14
<1>4. CASE Acknowledged(c)
  <2> DEFINE k == [client[c] EXCEPT !.stage = "over"]
  <2>1. /\ client' = [client EXCEPT ![c] = k] /\ client[c].stage = "reporting"
        /\ UNCHANGED handler
    BY <1>4 DEF Acknowledged
  <2>2. /\ k \in ClientState /\ k.stage = "over" /\ k.ran = client[c].ran
        /\ k.why = client[c].why /\ k.lost = client[c].lost
    BY Records DEF ClientState
  <2> HIDE DEF k
  <2>3. /\ ClientTyped' /\ client'[c] = k /\ \A d \in Client \ {c} : client'[d] = client[d]
    BY <2>1, <2>2, OneClient
  <2>4. Ended(c, k, handler[c], alive) /\ Listens(c, k, arrived[c], handler[c], alive)
    BY <1>1, <2>1, <2>2 DEF Agreed, Ended, Listens
  <2>5. Agreed(c, client'[c], arrived'[c], handler'[c], alive')
    BY <1>1, <1>2, <2>1, <2>3, <2>4 DEF Agreed
  <2>6. Conversation'
    BY <1>2, <2>1, <2>3, <2>5, OthersAgree
  <2> QED BY <2>1, <2>3, <2>6, TypedFrames
<1> QED BY <1>3, <1>4

\* The handler's steps.  One that keeps to itself: the adapter hears nothing.
LEMMA SilentAgrees ==
  ASSUME Typed, Conversation, LifeTyped', NEW c \in Client,
         UNCHANGED <<client, arrived, alive>>,
         \A d \in Client \ {c} : handler'[d] = handler[d],
         Judges(c, handler'[c]),
         Allowed(c, handler[c]) => Allowed(c, handler'[c]),
         Refused(handler[c]) => Refused(handler'[c]),
         Listens(c, client[c], arrived[c], handler'[c], alive),
         client[c].why = "unjudged" =>
           /\ handler'[c].decision = "none"
           /\ handler'[c].stage \in {"proposed", "judging", "judged", "closed"}
  PROVE  Conversation'
<1>1. Agreed(c, client[c], arrived[c], handler[c], alive)
  BY DEF Conversation
<1>2. Says(c, arrived[c], handler'[c])
  BY <1>1 DEF Agreed, Says
<1>3. Ended(c, client[c], handler'[c], alive)
  BY <1>1 DEF Agreed, Ended
<1>4. Agreed(c, client'[c], arrived'[c], handler'[c], alive')
  BY <1>2, <1>3 DEF Agreed
<1> QED BY <1>4, OthersAgree

\* Waiting for the first line lasts as long as the handler has not judged.
LEMMA ProposeEvaluateAgree ==
  ASSUME Typed, Conversation, LifeTyped', NEW c \in Client, Propose(c) \/ Evaluate(c)
  PROVE  HandlerTyped' /\ Conversation'
<1>1. Agreed(c, client[c], arrived[c], handler[c], alive)
  BY DEF Conversation
<1>2. UNCHANGED <<client, arrived, alive>>
  BY DEF Propose, Evaluate, clientVars
<1>3. /\ HandlerTyped' /\ \A d \in Client \ {c} : handler'[d] = handler[d]
      /\ handler[c].stage \in {"proposed", "judging"}
      /\ handler'[c].stage \in {"judging", "judged"}
      /\ handler'[c].stage = "judging" => handler'[c].verdict = "none"
      /\ handler'[c].decision = "none"
      /\ handler[c].verdict = "none" /\ handler[c].decision = "none"
  <2>1. /\ handler[c].stage \in {"proposed", "judging"}
        /\ handler[c].verdict = "none" /\ handler[c].decision = "none"
    BY <1>1 DEF Propose, Evaluate, Agreed, Judges
  <2>2. CASE Propose(c)
    BY <2>1, <2>2, StageEffect DEF Propose
  <2>3. CASE Evaluate(c)
    <3>1. PICK v \in {"fit", "unfit", "unsure"} :
            handler' = [handler EXCEPT ![c].stage = "judged", ![c].verdict = v]
      BY <2>3 DEF Evaluate
    <3> DEFINE h == [handler[c] EXCEPT !.stage = "judged", !.verdict = v]
    <3>2. /\ h \in HandlerState /\ h.stage = "judged" /\ h.decision = handler[c].decision
      BY Records DEF HandlerState
    <3>3. handler' = [handler EXCEPT ![c] = h]
      BY <3>1
    <3> HIDE DEF h
    <3> QED BY <2>1, <3>2, <3>3, OneHandler
  <2> QED BY <2>1, <2>2, <2>3
<1>4. Judges(c, handler'[c])
  BY <1>3 DEF Judges
<1>5. ~Allowed(c, handler[c]) /\ ~Refused(handler[c])
  BY <1>3 DEF Allowed, Refused
<1>6. Listens(c, client[c], arrived[c], handler'[c], alive)
  BY <1>1, <1>3 DEF Agreed, Listens, WaitsFirst, WaitsSecond
<1>7. Conversation'
  BY <1>2, <1>3, <1>4, <1>5, <1>6, SilentAgrees
<1> QED BY <1>3, <1>7

\* The handler speaks: what it says is what it found, and it goes back to reading,
\* or is held by a shim that now knows it has to wait.
LEMMA SpeakingAgrees ==
  ASSUME Typed, Conversation, LifeTyped', NEW c \in Client, UNCHANGED <<client, alive>>,
         NEW line \in {"hold", "allow", "block"}, NEW stage \in {"reading", "held"},
         Writes(c, line, [handler[c] EXCEPT !.stage = stage]),
         handler[c].stage \in {"judged", "decided"},
         line = "allow" => Allowed(c, handler[c]),
         line = "block" => Refused(handler[c]),
         line = "hold" <=> handler[c].stage = "judged" /\ handler[c].verdict = "unsure",
         line = "hold" => (stage = "held" <=> c \in Shim),
         line # "hold" => stage = "reading"
  PROVE  HandlerTyped' /\ ArrivedTyped' /\ Conversation'
<1>1. Agreed(c, client[c], arrived[c], handler[c], alive)
  BY DEF Conversation
<1>2. arrived[c] \in Seq(Line) /\ line \in Line
  BY Records DEF Line
<1>3. /\ HandlerTyped' /\ \A d \in Client \ {c} : handler'[d] = handler[d]
      /\ ArrivedTyped' /\ \A d \in Client \ {c} : arrived'[d] = arrived[d]
      /\ handler'[c].verdict = handler[c].verdict
      /\ handler'[c].decision = handler[c].decision /\ handler'[c].age = handler[c].age
      /\ \/ /\ Connected(c) /\ handler'[c].stage = stage
            /\ arrived'[c] = Append(arrived[c], line)
         \/ /\ ~Connected(c) /\ handler'[c].stage = "closed"
            /\ arrived'[c] = arrived[c]
  BY <1>2, WritesEffect
<1>4. /\ Allowed(c, handler'[c]) <=> Allowed(c, handler[c])
      /\ Refused(handler'[c]) <=> Refused(handler[c])
  BY <1>3 DEF Allowed, Refused
<1>5. handler[c].stage = "judged" => handler[c].decision = "none"
  BY <1>1 DEF Agreed, Judges
<1>6. Judges(c, handler'[c])
  <2>1. handler'[c].decision # "none" => handler'[c].verdict = "unsure" /\ c \in Shim
    BY <1>1, <1>3 DEF Agreed, Judges
  <2>2. handler'[c].stage \in {"reading", "closed"}
        \/ (handler'[c].stage = "held" /\ handler'[c].verdict = "unsure" /\ c \in Shim)
    BY <1>3
  <2> QED BY <2>1, <2>2 DEF Judges
<1>7. Says(c, arrived'[c], handler'[c])
  <2>1. \A i \in DOMAIN arrived'[c] :
          (i \in DOMAIN arrived[c] /\ arrived'[c][i] = arrived[c][i]) \/ arrived'[c][i] = line
    BY <1>2, <1>3
  <2> QED BY <1>1, <1>4, <2>1 DEF Agreed, Says
<1>8. Ended(c, client[c], handler'[c], alive)
  <2>1. client[c].why = "unjudged" =>
          handler'[c].decision = "none" /\ handler'[c].stage = "closed"
    BY <1>1, <1>3 DEF Agreed, Ended, Connected
  <2> QED BY <1>1, <1>4, <2>1 DEF Agreed, Ended
<1>9. Listens(c, client[c], arrived'[c], handler'[c], alive)
  <2>1. client[c].stage # "off"
    BY <1>1 DEF Agreed, Listens
  <2>2. CASE client[c].stage = "first"
    <3>1. ~client[c].lost /\ WaitsFirst(c, arrived[c], handler[c])
      BY <1>1, <2>2 DEF Agreed, Listens
    <3>2. handler'[c].stage = stage /\ arrived'[c] = Append(arrived[c], line)
      BY <1>3, <2>2 DEF Connected
    <3>3. CASE handler[c].stage = "judged"
      <4>1. arrived[c] = <<>>
        BY <3>1, <3>3 DEF WaitsFirst
      <4>2. Len(arrived'[c]) = 1 /\ arrived'[c][1] = line
        BY <1>2, <3>2, <4>1
      <4> QED BY <2>2, <3>1, <3>2, <4>2, Constants DEF Listens, WaitsFirst
    <3>4. CASE handler[c].stage = "decided"
      <4>1. Len(arrived[c]) = 1 /\ arrived[c][1] = "hold" /\ c \in Shim
        BY <3>1, <3>4 DEF WaitsFirst
      <4>2. Len(arrived'[c]) = 2 /\ arrived'[c][1] = "hold"
        BY <1>2, <3>2, <4>1
      <4>3. stage = "reading"
        BY <3>4
      <4> QED BY <2>2, <3>1, <3>2, <4>1, <4>2, <4>3 DEF Listens, WaitsFirst
    <3> QED BY <3>3, <3>4
  <2>3. CASE client[c].stage = "second"
    <3>1. c \in Shim /\ WaitsSecond(client[c], arrived[c], handler[c], alive)
      BY <1>1, <2>3 DEF Agreed, Listens
    <3>2. handler'[c].stage = stage /\ arrived'[c] = Append(arrived[c], line)
      BY <1>3, <2>3 DEF Connected
    <3>3. arrived[c] = <<>> /\ handler[c].stage = "decided"
      BY <3>1 DEF WaitsSecond
    <3>4. Len(arrived'[c]) = 1 /\ arrived'[c][1] = line
      BY <1>2, <3>2, <3>3
    <3>5. line \in {"allow", "block"} /\ stage = "reading"
      BY <3>3
    <3> QED BY <2>3, <3>1, <3>2, <3>4, <3>5 DEF Listens, WaitsSecond
  <2> QED BY <2>1, <2>2, <2>3 DEF Listens
<1>10. Agreed(c, client'[c], arrived'[c], handler'[c], alive')
  BY <1>6, <1>7, <1>8, <1>9 DEF Agreed
<1>11. Conversation'
  BY <1>3, <1>10, OthersAgree
<1> QED BY <1>3, <1>11

\* A verdict and a conclusion: what is emitted is what is said.
LEMMA Spoken ==
  ASSUME Typed, Conversation, NEW c \in Client, Respond(c) \/ Conclude(c)
  PROVE  /\ UNCHANGED <<client, alive, deaths, page, clicks>>
         /\ handler[c].stage \in {"judged", "decided"}
         /\ \E line \in {"hold", "allow", "block"}, stage \in {"reading", "held"},
               kind \in {"allow", "blocked", "hold"} :
              /\ Emits(c, kind) /\ Writes(c, line, [handler[c] EXCEPT !.stage = stage])
              /\ kind = "allow" => line = "allow" /\ Allowed(c, handler[c])
              /\ kind = "blocked" => line = "block" /\ Refused(handler[c])
              /\ kind = "hold" => line = "hold"
              /\ line = "hold" <=> handler[c].stage = "judged" /\ handler[c].verdict = "unsure"
              /\ line = "hold" => (stage = "held" <=> c \in Shim)
              /\ line # "hold" => stage = "reading"
<1>1. Agreed(c, client[c], arrived[c], handler[c], alive)
  BY DEF Conversation
<1>2. handler[c].decision \in {"none", "approve", "reject", "expired"}
  BY Records DEF HandlerState
<1>3. /\ UNCHANGED <<client, alive, deaths, page, clicks>>
      /\ handler[c].stage \in {"judged", "decided"}
  BY DEF Respond, Conclude, pageVars
<1>4. CASE Respond(c)
  <2>1. CASE handler[c].verdict = "fit" /\ Allows(c)
    BY <1>3, <1>4, <2>1 DEF Allows, Allowed
  <2>2. CASE handler[c].verdict = "unfit" /\ Blocks(c)
    BY <1>3, <1>4, <2>2 DEF Blocks, Refused
  <2>3. CASE handler[c].verdict = "unsure" /\ Holds(c)
    <3>1. (IF c \in Shim THEN "held" ELSE "reading") \in {"reading", "held"}
      OBVIOUS
    <3>2. handler[c].stage = "judged"
      BY <1>4 DEF Respond
    <3> QED BY <1>3, <2>3, <3>1, <3>2 DEF Holds
  <2> QED BY <1>4, <2>1, <2>2, <2>3 DEF Respond
<1>5. CASE Conclude(c)
  <2>1. /\ handler[c].stage = "decided" /\ handler[c].decision # "none"
        /\ handler[c].verdict = "unsure" /\ c \in Shim
    BY <1>1, <1>5 DEF Conclude, Agreed, Judges
  <2>2. CASE handler[c].decision = "approve" /\ Allows(c)
    BY <1>3, <2>1, <2>2 DEF Allows, Allowed
  <2>3. CASE handler[c].decision # "approve" /\ Blocks(c)
    BY <1>2, <1>3, <2>1, <2>3 DEF Blocks, Refused
  <2> QED BY <1>5, <2>2, <2>3 DEF Conclude
<1> QED BY <1>4, <1>5

LEMMA RespondConcludeAgree ==
  ASSUME Typed, Conversation, LifeTyped', NEW c \in Client, Respond(c) \/ Conclude(c)
  PROVE  HandlerTyped' /\ ArrivedTyped' /\ events' \in Seq(Event) /\ PageTyped' /\ Conversation'
<1>1. PICK line \in {"hold", "allow", "block"}, stage \in {"reading", "held"},
           kind \in {"allow", "blocked", "hold"} :
        /\ Emits(c, kind) /\ Writes(c, line, [handler[c] EXCEPT !.stage = stage])
        /\ kind = "allow" => line = "allow" /\ Allowed(c, handler[c])
        /\ kind = "blocked" => line = "block" /\ Refused(handler[c])
        /\ kind = "hold" => line = "hold"
        /\ line = "hold" <=> handler[c].stage = "judged" /\ handler[c].verdict = "unsure"
        /\ line = "hold" => (stage = "held" <=> c \in Shim)
        /\ line # "hold" => stage = "reading"
  BY Spoken
<1>2. /\ UNCHANGED <<client, alive, page>> /\ handler[c].stage \in {"judged", "decided"}
  BY Spoken
<1>3. HandlerTyped' /\ ArrivedTyped' /\ Conversation'
  <2>1. /\ line = "allow" => Allowed(c, handler[c])
        /\ line = "block" => Refused(handler[c])
    BY <1>1
  <2> QED BY <1>1, <1>2, <2>1, SpeakingAgrees
<1>4. [id |-> c, kind |-> kind] \in Event
  BY DEF Event
<1>5. events' = Append(events, [id |-> c, kind |-> kind])
  BY <1>1 DEF Emits
<1> QED BY <1>2, <1>3, <1>4, <1>5, TypedFrames

\* The wait ends with the decision that is there, or with an expiry.
LEMMA DecideAgrees ==
  ASSUME Typed, Conversation, LifeTyped', NEW c \in Client, Decide(c)
  PROVE  HandlerTyped' /\ Conversation'
<1>1. Agreed(c, client[c], arrived[c], handler[c], alive)
  BY DEF Conversation
<1>2. UNCHANGED <<client, arrived, alive>> /\ handler[c].stage = "held"
  BY DEF Decide, clientVars
<1> DEFINE d == IF handler[c].decision = "none" THEN "expired" ELSE handler[c].decision
           h == [handler[c] EXCEPT !.stage = "decided", !.decision = d]
<1>3. /\ d \in {"none", "approve", "reject", "expired"} /\ d # "none"
      /\ handler[c].decision # "none" => d = handler[c].decision
  BY Records DEF HandlerState
<1>4. handler' = [handler EXCEPT ![c] = h]
  BY DEF Decide
<1> HIDE DEF d
<1>5. /\ h \in HandlerState /\ h.stage = "decided" /\ h.decision = d
      /\ h.verdict = handler[c].verdict /\ h.age = handler[c].age
  BY <1>3, Records DEF HandlerState
<1> HIDE DEF h
<1>6. /\ HandlerTyped' /\ handler'[c] = h /\ \A e \in Client \ {c} : handler'[e] = handler[e]
  BY <1>4, <1>5, OneHandler
<1>7. Judges(c, h)
  BY <1>1, <1>2, <1>3, <1>5 DEF Agreed, Judges
<1>8. (Allowed(c, handler[c]) => Allowed(c, h)) /\ (Refused(handler[c]) => Refused(h))
  <2>1. h.decision = handler[c].decision \/ handler[c].decision = "none"
    BY <1>3, <1>5
  <2> QED BY <1>5, <2>1 DEF Allowed, Refused
<1>9. Listens(c, client[c], arrived[c], h, alive)
  BY <1>1, <1>2, <1>5 DEF Agreed, Listens, WaitsFirst, WaitsSecond
<1>10. client[c].why # "unjudged"
  BY <1>1, <1>2 DEF Agreed, Ended
<1>11. Conversation'
  BY <1>2, <1>6, <1>7, <1>8, <1>9, <1>10, SilentAgrees
<1> QED BY <1>6, <1>11

\* A human's decision is taken over while the handler waits for one.
LEMMA ResolveAgrees ==
  ASSUME Typed, Conversation, LifeTyped', NEW c \in Client, NEW d \in {"approve", "reject"},
         handler[c].stage = "held", handler[c].decision = "none",
         UNCHANGED <<client, arrived, alive>>,
         handler' = [handler EXCEPT ![c].decision = d]
  PROVE  HandlerTyped' /\ Conversation'
<1>1. Agreed(c, client[c], arrived[c], handler[c], alive)
  BY DEF Conversation
<1> DEFINE h == [handler[c] EXCEPT !.decision = d]
<1>2. handler' = [handler EXCEPT ![c] = h]
  OBVIOUS
<1>3. /\ h \in HandlerState /\ h.stage = handler[c].stage /\ h.decision = d
      /\ h.verdict = handler[c].verdict /\ h.age = handler[c].age
  BY Records DEF HandlerState
<1> HIDE DEF h
<1>4. /\ HandlerTyped' /\ handler'[c] = h /\ \A e \in Client \ {c} : handler'[e] = handler[e]
  BY <1>2, <1>3, OneHandler
<1>5. Judges(c, h)
  BY <1>1, <1>3 DEF Agreed, Judges
<1>6. (Allowed(c, handler[c]) => Allowed(c, h)) /\ (Refused(handler[c]) => Refused(h))
  BY <1>1, <1>3, FindingsStand DEF Agreed
<1>7. Listens(c, client[c], arrived[c], h, alive)
  BY <1>1, <1>3 DEF Agreed, Listens, WaitsFirst, WaitsSecond
<1>8. client[c].why # "unjudged"
  BY <1>1 DEF Agreed, Ended
<1>9. Conversation'
  BY <1>4, <1>5, <1>6, <1>7, <1>8, SilentAgrees
<1> QED BY <1>4, <1>9

\* The report is acknowledged to an adapter that has run the command and waits for
\* no verdict any more.
LEMMA ReportAgrees ==
  ASSUME Typed, Conversation, LifeTyped', NEW c \in Client, Report(c)
  PROVE  HandlerTyped' /\ ArrivedTyped' /\ Conversation'
<1>1. Agreed(c, client[c], arrived[c], handler[c], alive)
  BY DEF Conversation
<1>2. /\ UNCHANGED <<client, alive>> /\ handler[c].stage = "reported"
      /\ Writes(c, "ack", [handler[c] EXCEPT !.stage = "reading"])
  BY DEF Report
<1>3. /\ HandlerTyped' /\ \A d \in Client \ {c} : handler'[d] = handler[d]
      /\ ArrivedTyped' /\ \A d \in Client \ {c} : arrived'[d] = arrived[d]
      /\ handler'[c].verdict = handler[c].verdict
      /\ handler'[c].decision = handler[c].decision
      /\ handler'[c].stage \in {"reading", "closed"}
      /\ arrived'[c] \in {arrived[c], Append(arrived[c], "ack")}
  BY <1>2, WritesEffect DEF Line
<1>4. client[c].stage \notin {"off", "first", "second"} /\ client[c].why # "unjudged"
  BY <1>1, <1>2 DEF Agreed, Listens, WaitsFirst, WaitsSecond, Ended
<1>5. Judges(c, handler'[c])
  BY <1>1, <1>3 DEF Agreed, Judges
<1>6. /\ Allowed(c, handler'[c]) <=> Allowed(c, handler[c])
      /\ Refused(handler'[c]) <=> Refused(handler[c])
  BY <1>3 DEF Allowed, Refused
<1>7. Says(c, arrived'[c], handler'[c])
  <2>1. \A i \in DOMAIN arrived'[c] :
          (i \in DOMAIN arrived[c] /\ arrived'[c][i] = arrived[c][i]) \/ arrived'[c][i] = "ack"
    BY <1>3, Records
  <2> QED BY <1>1, <1>6, <2>1 DEF Agreed, Says
<1>8. Ended(c, client[c], handler'[c], alive)
  BY <1>1, <1>4, <1>6 DEF Agreed, Ended
<1>9. Agreed(c, client'[c], arrived'[c], handler'[c], alive')
  BY <1>2, <1>4, <1>5, <1>7, <1>8 DEF Agreed, Listens
<1>10. Conversation'
  BY <1>2, <1>3, <1>9, OthersAgree
<1> QED BY <1>3, <1>10

\* Both clocks go on together while the daemon lives and nothing is due.
LEMMA TickAgrees ==
  ASSUME Typed, Conversation, LifeTyped', NEW c \in Client, Tick(c)
  PROVE  ClientTyped' /\ HandlerTyped' /\ Conversation'
<1>1. Agreed(c, client[c], arrived[c], handler[c], alive) /\ alive \in BOOLEAN
  BY DEF Conversation, Typed, LifeTyped
<1>2. /\ ~Due(c) /\ UNCHANGED <<arrived, alive>>
      /\ client' = IF Waits(c) THEN [client EXCEPT ![c].age = Grows(@, HoldWait)] ELSE client
      /\ handler' = IF alive /\ handler[c].stage = "held"
                    THEN [handler EXCEPT ![c].age = @ + 1] ELSE handler
  BY DEF Tick
<1>3. /\ client[c].age \in 0 .. HoldWait /\ handler[c].age \in 0 .. HoldTimeout
      /\ HoldWait \in Nat /\ HoldTimeout \in Nat
  BY Records, Constants
<1> DEFINE older == IF Waits(c) THEN Grows(client[c].age, HoldWait) ELSE client[c].age
           later == IF alive /\ handler[c].stage = "held" THEN handler[c].age + 1
                    ELSE handler[c].age
<1>4. /\ older \in 0 .. HoldWait /\ older <= client[c].age + 1
      /\ ~Waits(c) => older = client[c].age
  BY <1>3 DEF Grows
<1>5. /\ later \in 0 .. HoldTimeout
      /\ alive /\ handler[c].stage = "held" => later = handler[c].age + 1
  <2>1. alive /\ handler[c].stage = "held" => handler[c].age # HoldTimeout
    BY <1>2 DEF Due
  <2> QED BY <1>3, <2>1
<1> DEFINE k == [client[c] EXCEPT !.age = older]
           h == [handler[c] EXCEPT !.age = later]
<1>6. client[c] \in ClientState /\ client \in [Client -> ClientState]
  BY Records DEF Typed, ClientTyped
<1>7. handler[c] \in HandlerState /\ handler \in [Client -> HandlerState]
  BY Records DEF Typed, HandlerTyped
<1>8. client' = [client EXCEPT ![c] = k]
  <2>1. CASE Waits(c)
    BY <1>2, <2>1
  <2>2. CASE ~Waits(c)
    <3>1. k = client[c]
      BY <1>6, <2>2 DEF ClientState
    <3> QED BY <1>2, <1>6, <2>2, <3>1
  <2> QED BY <2>1, <2>2
<1>9. handler' = [handler EXCEPT ![c] = h]
  <2>1. CASE alive /\ handler[c].stage = "held"
    BY <1>2, <2>1
  <2>2. CASE ~(alive /\ handler[c].stage = "held")
    <3>1. h = handler[c]
      BY <1>7, <2>2 DEF HandlerState
    <3> QED BY <1>2, <1>7, <2>2, <3>1
  <2> QED BY <2>1, <2>2
<1> HIDE DEF older, later
<1>10. /\ k \in ClientState /\ k.stage = client[c].stage /\ k.age = older
       /\ k.lost = client[c].lost /\ k.ran = client[c].ran /\ k.why = client[c].why
  BY <1>4, <1>6 DEF ClientState
<1>11. /\ h \in HandlerState /\ h.stage = handler[c].stage /\ h.verdict = handler[c].verdict
       /\ h.decision = handler[c].decision /\ h.age = later
  BY <1>5, <1>7 DEF HandlerState
<1> HIDE DEF k, h
<1>12. /\ ClientTyped' /\ client'[c] = k /\ \A d \in Client \ {c} : client'[d] = client[d]
  BY <1>8, <1>10, OneClient
<1>13. /\ HandlerTyped' /\ handler'[c] = h /\ \A d \in Client \ {c} : handler'[d] = handler[d]
  BY <1>9, <1>11, OneHandler
<1>14. Judges(c, h) /\ Says(c, arrived[c], h) /\ Ended(c, k, h, alive)
  <2>1. Judges(c, h)
    BY <1>1, <1>11 DEF Agreed, Judges
  <2>2. (Allowed(c, handler[c]) => Allowed(c, h)) /\ (Refused(handler[c]) => Refused(h))
    BY <1>11 DEF Allowed, Refused
  <2>3. Says(c, arrived[c], h)
    BY <1>1, <2>2 DEF Agreed, Says
  <2> QED BY <1>1, <1>10, <1>11, <2>1, <2>2, <2>3 DEF Agreed, Ended
<1>15. Listens(c, k, arrived[c], h, alive)
  <2>1. (alive => client[c].age <= handler[c].age) /\ handler[c].stage \in {"held", "decided"}
          => (alive => k.age <= h.age)
    <3>1. alive => handler[c].stage # "decided"
      BY <1>2 DEF Due
    <3>2. alive /\ handler[c].stage = "held" /\ client[c].age <= handler[c].age
            => older <= later
      <4>1. alive /\ handler[c].stage = "held" => later = handler[c].age + 1
        BY <1>5
      <4> QED BY <1>3, <1>4, <1>5, <4>1
    <3> QED BY <1>10, <1>11, <3>1, <3>2
  <2>2. WaitsSecond(client[c], arrived[c], handler[c], alive) =>
          WaitsSecond(k, arrived[c], h, alive)
    BY <1>10, <1>11, <2>1 DEF WaitsSecond
  <2>3. WaitsFirst(c, arrived[c], handler[c]) => WaitsFirst(c, arrived[c], h)
    BY <1>11 DEF WaitsFirst
  <2> QED BY <1>1, <1>10, <1>11, <2>2, <2>3 DEF Agreed, Listens
<1>16. Agreed(c, client'[c], arrived'[c], handler'[c], alive')
  BY <1>2, <1>12, <1>13, <1>14, <1>15 DEF Agreed
<1>17. Conversation'
  BY <1>2, <1>12, <1>13, <1>16, OthersAgree
<1> QED BY <1>12, <1>13, <1>17

-----------------------------------------------------------------------------
(* The dashboards *)

\* What a page shows next was emitted.
LEMMA EventShown ==
  ASSUME Typed, NEW s \in Console, NEW i \in Nat, page[s].from <= i, i < page[s].next
  PROVE  i \in DOMAIN events /\ events[i] \in Event
<1>1. i \in 1 .. Len(events)
  BY PageRecords DEF InStream
<1> QED BY <1>1 DEF Typed

LEMMA RenderedTyped ==
  ASSUME NEW card \in [Client -> Card], NEW event, event.id \in Client,
         event.kind \in DOMAIN Verdicts => Verdicts[event.kind] \in Card
  PROVE  /\ Rendered(card, event) \in [Client -> Card]
         /\ event.kind \in DOMAIN Verdicts =>
              Rendered(card, event)[event.id] = Verdicts[event.kind]
         /\ \A c \in Client : c # event.id \/ event.kind \notin DOMAIN Verdicts =>
              Rendered(card, event)[c] = card[c]
<1> DEFINE kinds == DOMAIN Verdicts
           shown == Verdicts[event.kind]
<1>1. Rendered(card, event) = IF event.kind \in kinds THEN [card EXCEPT ![event.id] = shown]
                              ELSE card
  BY DEF Rendered
<1>2. event.kind \in kinds => shown \in Card
  OBVIOUS
<1> HIDE DEF kinds, shown
<1>3. /\ Rendered(card, event) \in [Client -> Card]
      /\ event.kind \in kinds => Rendered(card, event)[event.id] = shown
      /\ \A c \in Client : c # event.id \/ event.kind \notin kinds =>
           Rendered(card, event)[c] = card[c]
  BY <1>1, <1>2
<1> QED BY <1>3 DEF kinds, shown

\* A page's stream and its cards: the conversation is none of their business.
LEMMA PageKeepsTypes ==
  ASSUME Typed, NEW s \in Console,
         Subscribe(s) \/ Forward(s) \/ Lagged(s) \/ Show(s) \/ Explain(s)
  PROVE  PageTyped' /\ UNCHANGED <<client, arrived, handler, events, clicks, alive, deaths>>
<1>1. /\ page[s] \in PageState /\ InStream(page[s]) /\ Len(events) \in Nat
      /\ page[s].from \in Nat /\ page[s].next \in Nat /\ page[s].seen \in Nat
      /\ page[s].card \in [Client -> Card] /\ page[s].explaining \in SUBSET Client
      /\ Backlog \in Nat \ {0} /\ events \in Seq(Event)
  BY PageRecords, Constants DEF Typed
<1>2. UNCHANGED <<client, arrived, handler, events, clicks, alive, deaths>>
  BY DEF Subscribe, Forward, Lagged, Show, Explain, clientVars
<1>3. CASE Subscribe(s)
  <2> DEFINE here == Len(events) + 1
             p == [page[s] EXCEPT !.stream = "open", !.from = here, !.next = here, !.seen = here]
  <2>1. here \in Nat
    BY <1>1
  <2>2. page' = [page EXCEPT ![s] = p]
    BY <1>3 DEF Subscribe
  <2> HIDE DEF here
  <2>3. p \in PageState /\ p.from = here /\ p.next = here /\ p.seen = here
    BY <1>1, <2>1 DEF PageState
  <2> HIDE DEF p
  <2>4. InStream(p)
    BY <1>1, <2>1, <2>3 DEF InStream, here
  <2> QED BY <1>2, <2>2, <2>3, <2>4, OnePage
<1>4. CASE Forward(s)
  <2> DEFINE p == [page[s] EXCEPT !.next = page[s].next + 1]
  <2>1. page' = [page EXCEPT ![s] = p] /\ page[s].next <= Len(events) /\ Room(s)
    BY <1>4 DEF Forward
  <2>2. p \in PageState /\ p.next = page[s].next + 1 /\ p.from = page[s].from
        /\ p.seen = page[s].seen
    BY <1>1 DEF PageState
  <2> HIDE DEF p
  <2>3. InStream(p)
    BY <1>1, <2>1, <2>2 DEF InStream, Room
  <2> QED BY <1>2, <2>1, <2>2, <2>3, OnePage
<1>5. CASE Lagged(s)
  <2> DEFINE p == [page[s] EXCEPT !.stream = "ended"]
  <2>1. page' = [page EXCEPT ![s] = p]
    BY <1>5 DEF Lagged
  <2>2. p \in PageState /\ p.next = page[s].next /\ p.from = page[s].from
        /\ p.seen = page[s].seen
    BY <1>1 DEF PageState
  <2> HIDE DEF p
  <2>3. InStream(p)
    BY <1>1, <2>2 DEF InStream
  <2> QED BY <1>2, <2>1, <2>2, <2>3, OnePage
<1>6. CASE Show(s)
  <2> DEFINE event == events[page[s].seen]
             after == page[s].seen + 1
             cards == Rendered(page[s].card, event)
             expl == IF event.kind = "blocked" THEN page[s].explaining \union {event.id}
                     ELSE page[s].explaining
             p == [page[s] EXCEPT !.seen = after, !.card = cards, !.explaining = expl]
  <2>1. page' = [page EXCEPT ![s] = p] /\ page[s].seen < page[s].next
    BY <1>6 DEF Show
  <2>2. event \in Event
    BY <1>1, <1>6, EventShown DEF Show, InStream
  <2>3. cards \in [Client -> Card] /\ expl \in SUBSET Client
    <3> HIDE DEF event
    <3>1. event.id \in Client /\ event.kind \in {"proposed", "allow", "blocked", "hold"}
      BY <2>2 DEF Event
    <3>2. event.kind \in DOMAIN Verdicts => Verdicts[event.kind] \in Card
      BY DEF Verdicts, Card
    <3>3. expl \in SUBSET Client
      BY <1>1, <3>1
    <3>4. cards \in [Client -> Card]
      BY <1>1, <3>1, <3>2, RenderedTyped
    <3> QED BY <3>3, <3>4
  <2>0. page[s] \in PageState /\ after \in Nat
    BY <1>1
  <2> HIDE DEF event, cards, expl, after
  <2>4. p \in PageState /\ p.next = page[s].next /\ p.from = page[s].from
        /\ p.seen = after
    BY <2>0, <2>3 DEF PageState
  <2> HIDE DEF p
  <2>5. InStream(p)
    BY <1>1, <2>1, <2>4 DEF InStream, after
  <2> QED BY <1>2, <2>1, <2>4, <2>5, OnePage
<1>7. CASE Explain(s)
  <2>1. PICK c \in page[s].explaining :
          page' = [page EXCEPT ![s].explaining = @ \ {c}, ![s].card[c] = "block"]
    BY <1>7 DEF Explain
  <2> DEFINE cards == [page[s].card EXCEPT ![c] = "block"]
             p == [page[s] EXCEPT !.explaining = page[s].explaining \ {c}, !.card = cards]
  <2>2. page' = [page EXCEPT ![s] = p]
    BY <2>1
  <2>3. cards \in [Client -> Card]
    BY <1>1 DEF Card
  <2> HIDE DEF cards
  <2>4. p \in PageState /\ p.next = page[s].next /\ p.from = page[s].from
        /\ p.seen = page[s].seen
    BY <1>1, <2>3 DEF PageState
  <2> HIDE DEF p
  <2>5. InStream(p)
    BY <1>1, <2>4 DEF InStream
  <2> QED BY <1>2, <2>2, <2>4, <2>5, OnePage
<1> QED BY <1>2, <1>3, <1>4, <1>5, <1>6, <1>7

\* A button pressed, what became of it, and what the page makes of the answer.
LEMMA ClickEffect ==
  ASSUME Typed, NEW s \in Console, NEW c \in Client, Click(s, c)
  PROVE  /\ ClicksTyped' /\ UNCHANGED <<client, arrived, handler, events, page, alive, deaths>>
         /\ clicks'[s, c].state = "sent" /\ clicks'[s, c].decision \in {"approve", "reject"}
         /\ clicks[s, c].state = "none"
         /\ \A r \in Console, d \in Client : r # s \/ d # c => clicks'[r, d] = clicks[r, d]
<1>1. PICK choice \in {"approve", "reject"} :
        clicks' = [clicks EXCEPT ![<<s, c>>] = [decision |-> choice, state |-> "sent"]]
  BY DEF Click
<1> DEFINE x == [decision |-> choice, state |-> "sent"]
<1>2. x \in ClickState /\ x.state = "sent" /\ x.decision \in {"approve", "reject"}
  BY DEF ClickState
<1>3. clicks' = [clicks EXCEPT ![<<s, c>>] = x]
  BY <1>1
<1>4. /\ UNCHANGED <<client, arrived, handler, events, page, alive, deaths>>
      /\ clicks[s, c].state = "none"
  BY DEF Click, clientVars
<1> HIDE DEF x
<1>5. /\ ClicksTyped' /\ clicks'[s, c] = x
      /\ \A r \in Console, d \in Client : r # s \/ d # c => clicks'[r, d] = clicks[r, d]
  <2> HIDE DEF Typed, ClicksTyped
  <2> QED BY <1>2, <1>3, OneClick
<1> QED BY <1>2, <1>4, <1>5

LEMMA ResolveEffect ==
  ASSUME Typed, NEW s \in Console, NEW c \in Client, Resolve(s, c)
  PROVE  /\ ClicksTyped' /\ UNCHANGED <<client, arrived, events, page, alive, deaths>>
         /\ clicks[s, c].state = "sent"
         /\ \A r \in Console, d \in Client : r # s \/ d # c => clicks'[r, d] = clicks[r, d]
         /\ \/ /\ alive /\ Awaits(c) /\ clicks'[s, c].state = "counted"
               /\ clicks'[s, c].decision = clicks[s, c].decision
               /\ handler' = [handler EXCEPT ![c].decision = clicks[s, c].decision]
            \/ /\ clicks'[s, c].state = "late" /\ UNCHANGED handler
               /\ clicks'[s, c].decision = clicks[s, c].decision
            \/ ~alive /\ clicks'[s, c] = NoClick /\ UNCHANGED handler
<1> DEFINE counted == [clicks[s, c] EXCEPT !.state = "counted"]
           late == [clicks[s, c] EXCEPT !.state = "late"]
<1>1. /\ counted \in ClickState /\ late \in ClickState /\ NoClick \in ClickState
      /\ counted.state = "counted" /\ counted.decision = clicks[s, c].decision
      /\ late.state = "late" /\ late.decision = clicks[s, c].decision
  <2>1. clicks[s, c].state = "sent" /\ clicks[s, c] \in ClickState
    BY ClickRecords DEF Resolve
  <2>2. clicks[s, c].decision # "none"
    BY <2>1 DEF ClickState
  <2> QED BY <2>1, <2>2 DEF ClickState, NoClick
<1>2. /\ UNCHANGED <<client, arrived, events, page, alive, deaths>>
      /\ clicks[s, c].state = "sent"
  BY DEF Resolve, clientVars
<1>3. \/ /\ alive /\ Awaits(c) /\ clicks' = [clicks EXCEPT ![<<s, c>>] = counted]
         /\ handler' = [handler EXCEPT ![c].decision = clicks[s, c].decision]
      \/ clicks' = [clicks EXCEPT ![<<s, c>>] = late] /\ UNCHANGED handler
      \/ ~alive /\ clicks' = [clicks EXCEPT ![<<s, c>>] = NoClick] /\ UNCHANGED handler
  BY DEF Resolve
<1> HIDE DEF counted, late
<1>4. \A x \in ClickState : clicks' = [clicks EXCEPT ![<<s, c>>] = x] =>
        /\ ClicksTyped' /\ clicks'[s, c] = x
        /\ \A r \in Console, d \in Client : r # s \/ d # c => clicks'[r, d] = clicks[r, d]
  BY OneClick
<1>5. CASE /\ alive /\ Awaits(c) /\ clicks' = [clicks EXCEPT ![<<s, c>>] = counted]
           /\ handler' = [handler EXCEPT ![c].decision = clicks[s, c].decision]
  BY <1>1, <1>2, <1>4, <1>5
<1>6. CASE clicks' = [clicks EXCEPT ![<<s, c>>] = late] /\ UNCHANGED handler
  BY <1>1, <1>2, <1>4, <1>6
<1>7. CASE ~alive /\ clicks' = [clicks EXCEPT ![<<s, c>>] = NoClick] /\ UNCHANGED handler
  BY <1>1, <1>2, <1>4, <1>7
<1> QED BY <1>3, <1>5, <1>6, <1>7

LEMMA AnsweredEffect ==
  ASSUME Typed, NEW s \in Console, NEW c \in Client, Answered(s, c)
  PROVE  /\ ClicksTyped' /\ PageTyped'
         /\ UNCHANGED <<client, arrived, handler, events, alive, deaths>>
         /\ clicks'[s, c].decision = clicks[s, c].decision
         /\ \/ clicks[s, c].state = "counted" /\ clicks'[s, c].state = "shown"
            \/ clicks[s, c].state = "late" /\ clicks'[s, c].state = "shownLate"
         /\ \A r \in Console, d \in Client : r # s \/ d # c => clicks'[r, d] = clicks[r, d]
         /\ \A r \in Console \ {s} : page'[r] = page[r]
         /\ page'[s].card = [page[s].card EXCEPT ![c] =
              IF clicks[s, c].decision = "approve" THEN "allow" ELSE "block"]
         /\ page'[s].stream = page[s].stream /\ page'[s].from = page[s].from
         /\ page'[s].seen = page[s].seen /\ page'[s].next = page[s].next
         /\ page'[s].explaining = page[s].explaining
<1> DEFINE shown == IF clicks[s, c].state = "late" THEN "shownLate" ELSE "shown"
           x == [clicks[s, c] EXCEPT !.state = shown]
           answer == IF clicks[s, c].decision = "approve" THEN "allow" ELSE "block"
           cards == [page[s].card EXCEPT ![c] = answer]
           p == [page[s] EXCEPT !.card = cards]
<1>1. /\ shown \in {"shown", "shownLate"} /\ answer \in Card
      /\ \/ clicks[s, c].state = "counted" /\ shown = "shown"
         \/ clicks[s, c].state = "late" /\ shown = "shownLate"
  BY DEF Card, Answered
<1>2. /\ clicks' = [clicks EXCEPT ![<<s, c>>] = x] /\ page' = [page EXCEPT ![s] = p]
      /\ UNCHANGED <<client, arrived, handler, events, alive, deaths>>
  BY DEF Answered, clientVars
<1> HIDE DEF shown
<1>3. x \in ClickState /\ x.state = shown /\ x.decision = clicks[s, c].decision
  BY <1>1, ClickRecords DEF ClickState
<1> HIDE DEF x
<1>4. /\ page[s] \in PageState /\ InStream(page[s]) /\ page[s].card \in [Client -> Card]
  BY PageRecords
<1> HIDE DEF answer
<1>5. cards \in [Client -> Card]
  BY <1>1, <1>4
<1> HIDE DEF cards
<1>6. /\ p \in PageState /\ p.card = cards /\ p.stream = page[s].stream
      /\ p.from = page[s].from /\ p.seen = page[s].seen /\ p.next = page[s].next
      /\ p.explaining = page[s].explaining
  BY <1>4, <1>5 DEF PageState
<1> HIDE DEF p
<1>7. InStream(p)
  BY <1>4, <1>6 DEF InStream
<1>8. ClicksTyped' /\ clicks'[s, c] = x
      /\ \A r \in Console, d \in Client : r # s \/ d # c => clicks'[r, d] = clicks[r, d]
  BY <1>2, <1>3, OneClick
<1>9. PageTyped' /\ page'[s] = p /\ \A r \in Console \ {s} : page'[r] = page[r]
  BY <1>2, <1>6, <1>7, OnePage
<1> QED BY <1>1, <1>2, <1>3, <1>6, <1>8, <1>9 DEF cards, answer

LEMMA DaemonDiesEffect ==
  ASSUME Typed, DaemonDies
  PROVE  /\ PageTyped' /\ LifeTyped'
         /\ UNCHANGED <<client, arrived, handler, events, clicks>> /\ ~alive'
         /\ \A s \in Console :
              /\ page'[s].card = page[s].card /\ page'[s].explaining = page[s].explaining
              /\ page'[s].from = page[s].from /\ page'[s].seen = page[s].seen
              /\ page'[s].next = page[s].next
              /\ page'[s].stream = "off" <=> page[s].stream = "off"
<1>1. /\ UNCHANGED <<client, arrived, handler, events, clicks>>
      /\ ~alive' /\ alive' \in BOOLEAN /\ deaths < MaxDeaths /\ deaths' = deaths + 1
      /\ page' = [s \in Console |->
           IF page[s].stream = "open" THEN [page[s] EXCEPT !.stream = "ended"] ELSE page[s]]
  BY DEF DaemonDies, clientVars
<1>2. LifeTyped'
  BY <1>1, Constants DEF Typed, LifeTyped
<1>3. ASSUME NEW s \in Console
      PROVE  /\ page'[s] \in PageState
             /\ page'[s].card = page[s].card /\ page'[s].explaining = page[s].explaining
             /\ page'[s].from = page[s].from /\ page'[s].seen = page[s].seen
             /\ page'[s].next = page[s].next
             /\ page'[s].stream = "off" <=> page[s].stream = "off"
  <2> DEFINE p == [page[s] EXCEPT !.stream = "ended"]
  <2>1. page[s] \in PageState
    BY PageRecords
  <2>2. p \in PageState /\ p.card = page[s].card /\ p.explaining = page[s].explaining
        /\ p.from = page[s].from /\ p.seen = page[s].seen /\ p.next = page[s].next
        /\ p.stream = "ended"
    BY <2>1 DEF PageState
  <2>3. page'[s] = IF page[s].stream = "open" THEN p ELSE page[s]
    BY <1>1
  <2> HIDE DEF p
  <2> QED BY <2>1, <2>2, <2>3
<1>4. \A s \in Console : InStream(page'[s])
  BY <1>3, PageRecords DEF InStream
<1>5. PageTyped'
  BY <1>1, <1>3, <1>4 DEF PageTyped, InStream
<1> QED BY <1>1, <1>2, <1>3, <1>5

LEMMA ResolveKeeps ==
  ASSUME Typed, Conversation, LifeTyped', NEW s \in Console, NEW c \in Client, Resolve(s, c)
  PROVE  HandlerTyped' /\ Conversation'
<1>1. /\ UNCHANGED <<client, arrived, alive>> /\ clicks[s, c].state = "sent"
      /\ \/ /\ Awaits(c)
            /\ handler' = [handler EXCEPT ![c].decision = clicks[s, c].decision]
         \/ UNCHANGED handler
  BY ResolveEffect
<1>2. clicks[s, c].decision \in {"approve", "reject"}
  BY <1>1, ClickRecords DEF ClickState
<1>3. CASE UNCHANGED handler
  BY <1>1, <1>3, NoneSpeaks, TypedFrames
<1>4. CASE /\ Awaits(c)
           /\ handler' = [handler EXCEPT ![c].decision = clicks[s, c].decision]
  <2> DEFINE d == clicks[s, c].decision
  <2>1. handler[c].stage = "held" /\ handler[c].decision = "none" /\ d \in {"approve", "reject"}
    BY <1>2, <1>4 DEF Awaits
  <2>2. handler' = [handler EXCEPT ![c].decision = d]
    BY <1>4
  <2> HIDE DEF d
  <2> QED BY <1>1, <2>1, <2>2, ResolveAgrees
<1> QED BY <1>1, <1>3, <1>4

\* Life and death.
LEMMA LifeStep ==
  ASSUME Typed, [Next]_vars
  PROVE  LifeTyped' /\ (alive' => alive)
<1>1. CASE UNCHANGED <<alive, deaths>>
  BY <1>1, TypedFrames
<1>2. CASE \E c \in Client : Killed(c) \/ HookFails(c)
  BY <1>2, Constants DEF Killed, HookFails, Typed, LifeTyped
<1>3. CASE DaemonDies
  BY <1>3, DaemonDiesEffect
<1>4. ASSUME NEW c \in Client, Submit(c) \/ ClientStep(c)
      PROVE  UNCHANGED <<alive, deaths>>
  BY <1>4 DEF Submit, ClientStep, ReadFirst, ReadSecond, TimeOut, EndOfStream, Execute, Acknowledged
<1>5. ASSUME NEW c \in Client, HandlerStep(c) \/ Evaluate(c) \/ Tick(c)
      PROVE  UNCHANGED <<alive, deaths>>
  BY <1>5 DEF HandlerStep, Propose, Respond, Decide, Conclude, Report, Evaluate, Tick
<1>6. ASSUME NEW s \in Console, Subscribe(s) \/ PageStep(s) \/ \E c \in Client : Click(s, c)
      PROVE  UNCHANGED <<alive, deaths>>
  BY <1>6 DEF Subscribe, PageStep, Forward, Lagged, Show, Explain, Resolve, Answered, Click
<1>7. CASE Next
  BY <1>1, <1>2, <1>3, <1>4, <1>5, <1>6, <1>7 DEF Next
<1>8. CASE UNCHANGED vars
  BY <1>1, <1>8 DEF vars
<1> QED BY <1>7, <1>8

\* Types and what a command's two ends agree on, along one step.
LEMMA ConversationStep ==
  ASSUME Typed, Conversation, [Next]_vars
  PROVE  Typed' /\ Conversation'
<1>1. LifeTyped' /\ (alive' => alive)
  BY LifeStep
<1>2. /\ UNCHANGED client => ClientTyped'
      /\ UNCHANGED arrived => ArrivedTyped'
      /\ UNCHANGED handler => HandlerTyped'
      /\ UNCHANGED clicks => ClicksTyped'
      /\ UNCHANGED <<page, events>> => PageTyped'
      /\ UNCHANGED events => events' \in Seq(Event)
  BY TypedFrames DEF Typed
<1>3. UNCHANGED <<client, arrived, handler>> => Conversation'
  BY <1>1, NoneSpeaks
<1>4. ASSUME NEW c \in Client, Submit(c) \/ ClientStep(c) \/ Killed(c) \/ HookFails(c)
      PROVE  Typed' /\ Conversation'
  <2>1. UNCHANGED <<events, page, clicks>>
    BY <1>4 DEF Submit, ClientStep, ReadFirst, ReadSecond, TimeOut, EndOfStream, Execute,
                Acknowledged, Killed, HookFails, pageVars
  <2>2. CASE Submit(c)
    <3>1. UNCHANGED arrived
      BY <2>2 DEF Submit
    <3> QED BY <1>1, <1>2, <2>1, <2>2, <3>1, SubmitAgrees DEF Typed
  <2>3. CASE ReadFirst(c) \/ ReadSecond(c)
    <3>1. UNCHANGED handler
      BY <2>3 DEF ReadFirst, ReadSecond
    <3> QED BY <1>1, <1>2, <2>1, <2>3, <3>1, ReadAgrees DEF Typed
  <2>4. CASE TimeOut(c) \/ EndOfStream(c)
    <3>1. UNCHANGED <<arrived, handler>>
      BY <2>4 DEF TimeOut, EndOfStream
    <3> QED BY <1>1, <1>2, <2>1, <2>4, <3>1, GivingUpAgrees DEF Typed
  <2>5. CASE Execute(c) \/ Acknowledged(c)
    <3>1. UNCHANGED arrived
      BY <2>5 DEF Execute, Acknowledged
    <3> QED BY <1>1, <1>2, <2>1, <2>5, <3>1, ExecuteAgrees DEF Typed
  <2>6. CASE Killed(c)
    <3>1. UNCHANGED <<arrived, handler>>
      BY <2>6 DEF Killed
    <3> QED BY <1>1, <1>2, <2>1, <2>6, <3>1, KilledAgrees DEF Typed
  <2>7. CASE HookFails(c)
    <3>1. UNCHANGED <<arrived, handler>>
      BY <2>7 DEF HookFails
    <3> QED BY <1>1, <1>2, <2>1, <2>7, <3>1, FailedAgrees DEF Typed
  <2> QED BY <1>4, <2>2, <2>3, <2>4, <2>5, <2>6, <2>7 DEF ClientStep
<1>5. ASSUME NEW c \in Client, HandlerStep(c) \/ Evaluate(c) \/ Tick(c)
      PROVE  Typed' /\ Conversation'
  <2>1. CASE Propose(c) \/ Evaluate(c)
    <3>1. UNCHANGED <<client, arrived, page, clicks>>
      BY <2>1 DEF Propose, Evaluate, clientVars, pageVars
    <3>2. UNCHANGED events \/ Emits(c, "proposed")
      BY <2>1 DEF Propose, Evaluate
    <3>3. events' \in Seq(Event) /\ PageTyped'
      <4>1. [id |-> c, kind |-> "proposed"] \in Event
        BY DEF Event
      <4>2. UNCHANGED events \/ events' = Append(events, [id |-> c, kind |-> "proposed"])
        BY <3>2 DEF Emits
      <4>3. CASE UNCHANGED events
        BY <1>2, <3>1, <4>3
      <4> QED BY <3>1, <4>1, <4>2, <4>3, TypedFrames
    <3> QED BY <1>1, <1>2, <2>1, <3>1, <3>3, ProposeEvaluateAgree DEF Typed
  <2>2. CASE Respond(c) \/ Conclude(c)
    <3>1. UNCHANGED <<client, clicks>>
      BY <2>2, Spoken
    <3> QED BY <1>1, <1>2, <2>2, <3>1, RespondConcludeAgree DEF Typed
  <2>3. CASE Decide(c)
    <3>1. UNCHANGED <<client, arrived, events, page, clicks>>
      BY <2>3 DEF Decide, clientVars, pageVars
    <3> QED BY <1>1, <1>2, <2>3, <3>1, DecideAgrees DEF Typed
  <2>4. CASE Report(c)
    <3>1. UNCHANGED <<client, events, page, clicks>>
      BY <2>4 DEF Report, pageVars
    <3> QED BY <1>1, <1>2, <2>4, <3>1, ReportAgrees DEF Typed
  <2>5. CASE Tick(c)
    <3>1. UNCHANGED <<arrived, events, page, clicks>>
      BY <2>5 DEF Tick, pageVars
    <3> QED BY <1>1, <1>2, <2>5, <3>1, TickAgrees DEF Typed
  <2> QED BY <1>5, <2>1, <2>2, <2>3, <2>4, <2>5 DEF HandlerStep
<1>6. ASSUME NEW s \in Console, Subscribe(s) \/ Forward(s) \/ Lagged(s) \/ Show(s) \/ Explain(s)
      PROVE  Typed' /\ Conversation'
  <2>1. PageTyped' /\ UNCHANGED <<client, arrived, handler, events, clicks>>
    BY <1>6, PageKeepsTypes
  <2> QED BY <1>1, <1>2, <1>3, <2>1 DEF Typed
<1>7. ASSUME NEW s \in Console, NEW c \in Client, Click(s, c) \/ Resolve(s, c) \/ Answered(s, c)
      PROVE  Typed' /\ Conversation'
  <2>1. CASE Click(s, c)
    <3>1. ClicksTyped' /\ UNCHANGED <<client, arrived, handler, events, page>>
      BY <2>1, ClickEffect
    <3> QED BY <1>1, <1>2, <1>3, <3>1 DEF Typed
  <2>2. CASE Resolve(s, c)
    <3>1. ClicksTyped' /\ UNCHANGED <<client, arrived, events, page>>
      BY <2>2, ResolveEffect
    <3>2. HandlerTyped' /\ Conversation'
      BY <1>1, <2>2, ResolveKeeps
    <3> QED BY <1>1, <1>2, <3>1, <3>2 DEF Typed
  <2>3. CASE Answered(s, c)
    <3>1. ClicksTyped' /\ PageTyped' /\ UNCHANGED <<client, arrived, handler, events>>
      BY <2>3, AnsweredEffect
    <3> QED BY <1>1, <1>2, <1>3, <3>1 DEF Typed
  <2> QED BY <1>7, <2>1, <2>2, <2>3
<1>8. CASE DaemonDies
  <2>1. PageTyped' /\ UNCHANGED <<client, arrived, handler, events, clicks>>
    BY <1>8, DaemonDiesEffect
  <2> QED BY <1>1, <1>2, <1>3, <2>1 DEF Typed
<1>9. CASE UNCHANGED vars
  <2>1. UNCHANGED <<client, arrived, handler, events, page, clicks>>
    BY <1>9 DEF vars
  <2> QED BY <1>1, <1>2, <1>3, <2>1 DEF Typed
<1> QED BY <1>4, <1>5, <1>6, <1>7, <1>8, <1>9 DEF Next, PageStep

LEMMA ConversationInit ==
  ASSUME Init
  PROVE  Typed /\ Conversation
<1>1. ClientTyped /\ ArrivedTyped /\ HandlerTyped /\ events \in Seq(Event) /\ LifeTyped
  BY Constants DEF Init, ClientTyped, ArrivedTyped, HandlerTyped, LifeTyped, ClientState,
                   HandlerState, Line
<1>2. PageTyped
  <2>1. [c \in Client |-> "none"] \in [Client -> Card]
    BY DEF Card
  <2> DEFINE cards == [c \in Client |-> "none"]
             p == [stream |-> "off", from |-> 1, next |-> 1, seen |-> 1,
                   card |-> cards, explaining |-> {}]
  <2>2. page = [s \in Console |-> p] /\ Len(events) = 0
    BY DEF Init
  <2> HIDE DEF cards
  <2>3. p \in PageState /\ p.from = 1 /\ p.next = 1 /\ p.seen = 1
    BY <2>1 DEF PageState, cards
  <2> HIDE DEF p
  <2>4. InStream(p)
    BY <2>2, <2>3, Constants DEF InStream
  <2> QED BY <2>2, <2>3, <2>4 DEF PageTyped
<1>3. ClicksTyped
  BY DEF Init, ClicksTyped, ClickState, NoClick
<1>4. Conversation
  <2>1. ASSUME NEW c \in Client
        PROVE  /\ client[c].stage = "off" /\ ~client[c].ran /\ ~client[c].lost
               /\ client[c].why = "none" /\ arrived[c] = <<>>
               /\ handler[c].stage = "reading" /\ handler[c].verdict = "none"
               /\ handler[c].decision = "none"
    BY DEF Init
  <2> QED BY <2>1 DEF Conversation, Agreed, Judges, Says, Listens, Ended
<1> QED BY <1>1, <1>2, <1>3, <1>4 DEF Typed

LEMMA ConversationHolds == Spec => [](Typed /\ Conversation)
<1>1. Init => Typed /\ Conversation
  BY ConversationInit
<1>2. (Typed /\ Conversation) /\ [Next]_vars => (Typed /\ Conversation)'
  BY ConversationStep
<1> QED BY <1>1, <1>2, PTL DEF Spec

\* Each record of the adapters, the handlers, the event stream and the dashboards has
\* its type; a dashboard shows no more than it was sent, is sent no more than was
\* emitted, and never has more than the backlog in flight.
THEOREM TypeCorrect == Spec => []TypeOK
<1>1. Typed => TypeOK
  BY DEF Typed, TypeOK, ClientTyped, ArrivedTyped, HandlerTyped, PageTyped, InStream,
         ClicksTyped, ClickState, LifeTyped, Line
<1> QED BY <1>1, ConversationHolds, PTL

\* No command runs that was not judged fit or approved in time by a human, but the tool
\* call of a hook that was killed before it answered: a line that says "allow" is only
\* ever written for such a command, and what allowed it stands.
THEOREM OnlyPermittedRun == Spec => []RunsOnlyIfPermitted
<1>1. Typed /\ Conversation => RunsOnlyIfPermitted
  BY DEF Conversation, Agreed, Ended, Allowed, RunsOnlyIfPermitted, Permitted, FailedHook
<1> QED BY <1>1, ConversationHolds, PTL

\* A shim that gives up waiting for the human has dropped the answer itself, or its
\* daemon is dead: its clock is never ahead of the hold's.
THEOREM ShimOutlastsHold == Spec => []WaitOutlastsHold
<1>1. Typed /\ Conversation => WaitOutlastsHold
  BY DEF Conversation, Agreed, Ended, WaitOutlastsHold, Client
<1> QED BY <1>1, ConversationHolds, PTL

-----------------------------------------------------------------------------
(* How a command moves on *)

\* The handler is done with the command's verdict.
Final == {"reading", "reported", "closed"}

\* A verdict is given once and a decision made once.
Stands(h, g) ==
  /\ h.verdict # "none" => g.verdict = h.verdict
  /\ h.decision # "none" => g.decision = h.decision

LEMMA ClientMoves ==
  ASSUME Typed, NEW c \in Client, Submit(c) \/ ClientStep(c) \/ Killed(c) \/ HookFails(c)
  PROVE  client'[c].stage # "off" /\ \A d \in Client \ {c} : client'[d] = client[d]
<1>1. ASSUME NEW why \in Whys, Ends(c, why)
      PROVE  client'[c].stage # "off" /\ \A d \in Client \ {c} : client'[d] = client[d]
  BY <1>1, EndsEffect
<1>2. ASSUME Runs(c)
      PROVE  client'[c].stage # "off" /\ \A d \in Client \ {c} : client'[d] = client[d]
  BY <1>2, RunsEffect
<1>3. client \in [Client -> ClientState]
  BY DEF Typed, ClientTyped
<1>4. CASE Submit(c)
  BY <1>1, <1>3, <1>4 DEF Submit, Whys, ClientState
<1>5. CASE ReadFirst(c) \/ ReadSecond(c)
  BY <1>1, <1>2, <1>3, <1>5 DEF ReadFirst, ReadSecond, Whys, ClientState
<1>6. CASE TimeOut(c) \/ EndOfStream(c) \/ Killed(c)
  <2>1. \E why \in Whys : Ends(c, why)
    BY <1>6 DEF TimeOut, EndOfStream, Killed, GivesUp, Whys
  <2> QED BY <1>1, <2>1
<1>7. CASE Execute(c) \/ Acknowledged(c)
  BY <1>3, <1>7 DEF Execute, Acknowledged, ClientState
<1>8. CASE HookFails(c)
  BY <1>8, FailsEffect
<1> QED BY <1>4, <1>5, <1>6, <1>7, <1>8 DEF ClientStep

LEMMA HandlerMoves ==
  ASSUME Typed, Conversation, NEW c \in Client, HandlerStep(c) \/ Evaluate(c) \/ Tick(c)
  PROVE  /\ Stands(handler[c], handler'[c])
         /\ handler[c].stage \in Final => handler'[c].stage \in Final
         /\ \A d \in Client \ {c} : handler'[d] = handler[d]
<1>1. Agreed(c, client[c], arrived[c], handler[c], alive)
  BY DEF Conversation
<1>2. handler \in [Client -> HandlerState]
  BY DEF Typed, HandlerTyped
<1>3. CASE Propose(c)
  BY <1>3, StageEffect DEF Propose, Stands, Final
<1>4. CASE Evaluate(c)
  <2>1. handler[c].verdict = "none" /\ handler[c].stage = "judging"
    BY <1>1, <1>4 DEF Agreed, Judges, Evaluate
  <2> QED BY <1>2, <1>4, <2>1 DEF Evaluate, Stands, HandlerState, Final
<1>5. CASE Respond(c) \/ Conclude(c)
  <2>1. PICK line \in {"hold", "allow", "block"}, stage \in {"reading", "held"} :
          Writes(c, line, [handler[c] EXCEPT !.stage = stage])
    BY <1>5, Spoken
  <2>2. handler[c].stage \notin Final
    BY <1>5, Spoken DEF Final
  <2> QED BY <2>1, <2>2, WritesEffect DEF Stands, Line
<1>6. CASE Decide(c)
  BY <1>2, <1>6 DEF Decide, Stands, HandlerState, Final
<1>7. CASE Report(c)
  <2>1. Writes(c, "ack", [handler[c] EXCEPT !.stage = "reading"])
    BY <1>7 DEF Report
  <2> QED BY <2>1, WritesEffect DEF Stands, Line, Final
<1>8. CASE Tick(c)
  BY <1>2, <1>8 DEF Tick, Stands, HandlerState, Final
<1> QED BY <1>3, <1>4, <1>5, <1>6, <1>7, <1>8 DEF HandlerStep

\* Once submitted a command stays so, its findings stand, and a handler that is done
\* with its verdict does not take it up again.
Moves(c) ==
  /\ client[c].stage # "off" => client'[c].stage # "off"
  /\ Stands(handler[c], handler'[c])
  /\ client[c].stage # "off" /\ handler[c].stage \in Final => handler'[c].stage \in Final

LEMMA CommandsMove ==
  ASSUME Typed, Conversation, [Next]_vars
  PROVE  \A c \in Client : Moves(c)
<1>1. \A c \in Client : client'[c] = client[c] /\ handler'[c] = handler[c] => Moves(c)
  BY DEF Moves, Stands
<1>2. ASSUME NEW c \in Client, Submit(c) \/ ClientStep(c) \/ Killed(c) \/ HookFails(c)
      PROVE  \A d \in Client : Moves(d)
  <2>1. client'[c].stage # "off" /\ \A d \in Client \ {c} : client'[d] = client[d]
    BY <1>2, ClientMoves
  <2>2. CASE UNCHANGED handler
    BY <1>1, <2>1, <2>2 DEF Moves, Stands
  <2>3. CASE /\ client[c].stage = "off"
             /\ handler' = [handler EXCEPT ![c].stage = "proposed"]
    BY <1>1, <2>1, <2>3, StageEffect DEF Moves, Stands
  <2>4. CASE handler' = [handler EXCEPT ![c].stage = "reported"]
    BY <1>1, <2>1, <2>4, StageEffect DEF Moves, Stands, Final
  <2> QED BY <1>2, <2>2, <2>3, <2>4 DEF Submit, ClientStep, ReadFirst, ReadSecond, TimeOut,
                                       EndOfStream, Execute, Acknowledged, Killed, HookFails
<1>3. ASSUME NEW c \in Client, HandlerStep(c) \/ Evaluate(c) \/ Tick(c)
      PROVE  \A d \in Client : Moves(d)
  <2>1. /\ Stands(handler[c], handler'[c])
        /\ handler[c].stage \in Final => handler'[c].stage \in Final
        /\ \A d \in Client \ {c} : handler'[d] = handler[d]
    BY <1>3, HandlerMoves
  <2>2. \A d \in Client : client'[d].stage = client[d].stage
    <3>1. CASE UNCHANGED client
      BY <3>1
    <3>2. CASE Tick(c)
      BY <3>2 DEF Tick, Typed, ClientTyped, ClientState
    <3>3. CASE Respond(c) \/ Conclude(c)
      BY <3>3, Spoken
    <3> QED BY <1>3, <3>1, <3>2, <3>3 DEF HandlerStep, Propose, Decide, Report, Evaluate, clientVars
  <2> QED BY <2>1, <2>2 DEF Moves, Stands
<1>4. ASSUME NEW s \in Console, NEW c \in Client, Resolve(s, c)
      PROVE  \A d \in Client : Moves(d)
  <2>1. /\ UNCHANGED client
        /\ \/ Awaits(c) /\ handler' = [handler EXCEPT ![c].decision = clicks[s, c].decision]
           \/ UNCHANGED handler
    BY <1>4, ResolveEffect
  <2>2. handler \in [Client -> HandlerState]
    BY DEF Typed, HandlerTyped
  <2>3. CASE Awaits(c) /\ handler' = [handler EXCEPT ![c].decision = clicks[s, c].decision]
    <3> DEFINE x == clicks[s, c].decision
    <3>1. handler' = [handler EXCEPT ![c].decision = x]
      BY <2>3
    <3> HIDE DEF x
    <3>2. handler[c].decision = "none" /\ handler[c].stage \notin Final
      BY <2>3 DEF Awaits, Final
    <3>3. handler'[c].verdict = handler[c].verdict /\ \A d \in Client \ {c} : handler'[d] = handler[d]
      BY <2>2, <3>1 DEF HandlerState
    <3> QED BY <1>1, <2>1, <3>2, <3>3 DEF Moves, Stands
  <2> QED BY <1>1, <2>1, <2>3
<1>5. ASSUME NEW s \in Console,
             \/ Subscribe(s) \/ Forward(s) \/ Lagged(s) \/ Show(s) \/ Explain(s)
             \/ \E c \in Client : Click(s, c) \/ Answered(s, c)
      PROVE  \A d \in Client : Moves(d)
  BY <1>1, <1>5 DEF Subscribe, Forward, Lagged, Show, Explain, Click, Answered, clientVars
<1>6. CASE DaemonDies
  BY <1>1, <1>6 DEF DaemonDies, clientVars
<1>7. CASE UNCHANGED vars
  BY <1>1, <1>7 DEF vars
<1> QED BY <1>2, <1>3, <1>4, <1>5, <1>6, <1>7 DEF Next, PageStep

-----------------------------------------------------------------------------
(* What the human decided *)

\* A click that counted is the decision the handler keeps.
Counted ==
  \A s \in Console, c \in Client :
    clicks[s, c].state \in {"counted", "shown"} => handler[c].decision = clicks[s, c].decision

LEMMA ClicksMove ==
  ASSUME Typed, [Next]_vars
  PROVE  \/ UNCHANGED clicks
         \/ \E s \in Console, c \in Client :
              /\ Click(s, c) \/ Resolve(s, c) \/ Answered(s, c)
              /\ \A r \in Console, d \in Client : r # s \/ d # c => clicks'[r, d] = clicks[r, d]
<1>1. ASSUME NEW s \in Console, NEW c \in Client, Click(s, c) \/ Resolve(s, c) \/ Answered(s, c)
      PROVE  \A r \in Console, d \in Client : r # s \/ d # c => clicks'[r, d] = clicks[r, d]
  <2>1. CASE Click(s, c)
    BY <2>1, ClickEffect
  <2>2. CASE Resolve(s, c)
    BY <2>2, ResolveEffect
  <2>3. CASE Answered(s, c)
    BY <2>3, AnsweredEffect
  <2> QED BY <1>1, <2>1, <2>2, <2>3
<1>2. CASE UNCHANGED vars
  BY <1>2 DEF vars
<1>3. CASE \E c \in Client : Submit(c) \/ ClientStep(c) \/ Killed(c) \/ HookFails(c) \/ HandlerStep(c) \/
                             Evaluate(c) \/ Tick(c)
  BY <1>3 DEF pageVars, Submit, ClientStep, ReadFirst, ReadSecond, TimeOut, EndOfStream, Execute,
        Acknowledged, Killed, HookFails, HandlerStep, Propose, Respond, Decide, Conclude, Report, Evaluate, Tick
<1>4. CASE DaemonDies \/ \E s \in Console : Subscribe(s) \/ Forward(s) \/ Lagged(s) \/ Show(s) \/ Explain(s)
  BY <1>4 DEF DaemonDies, Subscribe, Forward, Lagged, Show, Explain
<1> QED BY <1>1, <1>2, <1>3, <1>4 DEF Next, PageStep

LEMMA CountedStep ==
  ASSUME Typed, Conversation, Counted, [Next]_vars
  PROVE  Counted'
<1>1. \A c \in Client : handler[c].decision # "none" => handler'[c].decision = handler[c].decision
  BY CommandsMove DEF Moves, Stands
<1>2. ASSUME NEW r \in Console, NEW d \in Client,
             clicks[r, d].state \in {"counted", "shown"},
             clicks'[r, d].decision = clicks[r, d].decision
      PROVE  handler'[d].decision = clicks'[r, d].decision
  <2>1. clicks[r, d].decision # "none"
    BY <1>2, ClickRecords DEF ClickState
  <2> QED BY <1>1, <1>2, <2>1 DEF Counted
<1>3. CASE UNCHANGED clicks
  BY <1>2, <1>3 DEF Counted
<1>4. ASSUME NEW s \in Console, NEW c \in Client, Click(s, c) \/ Resolve(s, c) \/ Answered(s, c),
             \A r \in Console, d \in Client : r # s \/ d # c => clicks'[r, d] = clicks[r, d]
      PROVE  Counted'
  <2>1. ASSUME clicks'[s, c].state \in {"counted", "shown"}
        PROVE  handler'[c].decision = clicks'[s, c].decision
    <3>1. CASE Click(s, c)
      BY <2>1, <3>1, ClickEffect
    <3>2. CASE Resolve(s, c)
      <4> DEFINE x == clicks[s, c].decision
      <4>1. clicks'[s, c].decision = x /\ handler' = [handler EXCEPT ![c].decision = x]
        <5>1. clicks'[s, c] # NoClick /\ clicks'[s, c].state # "late"
          <6>1. NoClick.state = "none"
            BY DEF NoClick
          <6> QED BY <2>1, <6>1
        <5>2. \/ /\ clicks'[s, c].decision = clicks[s, c].decision
                 /\ handler' = [handler EXCEPT ![c].decision = clicks[s, c].decision]
              \/ clicks'[s, c].state = "late"
              \/ clicks'[s, c] = NoClick
          BY <3>2, ResolveEffect
        <5> QED BY <5>1, <5>2
      <4> HIDE DEF x
      <4> QED BY <4>1 DEF Typed, HandlerTyped, HandlerState
    <3>3. CASE Answered(s, c)
      <4>1. clicks[s, c].state = "counted" /\ clicks'[s, c].decision = clicks[s, c].decision
        BY <2>1, <3>3, AnsweredEffect
      <4> QED BY <1>2, <4>1
    <3> QED BY <1>4, <3>1, <3>2, <3>3
  <2>2. ASSUME NEW r \in Console, NEW d \in Client,
               clicks'[r, d].state \in {"counted", "shown"}
        PROVE  handler'[d].decision = clicks'[r, d].decision
    <3>1. CASE r = s /\ d = c
      BY <2>1, <2>2, <3>1
    <3>2. CASE r # s \/ d # c
      <4>1. clicks'[r, d] = clicks[r, d]
        BY <1>4, <3>2
      <4> QED BY <1>2, <2>2, <4>1
    <3> QED BY <3>1, <3>2
  <2> QED BY <2>2 DEF Counted
<1> QED BY <1>3, <1>4, ClicksMove

LEMMA CountedHolds == Spec => [](Typed /\ Conversation /\ Counted)
<1>1. Init => Counted
  <2>1. ASSUME Init, NEW s \in Console, NEW c \in Client PROVE clicks[s, c].state = "none"
    BY <2>1 DEF Init, NoClick
  <2> QED BY <2>1 DEF Counted
<1>2. Typed /\ Conversation /\ Counted /\ [Next]_vars => Counted'
  BY CountedStep
<1> QED BY <1>1, <1>2, ConversationHolds, PTL DEF Spec

\* A decision the daemon counted is carried out: the handler keeps it, so a rejected
\* command is refused for good, and an approved one has no reason to end but to have
\* run, a kill, a dead daemon or a dropped answer.
THEOREM CountedIsCarriedOut == Spec => []DecisionCarriedOut
<1>1. ASSUME Typed, Conversation, Counted PROVE DecisionCarriedOut
  <2>1. ASSUME NEW s \in Console, NEW c \in Client, clicks[s, c].state \in {"counted", "shown"}
        PROVE  /\ clicks[s, c].decision = "reject" => ~client[c].ran
               /\ clicks[s, c].decision = "approve" /\ client[c].stage = "over" =>
                    client[c].ran \/ client[c].why = "killed" \/ client[c].lost \/ ~alive
    <3>1. handler[c].decision = clicks[s, c].decision
      BY <1>1, <2>1 DEF Counted
    <3>2. Agreed(c, client[c], arrived[c], handler[c], alive)
      BY <1>1 DEF Conversation
    <3>3. clicks[s, c].decision = "reject" => ~client[c].ran
      <4>1. handler[c].decision = "reject" => handler[c].verdict = "unsure" /\ c \notin Hook
        BY <3>2, Constants DEF Agreed, Judges
      <4> QED BY <3>1, <3>2, <4>1 DEF Agreed, Ended, Allowed
    <3>4. ASSUME handler[c].decision = "approve", client[c].stage = "over"
          PROVE  client[c].ran \/ client[c].why = "killed" \/ client[c].lost \/ ~alive
      <4>1. handler[c].verdict = "unsure" /\ c \in Shim /\ ~Refused(handler[c])
        BY <3>2, <3>4 DEF Agreed, Judges, Refused
      <4>2. c \notin Hook
        BY <4>1, Constants
      <4>3. client[c].why \in Whys
        BY <1>1, Records DEF ClientState, Whys
      <4> QED BY <3>2, <3>4, <4>1, <4>2, <4>3 DEF Agreed, Ended, Whys
    <3> QED BY <3>1, <3>3, <3>4
  <2> QED BY <2>1 DEF DecisionCarriedOut
<1> QED BY <1>1, CountedHolds, PTL

-----------------------------------------------------------------------------
(* What was emitted *)

\* A command that is told of was submitted; one told to be allowed is; a verdict that
\* ends the matter leaves the handler with nothing more to say.
Settled(e) ==
  /\ client[e.id].stage # "off"
  /\ e.kind = "allow" => Allowed(e.id, handler[e.id])
  /\ e.kind \in {"allow", "blocked"} => handler[e.id].stage \in Final

Emitted ==
  \A i \in DOMAIN events :
    /\ Settled(events[i])
    /\ events[i].kind \in {"allow", "blocked"} =>
         \A j \in DOMAIN events : j > i => events[j].id # events[i].id

LEMMA SettledStays ==
  ASSUME Typed, Conversation, [Next]_vars, NEW e \in Event, Settled(e)
  PROVE  Settled(e)'
<1>1. Moves(e.id) /\ e.id \in Client
  BY CommandsMove DEF Event
<1>2. Allowed(e.id, handler[e.id]) => Allowed(e.id, handler'[e.id])
  BY <1>1 DEF Moves, Stands, Allowed
<1> QED BY <1>1, <1>2 DEF Settled, Moves

\* An event is emitted by a handler that is not done yet, and is true when it is.
LEMMA EventsMove ==
  ASSUME Typed, Conversation, [Next]_vars
  PROVE  \/ UNCHANGED events
         \/ \E e \in Event :
              /\ events' = Append(events, e) /\ Settled(e)'
              /\ handler[e.id].stage \notin Final
              /\ UNCHANGED <<page, clicks>>
<1>1. ASSUME NEW c \in Client, Propose(c)
      PROVE  \E e \in Event :
               /\ events' = Append(events, e) /\ Settled(e)'
               /\ handler[e.id].stage \notin Final
               /\ UNCHANGED <<page, clicks>>
  <2> DEFINE e == [id |-> c, kind |-> "proposed"]
  <2>1. e \in Event /\ e.id = c /\ e.kind = "proposed"
    BY DEF Event
  <2>2. /\ events' = Append(events, e) /\ UNCHANGED <<client, page, clicks>>
        /\ handler[c].stage = "proposed"
    BY <1>1 DEF Propose, Emits, clientVars, pageVars
  <2>3. client[c].stage # "off"
    BY <2>2 DEF Conversation, Agreed, Listens
  <2>4. \A x : x = e => Settled(x)'
    <3> HIDE DEF e
    <3> QED BY <2>1, <2>2, <2>3 DEF Settled
  <2> QED BY <2>1, <2>2, <2>4 DEF Final
<1>2. ASSUME NEW c \in Client, Respond(c) \/ Conclude(c)
      PROVE  \E e \in Event :
               /\ events' = Append(events, e) /\ Settled(e)'
               /\ handler[e.id].stage \notin Final
               /\ UNCHANGED <<page, clicks>>
  <2>1. PICK line \in {"hold", "allow", "block"}, stage \in {"reading", "held"},
             kind \in {"allow", "blocked", "hold"} :
          /\ Emits(c, kind) /\ Writes(c, line, [handler[c] EXCEPT !.stage = stage])
          /\ kind = "allow" => line = "allow" /\ Allowed(c, handler[c])
          /\ kind = "blocked" => line = "block" /\ Refused(handler[c])
          /\ kind = "hold" => line = "hold"
          /\ line = "hold" <=> handler[c].stage = "judged" /\ handler[c].verdict = "unsure"
          /\ line = "hold" => (stage = "held" <=> c \in Shim)
          /\ line # "hold" => stage = "reading"
    BY <1>2, Spoken
  <2> DEFINE e == [id |-> c, kind |-> kind]
  <2>2. e \in Event /\ e.id = c /\ e.kind = kind
    BY DEF Event
  <2>3. events' = Append(events, e)
    BY <2>1 DEF Emits
  <2>4. UNCHANGED <<client, page, clicks>> /\ handler[c].stage \in {"judged", "decided"}
    BY <1>2, Spoken
  <2>5. client[c].stage # "off"
    BY <2>4 DEF Conversation, Agreed, Listens
  <2>6. /\ handler'[c].verdict = handler[c].verdict /\ handler'[c].decision = handler[c].decision
        /\ handler'[c].stage \in {stage, "closed"}
    BY <2>1, WritesEffect DEF Line
  <2>7. kind = "allow" => Allowed(c, handler'[c])
    BY <2>1, <2>6 DEF Allowed
  <2>8. kind \in {"allow", "blocked"} => handler'[c].stage \in Final
    BY <2>1, <2>6 DEF Final
  <2>9. \A x : x = e => Settled(x)'
    <3> HIDE DEF e
    <3> QED BY <2>2, <2>4, <2>5, <2>7, <2>8 DEF Settled
  <2> QED BY <2>2, <2>3, <2>4, <2>9 DEF Final
<1>3. ASSUME NEW c \in Client, \/ Submit(c) \/ ClientStep(c) \/ Killed(c) \/ HookFails(c)
                              \/ Evaluate(c) \/ Decide(c) \/ Report(c) \/ Tick(c)
      PROVE  UNCHANGED events
  BY <1>3 DEF Submit, ClientStep, ReadFirst, ReadSecond, TimeOut, EndOfStream, Execute,
              Acknowledged, Killed, HookFails, Evaluate, Decide, Report, Tick
<1>4. ASSUME NEW s \in Console,
             \/ Subscribe(s) \/ PageStep(s) \/ \E c \in Client : Click(s, c)
      PROVE  UNCHANGED events
  BY <1>4 DEF Subscribe, PageStep, Forward, Lagged, Show, Explain, Resolve, Answered, Click
<1>5. DaemonDies \/ UNCHANGED vars => UNCHANGED events
  BY DEF DaemonDies, vars
<1> QED BY <1>1, <1>2, <1>3, <1>4, <1>5 DEF Next, HandlerStep

LEMMA EmittedStep ==
  ASSUME Typed, Conversation, Emitted, [Next]_vars
  PROVE  Emitted'
<1>1. events \in Seq(Event) /\ \A i \in DOMAIN events : events[i] \in Event
  BY DEF Typed
<1>2. \A i \in DOMAIN events : Settled(events[i])'
                                \/ events'[i] # events[i]
  <2>1. ASSUME NEW i \in DOMAIN events, events'[i] = events[i]
        PROVE  Settled(events[i])'
    <3>1. \A e \in Event : Settled(e) => Settled(e)'
      BY SettledStays
    <3>2. \A e : e = events[i] => Settled(e)'
      BY <1>1, <3>1 DEF Emitted
    <3> QED BY <2>1, <3>2 DEF Settled
  <2> QED BY <2>1
<1>3. CASE UNCHANGED events
  BY <1>2, <1>3 DEF Emitted
<1>4. ASSUME NEW e \in Event, events' = Append(events, e), Settled(e)',
             handler[e.id].stage \notin Final
      PROVE  Emitted'
  <2>1. /\ DOMAIN events' = 1 .. Len(events) + 1 /\ DOMAIN events = 1 .. Len(events)
        /\ Len(events) \in Nat /\ events'[Len(events) + 1] = e
        /\ \A i \in DOMAIN events : events'[i] = events[i]
    BY <1>1, <1>4
  <2>2. \A i \in DOMAIN events' : Settled(events[i])'
    <3>1. \A i \in DOMAIN events' : i \in DOMAIN events \/ events'[i] = e
      BY <2>1
    <3> QED BY <1>2, <1>4, <2>1, <3>1 DEF Settled
  <2>3. \A i \in DOMAIN events : events[i].kind \in {"allow", "blocked"} => events[i].id # e.id
    BY <1>4 DEF Emitted, Settled
  <2>4. ASSUME NEW i \in DOMAIN events', NEW j \in DOMAIN events', j > i,
               events'[i].kind \in {"allow", "blocked"}
        PROVE  events'[j].id # events'[i].id
    <3>1. i \in DOMAIN events /\ (j \in DOMAIN events \/ events'[j] = e)
      BY <2>1, <2>4
    <3> QED BY <2>1, <2>3, <2>4, <3>1 DEF Emitted
  <2> QED BY <2>2, <2>4 DEF Emitted
<1> QED BY <1>3, <1>4, EventsMove

-----------------------------------------------------------------------------
(* What the dashboards show *)

\* The verdicts a page has been told of one command, and the last of them.
Told(p, es, c) ==
  {k \in p.from .. p.seen - 1 : es[k].id = c /\ es[k].kind \in DOMAIN Verdicts}
Latest(p, es, c, v) ==
  \/ Told(p, es, c) = {} /\ v = "none"
  \/ \E k \in Told(p, es, c) :
       (\A j \in Told(p, es, c) : j <= k) /\ v = Verdicts[es[k].kind]

\* A page that has not subscribed has seen nothing; what it is still to have explained
\* is a block that it has shown.
Ledger(p, es) ==
  /\ p.stream = "off" => p.from = p.seen /\ p.seen = p.next
  /\ \A c \in p.explaining :
       \E i \in p.from .. p.seen - 1 : es[i].id = c /\ es[i].kind = "blocked"

Unanswered == {"none", "sent", "counted", "late"}

\* One page shows what its stream has told it.
ShownOn(s) ==
  /\ Ledger(page[s], events)
  /\ \A c \in Client : clicks[s, c].state \in Unanswered =>
       Latest(page[s], events, c, page[s].card[c])
Shown == \A s \in Console : ShownOn(s)

\* Events that are added later are not among those a page has shown.
LEMMA ToldStays ==
  ASSUME Typed, NEW s \in Console, NEW p, NEW es,
         p.from = page[s].from, p.seen = page[s].seen,
         \A i \in DOMAIN events : es[i] = events[i]
  PROVE  /\ \A c, v : Latest(page[s], events, c, v) => Latest(p, es, c, v)
         /\ Ledger(page[s], events) /\ p.explaining \subseteq page[s].explaining
              /\ (p.stream = "off" => page[s].stream = "off" /\ p.next = page[s].next)
              => Ledger(p, es)
<1>1. \A k \in p.from .. p.seen - 1 : k \in DOMAIN events /\ es[k] = events[k]
  <2>1. events \in Seq(Event) /\ InStream(page[s]) /\ p.from \in Nat /\ p.seen \in Nat
        /\ page[s].next \in Nat
    BY PageRecords DEF Typed
  <2> QED BY <2>1 DEF InStream
<1>2. \A c : Told(p, es, c) = Told(page[s], events, c)
  BY <1>1 DEF Told
<1>3. \A c : \A k \in Told(p, es, c) : es[k] = events[k]
  BY <1>1 DEF Told
<1>4. \A c, v : Latest(page[s], events, c, v) => Latest(p, es, c, v)
  BY <1>2, <1>3 DEF Latest
<1>5. ASSUME Ledger(page[s], events), p.explaining \subseteq page[s].explaining,
             p.stream = "off" => page[s].stream = "off" /\ p.next = page[s].next
      PROVE  Ledger(p, es)
  BY <1>1, <1>5 DEF Ledger
<1> QED BY <1>4, <1>5

\* Showing an event that is a verdict makes it the last one told of its command.
LEMMA ToldNext ==
  ASSUME Typed, NEW s \in Console, page[s].seen < page[s].next, NEW p,
         p.from = page[s].from, p.seen = page[s].seen + 1, NEW c,
         NEW e, e = events[page[s].seen]
  PROVE  /\ e.id # c \/ e.kind \notin DOMAIN Verdicts =>
              \A v : Latest(page[s], events, c, v) => Latest(p, events, c, v)
         /\ e.id = c /\ e.kind \in DOMAIN Verdicts =>
              Latest(p, events, c, Verdicts[e.kind])
<1>1. /\ page[s].from \in Nat /\ page[s].seen \in Nat /\ page[s].from <= page[s].seen
  BY PageRecords DEF InStream
<1>2. p.from .. p.seen - 1 = (page[s].from .. page[s].seen - 1) \union {page[s].seen}
  BY <1>1
<1>3. Told(p, events, c) = Told(page[s], events, c) \union
        (IF e.id = c /\ e.kind \in DOMAIN Verdicts THEN {page[s].seen} ELSE {})
  BY <1>2 DEF Told
<1>4. CASE e.id = c /\ e.kind \in DOMAIN Verdicts
  <2>1. page[s].seen \in Told(p, events, c)
    BY <1>3, <1>4
  <2>2. \A j \in Told(p, events, c) : j <= page[s].seen
    BY <1>1, <1>2 DEF Told
  <2> QED BY <1>4, <2>1, <2>2 DEF Latest
<1>5. CASE ~(e.id = c /\ e.kind \in DOMAIN Verdicts)
  <2>1. Told(p, events, c) = Told(page[s], events, c)
    BY <1>3, <1>5
  <2> QED BY <1>5, <2>1 DEF Latest
<1> QED BY <1>4, <1>5

\* What a page shows of its stream is what LastVerdict says.
LEMMA LatestIsLast ==
  ASSUME Typed, NEW s \in Console, NEW c \in Client, NEW v, Latest(page[s], events, c, v)
  PROVE  v = LastVerdict(s, c)
<1> DEFINE told == Told(page[s], events, c)
           last == CHOOSE k \in told : \A j \in told : j <= k
<1>1. LastVerdict(s, c) = IF told = {} THEN "none" ELSE Verdicts[events[last].kind]
  BY DEF LastVerdict, Told
<1>2. \A k \in told : k \in Nat
  BY PageRecords DEF Told
<1>3. ASSUME NEW k \in told, \A j \in told : j <= k
      PROVE  last = k
  <2>1. last \in told /\ \A j \in told : j <= last
    BY <1>3
  <2> HIDE DEF last
  <2> QED BY <1>2, <1>3, <2>1
<1> HIDE DEF last
<1>4. CASE told = {} /\ v = "none"
  BY <1>1, <1>4
<1>5. CASE \E k \in told : (\A j \in told : j <= k) /\ v = Verdicts[events[k].kind]
  <2>1. PICK k \in told : (\A j \in told : j <= k) /\ v = Verdicts[events[k].kind]
    BY <1>5
  <2>2. last = k /\ told # {}
    BY <1>3, <2>1
  <2> QED BY <1>1, <2>1, <2>2
<1> QED BY <1>4, <1>5 DEF Latest

\* What each step of a page's stream does to it.
LEMMA PageMoves ==
  ASSUME Typed, NEW s \in Console
  PROVE  /\ Subscribe(s) =>
              /\ page[s].stream = "off" /\ page'[s].stream = "open"
              /\ page'[s].from = Len(events) + 1 /\ page'[s].seen = Len(events) + 1
              /\ page'[s].card = page[s].card /\ page'[s].explaining = page[s].explaining
         /\ Forward(s) \/ Lagged(s) =>
              /\ page'[s].stream \in {"open", "ended"}
              /\ page'[s].from = page[s].from /\ page'[s].seen = page[s].seen
              /\ page'[s].card = page[s].card /\ page'[s].explaining = page[s].explaining
         /\ Show(s) =>
              /\ page[s].seen < page[s].next /\ page'[s].stream = page[s].stream
              /\ page'[s].from = page[s].from /\ page'[s].seen = page[s].seen + 1
              /\ page'[s].card = Rendered(page[s].card, events[page[s].seen])
              /\ page'[s].explaining = IF events[page[s].seen].kind = "blocked"
                                       THEN page[s].explaining \union {events[page[s].seen].id}
                                       ELSE page[s].explaining
         /\ Explain(s) =>
              /\ page'[s].stream = page[s].stream /\ page'[s].next = page[s].next
              /\ page'[s].from = page[s].from /\ page'[s].seen = page[s].seen
              /\ page'[s].explaining \subseteq page[s].explaining
              /\ \E c \in page[s].explaining : page'[s].card = [page[s].card EXCEPT ![c] = "block"]
<1>1. page \in [Console -> PageState] /\ page[s] \in PageState
  BY DEF Typed, PageTyped
<1>2. ASSUME NEW p, page' = [page EXCEPT ![s] = p]
      PROVE  page'[s] = p
  BY <1>1, <1>2
<1>3. ASSUME Subscribe(s)
      PROVE  /\ page[s].stream = "off" /\ page'[s].stream = "open"
             /\ page'[s].from = Len(events) + 1 /\ page'[s].seen = Len(events) + 1
             /\ page'[s].card = page[s].card /\ page'[s].explaining = page[s].explaining
  <2> DEFINE here == Len(events) + 1
             p == [page[s] EXCEPT !.stream = "open", !.from = here, !.next = here, !.seen = here]
  <2>1. page' = [page EXCEPT ![s] = p] /\ page[s].stream = "off"
    BY <1>3 DEF Subscribe
  <2> HIDE DEF here
  <2>2. /\ p.stream = "open" /\ p.from = here /\ p.seen = here
        /\ p.card = page[s].card /\ p.explaining = page[s].explaining
    BY <1>1 DEF PageState
  <2> HIDE DEF p
  <2> QED BY <1>2, <2>1, <2>2 DEF here
<1>4. ASSUME Forward(s) \/ Lagged(s)
      PROVE  /\ page'[s].stream \in {"open", "ended"}
             /\ page'[s].from = page[s].from /\ page'[s].seen = page[s].seen
             /\ page'[s].card = page[s].card /\ page'[s].explaining = page[s].explaining
  BY <1>1, <1>4 DEF Forward, Lagged, PageState
<1>5. ASSUME Show(s)
      PROVE  /\ page[s].seen < page[s].next /\ page'[s].stream = page[s].stream
             /\ page'[s].from = page[s].from /\ page'[s].seen = page[s].seen + 1
             /\ page'[s].card = Rendered(page[s].card, events[page[s].seen])
             /\ page'[s].explaining = IF events[page[s].seen].kind = "blocked"
                                      THEN page[s].explaining \union {events[page[s].seen].id}
                                      ELSE page[s].explaining
  <2> DEFINE event == events[page[s].seen]
             after == page[s].seen + 1
             cards == Rendered(page[s].card, event)
             expl == IF event.kind = "blocked" THEN page[s].explaining \union {event.id}
                     ELSE page[s].explaining
             p == [page[s] EXCEPT !.seen = after, !.card = cards, !.explaining = expl]
  <2>1. page' = [page EXCEPT ![s] = p] /\ page[s].seen < page[s].next
    BY <1>5 DEF Show
  <2> HIDE DEF after, cards, expl
  <2>2. /\ p.stream = page[s].stream /\ p.from = page[s].from /\ p.seen = after
        /\ p.card = cards /\ p.explaining = expl
    BY <1>1 DEF PageState
  <2> HIDE DEF p
  <2> QED BY <1>2, <2>1, <2>2 DEF after, cards, expl
<1>6. ASSUME Explain(s)
      PROVE  /\ page'[s].stream = page[s].stream /\ page'[s].next = page[s].next
             /\ page'[s].from = page[s].from /\ page'[s].seen = page[s].seen
             /\ page'[s].explaining \subseteq page[s].explaining
             /\ \E c \in page[s].explaining : page'[s].card = [page[s].card EXCEPT ![c] = "block"]
  <2>1. PICK c \in page[s].explaining :
          page' = [page EXCEPT ![s].explaining = @ \ {c}, ![s].card[c] = "block"]
    BY <1>6 DEF Explain
  <2> DEFINE cards == [page[s].card EXCEPT ![c] = "block"]
             expl == page[s].explaining \ {c}
             p == [page[s] EXCEPT !.explaining = expl, !.card = cards]
  <2>2. page' = [page EXCEPT ![s] = p] /\ expl \subseteq page[s].explaining
    BY <2>1
  <2> HIDE DEF cards, expl
  <2>3. /\ p.stream = page[s].stream /\ p.next = page[s].next /\ p.from = page[s].from
        /\ p.seen = page[s].seen /\ p.explaining = expl /\ p.card = cards
    BY <1>1 DEF PageState
  <2> HIDE DEF p
  <2> QED BY <1>2, <2>2, <2>3 DEF cards
<1> QED BY <1>3, <1>4, <1>5, <1>6

\* The pages but one, and their clicks, are as they were.
Quiet(s) ==
  /\ page'[s] = page[s]
  /\ \A c \in Client : clicks'[s, c].state \in Unanswered => clicks[s, c].state \in Unanswered

LEMMA PagesMove ==
  ASSUME Typed, Conversation, [Next]_vars
  PROVE  \/ \A s \in Console : Quiet(s)
         \/ /\ UNCHANGED <<events, clicks>>
            /\ \/ DaemonDies
               \/ \E s \in Console :
                    /\ Subscribe(s) \/ Forward(s) \/ Lagged(s) \/ Show(s) \/ Explain(s)
                    /\ \A r \in Console \ {s} : page'[r] = page[r]
         \/ /\ UNCHANGED events
            /\ \E s \in Console, c \in Client :
                 /\ Answered(s, c)
                 /\ \A r \in Console \ {s} : Quiet(r)
                 /\ \A d \in Client \ {c} : clicks'[s, d] = clicks[s, d]
<1>1. UNCHANGED <<page, clicks>> => \A s \in Console : Quiet(s)
  BY DEF Quiet
<1>2. ASSUME NEW c \in Client, \/ Submit(c) \/ ClientStep(c) \/ Killed(c) \/ HookFails(c)
                              \/ HandlerStep(c) \/ Evaluate(c) \/ Tick(c)
      PROVE  UNCHANGED <<page, clicks>>
  BY <1>2 DEF pageVars, Submit, ClientStep, ReadFirst, ReadSecond, TimeOut, EndOfStream, Execute,
        Acknowledged, Killed, HookFails, HandlerStep, Propose, Respond, Decide, Conclude, Report, Evaluate, Tick
<1>3. ASSUME NEW s \in Console, NEW c \in Client, Click(s, c) \/ Resolve(s, c)
      PROVE  \A r \in Console : Quiet(r)
  <2>1. /\ UNCHANGED page /\ clicks[s, c].state \in Unanswered
        /\ \A r \in Console, d \in Client : r # s \/ d # c => clicks'[r, d] = clicks[r, d]
    <3>1. CASE Click(s, c)
      BY <3>1, ClickEffect DEF Unanswered
    <3>2. CASE Resolve(s, c)
      BY <3>2, ResolveEffect DEF Unanswered
    <3> QED BY <1>3, <3>1, <3>2
  <2>2. ASSUME NEW r \in Console, NEW d \in Client, clicks'[r, d].state \in Unanswered
        PROVE  clicks[r, d].state \in Unanswered
    <3>1. CASE r = s /\ d = c
      BY <2>1, <3>1
    <3>2. CASE r # s \/ d # c
      <4>1. clicks'[r, d] = clicks[r, d]
        BY <2>1, <3>2
      <4> QED BY <2>2, <4>1
    <3> QED BY <3>1, <3>2
  <2> QED BY <2>1, <2>2 DEF Quiet
<1>4. ASSUME NEW s \in Console,
             Subscribe(s) \/ Forward(s) \/ Lagged(s) \/ Show(s) \/ Explain(s)
      PROVE  UNCHANGED <<events, clicks>> /\ \A r \in Console \ {s} : page'[r] = page[r]
  BY <1>4 DEF Subscribe, Forward, Lagged, Show, Explain, Typed, PageTyped
<1>5. ASSUME NEW s \in Console, NEW c \in Client, Answered(s, c)
      PROVE  /\ UNCHANGED events /\ \A r \in Console \ {s} : Quiet(r)
             /\ \A d \in Client \ {c} : clicks'[s, d] = clicks[s, d]
  <2>1. /\ UNCHANGED events /\ \A r \in Console \ {s} : page'[r] = page[r]
        /\ \A r \in Console, d \in Client : r # s \/ d # c => clicks'[r, d] = clicks[r, d]
    BY <1>5, AnsweredEffect
  <2>2. \A r \in Console \ {s} : \A d \in Client : clicks'[r, d] = clicks[r, d]
    BY <2>1
  <2> QED BY <2>1, <2>2 DEF Quiet
<1>6. DaemonDies => UNCHANGED <<events, clicks>>
  BY DEF DaemonDies, clientVars
<1>7. UNCHANGED vars => UNCHANGED <<page, clicks>>
  BY DEF vars
<1>8. CASE \E c \in Client : \/ Submit(c) \/ ClientStep(c) \/ Killed(c) \/ HookFails(c)
                             \/ HandlerStep(c) \/ Evaluate(c) \/ Tick(c)
  BY <1>1, <1>2, <1>8
<1>9. CASE \E s \in Console, c \in Client : Click(s, c) \/ Resolve(s, c)
  BY <1>3, <1>9
<1>10. CASE \E s \in Console : Subscribe(s) \/ Forward(s) \/ Lagged(s) \/ Show(s) \/ Explain(s)
  BY <1>4, <1>10
<1>11. CASE \E s \in Console, c \in Client : Answered(s, c)
  BY <1>5, <1>11
<1>12. CASE DaemonDies
  BY <1>6, <1>12
<1>13. CASE UNCHANGED vars
  BY <1>1, <1>7, <1>13
<1>14. \/ \E c \in Client : \/ Submit(c) \/ ClientStep(c) \/ Killed(c) \/ HookFails(c)
                          \/ HandlerStep(c) \/ Evaluate(c) \/ Tick(c)
       \/ \E s \in Console, c \in Client : Click(s, c) \/ Resolve(s, c)
       \/ \E s \in Console : Subscribe(s) \/ Forward(s) \/ Lagged(s) \/ Show(s) \/ Explain(s)
       \/ \E s \in Console, c \in Client : Answered(s, c)
       \/ DaemonDies \/ UNCHANGED vars
  BY DEF Next, PageStep
<1> QED BY <1>8, <1>9, <1>10, <1>11, <1>12, <1>13, <1>14

\* The page's part in the events it has yet to show is not disturbed.
LEMMA QuietShown ==
  ASSUME Typed, NEW s \in Console, ShownOn(s), Quiet(s),
         \A i \in DOMAIN events : events'[i] = events[i]
  PROVE  ShownOn(s)'
<1> DEFINE p == page'[s]
           es == events'
<1>1. p = page[s] /\ \A i \in DOMAIN events : es[i] = events[i]
  BY DEF Quiet
<1> HIDE DEF p, es
<1>2. /\ \A c, v : Latest(page[s], events, c, v) => Latest(p, es, c, v)
      /\ Ledger(p, es)
  <2>1. /\ p.from = page[s].from /\ p.seen = page[s].seen /\ p.stream = page[s].stream
        /\ p.next = page[s].next /\ p.explaining = page[s].explaining
    BY <1>1
  <2> QED BY <1>1, <2>1, ToldStays DEF ShownOn
<1>3. ASSUME NEW c \in Client, clicks'[s, c].state \in Unanswered
      PROVE  Latest(p, es, c, p.card[c])
  BY <1>1, <1>2, <1>3 DEF ShownOn, Quiet
<1> QED BY <1>2, <1>3 DEF ShownOn, p, es, Ledger, Latest, Told

\* The stream moves on but nothing is shown.
LEMMA StreamShown ==
  ASSUME Typed, NEW s \in Console, ShownOn(s), UNCHANGED <<events, clicks>>,
         page'[s].from = page[s].from, page'[s].seen = page[s].seen,
         page'[s].card = page[s].card, page'[s].explaining = page[s].explaining,
         page'[s].stream = "off" => page[s].stream = "off" /\ page'[s].next = page[s].next
  PROVE  ShownOn(s)'
<1> DEFINE p == page'[s]
<1>1. /\ \A c, v : Latest(page[s], events, c, v) => Latest(p, events, c, v)
      /\ Ledger(p, events)
  <2>1. /\ p.from = page[s].from /\ p.seen = page[s].seen
        /\ p.explaining \subseteq page[s].explaining
        /\ p.stream = "off" => page[s].stream = "off" /\ p.next = page[s].next
    OBVIOUS
  <2> HIDE DEF p
  <2> QED BY <2>1, ToldStays DEF ShownOn
<1>2. \A c \in Client : clicks[s, c].state \in Unanswered =>
        Latest(p, events, c, p.card[c])
  BY <1>1 DEF ShownOn
<1> QED BY <1>1, <1>2 DEF ShownOn, Ledger, Latest, Told

\* A subscription begins a stream of which nothing has been told; before it there was
\* none either.
LEMMA SubscribeShown ==
  ASSUME Typed, NEW s \in Console, ShownOn(s), Subscribe(s), UNCHANGED <<events, clicks>>
  PROVE  ShownOn(s)'
<1> DEFINE p == page'[s]
<1>1. /\ page[s].stream = "off" /\ p.stream = "open"
      /\ p.from = Len(events) + 1 /\ p.seen = Len(events) + 1
      /\ p.card = page[s].card /\ p.explaining = page[s].explaining
  BY PageMoves
<1> HIDE DEF p
<1>2. page[s].from = page[s].seen /\ page[s].from \in Nat /\ Len(events) \in Nat
  BY <1>1, PageRecords DEF ShownOn, Ledger
<1>3. (page[s].from .. page[s].seen - 1) = {} /\ (p.from .. p.seen - 1) = {}
  BY <1>1, <1>2
<1>4. \A c : Told(page[s], events, c) = {} /\ Told(p, events, c) = {}
  BY <1>3 DEF Told
<1>5. Ledger(p, events)
  BY <1>1, <1>3 DEF ShownOn, Ledger
<1>6. \A c \in Client : clicks[s, c].state \in Unanswered =>
        Latest(p, events, c, p.card[c])
  BY <1>1, <1>4 DEF ShownOn, Latest
<1> QED BY <1>5, <1>6 DEF ShownOn, Ledger, Latest, Told, p

LEMMA ShowShown ==
  ASSUME Typed, NEW s \in Console, ShownOn(s), Show(s), UNCHANGED <<events, clicks>>
  PROVE  ShownOn(s)'
<1> DEFINE p == page'[s]
           e == events[page[s].seen]
<1>1. /\ page[s].seen < page[s].next /\ p.stream = page[s].stream
      /\ p.from = page[s].from /\ p.seen = page[s].seen + 1
      /\ p.card = Rendered(page[s].card, e)
      /\ p.explaining = IF e.kind = "blocked" THEN page[s].explaining \union {e.id}
                        ELSE page[s].explaining
  BY PageMoves
<1>2. /\ page[s].from \in Nat /\ page[s].seen \in Nat /\ page[s].next \in Nat
      /\ page[s].from <= page[s].seen /\ page[s].card \in [Client -> Card]
  BY PageRecords DEF InStream
<1>3. e \in Event
  BY <1>1, <1>2, EventShown
<1> HIDE DEF p
<1>4. /\ e.id \in Client
      /\ e.kind \in DOMAIN Verdicts => Verdicts[e.kind] \in Card
  <2> HIDE DEF e
  <2> QED BY <1>3 DEF Event, Verdicts, Card
<1>5. \A c : /\ e.id # c \/ e.kind \notin DOMAIN Verdicts =>
                  \A v : Latest(page[s], events, c, v) => Latest(p, events, c, v)
             /\ e.id = c /\ e.kind \in DOMAIN Verdicts =>
                  Latest(p, events, c, Verdicts[e.kind])
  BY <1>1, ToldNext
<1>6. /\ e.kind \in DOMAIN Verdicts => p.card[e.id] = Verdicts[e.kind]
      /\ \A c \in Client : c # e.id \/ e.kind \notin DOMAIN Verdicts =>
           p.card[c] = page[s].card[c]
  <2> HIDE DEF e
  <2> QED BY <1>1, <1>2, <1>4, RenderedTyped
<1>7. ASSUME NEW c \in Client, clicks[s, c].state \in Unanswered
      PROVE  Latest(p, events, c, p.card[c])
  <2> HIDE DEF e
  <2>1. Latest(page[s], events, c, page[s].card[c])
    BY <1>7 DEF ShownOn
  <2>2. CASE e.id = c /\ e.kind \in DOMAIN Verdicts
    BY <1>5, <1>6, <2>2
  <2>3. CASE ~(e.id = c /\ e.kind \in DOMAIN Verdicts)
    BY <1>5, <1>6, <2>1, <2>3
  <2> QED BY <2>2, <2>3
<1>8. Ledger(p, events)
  <2>1. p.stream # "off"
    <3>1. page[s].stream = "off" => page[s].seen = page[s].next
      BY DEF ShownOn, Ledger
    <3>2. page[s].seen # page[s].next
      <4>1. page[s].seen < page[s].next
        BY <1>1
      <4> QED BY <1>2, <4>1
    <3> QED BY <1>1, <3>1, <3>2
  <2>2. \A i \in page[s].from .. page[s].seen - 1 : i \in p.from .. p.seen - 1
    BY <1>1, <1>2
  <2>3. page[s].seen \in p.from .. p.seen - 1
    BY <1>1, <1>2
  <2>4. ASSUME NEW c \in p.explaining
        PROVE  \E i \in p.from .. p.seen - 1 : events[i].id = c /\ events[i].kind = "blocked"
    <3>1. CASE c \in page[s].explaining
      BY <2>2, <3>1 DEF ShownOn, Ledger
    <3>2. CASE e.kind = "blocked" /\ c = e.id
      BY <2>3, <3>2
    <3> QED BY <1>1, <2>4, <3>1, <3>2
  <2> QED BY <2>1, <2>4 DEF Ledger
<1>20. Ledger(page'[s], events')
  BY <1>7, <1>8 DEF p
<1>21. \A d \in Client : clicks'[s, d].state \in Unanswered => Latest(page'[s], events', d, page'[s].card[d])
  BY <1>7, <1>8 DEF p
<1> QED BY <1>20, <1>21 DEF ShownOn, Ledger, Latest, Told

\* An explanation comes again for what is still blocked: nothing has been emitted of
\* the command since.
LEMMA ExplainShown ==
  ASSUME Typed, Emitted, NEW s \in Console, ShownOn(s), Explain(s), UNCHANGED <<events, clicks>>
  PROVE  ShownOn(s)'
<1> DEFINE p == page'[s]
<1>1. /\ p.stream = page[s].stream /\ p.next = page[s].next
      /\ p.from = page[s].from /\ p.seen = page[s].seen
      /\ p.explaining \subseteq page[s].explaining
  BY PageMoves
<1>2. PICK c \in page[s].explaining : p.card = [page[s].card EXCEPT ![c] = "block"]
  BY PageMoves
<1> HIDE DEF p
<1>3. /\ \A d, v : Latest(page[s], events, d, v) => Latest(p, events, d, v)
      /\ Ledger(p, events)
  BY <1>1, ToldStays DEF ShownOn
<1>4. /\ page[s].card \in [Client -> Card] /\ c \in Client
      /\ page[s].from \in Nat /\ page[s].seen \in Nat /\ InStream(page[s])
      /\ page[s].next \in Nat /\ events \in Seq(Event)
  BY PageRecords DEF Typed
<1>5. Latest(p, events, c, "block")
  <2>1. PICK i \in p.from .. p.seen - 1 : events[i].id = c /\ events[i].kind = "blocked"
    BY <1>1 DEF ShownOn, Ledger
  <2>2. i \in Told(p, events, c) /\ Verdicts[events[i].kind] = "block"
    BY <2>1 DEF Told, Verdicts
  <2>3. p.from .. p.seen - 1 \subseteq DOMAIN events
    BY <1>1, <1>4 DEF InStream
  <2>4. \A j \in Told(p, events, c) : ~(j > i)
    BY <2>1, <2>3 DEF Told, Emitted
  <2>5. \A j \in Told(p, events, c) : j <= i
    <3>1. \A j \in p.from .. p.seen - 1 : j \in Nat /\ i \in Nat
      BY <1>1, <1>4
    <3> QED BY <2>4, <3>1 DEF Told
  <2> QED BY <2>2, <2>5 DEF Latest
<1>6. ASSUME NEW d \in Client, clicks[s, d].state \in Unanswered
      PROVE  Latest(p, events, d, p.card[d])
  <2>1. CASE d = c
    BY <1>2, <1>4, <1>5, <2>1
  <2>2. CASE d # c
    BY <1>2, <1>3, <1>4, <1>6, <2>2 DEF ShownOn
  <2> QED BY <2>1, <2>2
<1>20. Ledger(page'[s], events')
  BY <1>3, <1>6 DEF p
<1>21. \A d \in Client : clicks'[s, d].state \in Unanswered => Latest(page'[s], events', d, page'[s].card[d])
  BY <1>3, <1>6 DEF p
<1> QED BY <1>20, <1>21 DEF ShownOn, Ledger, Latest, Told

\* The answer to a click is shown apart from the stream.
LEMMA AnswerShown ==
  ASSUME Typed, NEW s \in Console, NEW c \in Client, ShownOn(s), Answered(s, c),
         UNCHANGED events, \A d \in Client \ {c} : clicks'[s, d] = clicks[s, d]
  PROVE  ShownOn(s)'
<1> DEFINE p == page'[s]
<1>1. /\ p.card = [page[s].card EXCEPT ![c] =
           IF clicks[s, c].decision = "approve" THEN "allow" ELSE "block"]
      /\ p.stream = page[s].stream /\ p.from = page[s].from
      /\ p.seen = page[s].seen /\ p.next = page[s].next
      /\ p.explaining = page[s].explaining
      /\ clicks'[s, c].state \in {"shown", "shownLate"}
  BY AnsweredEffect
<1> HIDE DEF p
<1>2. /\ \A d, v : Latest(page[s], events, d, v) => Latest(p, events, d, v)
      /\ Ledger(p, events)
  BY <1>1, ToldStays DEF ShownOn
<1>3. ASSUME NEW d \in Client, clicks'[s, d].state \in Unanswered
      PROVE  Latest(p, events, d, p.card[d])
  <2>1. d # c
    BY <1>1, <1>3 DEF Unanswered
  <2>2. clicks'[s, d] = clicks[s, d] /\ p.card[d] = page[s].card[d]
    BY <1>1, <2>1, PageRecords
  <2> QED BY <1>2, <1>3, <2>2 DEF ShownOn
<1>20. Ledger(page'[s], events')
  BY <1>2, <1>3 DEF p
<1>21. \A d \in Client : clicks'[s, d].state \in Unanswered => Latest(page'[s], events', d, page'[s].card[d])
  BY <1>2, <1>3 DEF p
<1> QED BY <1>20, <1>21 DEF ShownOn, Ledger, Latest, Told

LEMMA ShownStep ==
  ASSUME Typed, Conversation, Emitted, Shown, [Next]_vars
  PROVE  Shown'
<1>1. \A s \in Console : ShownOn(s)
  BY DEF Shown
<1>2. \A i \in DOMAIN events : events'[i] = events[i]
  <2>1. \A e : events' = Append(events, e) => \A i \in DOMAIN events : events'[i] = events[i]
    BY DEF Typed
  <2> QED BY <2>1, EventsMove
<1>3. \A s \in Console : Quiet(s) => ShownOn(s)'
  BY <1>1, <1>2, QuietShown
<1>4. CASE \A s \in Console : Quiet(s)
  BY <1>3, <1>4 DEF Shown
<1>5. CASE DaemonDies
  <2>1. UNCHANGED <<events, clicks>>
    BY <1>5, DaemonDiesEffect
  <2>2. ASSUME NEW s \in Console PROVE ShownOn(s)'
    <3>1. /\ page'[s].card = page[s].card /\ page'[s].explaining = page[s].explaining
          /\ page'[s].from = page[s].from /\ page'[s].seen = page[s].seen
          /\ page'[s].next = page[s].next
          /\ page'[s].stream = "off" => page[s].stream = "off"
      BY <1>5, DaemonDiesEffect
    <3> QED BY <1>1, <2>1, <3>1, StreamShown
  <2> QED BY <2>2 DEF Shown
<1>6. ASSUME NEW s \in Console,
             Subscribe(s) \/ Forward(s) \/ Lagged(s) \/ Show(s) \/ Explain(s),
             UNCHANGED <<events, clicks>>, \A r \in Console \ {s} : page'[r] = page[r]
      PROVE  Shown'
  <2>1. ASSUME NEW r \in Console \ {s} PROVE ShownOn(r)'
    BY <1>3, <1>6 DEF Quiet
  <2>2. ShownOn(s)'
    <3>1. CASE Subscribe(s)
      BY <1>1, <1>6, <3>1, SubscribeShown
    <3>2. CASE Forward(s) \/ Lagged(s)
      <4>1. /\ page'[s].stream \in {"open", "ended"}
            /\ page'[s].from = page[s].from /\ page'[s].seen = page[s].seen
            /\ page'[s].card = page[s].card /\ page'[s].explaining = page[s].explaining
        BY <3>2, PageMoves
      <4> QED BY <1>1, <1>6, <4>1, StreamShown
    <3>3. CASE Show(s)
      BY <1>1, <1>6, <3>3, ShowShown
    <3>4. CASE Explain(s)
      BY <1>1, <1>6, <3>4, ExplainShown
    <3> QED BY <1>6, <3>1, <3>2, <3>3, <3>4
  <2> QED BY <2>1, <2>2 DEF Shown
<1>7. ASSUME NEW s \in Console, NEW c \in Client, Answered(s, c), UNCHANGED events,
             \A r \in Console \ {s} : Quiet(r),
             \A d \in Client \ {c} : clicks'[s, d] = clicks[s, d]
      PROVE  Shown'
  <2>1. ShownOn(s)'
    BY <1>1, <1>7, AnswerShown
  <2> QED BY <1>3, <1>7, <2>1 DEF Shown
<1> QED BY <1>4, <1>5, <1>6, <1>7, PagesMove

LEMMA ShownHolds == Spec => [](Typed /\ Conversation /\ Counted /\ Emitted /\ Shown)
<1>1. Init => Emitted /\ Shown
  <2>1. ASSUME Init PROVE Emitted
    BY <2>1 DEF Init, Emitted
  <2>2. ASSUME Init, NEW s \in Console PROVE ShownOn(s)
    <3>1. /\ page[s].stream = "off" /\ page[s].from = 1 /\ page[s].next = 1
          /\ page[s].seen = 1 /\ page[s].explaining = {}
          /\ \A c \in Client : page[s].card[c] = "none"
      BY <2>2 DEF Init
    <3>2. \A c : Told(page[s], events, c) = {}
      BY <3>1 DEF Told
    <3> QED BY <3>1, <3>2 DEF ShownOn, Ledger, Latest
  <2> QED BY <2>1, <2>2 DEF Shown
<1>2. Typed /\ Conversation /\ Emitted /\ Shown /\ [Next]_vars => Emitted' /\ Shown'
  BY EmittedStep, ShownStep
<1> QED BY <1>1, <1>2, CountedHolds, PTL DEF Spec

\* A dashboard shows, of each command it has not answered itself, the last verdict it
\* was told: its stream is a stretch of what was emitted, in order and without a gap,
\* and a late explanation repeats only a block that nothing has followed.
THEOREM LedgerIsFaithful == Spec => []LedgerFollows
<1>1. ASSUME Typed, Shown PROVE LedgerFollows
  <2>1. ASSUME NEW s \in Console, NEW c \in Client,
               clicks[s, c].state \notin {"shown", "shownLate"}
        PROVE  page[s].card[c] = LastVerdict(s, c)
    <3>1. clicks[s, c].state \in Unanswered
      BY <1>1, <2>1, ClickRecords DEF ClickState, Unanswered
    <3> QED BY <1>1, <3>1, LatestIsLast DEF Shown, ShownOn
  <2> QED BY <2>1 DEF LedgerFollows
<1> QED BY <1>1, ShownHolds, PTL

\* A card that says "allow" is of a permitted command, or the page's reading of the
\* answer to an approval that came too late.
LEMMA AllowShownStep ==
  ASSUME Typed, Conversation, Counted, Emitted, AllowShownIfPermitted, [Next]_vars
  PROVE  AllowShownIfPermitted'
<1> DEFINE Late(x) == x = [decision |-> "approve", state |-> "shownLate"]
           Right(s, c) == page[s].card[c] = "allow" => Permitted(c) \/ Late(clicks[s, c])
<1>1. \A c \in Client : Permitted(c) => Permitted(c)'
  BY CommandsMove DEF Moves, Stands, Permitted
<1>2. \A s \in Console, c \in Client : Right(s, c)
  BY DEF AllowShownIfPermitted
<1>3. SUFFICES ASSUME NEW s \in Console, NEW c \in Client
               PROVE  Right(s, c)'
  BY DEF AllowShownIfPermitted
<1>4. Late(clicks[s, c]) => clicks'[s, c] = clicks[s, c]
  <2>1. ASSUME NEW r \in Console, NEW d \in Client, Late(clicks[s, c]),
               Click(r, d) \/ Resolve(r, d) \/ Answered(r, d)
        PROVE  r # s \/ d # c
    <3>1. clicks[s, c].state = "shownLate"
      <4>1. \A x : Late(x) => x.state = "shownLate"
        OBVIOUS
      <4> QED BY <2>1, <4>1, Zenon
    <3>2. clicks[r, d].state # "shownLate"
      <4>1. CASE Click(r, d)
        BY <4>1, ClickEffect
      <4>2. CASE Resolve(r, d)
        BY <4>2, ResolveEffect
      <4>3. CASE Answered(r, d)
        BY <4>3, AnsweredEffect
      <4> QED BY <2>1, <4>1, <4>2, <4>3
    <3> QED BY <3>1, <3>2
  <2> HIDE DEF Late
  <2> QED BY <2>1, ClicksMove
<1>5. page'[s].card[c] \in {page[s].card[c], "none", "block", "hold"} => Right(s, c)'
  <2>1. page'[s].card[c] = "allow" => page[s].card[c] = "allow" \/ page'[s].card[c] # page[s].card[c]
    OBVIOUS
  <2>2. page'[s].card[c] \in {page[s].card[c], "none", "block", "hold"} /\ page'[s].card[c] = "allow"
          => page[s].card[c] = "allow"
    OBVIOUS
  <2>3. page[s].card[c] = "allow" => Permitted(c)' \/ Late(clicks[s, c])
    BY <1>1, <1>2
  <2>4. page[s].card[c] = "allow" => Permitted(c)' \/ Late(clicks[s, c])'
    BY <1>4, <2>3
  <2> QED BY <2>2, <2>4
<1>6. CASE page'[s].card = page[s].card
  BY <1>5, <1>6
<1>7. CASE Show(s)
  <2> DEFINE e == events[page[s].seen]
  <2>1. page'[s].card = Rendered(page[s].card, e) /\ page[s].seen < page[s].next
    BY <1>7, PageMoves
  <2>2. /\ page[s].seen \in Nat /\ page[s].from <= page[s].seen
        /\ page[s].card \in [Client -> Card]
    BY PageRecords DEF InStream
  <2>3. page[s].seen \in DOMAIN events /\ e \in Event
    BY <2>1, <2>2, EventShown
  <2>4. Settled(e)
    BY <2>3 DEF Emitted
  <2> HIDE DEF e
  <2>5. /\ e.id \in Client /\ e.kind \in {"proposed", "allow", "blocked", "hold"}
        /\ e.kind \in DOMAIN Verdicts => Verdicts[e.kind] \in Card
        /\ e.kind \in DOMAIN Verdicts /\ Verdicts[e.kind] = "allow" => e.kind = "allow"
    BY <2>3 DEF Event, Verdicts, Card
  <2>6. /\ e.kind \in DOMAIN Verdicts => page'[s].card[e.id] = Verdicts[e.kind]
        /\ c # e.id \/ e.kind \notin DOMAIN Verdicts => page'[s].card[c] = page[s].card[c]
    BY <2>1, <2>2, <2>5, RenderedTyped
  <2>7. CASE c = e.id /\ e.kind \in DOMAIN Verdicts /\ Verdicts[e.kind] = "allow"
    <3>1. Allowed(c, handler[c])
      BY <2>4, <2>5, <2>7 DEF Settled
    <3>2. Permitted(c)
      BY <3>1 DEF Allowed, Permitted
    <3> QED BY <1>1, <3>2
  <2>8. CASE c = e.id /\ e.kind \in DOMAIN Verdicts /\ Verdicts[e.kind] # "allow"
    <3>1. page'[s].card[c] # "allow"
      BY <2>6, <2>8
    <3> QED BY <3>1
  <2>9. CASE c # e.id \/ e.kind \notin DOMAIN Verdicts
    BY <1>5, <2>6, <2>9
  <2> QED BY <2>7, <2>8, <2>9
<1>8. CASE Explain(s)
  <2>1. PICK d \in page[s].explaining : page'[s].card = [page[s].card EXCEPT ![d] = "block"]
    BY <1>8, PageMoves
  <2>2. page'[s].card[c] \in {page[s].card[c], "block"}
    BY <2>1, PageRecords
  <2> QED BY <1>5, <2>2
<1>9. ASSUME NEW d \in Client, Answered(s, d)
      PROVE  Right(s, c)'
  <2>1. /\ clicks'[s, d].decision = clicks[s, d].decision
        /\ \/ clicks[s, d].state = "counted" /\ clicks'[s, d].state = "shown"
           \/ clicks[s, d].state = "late" /\ clicks'[s, d].state = "shownLate"
        /\ page'[s].card = [page[s].card EXCEPT ![d] =
             IF clicks[s, d].decision = "approve" THEN "allow" ELSE "block"]
        /\ ClicksTyped'
    BY <1>9, AnsweredEffect
  <2>2. CASE d # c
    <3>1. page'[s].card[c] = page[s].card[c]
      BY <2>1, <2>2, PageRecords
    <3> QED BY <1>5, <3>1
  <2>3. CASE d = c /\ clicks[s, d].decision # "approve"
    <3>1. page'[s].card[c] = "block"
      BY <2>1, <2>3, PageRecords
    <3> QED BY <3>1
  <2>4. CASE d = c /\ clicks[s, d].decision = "approve" /\ clicks[s, d].state = "counted"
    <3>1. handler[c].decision = "approve"
      BY <2>4 DEF Counted
    <3>2. Agreed(c, client[c], arrived[c], handler[c], alive)
      BY DEF Conversation
    <3>3. Permitted(c)
      BY <3>1, <3>2 DEF Agreed, Judges, Permitted
    <3> QED BY <1>1, <3>3
  <2>5. CASE d = c /\ clicks[s, d].decision = "approve" /\ clicks[s, d].state = "late"
    <3>1. clicks'[s, c] \in ClickState
      BY <2>1 DEF ClicksTyped
    <3>2. clicks'[s, c].decision = "approve" /\ clicks'[s, c].state = "shownLate"
      BY <2>1, <2>5
    <3>3. Late(clicks'[s, c])
      BY <3>1, <3>2 DEF ClickState
    <3> QED BY <3>3
  <2> QED BY <2>1, <2>2, <2>3, <2>4, <2>5
<1>10. ASSUME NEW r \in Console,
              Subscribe(r) \/ Forward(r) \/ Lagged(r) \/ Show(r) \/ Explain(r),
              \A q \in Console \ {r} : page'[q] = page[q]
       PROVE  Right(s, c)'
  <2>1. CASE r # s
    BY <1>6, <1>10, <2>1
  <2>2. CASE r = s /\ (Subscribe(r) \/ Forward(r) \/ Lagged(r))
    BY <1>6, <2>2, PageMoves
  <2> QED BY <1>7, <1>8, <1>10, <2>1, <2>2
<1>11. CASE DaemonDies
  BY <1>6, <1>11, DaemonDiesEffect
<1>12. ASSUME NEW r \in Console, NEW d \in Client, Answered(r, d),
              \A q \in Console \ {r} : Quiet(q)
       PROVE  Right(s, c)'
  BY <1>6, <1>9, <1>12 DEF Quiet
<1>13. CASE \A r \in Console : Quiet(r)
  BY <1>6, <1>13 DEF Quiet
<1> QED BY <1>10, <1>11, <1>12, <1>13, PagesMove

\* A dashboard does not show an execution as allowed that is not: an "allow" in the
\* stream was true when it was emitted and stays true, and a counted approval is one.
THEOREM AllowShownIsPermitted == Spec => []AllowShownIfPermitted
<1>1. Init => AllowShownIfPermitted
  <2>1. ASSUME Init, NEW s \in Console, NEW c \in Client PROVE page[s].card[c] = "none"
    BY <2>1 DEF Init
  <2> QED BY <2>1 DEF AllowShownIfPermitted
<1>2. Typed /\ Conversation /\ Counted /\ Emitted /\ AllowShownIfPermitted /\ [Next]_vars
        => AllowShownIfPermitted'
  BY AllowShownStep
<1> QED BY <1>1, <1>2, ShownHolds, PTL DEF Spec
=============================================================================
