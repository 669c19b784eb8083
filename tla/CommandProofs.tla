---------------------------- MODULE CommandProofs ----------------------------
(***************************************************************************)
(* What a proposed command comes to, for a command of any length.          *)
(*                                                                         *)
(* A line: a part that begins outside quotes is scanned as it is in the    *)
(* line, so that the pieces of the two sides of a semicolon are the pieces *)
(* of the line, each read by itself; a sign outside quotes is in a piece   *)
(* and is taken out of it; and what is protected is neither cut nor taken  *)
(* out, so that an argument comes back as it was.                          *)
(*                                                                         *)
(* A path, in any workspace but the whole disk: it leads below the root as *)
(* long as it never climbs above it, and outside once it has, unless it    *)
(* names the root again.                                                   *)
(*                                                                         *)
(* The flags: the arguments are the words that are no flags, what raises a *)
(* declaration is what any of the words mean, and the row of the corpus    *)
(* does not depend on what stands behind its first words.                  *)
(***************************************************************************)
EXTENDS Parser, Classifier, FiniteSetTheorems, SequenceTheorems, WellFoundedInduction, TLAPS

LEMMA FirstPlace ==
  ASSUME NEW S, S \subseteq Nat, S # {}
  PROVE  \E g \in S : \A h \in S : g <= h
<1> DEFINE R == OpToRel(<, Nat)
<1>1. \A j, k \in Nat : j < k => <<j, k>> \in R
  BY DEF OpToRel
<1>2. IsWellFoundedOn(R, Nat)
  BY NatLessThanWellFounded
<1> HIDE DEF R
<1>3. PICK m \in S : \A k \in S : <<k, m>> \notin R
  BY <1>2, WFMin
<1>4. ASSUME NEW k \in S PROVE m <= k
  <2>1. m \in Nat /\ k \in Nat
    OBVIOUS
  <2>2. ~(k < m)
    BY <1>1, <1>3, <2>1, Zenon
  <2> QED BY <2>1, <2>2
<1> QED BY <1>3, <1>4

\* What holds at the beginning and is kept from one place to the next holds everywhere.
LEMMA Inductively ==
  ASSUME NEW n \in Nat, NEW P, P \subseteq 0 .. n, 0 \in P, \A k \in 1 .. n : k - 1 \in P => k \in P
  PROVE  P = 0 .. n
<1> SUFFICES ASSUME (0 .. n) \ P # {} PROVE FALSE
  OBVIOUS
<1>1. PICK k \in (0 .. n) \ P : \A h \in (0 .. n) \ P : k <= h
  <2>1. (0 .. n) \ P \subseteq Nat
    OBVIOUS
  <2> QED BY <2>1, FirstPlace
<1>2. k \in 1 .. n /\ k - 1 \in 0 .. n /\ ~(k <= k - 1)
  BY <1>1
<1>3. k - 1 \in P
  BY <1>1, <1>2
<1> QED BY <1>1, <1>2, <1>3

-----------------------------------------------------------------------------
(* A line, one character after the other *)

\* What is typed, and what a line is wrapped in.
Printable == Character \union {"a", "blank", "'", "\\"}

\* What the scanners of the parser, and Parse itself, do next.
Step(scanner, s, x, was, i) ==
  CASE scanner = "cut" -> Cut(s, x, was, i)
    [] scanner = "read" -> Read(s, x[i], was, i)
    [] scanner = "extract" -> Extract(s, x, was, i)
    [] scanner = "replace" -> Replace(s, was, i)
    [] scanner = "mode" -> After(was, s[i])
    [] scanner = "parse" -> Joined(was, ParseSegment(s[i]))

Runs(scanner, s, x, start, n, state) ==
  state = [k \in 0 .. n |-> IF k = 0 THEN start ELSE Step(scanner, s, x, state[k - 1], k)]

LEMMA RunExists ==
  ASSUME NEW scanner, NEW s, NEW x, NEW start, NEW n \in Nat
  PROVE  \E state : Runs(scanner, s, x, start, n, state)
<1> DEFINE Done == {m \in 0 .. n : \E state : Runs(scanner, s, x, start, m, state)}
<1>1. 0 \in Done
  <2>1. Runs(scanner, s, x, start, 0, [k \in 0 .. 0 |-> start])
    BY DEF Runs
  <2> QED BY <2>1
<1>2. ASSUME NEW m \in 1 .. n, m - 1 \in Done PROVE m \in Done
  <2>1. PICK state : Runs(scanner, s, x, start, m - 1, state)
    BY <1>2
  <2> DEFINE more == [k \in 0 .. m |-> IF k < m THEN state[k] ELSE Step(scanner, s, x, state[m - 1], m)]
  <2>2. \A k \in 0 .. m : more[k] = IF k = 0 THEN start ELSE Step(scanner, s, x, more[k - 1], k)
    <3> TAKE k \in 0 .. m
    <3>1. CASE k = m
      BY <3>1
    <3>2. CASE k # m
      <4>1. k \in 0 .. m - 1 /\ more[k] = state[k] /\ (k # 0 => more[k - 1] = state[k - 1])
        BY <3>2
      <4>2. state[k] = IF k = 0 THEN start ELSE Step(scanner, s, x, state[k - 1], k)
        BY <2>1, <4>1 DEF Runs
      <4> QED BY <4>1, <4>2
    <3> QED BY <3>1, <3>2
  <2>3. more = [k \in 0 .. m |-> more[k]]
    OBVIOUS
  <2> HIDE DEF more
  <2>4. Runs(scanner, s, x, start, m, more)
    BY <2>2, <2>3 DEF Runs
  <2> QED BY <2>4
<1>3. Done \subseteq 0 .. n
  OBVIOUS
<1> HIDE DEF Done
<1>4. Done = 0 .. n
  BY <1>1, <1>2, <1>3, Inductively
<1>5. n \in Done
  BY <1>4
<1> QED BY <1>5 DEF Done

\* The modes of the characters of a text.
LEMMA ModesAlong ==
  ASSUME NEW s, Len(s) \in Nat
  PROVE  /\ Modes(s)[1] = "plain"
         /\ \A i \in 1 .. Len(s) : Modes(s)[i + 1] = After(Modes(s)[i], s[i])
<1>1. PICK state : Runs("mode", s, <<>>, "plain", Len(s), state)
  BY RunExists
<1>2. state = [k \in 0 .. Len(s) |-> IF k = 0 THEN "plain" ELSE After(state[k - 1], s[k])]
  BY <1>1 DEF Runs, Step
<1> DEFINE mode == [i \in 1 .. Len(s) + 1 |-> state[i - 1]]
<1>3. \A i \in 1 .. Len(s) + 1 : mode[i] = IF i = 1 THEN "plain" ELSE After(mode[i - 1], s[i - 1])
  <2> TAKE i \in 1 .. Len(s) + 1
  <2>1. i - 1 \in 0 .. Len(s) /\ mode[i] = state[i - 1]
    OBVIOUS
  <2>2. i # 1 => mode[i - 1] = state[i - 2] /\ i - 1 \in 1 .. Len(s) /\ (i - 1) - 1 = i - 2
    OBVIOUS
  <2>3. state[i - 1] = IF i - 1 = 0 THEN "plain" ELSE After(state[(i - 1) - 1], s[i - 1])
    BY <1>2, <2>1
  <2> QED BY <2>1, <2>2, <2>3
<1>4. mode = [i \in 1 .. Len(s) + 1 |-> mode[i]]
  OBVIOUS
<1> HIDE DEF mode
<1>5. mode = [i \in 1 .. Len(s) + 1 |-> IF i = 1 THEN "plain" ELSE After(mode[i - 1], s[i - 1])]
  BY <1>3, <1>4
<1> DEFINE chosen == CHOOSE m : m = [i \in 1 .. Len(s) + 1 |-> IF i = 1 THEN "plain" ELSE After(m[i - 1], s[i - 1])]
<1>6. chosen = [i \in 1 .. Len(s) + 1 |-> IF i = 1 THEN "plain" ELSE After(chosen[i - 1], s[i - 1])]
  BY <1>5
<1>7. Modes(s) = chosen
  BY DEF Modes
<1> HIDE DEF chosen
<1>8. 1 \in 1 .. Len(s) + 1
  OBVIOUS
<1>9. \A i \in 1 .. Len(s) : i + 1 \in 1 .. Len(s) + 1 /\ i + 1 # 1 /\ (i + 1) - 1 = i
  OBVIOUS
<1> QED BY <1>6, <1>7, <1>8, <1>9

\* A part of a text that begins outside quotes is scanned by itself as it is in the text.
LEMMA ModesOfPart ==
  ASSUME NEW s \in Seq(Printable), NEW a \in 1 .. Len(s) + 1, NEW b \in a - 1 .. Len(s),
         Modes(s)[a] = "plain"
  PROVE  LET part == SubSeq(s, a, b) IN
         /\ part \in Seq(Printable) /\ Len(part) = b - a + 1
         /\ \A j \in 1 .. b - a + 1 : part[j] = s[a + j - 1]
         /\ \A j \in 1 .. b - a + 2 : Modes(part)[j] = Modes(s)[a + j - 1]
<1> DEFINE part == SubSeq(s, a, b)
<1>1. PICK n \in Nat : n = b - a + 1 /\ b = n + a - 1
  BY SMT
<1>2. part \in Seq(Printable) /\ Len(part) = n /\ \A j \in 1 .. n : part[j] = s[a + j - 1]
  BY <1>1
<1> HIDE DEF part
<1> DEFINE Same == {k \in 0 .. n : Modes(part)[k + 1] = Modes(s)[a + k]}
<1>3. 0 \in Same
  BY <1>2, ModesAlong
<1>4. ASSUME NEW k \in 1 .. n, k - 1 \in Same PROVE k \in Same
  <2>1. Modes(part)[k] = Modes(s)[a + k - 1]
    BY <1>4
  <2>2. Modes(part)[k + 1] = After(Modes(part)[k], part[k])
    BY <1>2, ModesAlong
  <2>3. a + k - 1 \in 1 .. Len(s) /\ (a + k - 1) + 1 = a + k
    BY <1>1
  <2>4. Modes(s)[a + k] = After(Modes(s)[a + k - 1], s[a + k - 1])
    BY <2>3, ModesAlong
  <2> QED BY <1>2, <2>1, <2>2, <2>4
<1>5. Same = 0 .. n
  <2>1. Same \subseteq 0 .. n
    OBVIOUS
  <2> HIDE DEF Same
  <2> QED BY <1>3, <1>4, <2>1, Inductively
<1>6. ASSUME NEW j \in 1 .. n + 1 PROVE Modes(part)[j] = Modes(s)[a + j - 1]
  <2>1. j - 1 \in 0 .. n /\ (j - 1) + 1 = j /\ a + (j - 1) = a + j - 1
    OBVIOUS
  <2>2. j - 1 \in Same
    BY <1>5, <2>1
  <2> QED BY <2>1, <2>2
<1> QED BY <1>1, <1>2, <1>6 DEF part

-----------------------------------------------------------------------------
(* A line and its pieces *)

Operators == {"sequence", "and", "none", "background", "or", "pipe"}

LEMMA OperatorFacts ==
  ASSUME NEW s, NEW i
  PROVE  /\ OperatorAt(s, i) \in Operators
         /\ OperatorAt(s, i) # "none" => s[i] \in {"semicolon", "&", "|"}
         /\ OperatorAt(s, i) # "none" => Width(OperatorAt(s, i)) \in {1, 2}
         /\ s[i] = "semicolon" => OperatorAt(s, i) = "sequence" /\ Width(OperatorAt(s, i)) = 1
         /\ OperatorAt(s, i) # "none" /\ Width(OperatorAt(s, i)) = 2 =>
              i + 1 \in DOMAIN s /\ s[i + 1] \in {"&", "|"}
<1>1. CASE s[i] = "semicolon"
  <2>1. OperatorAt(s, i) = "sequence"
    BY <1>1 DEF OperatorAt
  <2>2. "sequence" \in Operators
    BY DEF Operators
  <2>3. Width(OperatorAt(s, i)) = 1
    BY <2>1 DEF Width
  <2>4. OperatorAt(s, i) \in Operators /\ s[i] \in {"semicolon", "&", "|"} /\ Width(OperatorAt(s, i)) \in {1, 2}
    BY <1>1, <2>1, <2>2, <2>3
  <2>5. Width(OperatorAt(s, i)) # 2
    BY <2>3
  <2> QED BY <2>1, <2>3, <2>4, <2>5, Zenon
<1>2. CASE s[i] = "&"
  <2>1. OperatorAt(s, i) = IF At(s, i + 1) = "&" THEN "and" ELSE IF At(s, i + 1) = ">" THEN "none" ELSE "background"
    BY <1>2 DEF OperatorAt
  <2>2. At(s, i + 1) = "&" => i + 1 \in DOMAIN s /\ s[i + 1] = "&"
    BY DEF At
  <2> QED BY <1>2, <2>1, <2>2 DEF Operators, Width
<1>3. CASE s[i] = "|"
  <2>1. OperatorAt(s, i) = IF At(s, i + 1) = "|" THEN "or" ELSE "pipe"
    BY <1>3 DEF OperatorAt
  <2>2. At(s, i + 1) = "|" => i + 1 \in DOMAIN s /\ s[i + 1] = "|"
    BY DEF At
  <2> QED BY <1>3, <2>1, <2>2 DEF Operators, Width
<1>4. CASE s[i] \notin {"semicolon", "&", "|"}
  <2>1. OperatorAt(s, i) = "none"
    BY <1>4 DEF OperatorAt
  <2> QED BY <1>4, <2>1 DEF Operators, Width
<1> QED BY <1>1, <1>2, <1>3, <1>4

CutsAlong(s, places, cut) ==
  /\ cut[0] = [pieces |-> <<>>, next |-> 1]
  /\ \A k \in 1 .. Len(s) : cut[k] = Cut(s, places, cut[k - 1], k)

LEMMA CutRun ==
  ASSUME NEW s, NEW places, Len(s) \in Nat
  PROVE  \E cut : /\ CutsAlong(s, places, cut)
                  /\ CutAt(s, places) = Append(cut[Len(s)].pieces, Piece(s, cut[Len(s)].next, Len(s), "none"))
<1> DEFINE Is(cut) == cut = [i \in 0 .. Len(s) |->
                        IF i = 0 THEN [pieces |-> <<>>, next |-> 1] ELSE Cut(s, places, cut[i - 1], i)]
           made == CHOOSE cut : Is(cut)
<1>1. PICK state : Runs("cut", s, places, [pieces |-> <<>>, next |-> 1], Len(s), state)
  BY RunExists
<1>2. Is(state)
  BY <1>1 DEF Runs, Step
<1>3. Is(made)
  BY <1>2
<1>4. CutsAlong(s, places, made)
  <2> HIDE DEF made
  <2>1. 0 \in 0 .. Len(s) /\ \A k \in 1 .. Len(s) : k \in 0 .. Len(s) /\ k # 0
    OBVIOUS
  <2>2. made[0] = [pieces |-> <<>>, next |-> 1]
    BY <1>3, <2>1
  <2>3. ASSUME NEW k \in 1 .. Len(s) PROVE made[k] = Cut(s, places, made[k - 1], k)
    BY <1>3, <2>1
  <2> QED BY <2>2, <2>3 DEF CutsAlong
<1>5. CutAt(s, places) = Append(made[Len(s)].pieces, Piece(s, made[Len(s)].next, Len(s), "none"))
  BY DEF CutAt
<1> QED BY <1>4, <1>5

\* A piece is a part of the line that begins outside quotes.
IsPiece(s, piece) ==
  \E a \in 1 .. Len(s) + 1, b \in 0 .. Len(s), operator \in Operators :
    a <= b + 1 /\ Modes(s)[a] = "plain" /\ piece = Piece(s, a, b, operator)
AnyPiece == [text : Seq(Printable), operator : Operators]

LEMMA PieceType ==
  ASSUME NEW s \in Seq(Printable), NEW a \in 1 .. Len(s) + 1, NEW b \in 0 .. Len(s), NEW operator \in Operators
  PROVE  Piece(s, a, b, operator) \in AnyPiece
<1>1. SubSeq(s, a, b) \in Seq(Printable)
  OBVIOUS
<1> QED BY <1>1 DEF Piece, AnyPiece

\* Where the next piece begins, and what was cut off.
Cutting(s, was, k) ==
  /\ was.next \in 1 .. Len(s) + 1 /\ was.next <= k + 2
  /\ was.next = k + 2 => k + 1 <= Len(s) /\ s[k + 1] \in {"&", "|"}
  /\ Modes(s)[was.next] = "plain"
  /\ was.pieces \in Seq(AnyPiece)
  /\ \A m \in DOMAIN was.pieces : IsPiece(s, was.pieces[m])

\* Behind an operator outside quotes nothing is quoted.
LEMMA PlainAfterOperator ==
  ASSUME NEW s, Len(s) \in Nat, NEW i \in 1 .. Len(s), Modes(s)[i] = "plain", s[i] \in {"semicolon", "&", "|"}
  PROVE  Modes(s)[i + 1] = "plain"
<1>1. Modes(s)[i + 1] = After("plain", s[i])
  BY ModesAlong
<1>2. After("plain", s[i]) = "plain"
  BY DEF After
<1> QED BY <1>1, <1>2

LEMMA CutKeeps ==
  ASSUME NEW s \in Seq(Printable), NEW k \in 1 .. Len(s), NEW was, Cutting(s, was, k - 1)
  PROVE  Cutting(s, Cut(s, Bare(s), was, k), k)
<1>1. PICK n \in Nat, next \in Nat : n = Len(s) /\ next = was.next /\ DOMAIN s = 1 .. n /\ k \in 1 .. n
  BY DEF Cutting
<1>2. next >= 1 /\ next <= n + 1 /\ next <= k + 1
  BY <1>1 DEF Cutting
<1>3. CASE k < next \/ k \notin Bare(s) \/ OperatorAt(s, k) = "none"
  <2>1. Cut(s, Bare(s), was, k) = was
    BY <1>1, <1>3 DEF Cut
  <2>2. next <= k + 2 /\ next # k + 2
    BY <1>1, <1>2
  <2> QED BY <1>1, <2>1, <2>2 DEF Cutting
<1>4. CASE ~(k < next) /\ k \in Bare(s) /\ OperatorAt(s, k) # "none"
  <2> DEFINE piece == Piece(s, next, k - 1, OperatorAt(s, k))
             then == Cut(s, Bare(s), was, k)
  <2>1. then = [pieces |-> Append(was.pieces, piece), next |-> k + Width(OperatorAt(s, k))]
    BY <1>1, <1>4 DEF Cut
  <2>2. then.pieces = Append(was.pieces, piece) /\ then.next = k + Width(OperatorAt(s, k))
    BY <2>1
  <2>3. Modes(s)[k] = "plain" /\ s[k] \in {"semicolon", "&", "|"}
    BY <1>4, OperatorFacts DEF Bare
  <2>4. Modes(s)[k + 1] = "plain"
    BY <1>1, <2>3, PlainAfterOperator
  <2>5. Width(OperatorAt(s, k)) = 2 =>
          k + 1 <= n /\ s[k + 1] \in {"&", "|"} /\ Modes(s)[k + 2] = "plain"
    <3> SUFFICES ASSUME Width(OperatorAt(s, k)) = 2
                 PROVE  k + 1 <= n /\ s[k + 1] \in {"&", "|"} /\ Modes(s)[k + 2] = "plain"
      OBVIOUS
    <3>1. k + 1 \in 1 .. n /\ s[k + 1] \in {"&", "|"}
      BY <1>1, <1>4, OperatorFacts
    <3>2. Modes(s)[(k + 1) + 1] = "plain"
      BY <1>1, <2>4, <3>1, PlainAfterOperator
    <3>3. (k + 1) + 1 = k + 2
      BY <1>1
    <3> QED BY <1>1, <3>1, <3>2, <3>3
  <2>6. /\ then.next \in 1 .. n + 1 /\ then.next <= k + 2 /\ Modes(s)[then.next] = "plain"
        /\ then.next = k + 2 => k + 1 <= n /\ s[k + 1] \in {"&", "|"}
    <3>1. CASE Width(OperatorAt(s, k)) = 1
      BY <1>1, <2>2, <2>4, <3>1
    <3>2. CASE Width(OperatorAt(s, k)) = 2
      BY <1>1, <2>2, <2>5, <3>2
    <3> QED BY <1>4, <3>1, <3>2, OperatorFacts
  <2>7. next \in 1 .. n + 1 /\ k - 1 \in 0 .. n /\ next <= (k - 1) + 1 /\ OperatorAt(s, k) \in Operators
    <3>1. next <= k /\ k <= n /\ k >= 1
      BY <1>1, <1>4
    <3>2. next \in 1 .. n + 1 /\ k - 1 \in 0 .. n /\ next <= (k - 1) + 1
      BY <1>1, <1>2, <3>1
    <3> QED BY <3>2, OperatorFacts
  <2>8. piece \in AnyPiece
    BY <1>1, <2>7, PieceType
  <2>9. IsPiece(s, piece)
    BY <1>1, <2>7 DEF IsPiece, Cutting
  <2> HIDE DEF piece, then
  <2>10. was.pieces \in Seq(AnyPiece) /\ \A m \in DOMAIN was.pieces : IsPiece(s, was.pieces[m])
    BY DEF Cutting
  <2>11. then.pieces \in Seq(AnyPiece) /\ \A m \in DOMAIN then.pieces : IsPiece(s, then.pieces[m])
    BY <2>2, <2>8, <2>9, <2>10
  <2> QED BY <1>1, <2>6, <2>11 DEF Cutting, then
<1> QED BY <1>3, <1>4

LEMMA CuttingAlong ==
  ASSUME NEW s \in Seq(Printable), NEW cut, CutsAlong(s, Bare(s), cut)
  PROVE  \A k \in 0 .. Len(s) : Cutting(s, cut[k], k)
<1> DEFINE Held == {k \in 0 .. Len(s) : Cutting(s, cut[k], k)}
<1>1. Len(s) \in Nat /\ Held \subseteq 0 .. Len(s)
  OBVIOUS
<1>2. 0 \in Held
  <2>1. cut[0].pieces = <<>> /\ cut[0].next = 1
    BY DEF CutsAlong
  <2>2. Modes(s)[1] = "plain" /\ 1 \in 1 .. Len(s) + 1 /\ 1 <= 0 + 2 /\ 1 # 0 + 2
    BY ModesAlong
  <2>3. <<>> \in Seq(AnyPiece) /\ DOMAIN <<>> = {}
    OBVIOUS
  <2>4. Cutting(s, cut[0], 0)
    BY <2>1, <2>2, <2>3 DEF Cutting
  <2> QED BY <1>1, <2>4
<1>3. ASSUME NEW k \in 1 .. Len(s), k - 1 \in Held PROVE k \in Held
  BY <1>3, CutKeeps DEF CutsAlong
<1> HIDE DEF Held
<1>4. Held = 0 .. Len(s)
  BY <1>1, <1>2, <1>3, Inductively
<1> QED BY <1>4 DEF Held

LEMMA SplitIsPieces ==
  ASSUME NEW s \in Seq(Printable)
  PROVE  /\ SplitTopLevel(s) \in Seq(AnyPiece) /\ Len(SplitTopLevel(s)) > 0
         /\ \A m \in DOMAIN SplitTopLevel(s) : IsPiece(s, SplitTopLevel(s)[m])
<1>1. PICK n \in Nat : n = Len(s) /\ n \in 0 .. Len(s)
  OBVIOUS
<1>2. PICK cut : /\ CutsAlong(s, Bare(s), cut)
                 /\ SplitTopLevel(s) = Append(cut[n].pieces, Piece(s, cut[n].next, n, "none"))
  BY <1>1, CutRun DEF SplitTopLevel
<1>3. Cutting(s, cut[n], n)
  BY <1>1, <1>2, CuttingAlong
<1>4. cut[n].pieces \in Seq(AnyPiece) /\ \A m \in DOMAIN cut[n].pieces : IsPiece(s, cut[n].pieces[m])
  BY <1>3 DEF Cutting
<1> DEFINE last == Piece(s, cut[n].next, n, "none")
<1>5. cut[n].next \in 1 .. Len(s) + 1 /\ cut[n].next <= n + 1 /\ n \in 0 .. Len(s) /\ Modes(s)[cut[n].next] = "plain"
  BY <1>1, <1>3 DEF Cutting
<1>6. "none" \in Operators
  BY DEF Operators
<1>7. last \in AnyPiece
  BY <1>5, <1>6, PieceType
<1>8. IsPiece(s, last)
  BY <1>5, <1>6 DEF IsPiece
<1> HIDE DEF last
<1>9. SplitTopLevel(s) = Append(cut[n].pieces, last)
  BY <1>2 DEF last
<1> QED BY <1>4, <1>7, <1>8, <1>9

-----------------------------------------------------------------------------
(* The two sides of a semicolon *)

LEMMA OperatorByNext ==
  ASSUME NEW s, NEW i, NEW t, NEW j, s[i] = t[j],
         \/ At(s, i + 1) = At(t, j + 1)
         \/ At(s, i + 1) \in {"end", "semicolon"} /\ At(t, j + 1) \in {"end", "semicolon"}
  PROVE  OperatorAt(s, i) = OperatorAt(t, j)
<1> DEFINE x == At(s, i + 1)
           y == At(t, j + 1)
<1>1. (x = "&" <=> y = "&") /\ (x = ">" <=> y = ">") /\ (x = "|" <=> y = "|")
  OBVIOUS
<1> HIDE DEF x, y
<1> QED BY <1>1 DEF OperatorAt, x, y

\* Left of the semicolon the scanner sees what it sees in the left side alone.
LEMMA LeftSide ==
  ASSUME NEW s \in Seq(Printable), NEW c \in 1 .. Len(s), c \in Bare(s), s[c] = "semicolon"
  PROVE  LET left == SubSeq(s, 1, c - 1) IN
         /\ left \in Seq(Printable) /\ c \in 1 .. Len(s) /\ Len(left) = c - 1
         /\ \A j \in 1 .. c - 1 : left[j] = s[j]
         /\ \A j \in 1 .. c : Modes(left)[j] = Modes(s)[j]
         /\ \A j \in 1 .. c - 1 : (j \in Bare(left) <=> j \in Bare(s)) /\ OperatorAt(left, j) = OperatorAt(s, j)
<1> DEFINE left == SubSeq(s, 1, c - 1)
<1>1. PICK n \in Nat : n = Len(s) /\ DOMAIN s = 1 .. n /\ c \in 1 .. n
  BY DEF Bare
<1>2. 1 \in 1 .. Len(s) + 1 /\ c - 1 \in 1 - 1 .. Len(s) /\ Modes(s)[1] = "plain"
  BY <1>1, ModesAlong
<1>3. /\ left \in Seq(Printable) /\ Len(left) = (c - 1) - 1 + 1
      /\ \A j \in 1 .. (c - 1) - 1 + 1 : left[j] = s[1 + j - 1]
      /\ \A j \in 1 .. (c - 1) - 1 + 2 : Modes(left)[j] = Modes(s)[1 + j - 1]
  BY <1>2, ModesOfPart
<1> HIDE DEF left
<1>4. (c - 1) - 1 + 1 = c - 1 /\ (c - 1) - 1 + 2 = c /\ \A j \in 1 .. c : 1 + j - 1 = j
  BY <1>1
<1>5. left \in Seq(Printable) /\ Len(left) = c - 1 /\ DOMAIN left = 1 .. c - 1
  BY <1>3, <1>4
<1>6. (\A j \in 1 .. c - 1 : left[j] = s[j]) /\ (\A j \in 1 .. c : Modes(left)[j] = Modes(s)[j])
  BY <1>1, <1>3, <1>4
<1>7. ASSUME NEW j \in 1 .. c - 1
      PROVE  (j \in Bare(left) <=> j \in Bare(s)) /\ OperatorAt(left, j) = OperatorAt(s, j)
  <2>1. j \in 1 .. c /\ j \in DOMAIN left /\ j \in DOMAIN s
    BY <1>1, <1>5
  <2>2. j \in Bare(left) <=> j \in Bare(s)
    BY <1>6, <2>1 DEF Bare
  <2>3. CASE j = c - 1
    <3>1. j + 1 = c /\ c \notin DOMAIN left
      BY <1>1, <1>5, <2>3
    <3>2. At(left, j + 1) = "end" /\ At(s, j + 1) = "semicolon"
      BY <1>1, <3>1 DEF At
    <3> QED BY <1>6, <2>2, <3>2, OperatorByNext
  <2>4. CASE j # c - 1
    <3>1. j + 1 \in 1 .. c - 1 /\ j + 1 \in DOMAIN s
      BY <1>1, <2>4
    <3>2. At(left, j + 1) = At(s, j + 1)
      BY <1>5, <1>6, <3>1 DEF At
    <3> QED BY <1>6, <2>2, <3>2, OperatorByNext
  <2> QED BY <2>3, <2>4
<1> QED BY <1>1, <1>5, <1>6, <1>7 DEF left

\* And right of it what it sees in the right side alone.
LEMMA RightSide ==
  ASSUME NEW s \in Seq(Printable), NEW c \in 1 .. Len(s), c \in Bare(s), s[c] = "semicolon"
  PROVE  LET right == SubSeq(s, c + 1, Len(s)) m == Len(s) - c IN
         /\ right \in Seq(Printable) /\ m \in Nat /\ Len(right) = m
         /\ \A j \in 1 .. m : right[j] = s[c + j]
         /\ \A j \in 1 .. m + 1 : Modes(right)[j] = Modes(s)[c + j]
         /\ \A j \in 1 .. m : (j \in Bare(right) <=> c + j \in Bare(s)) /\ OperatorAt(right, j) = OperatorAt(s, c + j)
<1> DEFINE right == SubSeq(s, c + 1, Len(s))
<1>1. PICK n \in Nat : n = Len(s) /\ DOMAIN s = 1 .. n /\ c \in 1 .. n
  BY DEF Bare
<1>2. PICK m \in Nat : m = n - c /\ n = c + m
  <2>1. n - c \in Nat /\ n = c + (n - c)
    BY <1>1
  <2> QED BY <2>1
<1>3. Modes(s)[c + 1] = "plain"
  BY <1>1, PlainAfterOperator DEF Bare
<1>4. c + 1 \in 1 .. Len(s) + 1 /\ Len(s) \in (c + 1) - 1 .. Len(s)
  BY <1>1
<1>5. /\ right \in Seq(Printable) /\ Len(right) = Len(s) - (c + 1) + 1
      /\ \A j \in 1 .. Len(s) - (c + 1) + 1 : right[j] = s[(c + 1) + j - 1]
      /\ \A j \in 1 .. Len(s) - (c + 1) + 2 : Modes(right)[j] = Modes(s)[(c + 1) + j - 1]
  BY <1>3, <1>4, ModesOfPart
<1> HIDE DEF right
<1>6. Len(s) - (c + 1) + 1 = m /\ Len(s) - (c + 1) + 2 = m + 1 /\ \A j \in 1 .. m + 1 : (c + 1) + j - 1 = c + j
  BY <1>1, <1>2
<1>7. right \in Seq(Printable) /\ Len(right) = m /\ DOMAIN right = 1 .. m
  <2>1. right \in Seq(Printable) /\ Len(right) = m
    BY <1>5, <1>6
  <2> QED BY <2>1
<1>8. (\A j \in 1 .. m : right[j] = s[c + j]) /\ (\A j \in 1 .. m + 1 : Modes(right)[j] = Modes(s)[c + j])
  <2>1. \A j \in 1 .. m + 1 : Modes(right)[j] = Modes(s)[c + j]
    BY <1>5, <1>6
  <2>2. ASSUME NEW j \in 1 .. m PROVE right[j] = s[c + j]
    <3>1. j \in 1 .. m + 1 /\ j \in 1 .. Len(s) - (c + 1) + 1
      BY <1>2, <1>6
    <3> QED BY <1>5, <1>6, <3>1
  <2> QED BY <2>1, <2>2
<1>9. ASSUME NEW j \in 1 .. m
      PROVE  (j \in Bare(right) <=> c + j \in Bare(s)) /\ OperatorAt(right, j) = OperatorAt(s, c + j)
  <2>1. j \in 1 .. m + 1 /\ j \in DOMAIN right /\ c + j \in DOMAIN s
    BY <1>1, <1>2, <1>7
  <2>2. j \in Bare(right) <=> c + j \in Bare(s)
    BY <1>8, <2>1 DEF Bare
  <2>3. (c + j) + 1 = c + (j + 1)
    BY <1>1
  <2>4. j + 1 \in DOMAIN right <=> c + (j + 1) \in DOMAIN s
    BY <1>1, <1>2, <1>7
  <2>5. j + 1 \in DOMAIN right => right[j + 1] = s[c + (j + 1)]
    BY <1>7, <1>8
  <2>6. At(right, j + 1) = At(s, (c + j) + 1)
    BY <2>3, <2>4, <2>5 DEF At
  <2> QED BY <1>8, <2>2, <2>6, OperatorByNext
<1> QED BY <1>1, <1>2, <1>7, <1>8, <1>9 DEF right

LEMMA AppendBehind ==
  ASSUME NEW front \in Seq(AnyPiece), NEW back \in Seq(AnyPiece), NEW x \in AnyPiece
  PROVE  Append(front \o back, x) = front \o Append(back, x)
<1>1. Append(front \o back, x) = (front \o back) \o <<x>> /\ Append(back, x) = back \o <<x>>
  <2>1. front \o back \in Seq(AnyPiece)
    BY ConcatProperties
  <2> QED BY <2>1, AppendIsConcat
<1>2. <<x>> \in Seq(AnyPiece)
  OBVIOUS
<1> QED BY <1>1, <1>2, ConcatAssociative

\* The same part is cut out of a side as of the line.
Behind(side, s, c) ==
  /\ side \in Seq(Printable) /\ s \in Seq(Printable) /\ c \in Nat
  /\ c + Len(side) <= Len(s) /\ \A j \in 1 .. Len(side) : side[j] = s[c + j]

LEMMA SamePiece ==
  ASSUME NEW s, NEW side, NEW c, Behind(side, s, c),
         NEW a \in Nat, NEW b \in Nat, 1 <= a, b <= Len(side), NEW operator
  PROVE  Piece(side, a, b, operator) = Piece(s, c + a, c + b, operator)
<1> USE DEF Behind
<1>1. SubSeq(side, a, b) = [i \in 1 .. (1 + b - a) |-> side[i + a - 1]]
  OBVIOUS
<1>2. SubSeq(s, c + a, c + b) = [i \in 1 .. (1 + (c + b) - (c + a)) |-> s[i + (c + a) - 1]]
  OBVIOUS
<1>3. 1 + (c + b) - (c + a) = 1 + b - a
  OBVIOUS
<1>4. ASSUME NEW i \in 1 .. (1 + b - a) PROVE side[i + a - 1] = s[i + (c + a) - 1]
  <2>1. i + a - 1 \in 1 .. Len(side) /\ c + (i + a - 1) = i + (c + a) - 1
    OBVIOUS
  <2> QED BY <2>1
<1>5. SubSeq(side, a, b) = SubSeq(s, c + a, c + b)
  BY <1>1, <1>2, <1>3, <1>4
<1> QED BY <1>5 DEF Piece

LEMMA SameFront ==
  ASSUME NEW s \in Seq(Printable), NEW side \in Seq(Printable),
         \A j \in 1 .. Len(side) : side[j] = s[j],
         NEW a \in Nat, NEW b \in Nat, 1 <= a, b <= Len(side), NEW operator
  PROVE  Piece(side, a, b, operator) = Piece(s, a, b, operator)
<1>1. SubSeq(side, a, b) = [i \in 1 .. (1 + b - a) |-> side[i + a - 1]]
  OBVIOUS
<1>2. SubSeq(s, a, b) = [i \in 1 .. (1 + b - a) |-> s[i + a - 1]]
  OBVIOUS
<1>3. ASSUME NEW i \in 1 .. (1 + b - a) PROVE side[i + a - 1] = s[i + a - 1]
  <2>1. i + a - 1 \in 1 .. Len(side)
    OBVIOUS
  <2> QED BY <2>1
<1>4. SubSeq(side, a, b) = SubSeq(s, a, b)
  BY <1>1, <1>2, <1>3
<1> QED BY <1>4 DEF Piece

LEMMA FrontStep ==
  ASSUME NEW s \in Seq(Printable), NEW left \in Seq(Printable),
         \A j \in 1 .. Len(left) : left[j] = s[j],
         NEW k \in 1 .. Len(left), NEW was, Cutting(s, was, k - 1),
         k \in Bare(left) <=> k \in Bare(s), OperatorAt(left, k) = OperatorAt(s, k)
  PROVE  Cut(left, Bare(left), was, k) = Cut(s, Bare(s), was, k)
<1>1. PICK next \in Nat : next = was.next /\ 1 <= next
  BY DEF Cutting
<1>2. PICK m \in Nat : m = k - 1 /\ m <= Len(left)
  OBVIOUS
<1>3. Piece(left, next, m, OperatorAt(s, k)) = Piece(s, next, m, OperatorAt(s, k))
  BY <1>1, <1>2, SameFront
<1> QED BY <1>1, <1>2, <1>3 DEF Cut

\* The two sides of a semicolon at c.
First(left, s, c) ==
  /\ left \in Seq(Printable) /\ s \in Seq(Printable) /\ c \in 1 .. Len(s) /\ Len(left) = c - 1
  /\ \A j \in 1 .. Len(left) : left[j] = s[j]
  /\ \A j \in 1 .. c - 1 : (j \in Bare(left) <=> j \in Bare(s)) /\ OperatorAt(left, j) = OperatorAt(s, j)
Second(right, s, c) ==
  /\ Behind(right, s, c) /\ c + Len(right) = Len(s) /\ c > 0
  /\ \A j \in 1 .. Len(right) :
       (j \in Bare(right) <=> c + j \in Bare(s)) /\ OperatorAt(right, j) = OperatorAt(s, c + j)

\* Up to the semicolon the line is cut as its left side is, at the semicolon once more,
\* and behind it as its right side is.
LEMMA LeftCut ==
  ASSUME NEW s, NEW left, NEW c, First(left, s, c),
         NEW cut, CutsAlong(s, Bare(s), cut), NEW cutLeft, CutsAlong(left, Bare(left), cutLeft)
  PROVE  \A k \in 0 .. c - 1 : cutLeft[k] = cut[k]
<1> USE DEF First
<1>1. PICK n \in Nat : n = Len(s) /\ c \in 1 .. n /\ c - 1 \in Nat /\ c - 1 <= n
  BY SMT
<1> DEFINE Same == {k \in 0 .. c - 1 : cutLeft[k] = cut[k]}
<1>4. 0 \in Same
  BY <1>1 DEF CutsAlong
<1>5. ASSUME NEW k \in 1 .. c - 1, k - 1 \in Same PROVE k \in Same
  <2>1. k \in 1 .. n /\ k \in 1 .. Len(left) /\ k - 1 \in 0 .. Len(s)
    BY <1>1
  <2>2. cut[k] = Cut(s, Bare(s), cut[k - 1], k) /\ cutLeft[k] = Cut(left, Bare(left), cut[k - 1], k)
    BY <1>1, <1>5, <2>1 DEF CutsAlong
  <2>3. Cutting(s, cut[k - 1], k - 1)
    BY <2>1, CuttingAlong
  <2> HIDE DEF Same
  <2>4. (k \in Bare(left) <=> k \in Bare(s)) /\ OperatorAt(left, k) = OperatorAt(s, k)
    OBVIOUS
  <2>5. Cut(left, Bare(left), cut[k - 1], k) = Cut(s, Bare(s), cut[k - 1], k)
    BY <2>1, <2>3, <2>4, FrontStep
  <2> QED BY <2>2, <2>5 DEF Same
<1>6. Same = 0 .. c - 1
  <2>1. Same \subseteq 0 .. c - 1 /\ c - 1 \in Nat
    BY <1>1
  <2> HIDE DEF Same
  <2> QED BY <1>4, <1>5, <2>1, Inductively
<1> QED BY <1>6

LEMMA CutAtSemicolon ==
  ASSUME NEW s \in Seq(Printable), NEW c \in 1 .. Len(s), c \in Bare(s), s[c] = "semicolon",
         NEW cut, CutsAlong(s, Bare(s), cut)
  PROVE  /\ cut[c].pieces = Append(cut[c - 1].pieces, Piece(s, cut[c - 1].next, c - 1, "sequence"))
         /\ cut[c].next = c + 1
<1>1. c - 1 \in 0 .. Len(s) /\ cut[c] = Cut(s, Bare(s), cut[c - 1], c)
  BY DEF CutsAlong
<1>2. Cutting(s, cut[c - 1], c - 1)
  BY <1>1, CuttingAlong
<1>3. OperatorAt(s, c) = "sequence" /\ Width(OperatorAt(s, c)) = 1
  BY OperatorFacts
<1>4. ~(c < cut[c - 1].next)
  <2>1. PICK next \in Nat : next = cut[c - 1].next /\ next <= (c - 1) + 2
    BY <1>2 DEF Cutting
  <2>2. next # (c - 1) + 2
    <3>1. (c - 1) + 1 = c
      OBVIOUS
    <3>2. s[c] \notin {"&", "|"}
      OBVIOUS
    <3> QED BY <1>2, <2>1, <3>1, <3>2 DEF Cutting
  <2> QED BY <2>1, <2>2
<1>5. cut[c] = [pieces |-> Append(cut[c - 1].pieces, Piece(s, cut[c - 1].next, c - 1, "sequence")), next |-> c + 1]
  BY <1>1, <1>3, <1>4 DEF Cut
<1> QED BY <1>5

\* The line is cut as the right side is, behind what was cut off before.
Joins(front, was, c, behind) == behind.pieces = front \o was.pieces /\ behind.next = c + was.next

LEMMA BackStep ==
  ASSUME NEW s, NEW right, NEW c, Behind(right, s, c),
         NEW k \in 1 .. Len(right), NEW was, Cutting(right, was, k - 1),
         k \in Bare(right) <=> c + k \in Bare(s), OperatorAt(right, k) = OperatorAt(s, c + k),
         NEW front \in Seq(AnyPiece), NEW behind, Joins(front, was, c, behind)
  PROVE  Joins(front, Cut(right, Bare(right), was, k), c, Cut(s, Bare(s), behind, c + k))
<1> USE DEF Joins
<1> DEFINE now == Cut(right, Bare(right), was, k)
           line == Cut(s, Bare(s), behind, c + k)
           operator == OperatorAt(s, c + k)
<1>1. PICK next \in Nat : next = was.next /\ 1 <= next /\ next <= Len(right) + 1
  BY DEF Cutting, Behind
<1>2. PICK m \in Nat : m = k - 1 /\ m <= Len(right)
  BY DEF Behind
<1>3. was.pieces \in Seq(AnyPiece)
  BY DEF Cutting
<1>4. c + k < behind.next <=> k < was.next
  BY <1>1 DEF Behind
<1>5. CASE k < was.next \/ k \notin Bare(right) \/ operator = "none"
  <2>1. now = was /\ line = behind
    BY <1>4, <1>5 DEF Cut
  <2> QED BY <2>1
<1>6. CASE ~(k < was.next) /\ k \in Bare(right) /\ operator # "none"
  <2> DEFINE piece == Piece(right, next, m, operator)
  <2>1. now = [pieces |-> Append(was.pieces, piece), next |-> k + Width(operator)]
    BY <1>1, <1>2, <1>6 DEF Cut
  <2>2. line = [pieces |-> Append(behind.pieces, Piece(s, c + next, (c + k) - 1, operator)), next |-> (c + k) + Width(operator)]
    BY <1>1, <1>4, <1>6 DEF Cut
  <2>3. (c + k) - 1 = c + m
    BY <1>2 DEF Behind
  <2>4. piece = Piece(s, c + next, c + m, operator)
    <3> HIDE DEF operator, now, line
    <3>1. Piece(right, next, m, operator) = Piece(s, c + next, c + m, operator)
      BY <1>1, <1>2, SamePiece
    <3> QED BY <3>1
  <2>5. piece \in AnyPiece
    <3>1. next \in 1 .. Len(right) + 1 /\ m \in 0 .. Len(right) /\ operator \in Operators
      BY <1>1, <1>2, OperatorFacts
    <3> QED BY <3>1, PieceType DEF Behind
  <2>6. (c + k) + Width(operator) = c + (k + Width(operator))
    <3>1. Width(operator) \in {1, 2}
      BY <1>6, OperatorFacts
    <3> QED BY <3>1 DEF Behind
  <2> HIDE DEF piece, operator, now, line
  <2>7. Append(front \o was.pieces, piece) = front \o Append(was.pieces, piece)
    <3>1. PICK cutOff \in Seq(AnyPiece) : cutOff = was.pieces
      BY <1>3
    <3>2. Append(front \o cutOff, piece) = front \o Append(cutOff, piece)
      BY <2>5, AppendBehind
    <3> QED BY <3>1, <3>2
  <2>8. line.pieces = front \o now.pieces /\ line.next = c + now.next
    BY <2>1, <2>2, <2>3, <2>4, <2>6, <2>7
  <2> QED BY <2>8 DEF now, line
<1> QED BY <1>5, <1>6

LEMMA RightCut ==
  ASSUME NEW s, NEW right, NEW c, Second(right, s, c),
         NEW cut, CutsAlong(s, Bare(s), cut), NEW front \in Seq(AnyPiece), cut[c].pieces = front, cut[c].next = c + 1,
         NEW cutRight, CutsAlong(right, Bare(right), cutRight)
  PROVE  \A k \in 0 .. Len(right) : Joins(front, cutRight[k], c, cut[c + k])
<1>1. PICK n \in Nat : n = Len(right) /\ right \in Seq(Printable) /\ s \in Seq(Printable) /\ c \in Nat
  BY DEF Second, Behind
<1> DEFINE Same == {k \in 0 .. n : Joins(front, cutRight[k], c, cut[c + k])}
<1>2. 0 \in Same
  <2>1. cutRight[0].pieces = <<>> /\ cutRight[0].next = 1 /\ c + 0 = c
    BY <1>1 DEF CutsAlong
  <2>2. front \o <<>> = front
    BY ConcatEmptySeq
  <2>3. Joins(front, cutRight[0], c, cut[c + 0])
    BY <1>1, <2>1, <2>2 DEF Joins
  <2> QED BY <1>1, <2>3
<1>3. ASSUME NEW k \in 1 .. n, k - 1 \in Same PROVE k \in Same
  <2>1. k \in 1 .. Len(right) /\ k - 1 \in 0 .. Len(right) /\ c + k \in 1 .. Len(s) /\ (c + k) - 1 = c + (k - 1)
    BY <1>1 DEF Second
  <2>2. PICK was, behind : was = cutRight[k - 1] /\ behind = cut[c + (k - 1)]
    OBVIOUS
  <2>3. cutRight[k] = Cut(right, Bare(right), was, k)
    BY <2>1, <2>2 DEF CutsAlong
  <2>4. cut[c + k] = Cut(s, Bare(s), behind, c + k)
    BY <2>1, <2>2 DEF CutsAlong
  <2>5. Cutting(right, was, k - 1)
    BY <1>1, <2>1, <2>2, CuttingAlong
  <2>6. Joins(front, was, c, behind)
    BY <1>3, <2>2
  <2>7. (k \in Bare(right) <=> c + k \in Bare(s)) /\ OperatorAt(right, k) = OperatorAt(s, c + k) /\ Behind(right, s, c)
    BY <2>1 DEF Second
  <2> HIDE DEF Same
  <2>8. Joins(front, Cut(right, Bare(right), was, k), c, Cut(s, Bare(s), behind, c + k))
    BY <2>1, <2>5, <2>6, <2>7, BackStep
  <2>9. Joins(front, cutRight[k], c, cut[c + k])
    BY <2>3, <2>4, <2>8
  <2>10. k \in 0 .. n
    OBVIOUS
  <2> QED BY <2>9, <2>10 DEF Same
<1>4. Same = 0 .. n
  <2>1. Same \subseteq 0 .. n
    OBVIOUS
  <2> HIDE DEF Same
  <2> QED BY <1>1, <1>2, <1>3, <2>1, Inductively
<1> QED BY <1>1, <1>4

SplitBetween(left, right, s, front, piece) ==
  /\ front \in Seq(AnyPiece) /\ piece \in Seq(Printable)
  /\ SplitTopLevel(left) = Append(front, [text |-> piece, operator |-> "none"])
  /\ SplitTopLevel(s) = Append(front, [text |-> piece, operator |-> "sequence"]) \o SplitTopLevel(right)

LEMMA SplitComposes ==
  ASSUME NEW s \in Seq(Printable), NEW c \in 1 .. Len(s), c \in Bare(s), s[c] = "semicolon"
  PROVE  \E front, piece : SplitBetween(SubSeq(s, 1, c - 1), SubSeq(s, c + 1, Len(s)), s, front, piece)
<1>1. PICK left, right : left = SubSeq(s, 1, c - 1) /\ right = SubSeq(s, c + 1, Len(s))
  OBVIOUS
<1>2. /\ left \in Seq(Printable) /\ Len(left) = c - 1 /\ \A j \in 1 .. Len(left) : left[j] = s[j]
      /\ \A j \in 1 .. c - 1 : (j \in Bare(left) <=> j \in Bare(s)) /\ OperatorAt(left, j) = OperatorAt(s, j)
  BY <1>1, LeftSide
<1>3. /\ right \in Seq(Printable) /\ Len(right) = Len(s) - c /\ \A j \in 1 .. Len(right) : right[j] = s[c + j]
      /\ \A j \in 1 .. Len(right) :
           (j \in Bare(right) <=> c + j \in Bare(s)) /\ OperatorAt(right, j) = OperatorAt(s, c + j)
  BY <1>1, RightSide
<1>4. PICK n \in Nat, m \in Nat : n = Len(s) /\ m = Len(right) /\ c \in 1 .. n /\ n = c + m /\ c - 1 \in Nat /\ c - 1 <= n
  BY <1>3, SMT
<1>5. First(left, s, c) /\ Behind(right, s, c) /\ Second(right, s, c)
  BY <1>2, <1>3, <1>4 DEF First, Second, Behind
<1>6. PICK cut : /\ CutsAlong(s, Bare(s), cut)
                 /\ SplitTopLevel(s) = Append(cut[n].pieces, Piece(s, cut[n].next, n, "none"))
  BY <1>4, CutRun DEF SplitTopLevel
<1>7. PICK cutLeft : /\ CutsAlong(left, Bare(left), cutLeft)
                     /\ SplitTopLevel(left) = Append(cutLeft[c - 1].pieces, Piece(left, cutLeft[c - 1].next, c - 1, "none"))
  BY <1>2, <1>4, CutRun DEF SplitTopLevel
<1>8. PICK cutRight : /\ CutsAlong(right, Bare(right), cutRight)
                      /\ SplitTopLevel(right) = Append(cutRight[m].pieces, Piece(right, cutRight[m].next, m, "none"))
  BY <1>4, CutRun DEF SplitTopLevel
<1>9. cutLeft[c - 1] = cut[c - 1]
  <2>1. c - 1 \in 0 .. c - 1
    BY <1>4
  <2> QED BY <1>5, <1>6, <1>7, <2>1, LeftCut
<1>10. Cutting(s, cut[c - 1], c - 1) /\ Cutting(s, cut[c], c) /\ Cutting(right, cutRight[m], m)
  BY <1>3, <1>4, <1>6, <1>8, CuttingAlong
<1>11. /\ cut[c].pieces = Append(cut[c - 1].pieces, Piece(s, cut[c - 1].next, c - 1, "sequence"))
       /\ cut[c].next = c + 1
  BY <1>6, CutAtSemicolon
<1>12. cut[n].pieces = cut[c].pieces \o cutRight[m].pieces /\ cut[n].next = c + cutRight[m].next
  <2>1. PICK cutOff \in Seq(AnyPiece) : cutOff = cut[c].pieces
    BY <1>10 DEF Cutting
  <2>2. m \in 0 .. Len(right)
    BY <1>4
  <2>3. Joins(cutOff, cutRight[m], c, cut[c + m])
    BY <1>5, <1>6, <1>8, <1>11, <2>1, <2>2, RightCut
  <2> QED BY <1>4, <2>1, <2>3 DEF Joins
<1> DEFINE front == cut[c - 1].pieces
           piece == SubSeq(s, cut[c - 1].next, c - 1)
<1>13. front \in Seq(AnyPiece) /\ piece \in Seq(Printable)
  <2>1. front \in Seq(AnyPiece)
    BY <1>10 DEF Cutting
  <2>2. PICK next \in Nat, b \in Nat : next = cut[c - 1].next /\ 1 <= next /\ b = c - 1 /\ b <= Len(s)
    BY <1>4, <1>10 DEF Cutting
  <2>3. SubSeq(s, next, b) \in Seq(Printable)
    BY <2>2
  <2> QED BY <2>1, <2>2, <2>3
<1>14. SplitTopLevel(left) = Append(front, [text |-> piece, operator |-> "none"])
  <2>1. PICK next \in Nat : next = cut[c - 1].next /\ 1 <= next
    BY <1>10 DEF Cutting
  <2>2. PICK b \in Nat : b = c - 1 /\ b <= Len(left)
    BY <1>2, <1>4
  <2>3. Piece(left, next, b, "none") = Piece(s, next, b, "none")
    BY <1>2, <2>1, <2>2, SameFront
  <2> QED BY <1>7, <1>9, <2>1, <2>2, <2>3 DEF Piece
<1>15. SplitTopLevel(s) = Append(front, [text |-> piece, operator |-> "sequence"]) \o SplitTopLevel(right)
  <2>1. PICK next \in Nat : next = cutRight[m].next /\ 1 <= next /\ next <= m + 1
    <3>1. cutRight[m].next \in 1 .. Len(right) + 1
      BY <1>10 DEF Cutting
    <3> QED BY <1>4, <3>1
  <2>2. Piece(right, next, m, "none") = Piece(s, c + next, c + m, "none")
    <3> HIDE DEF front, piece
    <3>1. Behind(right, s, c) /\ m <= Len(right) /\ 1 <= next
      BY <1>4, <1>5, <2>1
    <3> QED BY <3>1, SamePiece
  <2>3. PICK last \in AnyPiece : last = Piece(right, next, m, "none")
    <3>1. "none" \in Operators /\ next \in 1 .. Len(right) + 1 /\ m \in 0 .. Len(right)
      BY <1>4, <2>1 DEF Operators
    <3> QED BY <1>3, <3>1, PieceType
  <2>4. PICK before \in Seq(AnyPiece), back \in Seq(AnyPiece) : before = cut[c].pieces /\ back = cutRight[m].pieces
    BY <1>10 DEF Cutting
  <2>5. SplitTopLevel(s) = Append(before \o back, last)
    BY <1>4, <1>6, <1>12, <2>1, <2>2, <2>3, <2>4
  <2>6. SplitTopLevel(right) = Append(back, last)
    BY <1>8, <2>1, <2>3, <2>4
  <2>7. before = Append(front, [text |-> piece, operator |-> "sequence"])
    BY <1>11, <2>4 DEF Piece
  <2> HIDE DEF front, piece
  <2>8. Append(before \o back, last) = before \o Append(back, last)
    BY AppendBehind
  <2> QED BY <2>5, <2>6, <2>7, <2>8
<1> HIDE DEF front, piece
<1> QED BY <1>1, <1>13, <1>14, <1>15 DEF SplitBetween

-----------------------------------------------------------------------------
(* Reading the pieces *)

Argv(t) == Words(ExtractRedirects(t).tokens)
Readable(t) ==
  /\ ExtractRedirects(t).ok /\ ~Unbalanced(ExtractRedirects(t).tokens) /\ Argv(t) # <<>>
  /\ Resolves(Argv(t) \o ExtractRedirects(t).writes \o ExtractRedirects(t).reads)
\* What a piece is read as: its operator is only noted.
Meaning(t, operator) ==
  [argv |-> Stripped(Resolved(Argv(t))), env |-> SubSeq(Resolved(Argv(t)), 1, Prefix(Resolved(Argv(t)))),
   writes |-> Resolved(ExtractRedirects(t).writes), reads |-> Resolved(ExtractRedirects(t).reads),
   operator |-> operator]

LEMMA SegmentRead ==
  ASSUME NEW segment
  PROVE  /\ Readable(segment.text) =>
              ParseSegment(segment) = Outcome("commands", <<Meaning(segment.text, segment.operator)>>)
         /\ ~Readable(segment.text) => ParseSegment(segment).kind # "commands"
<1>1. PICK t, operator, redirects : t = segment.text /\ operator = segment.operator /\ redirects = ExtractRedirects(t)
  OBVIOUS
<1>2. ParseSegment(segment) = Reading(operator, Argv(t), redirects)
  BY <1>1 DEF ParseSegment, Argv
<1>3. CASE ~redirects.ok \/ Unbalanced(redirects.tokens) \/ Argv(t) = <<>>
  <2>1. ParseSegment(segment) = Outcome("opaque", <<>>) /\ ~Readable(t)
    BY <1>1, <1>2, <1>3 DEF Reading, Readable
  <2> QED BY <1>1, <2>1 DEF Outcome
<1>4. CASE ~(~redirects.ok \/ Unbalanced(redirects.tokens) \/ Argv(t) = <<>>)
  <2>1. ParseSegment(segment) = Resolve(operator, Argv(t), redirects.writes, redirects.reads)
    BY <1>2, <1>4 DEF Reading
  <2>2. Readable(t) <=> Resolves(Argv(t) \o redirects.writes \o redirects.reads)
    BY <1>1, <1>4 DEF Readable
  <2>3. CASE Readable(t)
    <3>1. ParseSegment(segment) =
            Outcome("commands", Command(operator, Resolved(Argv(t)), Resolved(redirects.writes), Resolved(redirects.reads)))
      BY <2>1, <2>2, <2>3 DEF Resolve
    <3>2. Command(operator, Resolved(Argv(t)), Resolved(redirects.writes), Resolved(redirects.reads)) = <<Meaning(t, operator)>>
      BY <1>1 DEF Command, Meaning
    <3> QED BY <1>1, <2>3, <3>1, <3>2
  <2>4. CASE ~Readable(t)
    <3>1. ParseSegment(segment) = Outcome("needsHuman", <<>>)
      BY <2>1, <2>2, <2>4 DEF Resolve
    <3> QED BY <1>1, <2>4, <3>1 DEF Outcome
  <2> QED BY <2>3, <2>4
<1> QED BY <1>3, <1>4

Meanings(pieces, n) == [k \in 1 .. n |-> Meaning(pieces[k].text, pieces[k].operator)]
AllReadable(pieces, n) == \A k \in 1 .. n : Readable(pieces[k].text)
ReadUpTo(pieces, n, outcome) ==
  /\ AllReadable(pieces, n) => outcome = Outcome("commands", Meanings(pieces, n))
  /\ ~AllReadable(pieces, n) => outcome.kind # "commands"

LEMMA OneMore ==
  ASSUME NEW pieces, NEW n \in Nat, n > 0, NEW outcome, ReadUpTo(pieces, n - 1, outcome)
  PROVE  ReadUpTo(pieces, n, Joined(outcome, ParseSegment(pieces[n])))
<1> DEFINE t == pieces[n].text
           next == ParseSegment(pieces[n])
           m == Meaning(t, pieces[n].operator)
<1>1. AllReadable(pieces, n) <=> AllReadable(pieces, n - 1) /\ Readable(t)
  <2>1. 1 .. n = 1 .. (n - 1) \union {n}
    OBVIOUS
  <2> QED BY <2>1 DEF AllReadable
<1>2. (Readable(t) => next = Outcome("commands", <<m>>)) /\ (~Readable(t) => next.kind # "commands")
  BY SegmentRead
<1> HIDE DEF t, next, m
<1>3. CASE AllReadable(pieces, n)
  <2>1. outcome = Outcome("commands", Meanings(pieces, n - 1)) /\ next = Outcome("commands", <<m>>)
    BY <1>1, <1>2, <1>3 DEF ReadUpTo
  <2>2. Joined(outcome, next) = Outcome("commands", Meanings(pieces, n - 1) \o <<m>>)
    BY <2>1 DEF Joined, Outcome
  <2>3. Meanings(pieces, n - 1) \o <<m>> = Meanings(pieces, n)
    <3> DEFINE before == Meanings(pieces, n - 1)
               M == {Meaning(pieces[k].text, pieces[k].operator) : k \in 1 .. n}
    <3>1. before \in Seq(M) /\ Len(before) = n - 1 /\ \A k \in 1 .. n - 1 : before[k] = Meaning(pieces[k].text, pieces[k].operator)
      BY DEF Meanings
    <3>2. m = Meaning(pieces[n].text, pieces[n].operator)
      BY DEF m, t
    <3> HIDE DEF before, M
    <3>3. Len(before \o <<m>>) = n /\ DOMAIN (before \o <<m>>) = 1 .. n
      BY <3>1
    <3>4. \A k \in 1 .. n : (before \o <<m>>)[k] = Meaning(pieces[k].text, pieces[k].operator)
      BY <3>1, <3>2
    <3>5. before \o <<m>> = [k \in 1 .. n |-> (before \o <<m>>)[k]]
      BY <3>1, <3>3
    <3>6. before \o <<m>> = Meanings(pieces, n)
      BY <3>4, <3>5 DEF Meanings
    <3> QED BY <3>6 DEF before
  <2> QED BY <1>3, <2>2, <2>3 DEF ReadUpTo, next
<1>4. CASE ~AllReadable(pieces, n)
  <2>1. Joined(outcome, next).kind # "commands"
    <3>1. CASE AllReadable(pieces, n - 1)
      BY <1>1, <1>2, <1>4, <3>1 DEF ReadUpTo, Joined, Outcome
    <3>2. CASE ~AllReadable(pieces, n - 1)
      BY <3>2 DEF ReadUpTo, Joined
    <3> QED BY <3>1, <3>2
  <2> QED BY <1>4, <2>1 DEF ReadUpTo, next
<1> QED BY <1>3, <1>4

\* A line is read if nothing in it is opaque and each piece is readable.
Fine(t) == ~Blank(t) /\ ~IsOpaqueCommand(t) /\ Readable(t)
Good(s) ==
  /\ ~ExplicitOpacity(s) /\ ~Unbalanced(s)
  /\ \A k \in DOMAIN SplitTopLevel(s) : Fine(SplitTopLevel(s)[k].text)

LEMMA ParseRead ==
  ASSUME NEW s \in Seq(Printable)
  PROVE  /\ Good(s) => Parse(s) = Outcome("commands", Meanings(SplitTopLevel(s), Len(SplitTopLevel(s))))
         /\ ~Good(s) => Parse(s).kind # "commands"
<1>0. PICK segments \in Seq(AnyPiece) : segments = SplitTopLevel(s)
  BY SplitIsPieces
<1>1. PICK n \in Nat : segments = SplitTopLevel(s) /\ n = Len(segments) /\ DOMAIN segments = 1 .. n
  BY <1>0
<1> DEFINE Is(read) == read = [k \in 0 .. Len(segments) |->
                         IF k = 0 THEN Outcome("commands", <<>>) ELSE Joined(read[k - 1], ParseSegment(segments[k]))]
           made == CHOOSE read : Is(read)
           opaque == \/ ExplicitOpacity(s) \/ Unbalanced(s)
                     \/ \E k \in DOMAIN segments : Blank(segments[k].text) \/ IsOpaqueCommand(segments[k].text)
<1>2. Parse(s) = IF opaque THEN Outcome("opaque", <<>>) ELSE made[n]
  BY <1>1 DEF Parse
<1>3. PICK state : Runs("parse", segments, <<>>, Outcome("commands", <<>>), n, state)
  BY RunExists
<1>4. Is(state)
  BY <1>1, <1>3 DEF Runs, Step
<1>5. Is(made)
  BY <1>4
<1> HIDE DEF made
<1>6. ReadUpTo(segments, n, made[n])
  <2> DEFINE Done == {k \in 0 .. n : ReadUpTo(segments, k, made[k])}
  <2>1. 0 \in Done
    <3>1. made[0] = Outcome("commands", <<>>)
      BY <1>1, <1>5
    <3>2. AllReadable(segments, 0) /\ Meanings(segments, 0) = <<>>
      BY DEF AllReadable, Meanings
    <3>3. ReadUpTo(segments, 0, made[0])
      BY <3>1, <3>2 DEF ReadUpTo
    <3> QED BY <1>1, <3>3
  <2>2. ASSUME NEW k \in 1 .. n, k - 1 \in Done PROVE k \in Done
    <3>1. k \in 0 .. n /\ k \in Nat /\ k > 0 /\ ReadUpTo(segments, k - 1, made[k - 1])
      BY <2>2
    <3>2. made[k] = Joined(made[k - 1], ParseSegment(segments[k]))
      BY <1>1, <1>5, <3>1
    <3>3. ReadUpTo(segments, k, Joined(made[k - 1], ParseSegment(segments[k])))
      BY <3>1, OneMore
    <3> QED BY <3>1, <3>2, <3>3
  <2>3. Done \subseteq 0 .. n
    OBVIOUS
  <2> HIDE DEF Done
  <2>4. Done = 0 .. n
    BY <2>1, <2>2, <2>3, Inductively
  <2>5. n \in Done
    BY <2>4
  <2> QED BY <2>5 DEF Done
<1>7. Good(s) <=> ~opaque /\ AllReadable(segments, n)
  BY <1>1 DEF Good, Fine, AllReadable
<1> HIDE DEF opaque
<1>8. CASE opaque
  <2>1. Parse(s).kind = "opaque"
    BY <1>2, <1>8 DEF Outcome
  <2> QED BY <1>7, <1>8, <2>1
<1>9. CASE ~opaque
  <2>1. ReadUpTo(segments, n, Parse(s))
    BY <1>2, <1>6, <1>9
  <2> QED BY <1>1, <1>7, <1>9, <2>1 DEF ReadUpTo
<1> QED BY <1>8, <1>9

-----------------------------------------------------------------------------
(* A line of two halves *)

LEMMA TwoCharacters ==
  ASSUME NEW s \in Seq(Printable), NEW i \in Nat, i >= 1, i + 1 <= Len(s)
  PROVE  SubSeq(s, i, i + 1) = <<s[i], s[i + 1]>>
<1>1. SubSeq(s, i, i + 1) = [j \in 1 .. (1 + (i + 1) - i) |-> s[j + i - 1]]
  OBVIOUS
<1>2. 1 .. (1 + (i + 1) - i) = 1 .. 2
  OBVIOUS
<1>3. SubSeq(s, i, i + 1) = [j \in 1 .. 2 |-> s[j + i - 1]]
  BY <1>1, <1>2
<1>4. 1 + i - 1 = i /\ 2 + i - 1 = i + 1 /\ 1 \in 1 .. 2 /\ 2 \in 1 .. 2
  OBVIOUS
<1>5. [j \in 1 .. 2 |-> s[j + i - 1]] = <<s[i], s[i + 1]>>
  BY <1>4
<1> QED BY <1>3, <1>5

LEMMA OccursTwo ==
  ASSUME NEW s \in Seq(Printable), NEW x, NEW y
  PROVE  Occurs(s, <<x, y>>) <=> \E i \in 1 .. Len(s) - 1 : s[i] = x /\ s[i + 1] = y
<1>1. Len(<<x, y>>) = 2 /\ Len(s) - 2 + 1 = Len(s) - 1
  OBVIOUS
<1>2. Occurs(s, <<x, y>>) <=> \E i \in 1 .. Len(s) - 1 : SubSeq(s, i, i + 2 - 1) = <<x, y>>
  BY <1>1 DEF Occurs
<1>3. ASSUME NEW i \in 1 .. Len(s) - 1
      PROVE  SubSeq(s, i, i + 2 - 1) = <<x, y>> <=> s[i] = x /\ s[i + 1] = y
  <2>1. i \in Nat /\ i >= 1 /\ i + 1 <= Len(s)
    OBVIOUS
  <2>2. SubSeq(s, i, i + 1) = <<x, y>> <=> s[i] = x /\ s[i + 1] = y
    <3>1. SubSeq(s, i, i + 1) = <<s[i], s[i + 1]>>
      BY <2>1, TwoCharacters
    <3>2. PICK a, b : a = s[i] /\ b = s[i + 1]
      OBVIOUS
    <3>3. <<a, b>> = <<x, y>> <=> a = x /\ b = y
      OBVIOUS
    <3> QED BY <3>1, <3>2, <3>3
  <2>3. i + 2 - 1 = i + 1
    OBVIOUS
  <2> QED BY <2>2, <2>3
<1> QED BY <1>2, <1>3

LEMMA OccursOne ==
  ASSUME NEW s \in Seq(Printable), NEW x
  PROVE  Occurs(s, <<x>>) <=> \E i \in 1 .. Len(s) : s[i] = x
<1>1. Len(<<x>>) = 1 /\ Len(s) - 1 + 1 = Len(s)
  OBVIOUS
<1>2. Occurs(s, <<x>>) <=> \E i \in 1 .. Len(s) : SubSeq(s, i, i + 1 - 1) = <<x>>
  BY <1>1 DEF Occurs
<1>3. ASSUME NEW i \in 1 .. Len(s) PROVE SubSeq(s, i, i + 1 - 1) = <<x>> <=> s[i] = x
  <2>1. SubSeq(s, i, i) = [j \in 1 .. (1 + i - i) |-> s[j + i - 1]]
    OBVIOUS
  <2>2. 1 .. (1 + i - i) = 1 .. 1 /\ 1 + i - 1 = i /\ i + 1 - 1 = i
    OBVIOUS
  <2>3. SubSeq(s, i, i) = <<s[i]>>
    BY <2>1, <2>2
  <2> QED BY <2>2, <2>3
<1> QED BY <1>2, <1>3

\* Nothing that is opaque reaches across a semicolon.
LEMMA OpacityComposes ==
  ASSUME NEW s, NEW left, NEW right, NEW c, First(left, s, c), Second(right, s, c), s[c] = "semicolon"
  PROVE  ExplicitOpacity(s) <=> ExplicitOpacity(left) \/ ExplicitOpacity(right)
<1>1. PICK n \in Nat, m \in Nat : n = Len(s) /\ m = Len(right) /\ n = c + m /\ c \in 1 .. n /\ Len(left) = c - 1
  BY DEF First, Second, Behind
<1>2. /\ s \in Seq(Printable) /\ left \in Seq(Printable) /\ right \in Seq(Printable)
      /\ \A j \in 1 .. c - 1 : left[j] = s[j]
      /\ \A j \in 1 .. m : right[j] = s[c + j]
  BY <1>1 DEF First, Second, Behind
<1>3. ASSUME NEW x, NEW y, x # "semicolon", y # "semicolon"
      PROVE  Occurs(s, <<x, y>>) <=> Occurs(left, <<x, y>>) \/ Occurs(right, <<x, y>>)
  <2>1. /\ Occurs(s, <<x, y>>) <=> \E i \in 1 .. n - 1 : s[i] = x /\ s[i + 1] = y
        /\ Occurs(left, <<x, y>>) <=> \E i \in 1 .. (c - 1) - 1 : left[i] = x /\ left[i + 1] = y
        /\ Occurs(right, <<x, y>>) <=> \E i \in 1 .. m - 1 : right[i] = x /\ right[i + 1] = y
    <3>1. Occurs(s, <<x, y>>) <=> \E i \in 1 .. Len(s) - 1 : s[i] = x /\ s[i + 1] = y
      BY <1>2, OccursTwo
    <3>2. Occurs(left, <<x, y>>) <=> \E i \in 1 .. Len(left) - 1 : left[i] = x /\ left[i + 1] = y
      BY <1>2, OccursTwo
    <3>3. Occurs(right, <<x, y>>) <=> \E i \in 1 .. Len(right) - 1 : right[i] = x /\ right[i + 1] = y
      BY <1>2, OccursTwo
    <3> QED BY <1>1, <3>1, <3>2, <3>3
  <2>2. ASSUME NEW i \in 1 .. (c - 1) - 1, left[i] = x, left[i + 1] = y
        PROVE  i \in 1 .. n - 1 /\ s[i] = x /\ s[i + 1] = y
    <3>1. i \in 1 .. n - 1 /\ i \in 1 .. c - 1 /\ i + 1 \in 1 .. c - 1
      BY <1>1
    <3> QED BY <1>2, <2>2, <3>1
  <2>3. ASSUME NEW i \in 1 .. m - 1, right[i] = x, right[i + 1] = y
        PROVE  c + i \in 1 .. n - 1 /\ s[c + i] = x /\ s[(c + i) + 1] = y
    <3>1. c + i \in 1 .. n - 1 /\ i \in 1 .. m /\ i + 1 \in 1 .. m /\ c + (i + 1) = (c + i) + 1
      BY <1>1
    <3> QED BY <1>2, <2>3, <3>1
  <2>4. ASSUME NEW i \in 1 .. n - 1, s[i] = x, s[i + 1] = y
        PROVE  \/ i \in 1 .. (c - 1) - 1 /\ left[i] = x /\ left[i + 1] = y
               \/ i - c \in 1 .. m - 1 /\ right[i - c] = x /\ right[(i - c) + 1] = y
    <3>1. i # c /\ i + 1 # c
      BY <1>3, <2>4
    <3>2. CASE i < c
      <4>1. i \in 1 .. (c - 1) - 1 /\ i \in 1 .. c - 1 /\ i + 1 \in 1 .. c - 1
        BY <1>1, <3>1, <3>2
      <4> QED BY <1>2, <2>4, <4>1
    <3>3. CASE i > c
      <4>1. i - c \in 1 .. m - 1 /\ i - c \in 1 .. m /\ (i - c) + 1 \in 1 .. m
        BY <1>1, <3>1, <3>3
      <4>2. c + (i - c) = i /\ c + ((i - c) + 1) = i + 1
        BY <1>1
      <4> QED BY <1>2, <2>4, <4>1, <4>2
    <3> QED BY <1>1, <3>1, <3>2, <3>3
  <2> QED BY <2>1, <2>2, <2>3, <2>4
<1>4. ASSUME NEW x, x # "semicolon"
      PROVE  Occurs(s, <<x>>) <=> Occurs(left, <<x>>) \/ Occurs(right, <<x>>)
  <2>1. /\ Occurs(s, <<x>>) <=> \E i \in 1 .. n : s[i] = x
        /\ Occurs(left, <<x>>) <=> \E i \in 1 .. c - 1 : left[i] = x
        /\ Occurs(right, <<x>>) <=> \E i \in 1 .. m : right[i] = x
    <3>1. Occurs(s, <<x>>) <=> \E i \in 1 .. Len(s) : s[i] = x
      BY <1>2, OccursOne
    <3>2. Occurs(left, <<x>>) <=> \E i \in 1 .. Len(left) : left[i] = x
      BY <1>2, OccursOne
    <3>3. Occurs(right, <<x>>) <=> \E i \in 1 .. Len(right) : right[i] = x
      BY <1>2, OccursOne
    <3> QED BY <1>1, <3>1, <3>2, <3>3
  <2>2. ASSUME NEW i \in 1 .. n, s[i] = x PROVE (i \in 1 .. c - 1) \/ (i - c \in 1 .. m /\ c + (i - c) = i)
    <3>1. i # c
      BY <1>4, <2>2
    <3> QED BY <1>1, <3>1
  <2>3. (\A i \in 1 .. c - 1 : i \in 1 .. n) /\ (\A i \in 1 .. m : c + i \in 1 .. n)
    BY <1>1
  <2>4. ASSUME NEW i \in 1 .. n, s[i] = x
        PROVE  (\E j \in 1 .. c - 1 : left[j] = x) \/ (\E j \in 1 .. m : right[j] = x)
    <3>1. CASE i \in 1 .. c - 1
      BY <1>2, <2>4, <3>1
    <3>2. CASE i - c \in 1 .. m /\ c + (i - c) = i
      BY <1>2, <2>4, <3>2
    <3> QED BY <2>2, <2>4, <3>1, <3>2
  <2>5. Occurs(left, <<x>>) \/ Occurs(right, <<x>>) => Occurs(s, <<x>>)
    BY <1>2, <2>1, <2>3
  <2> QED BY <2>1, <2>4, <2>5
<1>5. \A t : ExplicitOpacity(t) <=>
        Occurs(t, <<"$", "(">>) \/ Occurs(t, <<"backquote">>) \/ Occurs(t, <<"<", "(">>) \/ Occurs(t, <<"<", "<">>)
  BY DEF ExplicitOpacity
<1>6. "$" # "semicolon" /\ "(" # "semicolon" /\ "backquote" # "semicolon" /\ "<" # "semicolon"
  OBVIOUS
<1>7. Occurs(s, <<"$", "(">>) <=> Occurs(left, <<"$", "(">>) \/ Occurs(right, <<"$", "(">>)
  BY <1>3, <1>6
<1>8. Occurs(s, <<"<", "(">>) <=> Occurs(left, <<"<", "(">>) \/ Occurs(right, <<"<", "(">>)
  BY <1>3, <1>6
<1>9. Occurs(s, <<"<", "<">>) <=> Occurs(left, <<"<", "<">>) \/ Occurs(right, <<"<", "<">>)
  BY <1>3, <1>6
<1>10. Occurs(s, <<"backquote">>) <=> Occurs(left, <<"backquote">>) \/ Occurs(right, <<"backquote">>)
  BY <1>4, <1>6
<1> QED BY <1>5, <1>7, <1>8, <1>9, <1>10

\* Both halves are read exactly if the line is.
LEMMA GoodComposes ==
  ASSUME NEW s \in Seq(Printable), NEW c \in 1 .. Len(s), c \in Bare(s), s[c] = "semicolon"
  PROVE  Good(s) <=> Good(SubSeq(s, 1, c - 1)) /\ Good(SubSeq(s, c + 1, Len(s)))
<1>1. PICK left, right : left = SubSeq(s, 1, c - 1) /\ right = SubSeq(s, c + 1, Len(s))
  OBVIOUS
<1>2. /\ left \in Seq(Printable) /\ Len(left) = c - 1 /\ \A j \in 1 .. Len(left) : left[j] = s[j]
      /\ \A j \in 1 .. c : Modes(left)[j] = Modes(s)[j]
      /\ \A j \in 1 .. c - 1 : (j \in Bare(left) <=> j \in Bare(s)) /\ OperatorAt(left, j) = OperatorAt(s, j)
  BY <1>1, LeftSide
<1>3. /\ right \in Seq(Printable) /\ Len(right) = Len(s) - c /\ \A j \in 1 .. Len(right) : right[j] = s[c + j]
      /\ \A j \in 1 .. Len(right) + 1 : Modes(right)[j] = Modes(s)[c + j]
      /\ \A j \in 1 .. Len(right) :
           (j \in Bare(right) <=> c + j \in Bare(s)) /\ OperatorAt(right, j) = OperatorAt(s, c + j)
  BY <1>1, RightSide
<1>4. First(left, s, c) /\ Behind(right, s, c) /\ Second(right, s, c)
  BY <1>2, <1>3 DEF First, Second, Behind
<1>5. ExplicitOpacity(s) <=> ExplicitOpacity(left) \/ ExplicitOpacity(right)
  BY <1>4, OpacityComposes
<1>6. ~Unbalanced(left) /\ (Unbalanced(right) <=> Unbalanced(s))
  <2>1. Len(left) + 1 = c /\ c \in 1 .. c /\ Modes(s)[c] = "plain"
    BY <1>2 DEF Bare
  <2>2. Len(right) + 1 \in 1 .. Len(right) + 1 /\ c + (Len(right) + 1) = Len(s) + 1
    BY <1>3
  <2>3. Modes(left)[Len(left) + 1] = "plain"
    BY <1>2, <2>1
  <2>4. Modes(right)[Len(right) + 1] = Modes(s)[Len(s) + 1]
    BY <1>3, <2>2
  <2> QED BY <2>3, <2>4 DEF Unbalanced
<1>7. PICK front, piece : SplitBetween(left, right, s, front, piece)
  BY <1>1, SplitComposes
<1>8. (\A k \in DOMAIN SplitTopLevel(s) : Fine(SplitTopLevel(s)[k].text)) <=>
        /\ \A k \in DOMAIN SplitTopLevel(left) : Fine(SplitTopLevel(left)[k].text)
        /\ \A k \in DOMAIN SplitTopLevel(right) : Fine(SplitTopLevel(right)[k].text)
  <2>1. PICK l \in AnyPiece, m \in AnyPiece : /\ l = [text |-> piece, operator |-> "none"]
                                             /\ m = [text |-> piece, operator |-> "sequence"]
    BY <1>7 DEF SplitBetween, AnyPiece, Operators
  <2>2. PICK back \in Seq(AnyPiece) : back = SplitTopLevel(right)
    BY <1>3, SplitIsPieces
  <2>3. front \in Seq(AnyPiece) /\ SplitTopLevel(left) = Append(front, l) /\ SplitTopLevel(s) = Append(front, m) \o back
    BY <1>7, <2>1, <2>2 DEF SplitBetween
  <2>4. l.text = piece /\ m.text = piece
    BY <2>1
  <2>5. PICK f \in Nat, b \in Nat : f = Len(front) /\ b = Len(back)
    BY <2>3
  <2>6. /\ DOMAIN Append(front, l) = 1 .. f + 1 /\ Append(front, l)[f + 1] = l
        /\ \A k \in 1 .. f : Append(front, l)[k] = front[k]
    BY <2>3, <2>5
  <2>7. /\ DOMAIN (Append(front, m) \o back) = 1 .. (f + 1) + b /\ (Append(front, m) \o back)[f + 1] = m
        /\ \A k \in 1 .. f : (Append(front, m) \o back)[k] = front[k]
        /\ \A k \in 1 .. b : (Append(front, m) \o back)[(f + 1) + k] = back[k]
    BY <2>3, <2>5
  <2>8. \A k \in 1 .. (f + 1) + b : k \in 1 .. f \/ k = f + 1 \/ (k - (f + 1) \in 1 .. b /\ (f + 1) + (k - (f + 1)) = k)
    OBVIOUS
  <2>9. (\A k \in 1 .. f : k \in 1 .. (f + 1) + b /\ k \in 1 .. f + 1) /\ f + 1 \in 1 .. (f + 1) + b /\ f + 1 \in 1 .. f + 1
    OBVIOUS
  <2>10. \A k \in 1 .. b : (f + 1) + k \in 1 .. (f + 1) + b
    OBVIOUS
  <2>11. \A k \in 1 .. f + 1 : k \in 1 .. f \/ k = f + 1
    OBVIOUS
  <2>12. PICK whole, first : whole = Append(front, m) \o back /\ first = Append(front, l)
    OBVIOUS
  <2>13. DOMAIN back = 1 .. b
    BY <2>5
  <2>14. (\A k \in DOMAIN first : Fine(first[k].text)) <=> (\A k \in 1 .. f : Fine(front[k].text)) /\ Fine(piece)
    BY <2>4, <2>6, <2>9, <2>11, <2>12
  <2>15. ASSUME \A k \in DOMAIN whole : Fine(whole[k].text)
         PROVE  (\A k \in 1 .. f : Fine(front[k].text)) /\ Fine(piece) /\ \A k \in DOMAIN back : Fine(back[k].text)
    BY <2>4, <2>7, <2>9, <2>10, <2>12, <2>13, <2>15
  <2>16. ASSUME \A k \in 1 .. f : Fine(front[k].text), Fine(piece), \A k \in DOMAIN back : Fine(back[k].text),
                NEW k \in DOMAIN whole
         PROVE  Fine(whole[k].text)
    <3>1. CASE k \in 1 .. f
      BY <2>7, <2>12, <2>16, <3>1
    <3>2. CASE k = f + 1
      BY <2>4, <2>7, <2>12, <2>16, <3>2
    <3>3. CASE k - (f + 1) \in 1 .. b /\ (f + 1) + (k - (f + 1)) = k
      <4>1. whole[k] = back[k - (f + 1)]
        BY <2>7, <2>12, <3>3
      <4> QED BY <2>13, <2>16, <3>3, <4>1
    <3> QED BY <2>7, <2>8, <2>12, <3>1, <3>2, <3>3
  <2>17. (\A k \in DOMAIN whole : Fine(whole[k].text)) <=>
           (\A k \in DOMAIN first : Fine(first[k].text)) /\ \A k \in DOMAIN back : Fine(back[k].text)
    BY <2>14, <2>15, <2>16
  <2> QED BY <2>2, <2>3, <2>12, <2>17
<1>9. Good(s) <=> Good(left) /\ Good(right)
  BY <1>5, <1>6, <1>8 DEF Good
<1> QED BY <1>1, <1>9

LEMMA MeaningAgain ==
  ASSUME NEW t, NEW was, was = Meaning(t, "none")
  PROVE  [argv |-> was.argv, env |-> was.env, writes |-> was.writes, reads |-> was.reads, operator |-> "sequence"]
           = Meaning(t, "sequence")
BY DEF Meaning

\* What the line is read as is what its halves are read as, one behind the other.
LEMMA MeaningsCompose ==
  ASSUME NEW s, NEW left, NEW right, NEW front, NEW piece, SplitBetween(left, right, s, front, piece),
         NEW back \in Seq(AnyPiece), back = SplitTopLevel(right)
  PROVE  Meanings(SplitTopLevel(s), Len(SplitTopLevel(s))) =
           Ended(Meanings(SplitTopLevel(left), Len(SplitTopLevel(left)))) \o Meanings(back, Len(back))
<1>1. PICK l \in AnyPiece, m \in AnyPiece : /\ l = [text |-> piece, operator |-> "none"]
                                           /\ m = [text |-> piece, operator |-> "sequence"]
  BY DEF SplitBetween, AnyPiece, Operators
<1>2. front \in Seq(AnyPiece) /\ SplitTopLevel(left) = Append(front, l) /\ SplitTopLevel(s) = Append(front, m) \o back
  BY <1>1 DEF SplitBetween
<1>3. PICK f \in Nat, b \in Nat : f = Len(front) /\ b = Len(back)
  BY <1>2
<1>4. PICK first, whole : first = Append(front, l) /\ whole = Append(front, m) \o back
  OBVIOUS
<1>5. Len(first) = f + 1 /\ first[f + 1] = l /\ \A k \in 1 .. f : first[k] = front[k]
  BY <1>2, <1>3, <1>4
<1>6. /\ Len(whole) = (f + 1) + b /\ whole[f + 1] = m /\ \A k \in 1 .. f : whole[k] = front[k]
      /\ \A k \in 1 .. b : whole[(f + 1) + k] = back[k]
  BY <1>2, <1>3, <1>4
<1> DEFINE Of(p) == Meaning(p.text, p.operator)
           mine == Meanings(first, f + 1)
           ended == Ended(mine)
           rest == Meanings(back, b)
           all == Meanings(whole, (f + 1) + b)
<1>7. ended = [k \in 1 .. f + 1 |-> IF k < f + 1 THEN Of(front[k]) ELSE Of(m)]
  <2>1. DOMAIN mine = 1 .. f + 1 /\ Len(mine) = f + 1 /\ \A k \in 1 .. f + 1 : mine[k] = Of(first[k])
    BY DEF Meanings
  <2>2. \A k \in 1 .. f + 1 : k < f + 1 => mine[k] = Of(front[k])
    BY <1>5, <2>1
  <2>3. mine[f + 1] = Of(l)
    BY <1>5, <2>1
  <2>4. [argv |-> mine[f + 1].argv, env |-> mine[f + 1].env, writes |-> mine[f + 1].writes,
         reads |-> mine[f + 1].reads, operator |-> "sequence"] = Of(m)
    <3>1. Of(l) = Meaning(piece, "none") /\ Of(m) = Meaning(piece, "sequence")
      BY <1>1
    <3> HIDE DEF Of, mine
    <3>2. mine[f + 1] = Meaning(piece, "none")
      BY <2>3, <3>1
    <3> QED BY <3>1, <3>2, MeaningAgain
  <2> HIDE DEF mine, Of
  <2>5. \A k \in 1 .. f + 1 : ~(k < f + 1) => k = f + 1
    OBVIOUS
  <2>6. ended = [k \in 1 .. f + 1 |->
                  IF k < f + 1 THEN mine[k]
                  ELSE [argv |-> mine[k].argv, env |-> mine[k].env, writes |-> mine[k].writes,
                        reads |-> mine[k].reads, operator |-> "sequence"]]
    BY <2>1 DEF Ended
  <2> QED BY <2>2, <2>4, <2>5, <2>6
<1>8. all = ended \o rest
  <2> DEFINE M == {Of(front[k]) : k \in 1 .. f} \union {Of(m)} \union {Of(back[k]) : k \in 1 .. b}
  <2>1. ended \in Seq(M) /\ Len(ended) = f + 1
    <3>1. \A k \in 1 .. f + 1 : ended[k] \in M
      BY <1>7
    <3>2. ended = [k \in 1 .. f + 1 |-> ended[k]]
      BY <1>7
    <3> HIDE DEF ended, M
    <3> QED BY <3>1, <3>2
  <2>2. rest \in Seq(M) /\ Len(rest) = b
    BY DEF Meanings
  <2>3. \A k \in 1 .. b : rest[k] = Of(back[k])
    BY DEF Meanings
  <2>4. \A k \in 1 .. f + 1 : ended[k] = Of(whole[k])
    BY <1>6, <1>7
  <2>5. all = [k \in 1 .. (f + 1) + b |-> Of(whole[k])]
    BY DEF Meanings
  <2> HIDE DEF ended, rest, all, Of, M
  <2>6. ended \o rest = [k \in 1 .. (f + 1) + b |-> IF k <= f + 1 THEN ended[k] ELSE rest[k - (f + 1)]]
    <3> DEFINE both == ended \o rest
    <3>1. both \in Seq(M) /\ Len(both) = (f + 1) + b
      BY <2>1, <2>2
    <3>2. (\A k \in 1 .. f + 1 : both[k] = ended[k]) /\ \A k \in 1 .. b : both[(f + 1) + k] = rest[k]
      BY <2>1, <2>2
    <3> HIDE DEF both
    <3>3. both = [k \in 1 .. (f + 1) + b |-> both[k]]
      BY <3>1
    <3>4. ASSUME NEW k \in 1 .. (f + 1) + b PROVE both[k] = IF k <= f + 1 THEN ended[k] ELSE rest[k - (f + 1)]
      <4>1. ~(k <= f + 1) => k - (f + 1) \in 1 .. b /\ (f + 1) + (k - (f + 1)) = k
        OBVIOUS
      <4> QED BY <3>2, <4>1
    <3> QED BY <3>3, <3>4 DEF both
  <2>7. ASSUME NEW k \in 1 .. (f + 1) + b
        PROVE  Of(whole[k]) = IF k <= f + 1 THEN ended[k] ELSE rest[k - (f + 1)]
    <3>1. CASE k <= f + 1
      BY <2>4, <3>1
    <3>2. CASE ~(k <= f + 1)
      <4>1. k - (f + 1) \in 1 .. b /\ (f + 1) + (k - (f + 1)) = k
        BY <3>2
      <4> QED BY <1>6, <2>3, <3>2, <4>1
    <3> QED BY <3>1, <3>2
  <2> QED BY <2>5, <2>6, <2>7
<1> HIDE DEF ended, rest, all, mine
<1> QED BY <1>2, <1>3, <1>4, <1>5, <1>6, <1>8 DEF ended, rest, all, mine

LEMMA LineComposes ==
  ASSUME NEW s \in Seq(Printable), NEW c \in Plain(s, {"semicolon"})
  PROVE  Composed(Parse(SubSeq(s, 1, c - 1)), Parse(SubSeq(s, c + 1, Len(s))), Parse(s))
<1>1. c \in 1 .. Len(s) /\ c \in Bare(s) /\ s[c] = "semicolon"
  BY DEF Plain, Bare
<1>2. PICK left, right : left = SubSeq(s, 1, c - 1) /\ right = SubSeq(s, c + 1, Len(s))
  OBVIOUS
<1>3. left \in Seq(Printable) /\ right \in Seq(Printable)
  BY <1>1, <1>2, LeftSide, RightSide
<1>4. Good(s) <=> Good(left) /\ Good(right)
  BY <1>1, <1>2, GoodComposes
<1>5. CASE Good(s)
  <2>1. /\ Parse(s) = Outcome("commands", Meanings(SplitTopLevel(s), Len(SplitTopLevel(s))))
        /\ Parse(left) = Outcome("commands", Meanings(SplitTopLevel(left), Len(SplitTopLevel(left))))
        /\ Parse(right) = Outcome("commands", Meanings(SplitTopLevel(right), Len(SplitTopLevel(right))))
    BY <1>3, <1>4, <1>5, ParseRead
  <2>2. PICK front, piece : SplitBetween(left, right, s, front, piece)
    BY <1>1, <1>2, SplitComposes
  <2>3. PICK back \in Seq(AnyPiece) : back = SplitTopLevel(right)
    BY <1>3, SplitIsPieces
  <2>4. Meanings(SplitTopLevel(s), Len(SplitTopLevel(s))) =
          Ended(Meanings(SplitTopLevel(left), Len(SplitTopLevel(left)))) \o Meanings(back, Len(back))
    BY <2>2, <2>3, MeaningsCompose
  <2>5. PICK x, y : /\ x = Meanings(SplitTopLevel(left), Len(SplitTopLevel(left)))
                    /\ y = Meanings(SplitTopLevel(right), Len(SplitTopLevel(right)))
    OBVIOUS
  <2>6. Parse(left) = Outcome("commands", x) /\ Parse(right) = Outcome("commands", y)
        /\ Parse(s) = Outcome("commands", Ended(x) \o y)
    BY <2>1, <2>3, <2>4, <2>5
  <2>7. \A z : Outcome("commands", z).kind = "commands" /\ Outcome("commands", z).commands = z
    BY DEF Outcome
  <2> QED BY <1>2, <2>6, <2>7 DEF Composed
<1>6. CASE ~Good(s)
  <2>1. Parse(s).kind # "commands" /\ (Parse(left).kind # "commands" \/ Parse(right).kind # "commands")
    BY <1>3, <1>4, <1>6, ParseRead
  <2> QED BY <1>2, <2>1 DEF Composed
<1> QED BY <1>5, <1>6

-----------------------------------------------------------------------------
(* Words *)

ReadsAlong(s, read) ==
  /\ read[0] = [words |-> <<>>, open |-> FALSE, text |-> <<>>]
  /\ \A k \in 1 .. Len(s) : read[k] = Read(s, Modes(s)[k], read[k - 1], k)

LEMMA WordsRun ==
  ASSUME NEW s, Len(s) \in Nat
  PROVE  \E read : /\ ReadsAlong(s, read)
                   /\ Words(s) = IF read[Len(s)].open THEN Append(read[Len(s)].words, read[Len(s)].text)
                                 ELSE read[Len(s)].words
<1> DEFINE Is(read) == read = [i \in 0 .. Len(s) |->
                         IF i = 0 THEN [words |-> <<>>, open |-> FALSE, text |-> <<>>]
                         ELSE Read(s, Modes(s)[i], read[i - 1], i)]
           made == CHOOSE read : Is(read)
<1>1. PICK state : Runs("read", s, Modes(s), [words |-> <<>>, open |-> FALSE, text |-> <<>>], Len(s), state)
  BY RunExists
<1>2. Is(state)
  BY <1>1 DEF Runs, Step
<1>3. Is(made)
  BY <1>2
<1>4. ReadsAlong(s, made)
  <2> HIDE DEF made
  <2>1. 0 \in 0 .. Len(s) /\ \A k \in 1 .. Len(s) : k \in 0 .. Len(s) /\ k # 0
    OBVIOUS
  <2>2. made[0] = [words |-> <<>>, open |-> FALSE, text |-> <<>>]
    BY <1>3, <2>1
  <2>3. ASSUME NEW k \in 1 .. Len(s) PROVE made[k] = Read(s, Modes(s)[k], made[k - 1], k)
    BY <1>3, <2>1
  <2> QED BY <2>2, <2>3 DEF ReadsAlong
<1>5. Words(s) = IF made[Len(s)].open THEN Append(made[Len(s)].words, made[Len(s)].text) ELSE made[Len(s)].words
  BY DEF Words
<1> QED BY <1>4, <1>5

\* Words are made of what each character gives.
TakesFrom(s, A) == \A i \in 1 .. Len(s) : Taken(s, i, Modes(s)[i]) \in Seq(A)
ReadFrom(was, A) == was.words \in Seq(Seq(A)) /\ was.text \in Seq(A) /\ was.open \in BOOLEAN

LEMMA ReadKeeps ==
  ASSUME NEW A, NEW s, NEW i, NEW mode, Taken(s, i, mode) \in Seq(A), NEW was, ReadFrom(was, A)
  PROVE  ReadFrom(Read(s, mode, was, i), A)
<1>1. was.words \in Seq(Seq(A)) /\ was.text \in Seq(A) /\ was.open \in BOOLEAN
  BY DEF ReadFrom
<1>2. Append(was.words, was.text) \in Seq(Seq(A)) /\ was.text \o Taken(s, i, mode) \in Seq(A) /\ <<>> \in Seq(A)
  BY <1>1
<1>3. CASE mode = "plain" /\ s[i] = "blank"
  <2>1. Read(s, mode, was, i) = [words |-> IF was.open THEN Append(was.words, was.text) ELSE was.words,
                                 open |-> FALSE, text |-> <<>>]
    BY <1>3 DEF Read
  <2> QED BY <1>1, <1>2, <2>1 DEF ReadFrom
<1>4. CASE ~(mode = "plain" /\ s[i] = "blank")
  <2>1. Read(s, mode, was, i) = [words |-> was.words, open |-> TRUE, text |-> was.text \o Taken(s, i, mode)]
    BY <1>4 DEF Read
  <2> QED BY <1>1, <1>2, <2>1 DEF ReadFrom
<1> QED BY <1>3, <1>4

LEMMA WordsFrom ==
  ASSUME NEW A, NEW s, Len(s) \in Nat, TakesFrom(s, A)
  PROVE  Words(s) \in Seq(Seq(A))
<1>1. PICK n \in Nat : n = Len(s)
  OBVIOUS
<1>2. PICK read : /\ ReadsAlong(s, read)
                  /\ Words(s) = IF read[n].open THEN Append(read[n].words, read[n].text) ELSE read[n].words
  BY <1>1, WordsRun
<1> DEFINE Held == {k \in 0 .. n : ReadFrom(read[k], A)}
<1>3. 0 \in Held
  <2>1. read[0] = [words |-> <<>>, open |-> FALSE, text |-> <<>>]
    BY <1>2 DEF ReadsAlong
  <2>2. ReadFrom(read[0], A)
    BY <2>1 DEF ReadFrom
  <2> QED BY <2>2
<1>4. ASSUME NEW k \in 1 .. n, k - 1 \in Held PROVE k \in Held
  <2>1. read[k] = Read(s, Modes(s)[k], read[k - 1], k) /\ Taken(s, k, Modes(s)[k]) \in Seq(A) /\ k \in 0 .. n
    BY <1>1, <1>2 DEF ReadsAlong, TakesFrom
  <2>2. ReadFrom(read[k - 1], A)
    BY <1>4
  <2>3. ReadFrom(Read(s, Modes(s)[k], read[k - 1], k), A)
    BY <2>1, <2>2, ReadKeeps
  <2> QED BY <2>1, <2>3
<1>5. Held \subseteq 0 .. n
  OBVIOUS
<1> HIDE DEF Held
<1>6. n \in Held
  <2>1. Held = 0 .. n
    BY <1>3, <1>4, <1>5, Inductively
  <2> QED BY <2>1
<1>7. ReadFrom(read[n], A)
  BY <1>6 DEF Held
<1> QED BY <1>2, <1>7 DEF ReadFrom

LEMMA TakenFacts ==
  ASSUME NEW s, NEW i, NEW mode
  PROVE  \/ Taken(s, i, mode) = <<>>
         \/ Taken(s, i, mode) = <<"\\">> /\ s[i] = "\\"
         \/ Taken(s, i, mode) = <<s[i]>>
         \/ Taken(s, i, mode) = <<"\\", s[i]>> /\ mode = "doubleEscape"
BY DEF Taken

LEMMA WordsType ==
  ASSUME NEW s \in Seq(Printable)
  PROVE  Words(s) \in Seq(Seq(Printable))
<1>1. ASSUME NEW i \in 1 .. Len(s) PROVE Taken(s, i, Modes(s)[i]) \in Seq(Printable)
  <2>1. s[i] \in Printable /\ "\\" \in Printable
    BY DEF Printable
  <2>2. PICK a, mode : a = s[i] /\ mode = Modes(s)[i]
    OBVIOUS
  <2>3. <<>> \in Seq(Printable) /\ <<"\\">> \in Seq(Printable) /\ <<a>> \in Seq(Printable) /\ <<"\\", a>> \in Seq(Printable)
    BY <2>1, <2>2
  <2> QED BY <2>2, <2>3, TakenFacts
<1> QED BY <1>1, WordsFrom DEF TakesFrom

-----------------------------------------------------------------------------
(* Redirections *)

LEMMA RedirectFacts ==
  ASSUME NEW s \in Seq(Printable), NEW i \in 1 .. Len(s)
  PROVE  /\ RedirectAt(s, i).width \in {0, 1, 2}
         /\ s[i] \in {">", "<"} => RedirectAt(s, i).width # 0
         /\ RedirectAt(s, i).width # 0 => i + RedirectAt(s, i).width \in i + 1 .. Len(s) + 1
         /\ RedirectAt(s, i).write \in BOOLEAN
<1>1. CASE s[i] \in {"&", "2", ">"} /\ At(s, i + 1) = ">"
  <2>1. RedirectAt(s, i) = [width |-> 2, write |-> TRUE]
    BY <1>1 DEF RedirectAt
  <2>2. i + 1 \in 1 .. Len(s)
    BY <1>1 DEF At
  <2> QED BY <2>1, <2>2
<1>2. CASE s[i] = ">" /\ At(s, i + 1) # ">"
  <2>1. RedirectAt(s, i) = [width |-> 1, write |-> TRUE]
    BY <1>2 DEF RedirectAt
  <2> QED BY <2>1
<1>3. CASE s[i] = "<"
  <2>1. RedirectAt(s, i) = [width |-> 1, write |-> FALSE]
    BY <1>3 DEF RedirectAt
  <2> QED BY <2>1
<1>4. CASE ~(s[i] \in {"&", "2", ">"} /\ At(s, i + 1) = ">") /\ ~(s[i] = ">" /\ At(s, i + 1) # ">") /\ s[i] # "<"
  <2>1. RedirectAt(s, i) = [width |-> 0, write |-> FALSE]
    BY <1>4 DEF RedirectAt
  <2>2. s[i] \notin {">", "<"}
    BY <1>4
  <2> QED BY <2>1, <2>2
<1> QED BY <1>1, <1>2, <1>3, <1>4

LEMMA SkipFacts ==
  ASSUME NEW s \in Seq(Printable), NEW i \in 1 .. Len(s) + 1
  PROVE  /\ SkipWhitespace(s, i) \in i .. Len(s) + 1 /\ At(s, SkipWhitespace(s, i)) # "blank"
         /\ \A k \in i .. SkipWhitespace(s, i) - 1 : s[k] = "blank"
<1> DEFINE S == {j \in i .. Len(s) + 1 : At(s, j) # "blank"}
<1>1. Len(s) + 1 \in S
  BY DEF At
<1>2. S \subseteq Nat /\ S # {}
  BY <1>1
<1> HIDE DEF S
<1>3. PICK j \in S : \A k \in S : j <= k
  BY <1>2, FirstPlace
<1>4. j \in i .. Len(s) + 1 /\ At(s, j) # "blank"
  BY <1>3 DEF S
<1>5. ASSUME NEW k \in i .. j - 1 PROVE s[k] = "blank"
  <2>1. k \in i .. Len(s) + 1 /\ ~(j <= k) /\ k \in 1 .. Len(s)
    BY <1>4
  <2>2. k \notin S
    BY <1>3, <2>1
  <2> QED BY <2>1, <2>2 DEF S, At
<1>6. \E x \in i .. Len(s) + 1 : At(s, x) # "blank" /\ \A k \in i .. x - 1 : s[k] = "blank"
  BY <1>4, <1>5
<1> QED BY <1>6 DEF SkipWhitespace

LEMMA WordEndFacts ==
  ASSUME NEW s \in Seq(Printable), NEW i \in 1 .. Len(s) + 1
  PROVE  /\ WordEnd(s, i) \in i .. Len(s) + 1
         /\ WordEnd(s, i) \in Separators(s) \/ WordEnd(s, i) = Len(s) + 1
         /\ \A k \in i .. WordEnd(s, i) - 1 : k \notin Separators(s)
<1> DEFINE ends == {j \in i .. Len(s) : Modes(s)[j] = "plain" /\ s[j] \in {"blank", "semicolon", "&", "|"}}
<1>1. WordEnd(s, i) = IF ends = {} THEN Len(s) + 1 ELSE CHOOSE j \in ends : \A k \in ends : j <= k
  BY DEF WordEnd
<1>2. ends \subseteq i .. Len(s) /\ ends \subseteq Nat
  OBVIOUS
<1>3. \A k \in i .. Len(s) : k \in ends <=> k \in Separators(s)
  BY DEF Separators, Plain, Bare
<1> HIDE DEF ends
<1>4. CASE ends = {}
  <2>1. WordEnd(s, i) = Len(s) + 1
    BY <1>1, <1>4
  <2> QED BY <1>3, <1>4, <2>1
<1>5. CASE ends # {}
  <2>1. \E j \in ends : \A k \in ends : j <= k
    BY <1>2, <1>5, FirstPlace
  <2>2. PICK end \in ends : end = WordEnd(s, i) /\ \A k \in ends : end <= k
    BY <1>1, <1>5, <2>1
  <2>3. end \in i .. Len(s) /\ end \in i .. Len(s) + 1
    BY <1>2, <2>2
  <2>4. ASSUME NEW k \in i .. end - 1 PROVE k \notin Separators(s)
    <3>1. k \in i .. Len(s) /\ ~(end <= k)
      BY <2>3
    <3> QED BY <1>3, <2>2, <3>1
  <2> QED BY <1>3, <2>2, <2>3, <2>4
<1> QED BY <1>4, <1>5

\* The target of a redirection is behind its sign.
LEMMA TargetFacts ==
  ASSUME NEW s \in Seq(Printable), NEW i \in 1 .. Len(s), RedirectAt(s, i).width # 0
  PROVE  TargetEnd(s, i) \in i + 1 .. Len(s) + 1 /\ Target(s, i) \in Seq(Seq(Printable))
<1>1. PICK next \in Nat : next = i + RedirectAt(s, i).width /\ next \in i + 1 .. Len(s) + 1
  BY RedirectFacts
<1>2. PICK start \in Nat : start = TargetStart(s, i) /\ start \in next .. Len(s) + 1
  BY <1>1, SkipFacts DEF TargetStart
<1>3. PICK end \in Nat : end = TargetEnd(s, i) /\ end \in start .. Len(s) + 1
  BY <1>1, <1>2, WordEndFacts DEF TargetEnd
<1>4. SubSeq(s, start, end - 1) \in Seq(Printable)
  BY <1>1, <1>2, <1>3
<1>5. Words(SubSeq(s, start, end - 1)) \in Seq(Seq(Printable))
  BY <1>4, WordsType
<1> QED BY <1>1, <1>2, <1>3, <1>5 DEF Target

Untouched == [ok |-> TRUE, tokens |-> <<>>, writes |-> <<>>, reads |-> <<>>, next |-> 1]
ExtractsAlong(s, taken) ==
  taken[0] = Untouched /\ \A k \in 1 .. Len(s) : taken[k] = Extract(s, Bare(s), taken[k - 1], k)

LEMMA ExtractRun ==
  ASSUME NEW s, NEW n \in Nat, n = Len(s)
  PROVE  \E taken :
           /\ ExtractsAlong(s, taken)
           /\ ExtractRedirects(s) = [ok |-> taken[n].ok, tokens |-> taken[n].tokens \o SubSeq(s, taken[n].next, n),
                                     writes |-> taken[n].writes, reads |-> taken[n].reads]
<1> DEFINE Is(taken) == taken = [i \in 0 .. Len(s) |->
              IF i = 0 THEN [ok |-> TRUE, tokens |-> <<>>, writes |-> <<>>, reads |-> <<>>, next |-> 1]
              ELSE Extract(s, Bare(s), taken[i - 1], i)]
           made == CHOOSE taken : Is(taken)
<1>1. PICK state : Runs("extract", s, Bare(s), Untouched, Len(s), state)
  BY RunExists
<1>2. Is(state)
  BY <1>1 DEF Runs, Step, Untouched
<1>3. Is(made)
  BY <1>2
<1>4. ExtractsAlong(s, made)
  <2> HIDE DEF made
  <2>1. 0 \in 0 .. Len(s) /\ \A k \in 1 .. Len(s) : k \in 0 .. Len(s) /\ k # 0
    OBVIOUS
  <2>2. made[0] = Untouched
    BY <1>3, <2>1 DEF Untouched
  <2>3. ASSUME NEW k \in 1 .. Len(s) PROVE made[k] = Extract(s, Bare(s), made[k - 1], k)
    BY <1>3, <2>1
  <2> QED BY <2>2, <2>3 DEF ExtractsAlong
<1>5. ExtractRedirects(s) = [ok |-> made[n].ok, tokens |-> made[n].tokens \o SubSeq(s, made[n].next, n),
                             writes |-> made[n].writes, reads |-> made[n].reads]
  BY DEF ExtractRedirects
<1> QED BY <1>4, <1>5

\* A sign that was met has made an effect, unless the target was none.
Extracting(s, was, k) ==
  /\ was.next \in 1 .. Len(s) + 1
  /\ was.writes \in Seq(Seq(Printable)) /\ was.reads \in Seq(Seq(Printable))
  /\ was.next # 1 \/ (\E j \in 1 .. k : j \in Signs(s)) => (was.ok => was.writes # <<>> \/ was.reads # <<>>)

LEMMA ExtractKeeps ==
  ASSUME NEW s \in Seq(Printable), NEW k \in 1 .. Len(s), NEW was, Extracting(s, was, k - 1)
  PROVE  Extracting(s, Extract(s, Bare(s), was, k), k)
<1>1. PICK n \in Nat, next \in Nat : n = Len(s) /\ next = was.next /\ 1 <= next /\ next <= n + 1
  BY DEF Extracting
<1>2. CASE k < next \/ k \notin Bare(s) \/ RedirectAt(s, k).width = 0
  <2>1. Extract(s, Bare(s), was, k) = was
    BY <1>1, <1>2 DEF Extract
  <2>2. k \in Signs(s) => next # 1
    <3>1. k \in Signs(s) => k \in Bare(s) /\ RedirectAt(s, k).width # 0
      BY RedirectFacts DEF Signs, Plain
    <3> QED BY <1>1, <1>2, <3>1
  <2>3. \A j \in 1 .. k : j = k \/ j \in 1 .. k - 1
    OBVIOUS
  <2> QED BY <1>1, <2>1, <2>2, <2>3 DEF Extracting
<1>3. CASE ~(k < next) /\ k \in Bare(s) /\ RedirectAt(s, k).width # 0
  <2> DEFINE then == Extract(s, Bare(s), was, k)
  <2>1. PICK writes \in Seq(Seq(Printable)), reads \in Seq(Seq(Printable)), target \in Seq(Seq(Printable)) :
          writes = was.writes /\ reads = was.reads /\ target = Target(s, k)
    BY <1>3, TargetFacts DEF Extracting
  <2>2. then = [ok |-> was.ok /\ Len(target) = 1,
                tokens |-> was.tokens \o SubSeq(s, was.next, k - 1),
                writes |-> IF RedirectAt(s, k).write THEN writes \o target ELSE writes,
                reads |-> IF RedirectAt(s, k).write THEN reads ELSE reads \o target,
                next |-> TargetEnd(s, k)]
    BY <1>1, <1>3, <2>1 DEF Extract
  <2>3. writes \o target \in Seq(Seq(Printable)) /\ reads \o target \in Seq(Seq(Printable))
    OBVIOUS
  <2>4. Len(target) = 1 => writes \o target # <<>> /\ reads \o target # <<>>
    <3>1. target \in Seq(Seq(Printable)) /\ writes \in Seq(Seq(Printable)) /\ reads \in Seq(Seq(Printable))
      OBVIOUS
    <3>2. /\ Len(writes \o target) = Len(writes) + Len(target) /\ Len(writes) \in Nat
          /\ Len(reads \o target) = Len(reads) + Len(target) /\ Len(reads) \in Nat
      BY <3>1, ConcatProperties
    <3>3. Len(target) = 1 => Len(writes \o target) # 0 /\ Len(reads \o target) # 0
      BY <3>2
    <3> QED BY <3>3
  <2>5. TargetEnd(s, k) \in 1 .. Len(s) + 1
    BY <1>3, TargetFacts
  <2>6. /\ then.next = TargetEnd(s, k) /\ then.ok = (was.ok /\ Len(target) = 1)
        /\ RedirectAt(s, k).write => then.writes = writes \o target /\ then.reads = reads
        /\ ~RedirectAt(s, k).write => then.writes = writes /\ then.reads = reads \o target
    <3>1. PICK first, second : first = writes \o target /\ second = reads \o target
      OBVIOUS
    <3>2. then = [ok |-> was.ok /\ Len(target) = 1,
                  tokens |-> was.tokens \o SubSeq(s, was.next, k - 1),
                  writes |-> IF RedirectAt(s, k).write THEN first ELSE writes,
                  reads |-> IF RedirectAt(s, k).write THEN reads ELSE second,
                  next |-> TargetEnd(s, k)]
      BY <2>2, <3>1
    <3> HIDE DEF then
    <3> QED BY <3>1, <3>2
  <2> HIDE DEF then
  <2>7. then.ok => then.writes # <<>> \/ then.reads # <<>>
    BY <2>4, <2>6
  <2>8. then.writes \in Seq(Seq(Printable)) /\ then.reads \in Seq(Seq(Printable))
    BY <2>3, <2>6
  <2> QED BY <2>5, <2>6, <2>7, <2>8 DEF Extracting, then
<1> QED BY <1>2, <1>3

LEMMA ExtractFacts ==
  ASSUME NEW s \in Seq(Printable)
  PROVE  LET redirects == ExtractRedirects(s) IN
         /\ redirects.writes \in Seq(Seq(Printable)) /\ redirects.reads \in Seq(Seq(Printable))
         /\ redirects.ok /\ Signs(s) # {} => redirects.writes # <<>> \/ redirects.reads # <<>>
<1>1. PICK n \in Nat : n = Len(s)
  OBVIOUS
<1>2. PICK taken :
        /\ ExtractsAlong(s, taken)
        /\ ExtractRedirects(s) = [ok |-> taken[n].ok, tokens |-> taken[n].tokens \o SubSeq(s, taken[n].next, n),
                                  writes |-> taken[n].writes, reads |-> taken[n].reads]
  BY <1>1, ExtractRun
<1> DEFINE Held == {k \in 0 .. n : Extracting(s, taken[k], k)}
<1>3. 0 \in Held
  <2>1. taken[0] = Untouched
    BY <1>2 DEF ExtractsAlong
  <2>2. Extracting(s, taken[0], 0)
    BY <2>1 DEF Extracting, Untouched
  <2> QED BY <2>2
<1>4. ASSUME NEW k \in 1 .. n, k - 1 \in Held PROVE k \in Held
  <2>1. taken[k] = Extract(s, Bare(s), taken[k - 1], k) /\ k \in 0 .. n
    BY <1>1, <1>2 DEF ExtractsAlong
  <2>2. Extracting(s, taken[k - 1], k - 1)
    BY <1>4
  <2>3. Extracting(s, Extract(s, Bare(s), taken[k - 1], k), k)
    BY <1>1, <2>2, ExtractKeeps
  <2> QED BY <2>1, <2>3
<1>5. Held \subseteq 0 .. n
  OBVIOUS
<1> HIDE DEF Held
<1>6. n \in Held
  <2>1. Held = 0 .. n
    BY <1>3, <1>4, <1>5, Inductively
  <2> QED BY <2>1
<1>7. Extracting(s, taken[n], n)
  BY <1>6 DEF Held
<1>8. Signs(s) \subseteq 1 .. n
  BY <1>1 DEF Signs, Plain, Bare
<1> QED BY <1>2, <1>7, <1>8 DEF Extracting

-----------------------------------------------------------------------------
(* No sign outside quotes is missed *)

LEMMA SignInPart ==
  ASSUME NEW s \in Seq(Printable), NEW a \in 1 .. Len(s) + 1, NEW b \in a - 1 .. Len(s), Modes(s)[a] = "plain",
         NEW j \in a .. b, j \in Signs(s)
  PROVE  Signs(SubSeq(s, a, b)) # {}
<1>1. PICK part : part = SubSeq(s, a, b)
  OBVIOUS
<1>2. /\ part \in Seq(Printable) /\ Len(part) = b - a + 1
      /\ \A i \in 1 .. b - a + 1 : part[i] = s[a + i - 1]
      /\ \A i \in 1 .. b - a + 2 : Modes(part)[i] = Modes(s)[a + i - 1]
  BY <1>1, ModesOfPart
<1>3. PICK i \in Nat : i = j - a + 1 /\ i \in 1 .. b - a + 1 /\ i \in 1 .. b - a + 2 /\ a + i - 1 = j
  <2>1. j - a + 1 \in Nat
    OBVIOUS
  <2>2. j - a + 1 \in 1 .. b - a + 1 /\ j - a + 1 \in 1 .. b - a + 2 /\ a + (j - a + 1) - 1 = j
    OBVIOUS
  <2> QED BY <2>1, <2>2
<1>4. DOMAIN part = 1 .. b - a + 1
  BY <1>2
<1>5. s[j] \in {">", "<"} /\ Modes(s)[j] = "plain"
  BY DEF Signs, Plain, Bare
<1>6. i \in Signs(part)
  BY <1>2, <1>3, <1>4, <1>5 DEF Signs, Plain, Bare
<1> QED BY <1>1, <1>6

\* Every sign that was passed is in a piece.
Covered(s, was) ==
  \A j \in Signs(s) : j < was.next => \E m \in DOMAIN was.pieces : Signs(was.pieces[m].text) # {}

LEMMA CutCovers ==
  ASSUME NEW s \in Seq(Printable), NEW k \in 1 .. Len(s), NEW was, Cutting(s, was, k - 1), Covered(s, was)
  PROVE  Covered(s, Cut(s, Bare(s), was, k))
<1>1. PICK n \in Nat, next \in Nat : n = Len(s) /\ next = was.next /\ 1 <= next /\ next <= n + 1 /\ k \in 1 .. n
  BY DEF Cutting
<1>2. CASE k < next \/ k \notin Bare(s) \/ OperatorAt(s, k) = "none"
  <2>1. Cut(s, Bare(s), was, k) = was
    BY <1>1, <1>2 DEF Cut
  <2> QED BY <2>1
<1>3. CASE ~(k < next) /\ k \in Bare(s) /\ OperatorAt(s, k) # "none"
  <2> DEFINE piece == Piece(s, next, k - 1, OperatorAt(s, k))
             then == Cut(s, Bare(s), was, k)
  <2>1. then = [pieces |-> Append(was.pieces, piece), next |-> k + Width(OperatorAt(s, k))]
    BY <1>1, <1>3 DEF Cut
  <2>2. then.pieces = Append(was.pieces, piece) /\ then.next = k + Width(OperatorAt(s, k))
    BY <2>1
  <2>3. PICK pieces \in Seq(AnyPiece) : pieces = was.pieces
    BY DEF Cutting
  <2>4. piece.text = SubSeq(s, next, k - 1)
    BY DEF Piece
  <2> HIDE DEF piece, then
  <2>5. /\ \A m \in DOMAIN pieces : m \in DOMAIN then.pieces /\ then.pieces[m] = pieces[m]
        /\ Len(pieces) + 1 \in DOMAIN then.pieces /\ then.pieces[Len(pieces) + 1] = piece
    BY <2>2, <2>3
  <2>6. ASSUME NEW j \in Signs(s), j < then.next PROVE \E m \in DOMAIN then.pieces : Signs(then.pieces[m].text) # {}
    <3>1. j \in 1 .. n /\ s[j] \in {">", "<"}
      BY <1>1 DEF Signs, Plain, Bare
    <3>2. CASE j < next
      <4>1. \E m \in DOMAIN pieces : Signs(pieces[m].text) # {}
        BY <1>1, <2>3, <3>2 DEF Covered
      <4> QED BY <2>5, <4>1
    <3>3. CASE next <= j /\ j <= k - 1
      <4>1. next \in 1 .. Len(s) + 1 /\ k - 1 \in next - 1 .. Len(s) /\ j \in next .. k - 1 /\ Modes(s)[next] = "plain"
        BY <1>1, <3>1, <3>3 DEF Cutting
      <4>2. Signs(SubSeq(s, next, k - 1)) # {}
        BY <4>1, SignInPart
      <4> QED BY <2>4, <2>5, <4>2
    <3>4. CASE j >= k
      <4>1. s[k] \in {"semicolon", "&", "|"} /\ Width(OperatorAt(s, k)) \in {1, 2}
        BY <1>3, OperatorFacts
      <4>2. j = k \/ (j = k + 1 /\ Width(OperatorAt(s, k)) = 2)
        BY <1>1, <2>2, <2>6, <3>1, <3>4, <4>1
      <4>3. j # k
        BY <3>1, <4>1
      <4>4. s[k + 1] \in {"&", "|"}
        BY <1>3, <4>2, <4>3, OperatorFacts
      <4> QED BY <3>1, <4>2, <4>3, <4>4
    <3>5. j < next \/ (next <= j /\ j <= k - 1) \/ j >= k
      BY <1>1, <3>1
    <3> QED BY <3>2, <3>3, <3>4, <3>5
  <2> QED BY <2>6 DEF Covered, then
<1> QED BY <1>2, <1>3

LEMMA SignedPiece ==
  ASSUME NEW s \in Seq(Printable), NEW j \in Signs(s)
  PROVE  \E m \in DOMAIN SplitTopLevel(s) : Signs(SplitTopLevel(s)[m].text) # {}
<1>1. PICK n \in Nat : n = Len(s) /\ n \in 0 .. Len(s)
  OBVIOUS
<1>2. PICK cut : /\ CutsAlong(s, Bare(s), cut)
                 /\ SplitTopLevel(s) = Append(cut[n].pieces, Piece(s, cut[n].next, n, "none"))
  BY <1>1, CutRun DEF SplitTopLevel
<1>3. \A k \in 0 .. n : Cutting(s, cut[k], k)
  BY <1>1, <1>2, CuttingAlong
<1> DEFINE Held == {k \in 0 .. n : Covered(s, cut[k])}
<1>4. 0 \in Held
  <2>1. cut[0].next = 1
    BY <1>2 DEF CutsAlong
  <2>2. \A i \in Signs(s) : ~(i < 1)
    BY DEF Signs, Plain, Bare
  <2> QED BY <2>1, <2>2 DEF Covered
<1>5. ASSUME NEW k \in 1 .. n, k - 1 \in Held PROVE k \in Held
  <2>1. cut[k] = Cut(s, Bare(s), cut[k - 1], k) /\ k \in 0 .. n /\ k - 1 \in 0 .. n
    BY <1>1, <1>2 DEF CutsAlong
  <2>2. Covered(s, cut[k - 1]) /\ Cutting(s, cut[k - 1], k - 1)
    BY <1>3, <1>5, <2>1
  <2>3. Covered(s, Cut(s, Bare(s), cut[k - 1], k))
    BY <1>1, <2>2, CutCovers
  <2> QED BY <2>1, <2>3
<1>6. Held \subseteq 0 .. n
  OBVIOUS
<1> HIDE DEF Held
<1>7. Covered(s, cut[n])
  <2>1. Held = 0 .. n
    BY <1>4, <1>5, <1>6, Inductively
  <2> QED BY <2>1 DEF Held
<1>8. PICK pieces \in Seq(AnyPiece), next \in Nat :
        /\ pieces = cut[n].pieces /\ next = cut[n].next /\ 1 <= next /\ next <= n + 1 /\ Modes(s)[next] = "plain"
  <2>1. cut[n].pieces \in Seq(AnyPiece) /\ cut[n].next \in 1 .. Len(s) + 1 /\ Modes(s)[cut[n].next] = "plain"
    BY <1>1, <1>3 DEF Cutting
  <2> QED BY <1>1, <2>1
<1>9. PICK last : last = Piece(s, next, n, "none")
  OBVIOUS
<1>10. SplitTopLevel(s) = Append(pieces, last) /\ last.text = SubSeq(s, next, n)
  BY <1>2, <1>8, <1>9 DEF Piece
<1>11. /\ \A m \in DOMAIN pieces : m \in DOMAIN Append(pieces, last) /\ Append(pieces, last)[m] = pieces[m]
       /\ Len(pieces) + 1 \in DOMAIN Append(pieces, last) /\ Append(pieces, last)[Len(pieces) + 1] = last
  OBVIOUS
<1>12. CASE j < next
  <2>1. \E m \in DOMAIN pieces : Signs(pieces[m].text) # {}
    BY <1>7, <1>8, <1>12 DEF Covered
  <2> QED BY <1>10, <1>11, <2>1
<1>13. CASE ~(j < next)
  <2>1. j \in 1 .. n
    BY <1>1 DEF Signs, Plain, Bare
  <2>2. next \in 1 .. Len(s) + 1 /\ n \in next - 1 .. Len(s) /\ j \in next .. n
    BY <1>1, <1>8, <1>13, <2>1
  <2>3. Signs(SubSeq(s, next, n)) # {}
    BY <1>8, <2>2, SignInPart
  <2> QED BY <1>10, <1>11, <2>3
<1> QED BY <1>12, <1>13

LEMMA PieceTexts ==
  ASSUME NEW s \in Seq(Printable), NEW m \in DOMAIN SplitTopLevel(s)
  PROVE  SplitTopLevel(s)[m].text \in Seq(Printable)
<1>1. PICK pieces \in Seq(AnyPiece) : pieces = SplitTopLevel(s)
  BY SplitIsPieces
<1>2. pieces[m] \in AnyPiece
  BY <1>1
<1> QED BY <1>1, <1>2 DEF AnyPiece

LEMMA ResolvedType ==
  ASSUME NEW texts \in Seq(Seq(Printable)), NEW V, \A i \in 1 .. Len(texts) : Substitute(texts[i]).text \in V
  PROVE  Resolved(texts) \in Seq(V) /\ Len(Resolved(texts)) = Len(texts)
<1>1. PICK n \in Nat : n = Len(texts) /\ DOMAIN texts = 1 .. n
  OBVIOUS
<1>2. Resolved(texts) = [i \in 1 .. n |-> Substitute(texts[i]).text]
  BY <1>1 DEF Resolved
<1> QED BY <1>1, <1>2

\* A piece with a sign outside quotes, if it is read, has an effect.
LEMMA SignIsEffect ==
  ASSUME NEW t \in Seq(Printable), Readable(t), Signs(t) # {}, NEW operator
  PROVE  Meaning(t, operator).writes \o Meaning(t, operator).reads # <<>>
<1>1. PICK writes \in Seq(Seq(Printable)), reads \in Seq(Seq(Printable)) :
        writes = ExtractRedirects(t).writes /\ reads = ExtractRedirects(t).reads /\ (writes # <<>> \/ reads # <<>>)
  BY ExtractFacts DEF Readable
<1>2. Meaning(t, operator).writes = Resolved(writes) /\ Meaning(t, operator).reads = Resolved(reads)
  BY <1>1 DEF Meaning
<1>3. PICK w \in Nat, r \in Nat : w = Len(writes) /\ r = Len(reads)
  OBVIOUS
<1>4. (writes # <<>> => w > 0) /\ (reads # <<>> => r > 0)
  BY <1>3
<1>5. w + r > 0
  BY <1>1, <1>4
<1> DEFINE V == {Substitute(writes[i]).text : i \in 1 .. w} \union {Substitute(reads[i]).text : i \in 1 .. r}
<1>6. (\A i \in 1 .. w : Substitute(writes[i]).text \in V) /\ (\A i \in 1 .. r : Substitute(reads[i]).text \in V)
  OBVIOUS
<1> HIDE DEF V
<1>7. PICK x \in Seq(V), y \in Seq(V) : x = Resolved(writes) /\ y = Resolved(reads) /\ Len(x) = w /\ Len(y) = r
  BY <1>3, <1>6, ResolvedType
<1>8. Len(x \o y) = w + r
  <2>1. Len(x \o y) = Len(x) + Len(y)
    BY ConcatProperties
  <2> QED BY <1>7, <2>1
<1>9. Len(<<>>) = 0
  OBVIOUS
<1> QED BY <1>2, <1>5, <1>7, <1>8, <1>9

-----------------------------------------------------------------------------
(* Every redirection of its own is an effect *)

Foremost(s, i) == \A j \in Signs(s) : j < i => Divided(s, j, i)

\* Where extract_redirects meets the redirection whose sign is at i.
Begin(s, i) == IF s[i] = ">" /\ i - 1 \in Plain(s, {"2", "&"}) THEN i - 1 ELSE i

LEMMA SignPlaces ==
  ASSUME NEW s \in Seq(Printable)
  PROVE  /\ \A i \in Signs(s) : i \in 1 .. Len(s) /\ s[i] \in {">", "<"} /\ i \in Bare(s)
         /\ \A i \in Separators(s) : i \in 1 .. Len(s)
  BY DEF Signs, Separators, Plain, Bare

LEMMA BeginFacts ==
  ASSUME NEW s \in Seq(Printable), NEW i \in Signs(s)
  PROVE  /\ Begin(s, i) \in 1 .. Len(s) /\ Begin(s, i) \in Bare(s) /\ Begin(s, i) \in {i - 1, i}
         /\ RedirectAt(s, Begin(s, i)).width # 0 /\ (RedirectAt(s, Begin(s, i)).write <=> s[i] = ">")
         /\ Begin(s, i) + RedirectAt(s, Begin(s, i)).width = IF Appends(s, i) THEN i + 2 ELSE i + 1
<1>1. i \in 1 .. Len(s) /\ s[i] \in {">", "<"} /\ i \in Bare(s)
  BY SignPlaces
<1> DEFINE Met(begin, width, write) ==
      /\ begin \in 1 .. Len(s) /\ begin \in Bare(s) /\ begin \in {i - 1, i} /\ begin = Begin(s, i)
      /\ RedirectAt(s, begin) = [width |-> width, write |-> write] /\ width # 0 /\ (write <=> s[i] = ">")
      /\ begin + width = IF Appends(s, i) THEN i + 2 ELSE i + 1
<1>2. ASSUME NEW begin, NEW width, NEW write, Met(begin, width, write)
      PROVE  /\ Begin(s, i) \in 1 .. Len(s) /\ Begin(s, i) \in Bare(s) /\ Begin(s, i) \in {i - 1, i}
             /\ RedirectAt(s, Begin(s, i)).width # 0 /\ (RedirectAt(s, Begin(s, i)).write <=> s[i] = ">")
             /\ Begin(s, i) + RedirectAt(s, Begin(s, i)).width = IF Appends(s, i) THEN i + 2 ELSE i + 1
  <2>1. RedirectAt(s, begin).width = width /\ RedirectAt(s, begin).write = write
    BY <1>2
  <2> QED BY <1>2, <2>1
<1>3. CASE s[i] = ">" /\ i - 1 \in Plain(s, {"2", "&"})
  <2>1. Begin(s, i) = i - 1 /\ ~Appends(s, i)
    BY <1>3 DEF Begin, Appends
  <2>2. i - 1 \in 1 .. Len(s) /\ i - 1 \in Bare(s) /\ s[i - 1] \in {"2", "&"}
    BY <1>3 DEF Plain, Bare
  <2>3. At(s, (i - 1) + 1) = ">"
    BY <1>1, <1>3 DEF At
  <2>4. RedirectAt(s, i - 1) = [width |-> 2, write |-> TRUE]
    BY <2>2, <2>3 DEF RedirectAt
  <2>5. (i - 1) + 2 = i + 1
    BY <1>1
  <2>6. Met(i - 1, 2, TRUE)
    BY <1>3, <2>1, <2>2, <2>4, <2>5
  <2> HIDE DEF Met
  <2> QED BY <1>2, <2>6
<1>4. CASE s[i] = ">" /\ i - 1 \notin Plain(s, {"2", "&"})
  <2>1. Begin(s, i) = i /\ (Appends(s, i) <=> At(s, i + 1) = ">")
    BY <1>4 DEF Begin, Appends
  <2>2. CASE At(s, i + 1) = ">"
    <3>1. RedirectAt(s, i) = [width |-> 2, write |-> TRUE]
      BY <1>4, <2>2 DEF RedirectAt
    <3>2. Met(i, 2, TRUE)
      BY <1>1, <1>4, <2>1, <2>2, <3>1
    <3> HIDE DEF Met
    <3> QED BY <1>2, <3>2
  <2>3. CASE At(s, i + 1) # ">"
    <3>1. RedirectAt(s, i) = [width |-> 1, write |-> TRUE]
      BY <1>4, <2>3 DEF RedirectAt
    <3>2. Met(i, 1, TRUE)
      BY <1>1, <1>4, <2>1, <2>3, <3>1
    <3> HIDE DEF Met
    <3> QED BY <1>2, <3>2
  <2> QED BY <2>2, <2>3
<1>5. CASE s[i] = "<"
  <2>1. Begin(s, i) = i /\ ~Appends(s, i)
    BY <1>5 DEF Begin, Appends
  <2>2. RedirectAt(s, i) = [width |-> 1, write |-> FALSE]
    BY <1>5 DEF RedirectAt
  <2>3. Met(i, 1, FALSE)
    BY <1>1, <1>5, <2>1, <2>2
  <2> HIDE DEF Met
  <2> QED BY <1>2, <2>3
<1> QED BY <1>1, <1>3, <1>4, <1>5

\* The target that is looked for is the word behind the sign.
LEMMA WordFound ==
  ASSUME NEW s \in Seq(Printable), NEW i \in 1 .. Len(s), RedirectAt(s, i).width # 0,
         NEW a \in 1 .. Len(s), NEW b \in 1 .. Len(s), IsWord(s, i + RedirectAt(s, i).width, a, b)
  PROVE  Target(s, i) = Words(SubSeq(s, a, b))
<1>1. PICK next \in Nat : next = i + RedirectAt(s, i).width /\ next \in 1 .. Len(s) + 1
  BY RedirectFacts
<1>2. /\ next <= a /\ a <= b /\ s[a] # "blank" /\ \A k \in next .. a - 1 : s[k] = "blank"
      /\ \A k \in a .. b : k \notin Separators(s)
      /\ b = Len(s) \/ b + 1 \in Separators(s)
  BY <1>1 DEF IsWord
<1>3. PICK start \in next .. Len(s) + 1 :
        /\ start = TargetStart(s, i) /\ At(s, start) # "blank" /\ \A k \in next .. start - 1 : s[k] = "blank"
  BY <1>1, SkipFacts DEF TargetStart
<1>4. start = a
  <2>1. ~(start < a)
    <3> SUFFICES ASSUME start < a PROVE FALSE
      OBVIOUS
    <3>1. start \in next .. a - 1 /\ start \in 1 .. Len(s)
      BY <1>1
    <3>2. s[start] = "blank" /\ At(s, start) = s[start]
      BY <1>2, <3>1 DEF At
    <3> QED BY <1>3, <3>2
  <2>2. ~(a < start)
    <3> SUFFICES ASSUME a < start PROVE FALSE
      OBVIOUS
    <3>1. a \in next .. start - 1
      BY <1>2
    <3> QED BY <1>2, <1>3, <3>1
  <2> QED BY <1>1, <1>3, <2>1, <2>2
<1>5. PICK end \in a .. Len(s) + 1 :
        /\ end = TargetEnd(s, i) /\ (end \in Separators(s) \/ end = Len(s) + 1)
        /\ \A k \in a .. end - 1 : k \notin Separators(s)
  <2>1. a \in 1 .. Len(s) + 1 /\ TargetEnd(s, i) = WordEnd(s, a)
    BY <1>3, <1>4 DEF TargetEnd
  <2> QED BY <2>1, WordEndFacts
<1>6. end = b + 1
  <2>1. ~(end <= b)
    <3> SUFFICES ASSUME end <= b PROVE FALSE
      OBVIOUS
    <3>1. end \in a .. b /\ end # Len(s) + 1
      OBVIOUS
    <3> QED BY <1>2, <1>5, <3>1
  <2>2. ~(end > b + 1)
    <3> SUFFICES ASSUME end > b + 1 PROVE FALSE
      OBVIOUS
    <3>1. b + 1 \in a .. end - 1 /\ b # Len(s)
      BY <1>2
    <3> QED BY <1>2, <1>5, <3>1
  <2> QED BY <2>1, <2>2
<1>7. end - 1 = b
  BY <1>6
<1> QED BY <1>3, <1>4, <1>5, <1>7 DEF Target

\* Behind whatever is taken for a redirection stands a sign that belongs to it.
LEMMA SignOfRedirect ==
  ASSUME NEW s \in Seq(Printable), NEW k \in 1 .. Len(s), k \in Bare(s), RedirectAt(s, k).width # 0,
         NEW i \in Signs(s), Foremost(s, i), k < Begin(s, i)
  PROVE  \E j \in Signs(s) : j < i /\ k + RedirectAt(s, k).width = j + 1
<1>1. i \in 1 .. Len(s) /\ s[i] \in {">", "<"} /\ i \in Bare(s) /\ Begin(s, i) \in {i - 1, i} /\ k < i
  <2>1. i \in 1 .. Len(s) /\ s[i] \in {">", "<"} /\ i \in Bare(s) /\ Begin(s, i) \in {i - 1, i}
    BY SignPlaces, BeginFacts
  <2> QED BY <2>1
<1>2. Modes(s)[k] = "plain" /\ Modes(s)[k + 1] = After("plain", s[k])
  <2>1. Modes(s)[k] = "plain"
    BY DEF Bare
  <2> QED BY <2>1, ModesAlong
<1>3. ASSUME s[k] \in {"&", "2", ">"}, At(s, k + 1) = ">"
      PROVE  k + 1 \in Signs(s) /\ RedirectAt(s, k).width = 2 /\ s[k + 1] = ">"
  <2>1. k + 1 \in 1 .. Len(s) /\ s[k + 1] = ">"
    BY <1>3 DEF At
  <2>2. After("plain", s[k]) = "plain"
    BY <1>3 DEF After
  <2>3. RedirectAt(s, k) = [width |-> 2, write |-> TRUE]
    BY <1>3 DEF RedirectAt
  <2> QED BY <1>2, <2>1, <2>2, <2>3 DEF Signs, Plain, Bare
<1>4. CASE s[k] \in {">", "<"}
  <2>1. k \in Signs(s) /\ Divided(s, k, i)
    <3>1. k \in Signs(s)
      BY <1>4 DEF Signs, Plain
    <3> QED BY <1>1, <3>1 DEF Foremost
  <2>2. k + 1 < i
    <3>1. PICK x \in k + 2 .. i - 1 : x \in Separators(s)
      BY <2>1 DEF Divided
    <3> QED BY <1>1, <3>1
  <2>3. CASE s[k] = ">" /\ At(s, k + 1) = ">"
    BY <1>3, <2>2, <2>3
  <2>4. CASE ~(s[k] = ">" /\ At(s, k + 1) = ">")
    <3>1. RedirectAt(s, k).width = 1
      <4>1. CASE s[k] = ">"
        <5>1. RedirectAt(s, k) = [width |-> 1, write |-> TRUE]
          BY <2>4, <4>1 DEF RedirectAt
        <5> QED BY <5>1
      <4>2. CASE s[k] = "<"
        <5>1. RedirectAt(s, k) = [width |-> 1, write |-> FALSE]
          BY <4>2 DEF RedirectAt
        <5> QED BY <5>1
      <4> QED BY <1>4, <4>1, <4>2
    <3> QED BY <1>1, <2>1, <3>1
  <2> QED BY <2>3, <2>4
<1>5. CASE s[k] \notin {">", "<"}
  <2>1. s[k] \in {"&", "2"} /\ At(s, k + 1) = ">"
    <3>1. ~(s[k] \in {"&", "2"} /\ At(s, k + 1) = ">") => RedirectAt(s, k) = [width |-> 0, write |-> FALSE]
      BY <1>5 DEF RedirectAt
    <3> QED BY <3>1
  <2>2. k + 1 \in Signs(s) /\ RedirectAt(s, k).width = 2 /\ s[k + 1] = ">"
    BY <1>3, <2>1
  <2>3. k + 1 # i
    <3> SUFFICES ASSUME k + 1 = i PROVE FALSE
      OBVIOUS
    <3>1. i - 1 = k /\ k \in Plain(s, {"2", "&"})
      BY <2>1 DEF Plain
    <3>2. Begin(s, i) = k
      BY <2>2, <3>1 DEF Begin
    <3> QED BY <3>2
  <2> QED BY <1>1, <2>2, <2>3
<1> QED BY <1>4, <1>5

\* A target ends before the next redirection, if a word ends between the two.
LEMMA TargetEndsBefore ==
  ASSUME NEW s \in Seq(Printable), NEW k \in 1 .. Len(s), k \in Bare(s), RedirectAt(s, k).width # 0,
         NEW i \in Signs(s), Foremost(s, i), k < Begin(s, i)
  PROVE  TargetEnd(s, k) <= Begin(s, i)
<1>1. PICK j \in Signs(s) : j < i /\ k + RedirectAt(s, k).width = j + 1
  BY SignOfRedirect
<1>2. j \in 1 .. Len(s) /\ i \in 1 .. Len(s) /\ Begin(s, i) \in {i - 1, i}
  BY SignPlaces, BeginFacts
<1>3. PICK x \in j + 2 .. i - 1 : x \in Separators(s) /\ s[x - 1] # "blank"
  BY <1>1 DEF Foremost, Divided
<1>4. PICK start \in j + 1 .. Len(s) + 1 : start = TargetStart(s, k) /\ \A y \in j + 1 .. start - 1 : s[y] = "blank"
  <2>1. j + 1 \in 1 .. Len(s) + 1
    BY <1>2
  <2> QED BY <1>1, <2>1, SkipFacts DEF TargetStart
<1>5. start <= x - 1
  <2> SUFFICES ASSUME ~(start <= x - 1) PROVE FALSE
    OBVIOUS
  <2>1. x - 1 \in j + 1 .. start - 1
    BY <1>2
  <2> QED BY <1>3, <1>4, <2>1
<1>6. PICK end \in start .. Len(s) + 1 : end = TargetEnd(s, k) /\ \A y \in start .. end - 1 : y \notin Separators(s)
  <2>1. start \in 1 .. Len(s) + 1
    BY <1>2
  <2> QED BY <1>4, <2>1, WordEndFacts DEF TargetEnd
<1>7. end <= x
  <2> SUFFICES ASSUME ~(end <= x) PROVE FALSE
    OBVIOUS
  <2>1. x \in start .. end - 1
    BY <1>2, <1>5
  <2> QED BY <1>3, <1>6, <2>1
<1> QED BY <1>2, <1>3, <1>6, <1>7

LEMMA ToSetConcat ==
  ASSUME NEW S, NEW x \in Seq(S), NEW y \in Seq(S)
  PROVE  ToSet(x \o y) = ToSet(x) \union ToSet(y)
<1>1. PICK m \in Nat, n \in Nat : m = Len(x) /\ n = Len(y) /\ DOMAIN x = 1 .. m /\ DOMAIN y = 1 .. n
  <2>1. Len(x) \in Nat /\ Len(y) \in Nat /\ DOMAIN x = 1 .. Len(x) /\ DOMAIN y = 1 .. Len(y)
    OBVIOUS
  <2> QED BY <2>1
<1>2. PICK z : z = x \o y
  OBVIOUS
<1>3. /\ Len(z) = m + n /\ DOMAIN z = 1 .. m + n
      /\ \A i \in 1 .. m : i \in 1 .. m + n /\ z[i] = x[i]
      /\ \A i \in 1 .. n : m + i \in 1 .. m + n /\ z[m + i] = y[i]
  <2>1. x \o y \in Seq(S) /\ Len(x \o y) = Len(x) + Len(y)
    BY ConcatProperties
  <2>2. \A i \in 1 .. Len(x) + Len(y) : (x \o y)[i] = IF i <= Len(x) THEN x[i] ELSE y[i - Len(x)]
    BY ConcatProperties
  <2>3. \A i \in 1 .. m + n : z[i] = IF i <= m THEN x[i] ELSE y[i - m]
    BY <1>1, <1>2, <2>2
  <2>4. ASSUME NEW i \in 1 .. n PROVE m + i \in 1 .. m + n /\ ~(m + i <= m) /\ (m + i) - m = i
    BY <1>1
  <2>5. ASSUME NEW i \in 1 .. n PROVE m + i \in 1 .. m + n /\ z[m + i] = y[i]
    BY <2>3, <2>4
  <2>6. ASSUME NEW i \in 1 .. m PROVE i \in 1 .. m + n /\ z[i] = x[i]
    <3>1. i \in 1 .. m + n /\ i <= m
      BY <1>1
    <3> QED BY <2>3, <3>1
  <2> QED BY <1>1, <1>2, <2>1, <2>5, <2>6
<1>4. \A i \in 1 .. m + n : i \in 1 .. m \/ (i - m \in 1 .. n /\ m + (i - m) = i)
  BY <1>1
<1>5. ASSUME NEW e PROVE e \in ToSet(z) <=> e \in ToSet(x) \union ToSet(y)
  <2>1. e \in ToSet(z) => e \in ToSet(x) \union ToSet(y)
    <3> SUFFICES ASSUME NEW i \in 1 .. m + n, e = z[i] PROVE e \in ToSet(x) \union ToSet(y)
      BY <1>3 DEF ToSet
    <3>1. CASE i \in 1 .. m
      <4>1. e = x[i] /\ i \in DOMAIN x
        BY <1>1, <1>3, <3>1
      <4> QED BY <4>1 DEF ToSet
    <3>2. CASE i - m \in 1 .. n /\ m + (i - m) = i
      <4>1. e = y[i - m] /\ i - m \in DOMAIN y
        BY <1>1, <1>3, <3>2
      <4> QED BY <4>1 DEF ToSet
    <3> QED BY <1>4, <3>1, <3>2
  <2>2. e \in ToSet(x) \union ToSet(y) => e \in ToSet(z)
    <3>1. e \in ToSet(x) => e \in ToSet(z)
      BY <1>1, <1>3 DEF ToSet
    <3>2. e \in ToSet(y) => e \in ToSet(z)
      BY <1>1, <1>3 DEF ToSet
    <3> QED BY <3>1, <3>2
  <2> QED BY <2>1, <2>2
<1> QED BY <1>2, <1>5

Noted(s, was, sign, a, b) == Words(SubSeq(s, a, b))[1] \in ToSet(IF sign = ">" THEN was.writes ELSE was.reads)

\* No target reaches into a redirection of its own, and each that was met is named.
Naming(s, was, k) ==
  /\ \A i \in Signs(s) : Foremost(s, i) /\ k < Begin(s, i) => was.next <= Begin(s, i)
  /\ \A i \in Signs(s) : \A a, b \in DOMAIN s :
       Redirects(s, i, a, b) /\ Begin(s, i) <= k /\ was.ok => Noted(s, was, s[i], a, b)

LEMMA NamingKeeps ==
  ASSUME NEW s \in Seq(Printable), NEW k \in 1 .. Len(s), NEW was, Extracting(s, was, k - 1), Naming(s, was, k - 1)
  PROVE  Naming(s, Extract(s, Bare(s), was, k), k)
<1>1. PICK n \in Nat, next \in Nat : n = Len(s) /\ next = was.next /\ DOMAIN s = 1 .. n /\ k \in 1 .. n
  BY DEF Extracting
<1>2. \A i \in Signs(s) : Begin(s, i) \in Nat /\ \A a, b : Redirects(s, i, a, b) => Foremost(s, i)
  BY BeginFacts DEF Redirects, Foremost
<1>3. CASE k < next \/ k \notin Bare(s) \/ RedirectAt(s, k).width = 0
  <2>1. Extract(s, Bare(s), was, k) = was
    BY <1>1, <1>3 DEF Extract
  <2>2. ASSUME NEW i \in Signs(s), Foremost(s, i) PROVE Begin(s, i) # k
    <3> SUFFICES ASSUME Begin(s, i) = k PROVE FALSE
      OBVIOUS
    <3>1. k \in Bare(s) /\ RedirectAt(s, k).width # 0
      BY BeginFacts
    <3>2. next <= k
      BY <1>1, <2>2 DEF Naming
    <3> QED BY <1>1, <1>3, <3>1, <3>2
  <2>3. ASSUME NEW i \in Signs(s), Foremost(s, i)
        PROVE  (k < Begin(s, i) => k - 1 < Begin(s, i)) /\ (Begin(s, i) <= k => Begin(s, i) <= k - 1)
    <3>1. PICK begin \in Nat : begin = Begin(s, i) /\ begin # k
      BY <1>2, <2>2, <2>3
    <3>2. (k < begin => k - 1 < begin) /\ (begin <= k => begin <= k - 1)
      BY <3>1
    <3> QED BY <3>1, <3>2
  <2> QED BY <1>2, <2>1, <2>3 DEF Naming
<1>4. CASE ~(k < next) /\ k \in Bare(s) /\ RedirectAt(s, k).width # 0
  <2> DEFINE then == Extract(s, Bare(s), was, k)
  <2>1. PICK writes \in Seq(Seq(Printable)), reads \in Seq(Seq(Printable)), target \in Seq(Seq(Printable)) :
          writes = was.writes /\ reads = was.reads /\ target = Target(s, k)
    BY <1>4, TargetFacts DEF Extracting
  <2>2. PICK more, others : more = writes \o target /\ others = reads \o target
    OBVIOUS
  <2>3. then = [ok |-> was.ok /\ Len(target) = 1,
                tokens |-> was.tokens \o SubSeq(s, was.next, k - 1),
                writes |-> IF RedirectAt(s, k).write THEN more ELSE writes,
                reads |-> IF RedirectAt(s, k).write THEN reads ELSE others,
                next |-> TargetEnd(s, k)]
    BY <1>1, <1>4, <2>1, <2>2 DEF Extract
  <2>4. ToSet(more) = ToSet(writes) \union ToSet(target) /\ ToSet(others) = ToSet(reads) \union ToSet(target)
    <3>1. PICK S : S = Seq(Printable)
      OBVIOUS
    <3>2. writes \in Seq(S) /\ reads \in Seq(S) /\ target \in Seq(S)
      BY <3>1
    <3> QED BY <2>2, <3>2, ToSetConcat
  <2>5. /\ then.next = TargetEnd(s, k) /\ (then.ok <=> was.ok /\ Len(target) = 1)
        /\ RedirectAt(s, k).write => then.writes = more /\ then.reads = reads
        /\ ~RedirectAt(s, k).write => then.writes = writes /\ then.reads = others
    <3> HIDE DEF then
    <3> QED BY <2>3
  <2> HIDE DEF then
  <2>6. ASSUME NEW i \in Signs(s), Foremost(s, i), k < Begin(s, i) PROVE then.next <= Begin(s, i)
    <3>1. TargetEnd(s, k) <= Begin(s, i)
      BY <1>4, <2>6, TargetEndsBefore
    <3> QED BY <2>5, <3>1
  <2>7. ASSUME NEW i \in Signs(s), NEW a \in DOMAIN s, NEW b \in DOMAIN s,
               Redirects(s, i, a, b), Begin(s, i) <= k, then.ok
        PROVE  Noted(s, then, s[i], a, b)
    <3>1. PICK word : word = Words(SubSeq(s, a, b))[1]
      OBVIOUS
    <3>2. ToSet(was.writes) \subseteq ToSet(then.writes) /\ ToSet(was.reads) \subseteq ToSet(then.reads)
      BY <2>1, <2>4, <2>5
    <3>3. CASE Begin(s, i) < k
      <4>1. Begin(s, i) <= k - 1 /\ was.ok
        BY <1>1, <1>2, <2>5, <2>7, <3>3
      <4>2. Noted(s, was, s[i], a, b)
        BY <2>7, <4>1 DEF Naming
      <4> QED BY <3>2, <4>2 DEF Noted
    <3>4. CASE Begin(s, i) = k
      <4>1. /\ k + RedirectAt(s, k).width = IF Appends(s, i) THEN i + 2 ELSE i + 1
            /\ RedirectAt(s, k).write <=> s[i] = ">"
        BY <3>4, BeginFacts
      <4>2. IsWord(s, k + RedirectAt(s, k).width, a, b)
        BY <2>7, <4>1 DEF Redirects
      <4>3. target = Words(SubSeq(s, a, b))
        BY <1>1, <1>4, <2>1, <4>2, WordFound
      <4>4. target[1] \in ToSet(target)
        <5>1. 1 \in DOMAIN target
          BY <2>5, <2>7
        <5> QED BY <5>1 DEF ToSet
      <4>5. word \in ToSet(more) /\ word \in ToSet(others)
        BY <2>4, <3>1, <4>3, <4>4
      <4> QED BY <2>5, <3>1, <4>1, <4>5 DEF Noted
    <3> QED BY <1>1, <1>2, <2>7, <3>3, <3>4
  <2> QED BY <2>6, <2>7 DEF Naming, then
<1> QED BY <1>1, <1>3, <1>4

LEMMA NamedFacts ==
  ASSUME NEW s \in Seq(Printable), ExtractRedirects(s).ok, NEW i \in Signs(s), NEW a \in DOMAIN s, NEW b \in DOMAIN s,
         Redirects(s, i, a, b)
  PROVE  Noted(s, ExtractRedirects(s), s[i], a, b)
<1>1. PICK n \in Nat : n = Len(s)
  OBVIOUS
<1>2. PICK taken :
        /\ ExtractsAlong(s, taken)
        /\ ExtractRedirects(s) = [ok |-> taken[n].ok, tokens |-> taken[n].tokens \o SubSeq(s, taken[n].next, n),
                                  writes |-> taken[n].writes, reads |-> taken[n].reads]
  BY <1>1, ExtractRun
<1> DEFINE Held == {k \in 0 .. n : Extracting(s, taken[k], k) /\ Naming(s, taken[k], k)}
<1>3. \A j \in Signs(s) : Begin(s, j) \in 1 .. n
  BY <1>1, BeginFacts
<1>4. 0 \in Held
  <2>1. taken[0] = Untouched
    BY <1>2 DEF ExtractsAlong
  <2>2. Extracting(s, taken[0], 0)
    BY <2>1 DEF Extracting, Untouched
  <2>3. taken[0].next = 1 /\ \A j \in Signs(s) : 1 <= Begin(s, j) /\ ~(Begin(s, j) <= 0)
    BY <1>3, <2>1 DEF Untouched
  <2>4. Naming(s, taken[0], 0)
    BY <2>3 DEF Naming
  <2> QED BY <2>2, <2>4
<1>5. ASSUME NEW k \in 1 .. n, k - 1 \in Held PROVE k \in Held
  <2>1. taken[k] = Extract(s, Bare(s), taken[k - 1], k) /\ k \in 0 .. n
    BY <1>1, <1>2 DEF ExtractsAlong
  <2>2. Extracting(s, taken[k - 1], k - 1) /\ Naming(s, taken[k - 1], k - 1)
    BY <1>5
  <2>3. Extracting(s, Extract(s, Bare(s), taken[k - 1], k), k)
    BY <1>1, <2>2, ExtractKeeps
  <2>4. Naming(s, Extract(s, Bare(s), taken[k - 1], k), k)
    BY <1>1, <2>2, NamingKeeps
  <2> QED BY <2>1, <2>3, <2>4
<1>6. Held \subseteq 0 .. n
  OBVIOUS
<1> HIDE DEF Held
<1>7. n \in Held
  <2>1. Held = 0 .. n
    BY <1>4, <1>5, <1>6, Inductively
  <2> QED BY <2>1
<1>8. Naming(s, taken[n], n)
  BY <1>7 DEF Held
<1>9. Begin(s, i) <= n /\ taken[n].ok
  BY <1>2, <1>3
<1>10. Noted(s, taken[n], s[i], a, b)
  BY <1>8, <1>9 DEF Naming
<1> QED BY <1>2, <1>10 DEF Noted

\* What a redirection of its own names, with its variables replaced, is an effect.
LEMMA NamedIsEffect ==
  ASSUME NEW t \in Seq(Printable), Readable(t), NEW operator
  PROVE  HasEffects(t, Meaning(t, operator))
<1> SUFFICES ASSUME NEW i \in Signs(t), NEW a \in DOMAIN t, NEW b \in DOMAIN t, Redirects(t, i, a, b)
             PROVE  Substitute(Words(SubSeq(t, a, b))[1]).text \in ToSet(Effects(Meaning(t, operator), t[i]))
  BY DEF HasEffects
<1>1. PICK writes \in Seq(Seq(Printable)), reads \in Seq(Seq(Printable)) :
        writes = ExtractRedirects(t).writes /\ reads = ExtractRedirects(t).reads
  BY ExtractFacts
<1>2. Meaning(t, operator).writes = Resolved(writes) /\ Meaning(t, operator).reads = Resolved(reads)
  BY <1>1 DEF Meaning
<1>3. PICK word, named : /\ word = Words(SubSeq(t, a, b))[1]
                         /\ named = IF t[i] = ">" THEN writes ELSE reads
  OBVIOUS
<1>4. named \in Seq(Seq(Printable)) /\ word \in ToSet(named)
  <2>1. Noted(t, ExtractRedirects(t), t[i], a, b)
    BY NamedFacts DEF Readable
  <2> QED BY <1>1, <1>3, <2>1 DEF Noted
<1>5. PICK m \in DOMAIN named : word = named[m]
  BY <1>4 DEF ToSet
<1>6. m \in DOMAIN Resolved(named) /\ Resolved(named)[m] = Substitute(word).text
  BY <1>5 DEF Resolved
<1>7. Effects(Meaning(t, operator), t[i]) = Resolved(named)
  BY <1>2, <1>3 DEF Effects
<1>8. Resolved(named)[m] \in ToSet(Resolved(named))
  BY <1>6 DEF ToSet
<1> QED BY <1>3, <1>6, <1>7, <1>8

-----------------------------------------------------------------------------
(* No sign is left in an argument *)

Unquoted == Printable \ {"'", "doublequote", "\\", "$"}
Quiet == Unquoted \ {">", "<"}

LEMMA QuietIsPrintable ==
  /\ Seq(Quiet) \subseteq Seq(Unquoted) /\ Seq(Unquoted) \subseteq Seq(Printable)
  /\ Seq(Seq(Quiet)) \subseteq Seq(Seq(Printable))
<1>1. Quiet \subseteq Unquoted /\ Unquoted \subseteq Printable
  BY DEF Quiet, Unquoted
<1>2. Seq(Quiet) \subseteq Seq(Unquoted) /\ Seq(Unquoted) \subseteq Seq(Printable) /\ Seq(Quiet) \subseteq Seq(Printable)
  BY <1>1
<1>3. Seq(Seq(Quiet)) \subseteq Seq(Seq(Printable))
  <2>1. PICK Q, P : Q = Seq(Quiet) /\ P = Seq(Printable)
    OBVIOUS
  <2>2. Q \subseteq P
    BY <1>2, <2>1
  <2>3. Seq(Q) \subseteq Seq(P)
    BY <2>2
  <2> QED BY <2>1, <2>3
<1> QED BY <1>2, <1>3

LEMMA PlainThroughout ==
  ASSUME NEW s \in Seq(Unquoted)
  PROVE  \A i \in 1 .. Len(s) + 1 : Modes(s)[i] = "plain"
<1>1. PICK n \in Nat : n = Len(s)
  OBVIOUS
<1> DEFINE Held == {k \in 0 .. n : Modes(s)[k + 1] = "plain"}
<1>2. 0 \in Held
  BY <1>1, ModesAlong
<1>3. ASSUME NEW k \in 1 .. n, k - 1 \in Held PROVE k \in Held
  <2>1. Modes(s)[k] = "plain"
    BY <1>3
  <2>2. Modes(s)[k + 1] = After("plain", s[k])
    BY <1>1, <2>1, ModesAlong
  <2>3. s[k] \notin {"'", "doublequote", "\\"}
    <3>1. s[k] \in Unquoted
      BY <1>1
    <3> QED BY <3>1 DEF Unquoted
  <2>4. After("plain", s[k]) = "plain"
    BY <2>3 DEF After
  <2> QED BY <2>2, <2>4
<1>4. Held \subseteq 0 .. n
  OBVIOUS
<1> HIDE DEF Held
<1>5. Held = 0 .. n
  BY <1>2, <1>3, <1>4, Inductively
<1>6. ASSUME NEW i \in 1 .. n + 1 PROVE Modes(s)[i] = "plain"
  <2>1. i - 1 \in 0 .. n /\ (i - 1) + 1 = i
    OBVIOUS
  <2>2. i - 1 \in Held
    BY <1>5, <2>1
  <2> QED BY <2>1, <2>2 DEF Held
<1> QED BY <1>1, <1>6

LEMMA QuietWords ==
  ASSUME NEW s \in Seq(Quiet)
  PROVE  Words(s) \in Seq(Seq(Quiet))
<1>1. s \in Seq(Unquoted)
  BY QuietIsPrintable
<1>2. ASSUME NEW i \in 1 .. Len(s) PROVE Taken(s, i, Modes(s)[i]) \in Seq(Quiet)
  <2>1. Modes(s)[i] = "plain"
    BY <1>1, PlainThroughout
  <2>2. s[i] \in Quiet /\ s[i] # "\\"
    <3>1. s[i] \in Quiet
      OBVIOUS
    <3> QED BY <3>1 DEF Quiet, Unquoted
  <2>3. PICK a \in Quiet : a = s[i]
    BY <2>2
  <2>4. <<>> \in Seq(Quiet) /\ <<a>> \in Seq(Quiet)
    OBVIOUS
  <2> QED BY <2>1, <2>2, <2>3, <2>4, TakenFacts
<1>3. TakesFrom(s, Quiet) /\ Len(s) \in Nat
  BY <1>2 DEF TakesFrom
<1> QED BY <1>3, WordsFrom

\* Between the end of a target and the next sign nothing is a sign.
Quietly(s, was, k) ==
  /\ was.next \in 1 .. Len(s) + 1 /\ was.tokens \in Seq(Quiet)
  /\ \A j \in 1 .. k : was.next <= j => s[j] \in Quiet

LEMMA QuietPart ==
  ASSUME NEW s \in Seq(Unquoted), NEW a \in Nat, NEW b \in Nat, 1 <= a, b <= Len(s),
         \A j \in 1 .. b : a <= j => s[j] \in Quiet
  PROVE  SubSeq(s, a, b) \in Seq(Quiet)
<1>1. SubSeq(s, a, b) = [i \in 1 .. (1 + b - a) |-> s[i + a - 1]]
  OBVIOUS
<1>2. ASSUME NEW i \in 1 .. (1 + b - a) PROVE s[i + a - 1] \in Quiet
  <2>1. i + a - 1 \in 1 .. b /\ a <= i + a - 1
    OBVIOUS
  <2> QED BY <2>1
<1>3. PICK n \in Nat : 1 .. (1 + b - a) = 1 .. n
  <2>1. CASE 1 + b - a >= 0
    <3>1. 1 + b - a \in Nat
      BY <2>1
    <3> QED BY <3>1
  <2>2. CASE ~(1 + b - a >= 0)
    <3>1. 1 .. (1 + b - a) = 1 .. 0
      BY <2>2
    <3> QED BY <3>1
  <2> QED BY <2>1, <2>2
<1>4. SubSeq(s, a, b) = [i \in 1 .. n |-> s[i + a - 1]] /\ \A i \in 1 .. n : s[i + a - 1] \in Quiet
  BY <1>1, <1>2, <1>3
<1> QED BY <1>4

LEMMA ExtractQuietly ==
  ASSUME NEW s \in Seq(Unquoted), NEW k \in 1 .. Len(s), NEW was, Quietly(s, was, k - 1)
  PROVE  Quietly(s, Extract(s, Bare(s), was, k), k)
<1>1. PICK n \in Nat, next \in Nat : n = Len(s) /\ next = was.next /\ 1 <= next /\ next <= n + 1 /\ DOMAIN s = 1 .. n
  BY DEF Quietly
<1>2. k \in Bare(s) /\ s \in Seq(Printable) /\ s[k] \in Unquoted
  <2>1. k \in 1 .. Len(s) + 1 /\ k \in DOMAIN s
    BY <1>1
  <2> QED BY <2>1, PlainThroughout, QuietIsPrintable DEF Bare
<1>3. \A j \in 1 .. k : j = k \/ j \in 1 .. k - 1
  OBVIOUS
<1>4. CASE k < next \/ RedirectAt(s, k).width = 0
  <2>1. Extract(s, Bare(s), was, k) = was
    BY <1>1, <1>4 DEF Extract
  <2>2. next <= k => s[k] \in Quiet
    <3>1. next <= k => s[k] \notin {">", "<"}
      BY <1>1, <1>2, <1>4, RedirectFacts
    <3> QED BY <1>2, <3>1 DEF Quiet
  <2> QED BY <1>1, <1>3, <2>1, <2>2 DEF Quietly
<1>5. CASE ~(k < next) /\ RedirectAt(s, k).width # 0
  <2> DEFINE then == Extract(s, Bare(s), was, k)
  <2>1. then.tokens = was.tokens \o SubSeq(s, was.next, k - 1) /\ then.next = TargetEnd(s, k)
    BY <1>1, <1>2, <1>5 DEF Extract
  <2>2. TargetEnd(s, k) \in k + 1 .. Len(s) + 1
    BY <1>2, <1>5, TargetFacts
  <2>3. PICK b \in Nat : b = k - 1 /\ b <= Len(s)
    OBVIOUS
  <2>4. SubSeq(s, next, b) \in Seq(Quiet)
    <3>1. \A j \in 1 .. b : next <= j => s[j] \in Quiet
      BY <1>1, <2>3 DEF Quietly
    <3> QED BY <1>1, <2>3, <3>1, QuietPart
  <2>5. was.tokens \o SubSeq(s, next, b) \in Seq(Quiet)
    <3>1. PICK x \in Seq(Quiet), y \in Seq(Quiet) : x = was.tokens /\ y = SubSeq(s, next, b)
      BY <2>4 DEF Quietly
    <3>2. x \o y \in Seq(Quiet)
      OBVIOUS
    <3> QED BY <3>1, <3>2
  <2>6. TargetEnd(s, k) \in 1 .. Len(s) + 1 /\ \A j \in 1 .. k : ~(TargetEnd(s, k) <= j)
    BY <2>2
  <2> HIDE DEF then
  <2> QED BY <1>1, <2>1, <2>3, <2>5, <2>6 DEF Quietly, then
<1> QED BY <1>4, <1>5

LEMMA QuietTokens ==
  ASSUME NEW s \in Seq(Unquoted)
  PROVE  ExtractRedirects(s).tokens \in Seq(Quiet)
<1>1. PICK n \in Nat : n = Len(s)
  OBVIOUS
<1>2. PICK taken :
        /\ ExtractsAlong(s, taken)
        /\ ExtractRedirects(s) = [ok |-> taken[n].ok, tokens |-> taken[n].tokens \o SubSeq(s, taken[n].next, n),
                                  writes |-> taken[n].writes, reads |-> taken[n].reads]
  BY <1>1, ExtractRun
<1> DEFINE Held == {k \in 0 .. n : Quietly(s, taken[k], k)}
<1>3. 0 \in Held
  <2>1. taken[0] = Untouched
    BY <1>2 DEF ExtractsAlong
  <2>2. Quietly(s, taken[0], 0)
    BY <2>1 DEF Quietly, Untouched
  <2> QED BY <2>2
<1>4. ASSUME NEW k \in 1 .. n, k - 1 \in Held PROVE k \in Held
  <2>1. taken[k] = Extract(s, Bare(s), taken[k - 1], k) /\ k \in 0 .. n
    BY <1>1, <1>2 DEF ExtractsAlong
  <2>2. Quietly(s, taken[k - 1], k - 1)
    BY <1>4
  <2>3. Quietly(s, Extract(s, Bare(s), taken[k - 1], k), k)
    BY <1>1, <2>2, ExtractQuietly
  <2> QED BY <2>1, <2>3
<1>5. Held \subseteq 0 .. n
  OBVIOUS
<1> HIDE DEF Held
<1>6. Quietly(s, taken[n], n)
  <2>1. Held = 0 .. n
    BY <1>3, <1>4, <1>5, Inductively
  <2>2. n \in Held
    BY <2>1
  <2> QED BY <2>2 DEF Held
<1>7. PICK next \in Nat, x \in Seq(Quiet) : next = taken[n].next /\ 1 <= next /\ x = taken[n].tokens
  BY <1>6 DEF Quietly
<1>8. SubSeq(s, next, n) \in Seq(Quiet)
  BY <1>1, <1>6, <1>7, QuietPart DEF Quietly
<1>9. x \o SubSeq(s, next, n) \in Seq(Quiet)
  BY <1>8
<1> QED BY <1>2, <1>7, <1>9

-----------------------------------------------------------------------------
(* Nothing to substitute *)

Unread == [ok |-> TRUE, text |-> <<>>, next |-> 1]
ReplacesAlong(s, made) ==
  made[0] = Unread /\ \A k \in 1 .. Len(s) : made[k] = Replace(s, made[k - 1], k)

LEMMA ReplaceRun ==
  ASSUME NEW s, NEW n \in Nat, n = Len(s)
  PROVE  \E made : ReplacesAlong(s, made) /\ Substitute(s) = [ok |-> made[n].ok, text |-> made[n].text]
<1> DEFINE Is(made) == made = [i \in 0 .. Len(s) |->
                         IF i = 0 THEN [ok |-> TRUE, text |-> <<>>, next |-> 1] ELSE Replace(s, made[i - 1], i)]
           chosen == CHOOSE made : Is(made)
<1>1. PICK state : Runs("replace", s, <<>>, Unread, Len(s), state)
  BY RunExists
<1>2. Is(state)
  BY <1>1 DEF Runs, Step, Unread
<1>3. Is(chosen)
  BY <1>2
<1>4. ReplacesAlong(s, chosen)
  <2> HIDE DEF chosen
  <2>1. 0 \in 0 .. Len(s) /\ \A k \in 1 .. Len(s) : k \in 0 .. Len(s) /\ k # 0
    OBVIOUS
  <2>2. chosen[0] = Unread
    BY <1>3, <2>1 DEF Unread
  <2>3. ASSUME NEW k \in 1 .. Len(s) PROVE chosen[k] = Replace(s, chosen[k - 1], k)
    BY <1>3, <2>1
  <2> QED BY <2>2, <2>3 DEF ReplacesAlong
<1>5. Substitute(s) = [ok |-> chosen[n].ok, text |-> chosen[n].text]
  BY DEF Substitute
<1> QED BY <1>4, <1>5

Copied(s, was, k) == was.ok = TRUE /\ was.text = SubSeq(s, 1, k) /\ was.next = k + 1

\* A text without a dollar sign stays what it is.
LEMMA SubstituteNothing ==
  ASSUME NEW s \in Seq(Printable), \A i \in 1 .. Len(s) : s[i] # "$"
  PROVE  Substitute(s).ok = TRUE /\ Substitute(s).text = s
<1>1. PICK n \in Nat : n = Len(s)
  OBVIOUS
<1>2. PICK made : ReplacesAlong(s, made) /\ Substitute(s) = [ok |-> made[n].ok, text |-> made[n].text]
  BY <1>1, ReplaceRun
<1> DEFINE Held == {k \in 0 .. n : Copied(s, made[k], k)}
<1>3. 0 \in Held
  <2>1. made[0] = Unread /\ SubSeq(s, 1, 0) = <<>>
    BY <1>2 DEF ReplacesAlong
  <2>2. Copied(s, made[0], 0)
    BY <2>1 DEF Copied, Unread
  <2> QED BY <2>2
<1>4. ASSUME NEW k \in 1 .. n, k - 1 \in Held PROVE k \in Held
  <2>1. made[k] = Replace(s, made[k - 1], k) /\ k \in 0 .. n /\ s[k] # "$"
    BY <1>1, <1>2 DEF ReplacesAlong
  <2>2. PICK was : was = made[k - 1] /\ Copied(s, was, k - 1)
    BY <1>4
  <2>3. was.ok = TRUE /\ was.text = SubSeq(s, 1, k - 1) /\ was.next = k
    BY <2>2 DEF Copied
  <2>4. Expansion(s, k) = [ok |-> TRUE, text |-> <<s[k]>>, next |-> k + 1]
    BY <2>1 DEF Expansion, Itself
  <2>5. Replace(s, was, k) = [ok |-> TRUE, text |-> SubSeq(s, 1, k - 1) \o <<s[k]>>, next |-> k + 1]
    <3>1. PICK it : it = Expansion(s, k) /\ it.ok = TRUE /\ it.text = <<s[k]>> /\ it.next = k + 1
      BY <2>4
    <3>2. ~(k < was.next) /\ (was.ok /\ it.ok) = TRUE
      BY <2>3, <3>1
    <3>3. Replace(s, was, k) = [ok |-> was.ok /\ it.ok, text |-> was.text \o it.text, next |-> it.next]
      BY <3>1, <3>2 DEF Replace
    <3> QED BY <2>3, <3>1, <3>2, <3>3
  <2>6. SubSeq(s, 1, k - 1) \o <<s[k]>> = SubSeq(s, 1, k)
    <3>1. k \in 1 .. Len(s)
      BY <1>1
    <3> QED BY <3>1
  <2>7. Copied(s, made[k], k)
    BY <2>1, <2>2, <2>5, <2>6 DEF Copied
  <2> QED BY <2>1, <2>7
<1>5. Held \subseteq 0 .. n
  OBVIOUS
<1> HIDE DEF Held
<1>6. Copied(s, made[n], n)
  <2>1. Held = 0 .. n
    BY <1>3, <1>4, <1>5, Inductively
  <2>2. n \in Held
    BY <2>1
  <2> QED BY <2>2 DEF Held
<1>7. SubSeq(s, 1, n) = s
  BY <1>1
<1> QED BY <1>2, <1>6, <1>7 DEF Copied

LEMMA PrefixFacts ==
  ASSUME NEW words, Len(words) \in Nat
  PROVE  /\ Prefix(words) \in 0 .. Len(words)
         /\ \A i \in 1 .. Prefix(words) : IsAssignment(words[i])
         /\ Prefix(words) = Len(words) \/ ~IsAssignment(words[Prefix(words) + 1])
<1> DEFINE Ends(n) == /\ \A i \in 1 .. n : IsAssignment(words[i])
                      /\ n = Len(words) \/ ~IsAssignment(words[n + 1])
           S == {i \in 1 .. Len(words) : ~IsAssignment(words[i])}
<1>1. \E n \in 0 .. Len(words) : Ends(n)
  <2>1. CASE S = {}
    <3>1. \A i \in 1 .. Len(words) : IsAssignment(words[i])
      BY <2>1
    <3> QED BY <3>1
  <2>2. CASE S # {}
    <3>1. S \subseteq Nat
      OBVIOUS
    <3> HIDE DEF S
    <3>2. PICK m \in S : \A i \in S : m <= i
      BY <2>2, <3>1, FirstPlace
    <3>3. m \in 1 .. Len(words) /\ ~IsAssignment(words[m])
      BY <3>2 DEF S
    <3>4. m - 1 \in 0 .. Len(words) /\ (m - 1) + 1 = m
      BY <3>3
    <3>5. ASSUME NEW i \in 1 .. m - 1 PROVE IsAssignment(words[i])
      <4>1. i \in 1 .. Len(words) /\ ~(m <= i)
        BY <3>3
      <4> QED BY <3>2, <4>1 DEF S
    <3> QED BY <3>3, <3>4, <3>5
  <2> QED BY <2>1, <2>2
<1>2. Prefix(words) = CHOOSE n \in 0 .. Len(words) : Ends(n)
  BY DEF Prefix
<1> HIDE DEF Ends
<1>3. Prefix(words) \in 0 .. Len(words) /\ Ends(Prefix(words))
  BY <1>1, <1>2
<1> QED BY <1>3 DEF Ends

\* No word of a quiet text holds a sign, whatever its values are.
LEMMA QuietlyResolved ==
  ASSUME NEW words \in Seq(Seq(Quiet))
  PROVE  Stripped(Resolved(words)) \in Seq(Seq(Quiet))
<1>1. ASSUME NEW i \in 1 .. Len(words) PROVE Substitute(words[i]).text \in Seq(Quiet)
  <2>1. PICK word \in Seq(Quiet) : word = words[i]
    OBVIOUS
  <2>2. word \in Seq(Printable)
    BY QuietIsPrintable
  <2>3. ASSUME NEW j \in 1 .. Len(word) PROVE word[j] # "$"
    <3>1. word[j] \in Quiet
      OBVIOUS
    <3> QED BY <3>1 DEF Quiet, Unquoted
  <2>4. Substitute(word).text = word
    BY <2>2, <2>3, SubstituteNothing
  <2> QED BY <2>1, <2>4
<1>2. words \in Seq(Seq(Printable))
  BY QuietIsPrintable
<1>3. PICK V : V = Seq(Quiet)
  OBVIOUS
<1>4. PICK now \in Seq(V) : now = Resolved(words)
  BY <1>1, <1>2, <1>3, ResolvedType
<1>5. PICK n \in Nat, p \in Nat : n = Len(now) /\ p = Prefix(now) /\ p <= n
  BY PrefixFacts
<1>6. Stripped(now) = SubSeq(now, p + 1, n)
  BY <1>5 DEF Stripped
<1>7. SubSeq(now, p + 1, n) \in Seq(V)
  BY <1>5
<1> QED BY <1>3, <1>4, <1>6, <1>7

\* A piece of a line in which nothing is quoted, escaped or a variable.
LEMMA NoSignIsLeft ==
  ASSUME NEW t \in Seq(Unquoted), NEW operator, NEW w \in DOMAIN Meaning(t, operator).argv
  PROVE  ToSet(Meaning(t, operator).argv[w]) \intersect {">", "<"} = {}
<1>1. Argv(t) \in Seq(Seq(Quiet))
  BY QuietTokens, QuietWords DEF Argv
<1>2. PICK words, V : words = Meaning(t, operator).argv /\ V = Seq(Quiet)
  OBVIOUS
<1>3. words = Stripped(Resolved(Argv(t)))
  BY <1>2 DEF Meaning
<1>4. words \in Seq(V)
  BY <1>1, <1>2, <1>3, QuietlyResolved
<1>5. PICK word \in Seq(Quiet) : word = words[w]
  <2>1. words[w] \in V
    BY <1>2, <1>4
  <2> QED BY <1>2, <2>1
<1>6. ToSet(word) = {word[i] : i \in DOMAIN word}
  BY DEF ToSet
<1>7. \A i \in DOMAIN word : word[i] \in Quiet
  OBVIOUS
<1> QED BY <1>2, <1>5, <1>6, <1>7 DEF Quiet

LEMMA PieceUnquoted ==
  ASSUME NEW s \in Seq(Unquoted), NEW m \in DOMAIN SplitTopLevel(s)
  PROVE  SplitTopLevel(s)[m].text \in Seq(Unquoted)
<1>1. s \in Seq(Printable)
  BY QuietIsPrintable
<1>2. IsPiece(s, SplitTopLevel(s)[m])
  BY <1>1, SplitIsPieces
<1>3. PICK a \in 1 .. Len(s) + 1, b \in 0 .. Len(s), operator \in Operators :
        a <= b + 1 /\ SplitTopLevel(s)[m] = Piece(s, a, b, operator)
  BY <1>2 DEF IsPiece
<1>4. SplitTopLevel(s)[m].text = SubSeq(s, a, b)
  BY <1>3 DEF Piece
<1>5. SubSeq(s, a, b) \in Seq(Unquoted)
  BY <1>3
<1> QED BY <1>4, <1>5

LEMMA LineRedirected ==
  ASSUME NEW s \in Seq(Printable), s = text
  PROVE  RedirectionIsAnEffect
<1> SUFFICES ASSUME Parse(s).kind = "commands" PROVE Redirected(Parse(s).commands)
  BY DEF RedirectionIsAnEffect
<1>1. PICK n \in Nat, pieces \in Seq(AnyPiece) : pieces = SplitTopLevel(s) /\ n = Len(pieces) /\ DOMAIN pieces = 1 .. n
  <2>1. PICK split \in Seq(AnyPiece) : split = SplitTopLevel(s)
    BY SplitIsPieces
  <2> QED BY <2>1
<1>2. Good(s) /\ Parse(s) = Outcome("commands", Meanings(pieces, n))
  BY <1>1, ParseRead
<1>3. PICK commands : /\ commands = Parse(s).commands /\ DOMAIN commands = 1 .. n
                      /\ \A c \in 1 .. n : commands[c] = Meaning(pieces[c].text, pieces[c].operator)
  BY <1>2 DEF Outcome, Meanings
<1>4. ASSUME NEW j \in Signs(s) PROVE \E c \in DOMAIN commands : commands[c].writes \o commands[c].reads # <<>>
  <2>1. PICK m \in 1 .. n : Signs(pieces[m].text) # {}
    BY <1>1, SignedPiece
  <2>2. pieces[m].text \in Seq(Printable)
    BY <1>1, PieceTexts
  <2>3. Readable(pieces[m].text)
    BY <1>1, <1>2 DEF Good, Fine
  <2>4. commands[m].writes \o commands[m].reads # <<>>
    BY <1>3, <2>1, <2>2, <2>3, SignIsEffect
  <2> QED BY <1>3, <2>4
<1>5. ASSUME ToSet(s) \intersect {"'", "doublequote", "\\", "$"} = {}, NEW c \in 1 .. n, NEW w \in DOMAIN commands[c].argv
      PROVE  ToSet(commands[c].argv[w]) \intersect {">", "<"} = {}
  <2>1. s \in Seq(Unquoted)
    <3>1. ASSUME NEW i \in 1 .. Len(s) PROVE s[i] \in Unquoted
      <4>1. s[i] \in Printable /\ s[i] \in ToSet(s)
        BY DEF ToSet
      <4> QED BY <1>5, <4>1 DEF Unquoted
    <3> QED BY <3>1
  <2>2. pieces[c].text \in Seq(Unquoted)
    BY <1>1, <2>1, PieceUnquoted
  <2>3. w \in DOMAIN Meaning(pieces[c].text, pieces[c].operator).argv
    BY <1>3, <1>5
  <2> QED BY <1>3, <2>2, <2>3, NoSignIsLeft
<1>6. ASSUME NEW c \in 1 .. n PROVE HasEffects(pieces[c].text, commands[c])
  <2>1. pieces[c].text \in Seq(Printable)
    BY <1>1, PieceTexts
  <2>2. Readable(pieces[c].text)
    BY <1>1, <1>2 DEF Good, Fine
  <2>3. HasEffects(pieces[c].text, Meaning(pieces[c].text, pieces[c].operator))
    BY <2>1, <2>2, NamedIsEffect
  <2> QED BY <1>3, <2>3
<1>7. \A c \in DOMAIN commands : HasEffects(SplitTopLevel(text)[c].text, commands[c])
  BY <1>1, <1>3, <1>6
<1>8. Signs(text) # {} => \E c \in DOMAIN commands : commands[c].writes \o commands[c].reads # <<>>
  BY <1>4
<1>9. ToSet(text) \intersect {"'", "doublequote", "\\", "$"} = {} =>
        \A c \in DOMAIN commands : \A w \in DOMAIN commands[c].argv :
          ToSet(commands[c].argv[w]) \intersect {">", "<"} = {}
  BY <1>3, <1>5
<1>10. Redirected(commands)
  BY <1>7, <1>8, <1>9, Zenon DEF Redirected
<1> QED BY <1>3, <1>10

-----------------------------------------------------------------------------
(* A line of a command and one argument *)

Protected(s) == \A i \in Bare(s) : s[i] \in {"a", "blank", "'", "\\"}

\* What is protected is neither cut nor taken out.
LEMMA NothingCut ==
  ASSUME NEW s \in Seq(Printable), Protected(s)
  PROVE  SplitTopLevel(s) = <<Piece(s, 1, Len(s), "none")>> /\ Piece(s, 1, Len(s), "none").text = s
<1>1. PICK n \in Nat : n = Len(s)
  OBVIOUS
<1>2. PICK cut : /\ CutsAlong(s, Bare(s), cut)
                 /\ SplitTopLevel(s) = Append(cut[n].pieces, Piece(s, cut[n].next, n, "none"))
  BY <1>1, CutRun DEF SplitTopLevel
<1> DEFINE Held == {k \in 0 .. n : cut[k].pieces = <<>> /\ cut[k].next = 1}
<1>3. 0 \in Held
  BY <1>2 DEF CutsAlong
<1>4. ASSUME NEW k \in 1 .. n, k - 1 \in Held PROVE k \in Held
  <2>1. cut[k] = Cut(s, Bare(s), cut[k - 1], k)
    BY <1>1, <1>2 DEF CutsAlong
  <2>2. k \in Bare(s) => OperatorAt(s, k) = "none"
    <3>1. k \in Bare(s) => s[k] \notin {"semicolon", "&", "|"}
      BY DEF Protected
    <3> QED BY <3>1, OperatorFacts
  <2>3. Cut(s, Bare(s), cut[k - 1], k) = cut[k - 1]
    BY <2>2 DEF Cut
  <2> QED BY <1>4, <2>1, <2>3
<1>5. Held \subseteq 0 .. n
  OBVIOUS
<1> HIDE DEF Held
<1>6. cut[n].pieces = <<>> /\ cut[n].next = 1
  <2>1. Held = 0 .. n
    BY <1>3, <1>4, <1>5, Inductively
  <2> QED BY <2>1 DEF Held
<1>7. PICK piece : piece = Piece(s, 1, n, "none")
  OBVIOUS
<1>8. piece.text = s
  <2>1. SubSeq(s, 1, n) = s
    BY <1>1
  <2> QED BY <1>7, <2>1 DEF Piece
<1>9. Append(<<>>, piece) = <<piece>>
  OBVIOUS
<1> QED BY <1>1, <1>2, <1>6, <1>7, <1>8, <1>9

LEMMA NothingExtracted ==
  ASSUME NEW s \in Seq(Printable), Protected(s)
  PROVE  ExtractRedirects(s) = [ok |-> TRUE, tokens |-> s, writes |-> <<>>, reads |-> <<>>]
<1>1. PICK n \in Nat : n = Len(s)
  OBVIOUS
<1>2. PICK taken :
        /\ ExtractsAlong(s, taken)
        /\ ExtractRedirects(s) = [ok |-> taken[n].ok, tokens |-> taken[n].tokens \o SubSeq(s, taken[n].next, n),
                                  writes |-> taken[n].writes, reads |-> taken[n].reads]
  BY <1>1, ExtractRun
<1> DEFINE Held == {k \in 0 .. n : taken[k] = Untouched}
<1>3. 0 \in Held
  BY <1>2 DEF ExtractsAlong
<1>4. ASSUME NEW k \in 1 .. n, k - 1 \in Held PROVE k \in Held
  <2>1. taken[k] = Extract(s, Bare(s), taken[k - 1], k)
    BY <1>1, <1>2 DEF ExtractsAlong
  <2>2. k \in Bare(s) => RedirectAt(s, k).width = 0
    <3>1. k \in Bare(s) => s[k] \notin {"&", "2", ">", "<"}
      BY DEF Protected
    <3> QED BY <3>1 DEF RedirectAt
  <2>3. Extract(s, Bare(s), taken[k - 1], k) = taken[k - 1]
    BY <2>2 DEF Extract
  <2> QED BY <1>4, <2>1, <2>3
<1>5. Held \subseteq 0 .. n
  OBVIOUS
<1> HIDE DEF Held
<1>6. taken[n] = Untouched
  <2>1. Held = 0 .. n
    BY <1>3, <1>4, <1>5, Inductively
  <2> QED BY <2>1 DEF Held
<1>7. <<>> \o SubSeq(s, 1, n) = s
  BY <1>1
<1>8. taken[n].ok = TRUE /\ taken[n].tokens = <<>> /\ taken[n].writes = <<>> /\ taken[n].reads = <<>> /\ taken[n].next = 1
  BY <1>6 DEF Untouched
<1> QED BY <1>2, <1>7, <1>8

LEMMA TwoWords ==
  ASSUME NEW V, NEW x, NEW y, x \in V, y \in V
  PROVE  /\ <<x, y>> \in Seq(V) /\ Len(<<x, y>>) = 2 /\ DOMAIN <<x, y>> = 1 .. 2
         /\ <<x, y>>[1] = x /\ <<x, y>>[2] = y
         /\ SubSeq(<<x, y>>, 1, 2) = <<x, y>> /\ SubSeq(<<x, y>>, 1, 0) = <<>>
         /\ <<x, y>> \o <<>> \o <<>> = <<x, y>>
<1>1. <<x, y>> \in Seq(V) /\ Len(<<x, y>>) = 2 /\ <<x, y>>[1] = x /\ <<x, y>>[2] = y
  OBVIOUS
<1>2. PICK pair \in Seq(V) : pair = <<x, y>> /\ Len(pair) = 2
  BY <1>1
<1>3. DOMAIN pair = 1 .. 2
  BY <1>2
<1>4. SubSeq(pair, 1, 2) = pair
  <2>1. SubSeq(pair, 1, Len(pair)) = pair
    OBVIOUS
  <2> QED BY <1>2, <2>1
<1>5. SubSeq(pair, 1, 0) = <<>>
  BY <1>2
<1>6. pair \o <<>> \o <<>> = pair
  <2>1. pair \o <<>> = pair
    OBVIOUS
  <2> QED BY <2>1
<1> QED BY <1>1, <1>2, <1>3, <1>4, <1>5, <1>6

\* The words of such a line: the command, and what the argument comes to.
LEMMA ArgumentResolved ==
  ASSUME NEW t \in Seq(Printable), \A i \in 1 .. Len(t) : t[i] # "$"
  PROVE  LET words == <<<<"a">>, t>> IN
         /\ Resolves(words \o <<>> \o <<>>) /\ Resolved(words) = words
         /\ Prefix(words) = 0 /\ Stripped(words) = words /\ SubSeq(words, 1, Prefix(words)) = <<>>
<1>1. PICK command \in Seq(Printable) : command = <<"a">>
  <2>1. PICK a \in Printable : a = "a"
    BY DEF Printable
  <2>2. <<a>> \in Seq(Printable)
    OBVIOUS
  <2> QED BY <2>1, <2>2
<1>2. PICK words : /\ words = <<command, t>> /\ Len(words) = 2 /\ DOMAIN words = 1 .. 2 /\ words[1] = command /\ words[2] = t
                  /\ SubSeq(words, 1, 2) = words /\ SubSeq(words, 1, 0) = <<>> /\ words \o <<>> \o <<>> = words
                  /\ words = [i \in 1 .. 2 |-> words[i]]
  <2>1. PICK V : V = Seq(Printable) /\ command \in V /\ t \in V
    OBVIOUS
  <2>2. /\ <<command, t>> \in Seq(V) /\ Len(<<command, t>>) = 2 /\ DOMAIN <<command, t>> = 1 .. 2
        /\ <<command, t>>[1] = command /\ <<command, t>>[2] = t
        /\ SubSeq(<<command, t>>, 1, 2) = <<command, t>> /\ SubSeq(<<command, t>>, 1, 0) = <<>>
        /\ <<command, t>> \o <<>> \o <<>> = <<command, t>>
    BY <2>1, TwoWords
  <2>3. PICK words \in Seq(V) : words = <<command, t>>
    BY <2>2
  <2>4. words = [i \in 1 .. 2 |-> words[i]]
    BY <2>2, <2>3
  <2> QED BY <2>2, <2>3, <2>4
<1>3. Substitute(command).ok = TRUE /\ Substitute(command).text = command
  <2>1. \A i \in 1 .. Len(command) : command[i] # "$"
    BY <1>1
  <2> QED BY <2>1, SubstituteNothing
<1>4. Substitute(t).ok = TRUE /\ Substitute(t).text = t
  BY SubstituteNothing
<1>5. Resolves(words) /\ words \o <<>> \o <<>> = words
  BY <1>2, <1>3, <1>4 DEF Resolves
<1>6. Resolved(words) = words
  <2>1. \A i \in 1 .. 2 : Substitute(words[i]).text = words[i]
    BY <1>2, <1>3, <1>4
  <2>2. Resolved(words) = [i \in 1 .. 2 |-> Substitute(words[i]).text]
    BY <1>2 DEF Resolved
  <2>3. words = [i \in 1 .. 2 |-> words[i]]
    BY <1>2, Zenon
  <2> QED BY <2>1, <2>2, <2>3
<1>7. ~IsAssignment(command)
  <2>1. \A e \in DOMAIN command : command[e] = "a"
    BY <1>1
  <2> QED BY <2>1 DEF IsAssignment
<1>8. Prefix(words) = 0
  <2>1. Prefix(words) \in 0 .. 2 /\ \A i \in 1 .. Prefix(words) : IsAssignment(words[i])
    BY <1>2, PrefixFacts
  <2>2. Prefix(words) # 0 => 1 \in 1 .. Prefix(words)
    BY <2>1
  <2> QED BY <1>2, <1>7, <2>1, <2>2
<1>9. SubSeq(words, 0 + 1, 2) = words /\ SubSeq(words, 1, 0) = <<>>
  BY <1>2
<1>10. Stripped(words) = words
  BY <1>2, <1>8, <1>9 DEF Stripped
<1> QED BY <1>1, <1>2, <1>5, <1>6, <1>8, <1>9, <1>10

AsOne(t) ==
  Outcome("commands", <<[argv |-> <<<<"a">>, t>>, env |-> <<>>, writes |-> <<>>, reads |-> <<>>, operator |-> "none"]>>)

LEMMA ArgumentRead ==
  ASSUME NEW s \in Seq(Printable), Len(s) > 0, s[1] = "a", Protected(s), ~ExplicitOpacity(s), ~Unbalanced(s),
         NEW t \in Seq(Printable), \A i \in 1 .. Len(t) : t[i] # "$", Words(s) = <<<<"a">>, t>>
  PROVE  Parse(s) = AsOne(t)
<1>1. PICK pieces : pieces = SplitTopLevel(s) /\ Len(pieces) = 1 /\ DOMAIN pieces = {1}
                    /\ pieces[1].text = s /\ pieces[1].operator = "none"
  <2>1. PICK piece : piece = Piece(s, 1, Len(s), "none") /\ piece.text = s /\ piece.operator = "none"
    <3>1. Piece(s, 1, Len(s), "none").operator = "none"
      BY DEF Piece
    <3> QED BY <3>1, NothingCut
  <2>2. Len(<<piece>>) = 1 /\ DOMAIN <<piece>> = {1} /\ <<piece>>[1] = piece
    OBVIOUS
  <2> QED BY <2>1, <2>2, NothingCut
<1>2. PICK redirects : /\ redirects = ExtractRedirects(s) /\ redirects.ok = TRUE /\ redirects.tokens = s
                       /\ redirects.writes = <<>> /\ redirects.reads = <<>>
  BY NothingExtracted
<1>3. PICK words : words = <<<<"a">>, t>> /\ words[1] = <<"a">> /\ words # <<>>
  OBVIOUS
<1>4. Argv(s) = words
  BY <1>2, <1>3 DEF Argv
<1>5. /\ Resolves(words \o <<>> \o <<>>) /\ Resolved(words) = words
      /\ Stripped(words) = words /\ SubSeq(words, 1, Prefix(words)) = <<>>
  BY <1>3, ArgumentResolved
<1>6. Readable(s)
  BY <1>2, <1>3, <1>4, <1>5 DEF Readable
<1>7. ~Blank(s)
  BY DEF Blank
<1>8. ~IsOpaqueCommand(s)
  BY <1>3, <1>5, OpaqueAssumption DEF IsOpaqueCommand
<1>9. Good(s)
  BY <1>1, <1>6, <1>7, <1>8 DEF Good, Fine
<1>10. Parse(s) = Outcome("commands", Meanings(pieces, 1))
  BY <1>1, <1>9, ParseRead
<1>11. Resolved(<<>>) = <<>>
  BY DEF Resolved
<1>12. Meaning(s, "none") = [argv |-> words, env |-> <<>>, writes |-> <<>>, reads |-> <<>>, operator |-> "none"]
  BY <1>2, <1>4, <1>5, <1>11 DEF Meaning
<1>13. Meanings(pieces, 1) = <<Meaning(s, "none")>>
  <2>1. Meanings(pieces, 1) = [k \in 1 .. 1 |-> Meaning(pieces[k].text, pieces[k].operator)]
    BY DEF Meanings
  <2>2. \A k \in 1 .. 1 : Meaning(pieces[k].text, pieces[k].operator) = Meaning(s, "none")
    BY <1>1
  <2>3. PICK m : m = Meaning(s, "none")
    OBVIOUS
  <2>4. Meanings(pieces, 1) = [k \in 1 .. 1 |-> m]
    BY <2>1, <2>2, <2>3
  <2>5. [k \in 1 .. 1 |-> m] = <<m>>
    OBVIOUS
  <2> QED BY <2>3, <2>4, <2>5
<1> QED BY <1>3, <1>10, <1>12, <1>13 DEF AsOne

-----------------------------------------------------------------------------
(* An argument in quotes, and one that is escaped *)

Gathered(t) == [words |-> <<<<"a">>>>, open |-> TRUE, text |-> t]

\* The command and the blank behind it are read, and nothing is quoted.
LEMMA CommandFirst ==
  ASSUME NEW s \in Seq(Printable), Len(s) >= 2, s[1] = "a", s[2] = "blank", NEW read, ReadsAlong(s, read)
  PROVE  /\ Modes(s)[1] = "plain" /\ Modes(s)[2] = "plain" /\ Modes(s)[3] = "plain"
         /\ read[2].words = <<<<"a">>>> /\ read[2].open = FALSE /\ read[2].text = <<>>
<1>1. 1 \in 1 .. Len(s) /\ 2 \in 1 .. Len(s) /\ 1 - 1 = 0 /\ 2 - 1 = 1 /\ 1 + 1 = 2 /\ 2 + 1 = 3
  OBVIOUS
<1>2. After("plain", "a") = "plain" /\ After("plain", "blank") = "plain"
  BY DEF After
<1>3. Modes(s)[1] = "plain" /\ Modes(s)[2] = "plain" /\ Modes(s)[3] = "plain"
  BY <1>1, <1>2, ModesAlong
<1>4. read[1] = Read(s, "plain", read[0], 1) /\ read[2] = Read(s, "plain", read[1], 2)
  BY <1>1, <1>3 DEF ReadsAlong
<1>5. Taken(s, 1, "plain") = <<"a">>
  BY DEF Taken
<1>6. read[1].words = <<>> /\ read[1].open = TRUE /\ read[1].text = <<"a">>
  <2>1. read[0].words = <<>> /\ read[0].text = <<>>
    BY DEF ReadsAlong
  <2>2. read[1] = [words |-> read[0].words, open |-> TRUE, text |-> read[0].text \o Taken(s, 1, "plain")]
    BY <1>4 DEF Read
  <2>3. PICK a : a = "a"
    OBVIOUS
  <2>4. <<>> \o <<a>> = <<a>>
    OBVIOUS
  <2> QED BY <1>5, <2>1, <2>2, <2>3, <2>4
<1>7. read[2] = [words |-> Append(read[1].words, read[1].text), open |-> FALSE, text |-> <<>>]
  BY <1>4, <1>6 DEF Read
<1>8. Append(read[1].words, read[1].text) = <<<<"a">>>>
  <2>1. PICK word : word = <<"a">>
    OBVIOUS
  <2>2. Append(<<>>, word) = <<word>>
    OBVIOUS
  <2> QED BY <1>6, <2>1, <2>2
<1> QED BY <1>3, <1>7, <1>8

LEMMA WordsGathered ==
  ASSUME NEW was, NEW t, was = Gathered(t)
  PROVE  Append(was.words, was.text) = <<<<"a">>, t>> /\ was.open = TRUE
<1>1. was.words = <<<<"a">>>> /\ was.text = t /\ was.open = TRUE
  BY DEF Gathered
<1>2. PICK word : word = <<"a">>
  OBVIOUS
<1>3. Append(<<word>>, t) = <<word, t>>
  <2>1. PICK V : V = {word, t}
    OBVIOUS
  <2>2. PICK one \in Seq(V) : one = <<word>> /\ Len(one) = 1 /\ one[1] = word /\ t \in V
    <3>1. <<word>> \in Seq(V) /\ t \in V
      BY <2>1
    <3> QED BY <3>1
  <2>3. PICK both \in Seq(V) : both = Append(one, t)
    <3>1. Append(one, t) \in Seq(V)
      BY <2>2
    <3> QED BY <3>1, Zenon
  <2>4. Len(both) = 2 /\ both[1] = word /\ both[2] = t
    <3>1. Len(both) = Len(one) + 1 /\ both[1] = one[1] /\ both[Len(one) + 1] = t
      BY <2>2, <2>3
    <3> QED BY <2>2, <3>1
  <2>5. both = <<word, t>>
    BY <2>4
  <2> QED BY <2>2, <2>3, <2>5
<1> QED BY <1>1, <1>2, <1>3

InQuotes(s, t) ==
  /\ s \in Seq(Printable) /\ t \in Seq(Printable) /\ Len(s) = Len(t) + 4
  /\ s[1] = "a" /\ s[2] = "blank" /\ s[3] = "'" /\ s[Len(t) + 4] = "'"
  /\ \A i \in 1 .. Len(t) : s[i + 3] = t[i] /\ t[i] # "'" /\ t[i] # "$"

LEMMA QuotedModes ==
  ASSUME NEW s, NEW t, InQuotes(s, t)
  PROVE  /\ Modes(s)[1] = "plain" /\ Modes(s)[2] = "plain" /\ Modes(s)[3] = "plain"
         /\ \A k \in 0 .. Len(t) : Modes(s)[k + 4] = "single"
         /\ Modes(s)[Len(t) + 5] = "plain"
<1>1. PICK n \in Nat : n = Len(t) /\ Len(s) = n + 4
  BY DEF InQuotes
<1>2. s \in Seq(Printable) /\ \A i \in 1 .. Len(s) : Modes(s)[i + 1] = After(Modes(s)[i], s[i])
  BY <1>1, ModesAlong DEF InQuotes
<1>3. Modes(s)[1] = "plain" /\ Modes(s)[2] = "plain" /\ Modes(s)[3] = "plain"
  <2>1. PICK read : ReadsAlong(s, read)
    BY <1>1, WordsRun
  <2>2. s \in Seq(Printable) /\ Len(s) >= 2 /\ s[1] = "a" /\ s[2] = "blank"
    BY <1>1 DEF InQuotes
  <2> QED BY <2>1, <2>2, CommandFirst
<1> DEFINE Held == {k \in 0 .. n : Modes(s)[k + 4] = "single"}
<1>4. 0 \in Held
  <2>1. 3 \in 1 .. Len(s) /\ s[3] = "'"
    BY <1>1 DEF InQuotes
  <2>2. Modes(s)[3 + 1] = After("plain", "'")
    BY <1>2, <1>3, <2>1
  <2> QED BY <2>2 DEF After
<1>5. ASSUME NEW k \in 1 .. n, k - 1 \in Held PROVE k \in Held
  <2>1. k + 3 \in 1 .. Len(s) /\ (k - 1) + 4 = k + 3 /\ (k + 3) + 1 = k + 4
    BY <1>1
  <2>2. Modes(s)[k + 4] = After("single", s[k + 3])
    BY <1>2, <1>5, <2>1
  <2>3. s[k + 3] # "'"
    BY <1>1 DEF InQuotes
  <2> QED BY <2>2, <2>3 DEF After
<1>6. Held \subseteq 0 .. n
  OBVIOUS
<1> HIDE DEF Held
<1>7. Held = 0 .. n
  BY <1>4, <1>5, <1>6, Inductively
<1>8. \A k \in 0 .. n : Modes(s)[k + 4] = "single"
  BY <1>7 DEF Held
<1>9. Modes(s)[n + 5] = "plain"
  <2>1. n + 4 \in 1 .. Len(s) /\ (n + 4) + 1 = n + 5 /\ n \in 0 .. n /\ s[n + 4] = "'"
    BY <1>1 DEF InQuotes
  <2>2. Modes(s)[n + 5] = After("single", "'")
    BY <1>2, <1>8, <2>1
  <2> QED BY <2>2 DEF After
<1> QED BY <1>1, <1>3, <1>8, <1>9

LEMMA QuotedWords ==
  ASSUME NEW s, NEW t, InQuotes(s, t)
  PROVE  Words(s) = <<<<"a">>, t>>
<1>1. PICK n \in Nat : n = Len(t) /\ Len(s) = n + 4
  BY DEF InQuotes
<1>2. PICK read : /\ ReadsAlong(s, read)
                  /\ Words(s) = IF read[n + 4].open THEN Append(read[n + 4].words, read[n + 4].text) ELSE read[n + 4].words
  BY <1>1, WordsRun
<1>3. \A k \in 1 .. n + 4 : read[k] = Read(s, Modes(s)[k], read[k - 1], k)
  BY <1>1, <1>2 DEF ReadsAlong
<1>4. read[2].words = <<<<"a">>>> /\ read[2].open = FALSE /\ read[2].text = <<>>
  <2>1. s \in Seq(Printable) /\ Len(s) >= 2 /\ s[1] = "a" /\ s[2] = "blank"
    BY <1>1 DEF InQuotes
  <2> QED BY <1>2, <2>1, CommandFirst
<1> DEFINE Held == {k \in 0 .. n : read[k + 3] = Gathered(SubSeq(t, 1, k))}
<1>5. 0 \in Held
  <2>1. 3 \in 1 .. n + 4 /\ s[3] = "'" /\ Modes(s)[3] = "plain"
    BY QuotedModes DEF InQuotes
  <2>2. read[3] = Read(s, "plain", read[2], 3)
    BY <1>3, <2>1
  <2>3. Taken(s, 3, "plain") = <<>>
    BY <2>1 DEF Taken
  <2>4. read[3] = [words |-> read[2].words, open |-> TRUE, text |-> read[2].text \o <<>>]
    BY <2>1, <2>2, <2>3 DEF Read
  <2>5. <<>> \o <<>> = <<>> /\ SubSeq(t, 1, 0) = <<>>
    BY DEF InQuotes
  <2>6. read[3] = Gathered(SubSeq(t, 1, 0))
    BY <1>4, <2>4, <2>5 DEF Gathered
  <2>7. 0 \in 0 .. n /\ 0 + 3 = 3
    OBVIOUS
  <2> QED BY <2>6, <2>7
<1>6. ASSUME NEW k \in 1 .. n, k - 1 \in Held PROVE k \in Held
  <2>1. k + 3 \in 1 .. n + 4 /\ (k + 3) - 1 = (k - 1) + 3 /\ k \in 1 .. Len(t) /\ t \in Seq(Printable)
    BY <1>1 DEF InQuotes
  <2>2. Modes(s)[k + 3] = "single"
    <3>1. k - 1 \in 0 .. Len(t) /\ (k - 1) + 4 = k + 3
      BY <1>1
    <3> QED BY <3>1, QuotedModes
  <2>3. PICK was : was = read[(k - 1) + 3] /\ was = Gathered(SubSeq(t, 1, k - 1))
    BY <1>6
  <2>4. read[k + 3] = Read(s, "single", was, k + 3)
    BY <1>3, <2>1, <2>2, <2>3
  <2>5. Taken(s, k + 3, "single") = <<t[k]>>
    <3>1. s[k + 3] = t[k] /\ t[k] # "'"
      BY <2>1 DEF InQuotes
    <3> QED BY <3>1 DEF Taken
  <2>6. read[k + 3] = [words |-> was.words, open |-> TRUE, text |-> was.text \o <<t[k]>>]
    BY <2>4, <2>5 DEF Read
  <2>7. SubSeq(t, 1, k - 1) \o <<t[k]>> = SubSeq(t, 1, k)
    BY <2>1
  <2>8. was.words = <<<<"a">>>> /\ was.text = SubSeq(t, 1, k - 1)
    BY <2>3 DEF Gathered
  <2>9. read[k + 3] = Gathered(SubSeq(t, 1, k))
    BY <2>6, <2>7, <2>8 DEF Gathered
  <2> QED BY <2>9
<1>7. Held \subseteq 0 .. n
  OBVIOUS
<1> HIDE DEF Held
<1>8. read[n + 3] = Gathered(t)
  <2>1. Held = 0 .. n
    BY <1>5, <1>6, <1>7, Inductively
  <2>2. read[n + 3] = Gathered(SubSeq(t, 1, n))
    BY <2>1 DEF Held
  <2>3. SubSeq(t, 1, n) = t
    BY <1>1 DEF InQuotes
  <2> QED BY <2>2, <2>3
<1>9. read[n + 4] = Gathered(t)
  <2>1. n + 4 \in 1 .. n + 4 /\ (n + 4) - 1 = n + 3 /\ s[n + 4] = "'" /\ t \in Seq(Printable)
    BY <1>1 DEF InQuotes
  <2>2. Modes(s)[n + 4] = "single"
    BY <1>1, QuotedModes
  <2>3. read[n + 4] = Read(s, "single", Gathered(t), n + 4)
    BY <1>3, <1>8, <2>1, <2>2
  <2>4. Taken(s, n + 4, "single") = <<>>
    BY <2>1 DEF Taken
  <2>5. Gathered(t).words = <<<<"a">>>> /\ Gathered(t).text = t
    BY DEF Gathered
  <2>6. read[n + 4] = [words |-> <<<<"a">>>>, open |-> TRUE, text |-> t \o <<>>]
    BY <2>3, <2>4, <2>5 DEF Read
  <2>7. t \o <<>> = t
    BY <2>1
  <2> QED BY <2>6, <2>7 DEF Gathered
<1> QED BY <1>2, <1>9, WordsGathered

LEMMA QuotedRead ==
  ASSUME NEW s, NEW t, InQuotes(s, t), ~ExplicitOpacity(t)
  PROVE  Parse(s) = AsOne(t)
<1>1. PICK n \in Nat : n = Len(t) /\ Len(s) = n + 4 /\ DOMAIN s = 1 .. n + 4
  BY DEF InQuotes
<1>2. s \in Seq(Printable) /\ t \in Seq(Printable) /\ Len(s) > 0 /\ s[1] = "a" /\ \A i \in 1 .. Len(t) : t[i] # "$"
  BY <1>1 DEF InQuotes
<1>3. Protected(s)
  <2>1. ASSUME NEW i \in Bare(s) PROVE s[i] \in {"a", "blank", "'", "\\"}
    <3>1. i \in 1 .. n + 4 /\ Modes(s)[i] = "plain"
      BY <1>1 DEF Bare
    <3>2. CASE i >= 4
      <4>1. i - 4 \in 0 .. Len(t) /\ (i - 4) + 4 = i
        BY <1>1, <3>1, <3>2
      <4> QED BY <3>1, <4>1, QuotedModes
    <3>3. CASE i \in {1, 2, 3}
      BY <3>3 DEF InQuotes
    <3> QED BY <3>1, <3>2, <3>3
  <2> QED BY <2>1 DEF Protected
<1>4. ~Unbalanced(s)
  <2>1. Modes(s)[n + 5] = "plain" /\ Len(s) + 1 = n + 5
    BY <1>1, QuotedModes
  <2> QED BY <2>1 DEF Unbalanced
<1>5. \A i \in 1 .. n + 4 : s[i] \notin {"a", "blank", "'"} => i - 3 \in 1 .. n /\ t[i - 3] = s[i]
  <2> SUFFICES ASSUME NEW i \in 1 .. n + 4, s[i] \notin {"a", "blank", "'"} PROVE i - 3 \in 1 .. n /\ t[i - 3] = s[i]
    OBVIOUS
  <2>1. i \notin {1, 2, 3, n + 4}
    BY <1>1 DEF InQuotes
  <2>2. i - 3 \in 1 .. n /\ (i - 3) + 3 = i
    BY <2>1
  <2> QED BY <1>1, <2>2 DEF InQuotes
<1>6. ASSUME NEW x, NEW y, x \notin {"a", "blank", "'"}, y \notin {"a", "blank", "'"}, Occurs(s, <<x, y>>)
      PROVE  Occurs(t, <<x, y>>)
  <2>1. PICK i \in 1 .. Len(s) - 1 : s[i] = x /\ s[i + 1] = y
    BY <1>2, <1>6, OccursTwo
  <2>2. i \in 1 .. n + 4 /\ i + 1 \in 1 .. n + 4
    BY <1>1
  <2>3. i - 3 \in 1 .. n /\ t[i - 3] = x /\ (i + 1) - 3 \in 1 .. n /\ t[(i + 1) - 3] = y
    BY <1>5, <1>6, <2>1, <2>2
  <2>4. i - 3 \in 1 .. Len(t) - 1 /\ (i - 3) + 1 = (i + 1) - 3
    BY <1>1, <2>3
  <2> QED BY <1>2, <2>3, <2>4, OccursTwo
<1>7. ASSUME NEW x, x \notin {"a", "blank", "'"}, Occurs(s, <<x>>) PROVE Occurs(t, <<x>>)
  <2>1. PICK i \in 1 .. Len(s) : s[i] = x
    BY <1>2, <1>7, OccursOne
  <2>2. i - 3 \in 1 .. Len(t) /\ t[i - 3] = x
    BY <1>1, <1>5, <1>7, <2>1
  <2> QED BY <1>2, <2>2, OccursOne
<1>8. ~ExplicitOpacity(s)
  <2>1. \A u : ExplicitOpacity(u) <=>
          Occurs(u, <<"$", "(">>) \/ Occurs(u, <<"backquote">>) \/ Occurs(u, <<"<", "(">>) \/ Occurs(u, <<"<", "<">>)
    BY DEF ExplicitOpacity
  <2>2. Occurs(s, <<"$", "(">>) => Occurs(t, <<"$", "(">>)
    BY <1>6
  <2>3. Occurs(s, <<"<", "(">>) => Occurs(t, <<"<", "(">>)
    BY <1>6
  <2>4. Occurs(s, <<"<", "<">>) => Occurs(t, <<"<", "<">>)
    BY <1>6
  <2>5. Occurs(s, <<"backquote">>) => Occurs(t, <<"backquote">>)
    BY <1>7
  <2> QED BY <2>1, <2>2, <2>3, <2>4, <2>5
<1> QED BY <1>2, <1>3, <1>4, <1>8, QuotedWords, ArgumentRead

\* A backslash stands before each character of the argument.
Escaped(s, t) ==
  /\ s \in Seq(Printable) /\ t \in Seq(Printable) /\ Len(t) > 0 /\ Len(s) = 2 * Len(t) + 2
  /\ s[1] = "a" /\ s[2] = "blank"
  /\ \A h \in 1 .. Len(t) : s[2 * h + 1] = "\\" /\ s[2 * h + 2] = t[h] /\ t[h] # "$"

LEMMA EveryOther ==
  ASSUME NEW n \in Nat, NEW i \in 1 .. 2 * n + 2
  PROVE  i \in {1, 2} \/ \E h \in 1 .. n : i = 2 * h + 1 \/ i = 2 * h + 2
<1> DEFINE P == {h \in 0 .. n : \A j \in 1 .. 2 * h + 2 : j \in {1, 2} \/ \E g \in 1 .. n : j = 2 * g + 1 \/ j = 2 * g + 2}
<1>1. 0 \in P
  <2>1. \A j \in 1 .. 2 * 0 + 2 : j \in {1, 2}
    OBVIOUS
  <2> QED BY <2>1
<1>2. ASSUME NEW h \in 1 .. n, h - 1 \in P PROVE h \in P
  <2>1. ASSUME NEW j \in 1 .. 2 * h + 2 PROVE j \in {1, 2} \/ \E g \in 1 .. n : j = 2 * g + 1 \/ j = 2 * g + 2
    <3>1. j \in 1 .. 2 * (h - 1) + 2 \/ j = 2 * h + 1 \/ j = 2 * h + 2
      OBVIOUS
    <3>2. CASE j \in 1 .. 2 * (h - 1) + 2
      BY <1>2, <3>2
    <3>3. CASE j = 2 * h + 1 \/ j = 2 * h + 2
      BY <3>3
    <3> QED BY <3>1, <3>2, <3>3
  <2> QED BY <2>1
<1>3. P \subseteq 0 .. n
  OBVIOUS
<1> HIDE DEF P
<1>4. n \in P
  <2>1. P = 0 .. n
    BY <1>1, <1>2, <1>3, Inductively
  <2> QED BY <2>1
<1> QED BY <1>4 DEF P

LEMMA EscapedModes ==
  ASSUME NEW s, NEW t, Escaped(s, t)
  PROVE  /\ \A h \in 0 .. Len(t) : Modes(s)[2 * h + 3] = "plain"
         /\ \A h \in 1 .. Len(t) : Modes(s)[2 * h + 1] = "plain" /\ Modes(s)[2 * h + 2] = "plainEscape"
<1>1. PICK n \in Nat : n = Len(t) /\ Len(s) = 2 * n + 2 /\ Len(s) \in Nat
  <2>1. s \in Seq(Printable) /\ t \in Seq(Printable) /\ Len(s) = 2 * Len(t) + 2
    BY DEF Escaped
  <2> QED BY <2>1
<1>2. \A i \in 1 .. Len(s) : Modes(s)[i + 1] = After(Modes(s)[i], s[i])
  BY <1>1, ModesAlong
<1>3. Modes(s)[3] = "plain"
  <2>1. PICK read : ReadsAlong(s, read)
    BY <1>1, WordsRun
  <2>2. s \in Seq(Printable) /\ Len(s) >= 2 /\ s[1] = "a" /\ s[2] = "blank"
    BY <1>1 DEF Escaped
  <2> QED BY <2>1, <2>2, CommandFirst
<1>4. ASSUME NEW h \in 1 .. n, Modes(s)[2 * h + 1] = "plain"
      PROVE  Modes(s)[2 * h + 2] = "plainEscape" /\ Modes(s)[2 * h + 3] = "plain"
  <2>1. 2 * h + 1 \in 1 .. Len(s) /\ (2 * h + 1) + 1 = 2 * h + 2 /\ s[2 * h + 1] = "\\"
    BY <1>1 DEF Escaped
  <2>2. Modes(s)[2 * h + 2] = After("plain", "\\")
    BY <1>2, <1>4, <2>1
  <2>3. Modes(s)[2 * h + 2] = "plainEscape"
    BY <2>2 DEF After
  <2>4. 2 * h + 2 \in 1 .. Len(s) /\ (2 * h + 2) + 1 = 2 * h + 3
    BY <1>1
  <2>5. Modes(s)[2 * h + 3] = After("plainEscape", s[2 * h + 2])
    BY <1>2, <2>3, <2>4
  <2> QED BY <2>3, <2>5 DEF After
<1> DEFINE Held == {h \in 0 .. n : Modes(s)[2 * h + 3] = "plain"}
<1>5. 0 \in Held
  <2>1. 2 * 0 + 3 = 3 /\ 0 \in 0 .. n
    OBVIOUS
  <2> QED BY <1>3, <2>1
<1>6. ASSUME NEW h \in 1 .. n, h - 1 \in Held PROVE h \in Held
  <2>1. 2 * (h - 1) + 3 = 2 * h + 1
    OBVIOUS
  <2>2. Modes(s)[2 * h + 1] = "plain"
    BY <1>6, <2>1
  <2> QED BY <1>4, <2>2
<1>7. Held \subseteq 0 .. n
  OBVIOUS
<1> HIDE DEF Held
<1>8. \A h \in 0 .. n : Modes(s)[2 * h + 3] = "plain"
  <2>1. Held = 0 .. n
    BY <1>5, <1>6, <1>7, Inductively
  <2> QED BY <2>1 DEF Held
<1>9. ASSUME NEW h \in 1 .. n PROVE Modes(s)[2 * h + 1] = "plain" /\ Modes(s)[2 * h + 2] = "plainEscape"
  <2>1. h - 1 \in 0 .. n /\ 2 * (h - 1) + 3 = 2 * h + 1
    OBVIOUS
  <2>2. Modes(s)[2 * h + 1] = "plain"
    BY <1>8, <2>1
  <2> QED BY <1>4, <2>2
<1> QED BY <1>1, <1>8, <1>9

LEMMA EscapedWords ==
  ASSUME NEW s, NEW t, Escaped(s, t)
  PROVE  Words(s) = <<<<"a">>, t>>
<1>1. PICK n \in Nat : n = Len(t) /\ n > 0 /\ Len(s) = 2 * n + 2 /\ n \in 0 .. n /\ Len(s) \in Nat
  <2>1. s \in Seq(Printable) /\ t \in Seq(Printable) /\ Len(t) > 0 /\ Len(s) = 2 * Len(t) + 2
    BY DEF Escaped
  <2> QED BY <2>1
<1>2. PICK read : /\ ReadsAlong(s, read)
                  /\ Words(s) = IF read[2 * n + 2].open THEN Append(read[2 * n + 2].words, read[2 * n + 2].text)
                                ELSE read[2 * n + 2].words
  <2>1. Len(s) = 2 * n + 2 /\ Len(s) \in Nat
    BY <1>1
  <2>2. \E read : /\ ReadsAlong(s, read)
                  /\ Words(s) = IF read[Len(s)].open THEN Append(read[Len(s)].words, read[Len(s)].text)
                                ELSE read[Len(s)].words
    BY <2>1, WordsRun
  <2> QED BY <2>1, <2>2, Zenon
<1>3. \A k \in 1 .. 2 * n + 2 : read[k] = Read(s, Modes(s)[k], read[k - 1], k)
  BY <1>1, <1>2 DEF ReadsAlong
<1>4. read[2].words = <<<<"a">>>> /\ read[2].text = <<>>
  <2>1. s \in Seq(Printable) /\ Len(s) >= 2 /\ s[1] = "a" /\ s[2] = "blank"
    BY <1>1 DEF Escaped
  <2> QED BY <1>2, <2>1, CommandFirst
<1> DEFINE So(h) == read[2 * h + 2].words = <<<<"a">>>> /\ read[2 * h + 2].text = SubSeq(t, 1, h)
           Held == {h \in 0 .. n : So(h) /\ (h # 0 => read[2 * h + 2].open = TRUE)}
<1>5. 0 \in Held
  <2>1. 2 * 0 + 2 = 2 /\ 0 \in 0 .. n /\ SubSeq(t, 1, 0) = <<>>
    BY DEF Escaped
  <2> QED BY <1>4, <2>1
<1>6. ASSUME NEW h \in 1 .. n, h - 1 \in Held PROVE h \in Held
  <2>1. PICK was : was = read[2 * h] /\ was.words = <<<<"a">>>> /\ was.text = SubSeq(t, 1, h - 1)
    <3>1. 2 * (h - 1) + 2 = 2 * h
      OBVIOUS
    <3> QED BY <1>6, <3>1
  <2>2. /\ 2 * h + 1 \in 1 .. 2 * n + 2 /\ (2 * h + 1) - 1 = 2 * h /\ 2 * h + 1 # Len(s)
        /\ 2 * h + 2 \in 1 .. 2 * n + 2 /\ (2 * h + 2) - 1 = 2 * h + 1
    BY <1>1
  <2>3. s[2 * h + 1] = "\\" /\ s[2 * h + 2] = t[h] /\ t \in Seq(Printable) /\ h \in 1 .. Len(t)
    BY <1>1 DEF Escaped
  <2>4. Modes(s)[2 * h + 1] = "plain" /\ Modes(s)[2 * h + 2] = "plainEscape"
    BY <1>1, EscapedModes
  <2>5. Taken(s, 2 * h + 1, "plain") = <<>>
    BY <2>2, <2>3 DEF Taken
  <2>6. Taken(s, 2 * h + 2, "plainEscape") = <<t[h]>>
    BY <2>3 DEF Taken
  <2>7. read[2 * h + 1] = Read(s, "plain", was, 2 * h + 1)
    BY <1>3, <2>1, <2>2, <2>4
  <2>8. read[2 * h + 1] = [words |-> was.words, open |-> TRUE, text |-> was.text \o <<>>]
    BY <2>3, <2>5, <2>7 DEF Read
  <2>9. PICK then : then = read[2 * h + 1] /\ then.words = <<<<"a">>>> /\ then.text = SubSeq(t, 1, h - 1)
    <3>1. SubSeq(t, 1, h - 1) \o <<>> = SubSeq(t, 1, h - 1)
      BY <2>3
    <3> QED BY <2>1, <2>8, <3>1
  <2>10. read[2 * h + 2] = Read(s, "plainEscape", then, 2 * h + 2)
    BY <1>3, <2>2, <2>4, <2>9
  <2>11. read[2 * h + 2] = [words |-> then.words, open |-> TRUE, text |-> then.text \o <<t[h]>>]
    BY <2>6, <2>10 DEF Read
  <2>12. SubSeq(t, 1, h - 1) \o <<t[h]>> = SubSeq(t, 1, h)
    BY <2>3
  <2>13. So(h) /\ read[2 * h + 2].open = TRUE
    <3>1. PICK now : now = read[2 * h + 2]
      OBVIOUS
    <3>2. now.words = then.words /\ now.open = TRUE /\ now.text = then.text \o <<t[h]>>
      BY <2>11, <3>1
    <3>3. now.words = <<<<"a">>>> /\ now.text = SubSeq(t, 1, h)
      BY <2>9, <2>12, <3>2
    <3> QED BY <3>1, <3>2, <3>3
  <2> HIDE DEF So
  <2> QED BY <2>13
<1>7. Held \subseteq 0 .. n
  OBVIOUS
<1> HIDE DEF Held, So
<1>8. So(n) /\ read[2 * n + 2].open = TRUE
  <2>1. Held = 0 .. n
    BY <1>5, <1>6, <1>7, Inductively
  <2>2. n \in Held /\ n # 0
    BY <1>1, <2>1
  <2> QED BY <2>2 DEF Held
<1>9. SubSeq(t, 1, n) = t
  BY <1>1 DEF Escaped
<1>10. Append(<<<<"a">>>>, t) = <<<<"a">>, t>>
  <2>1. Gathered(t).words = <<<<"a">>>> /\ Gathered(t).text = t
    BY DEF Gathered
  <2> QED BY <2>1, WordsGathered
<1> QED BY <1>2, <1>8, <1>9, <1>10 DEF So

LEMMA EscapedRead ==
  ASSUME NEW s, NEW t, Escaped(s, t), ~ExplicitOpacity(t)
  PROVE  Parse(s) = AsOne(t)
<1>1. PICK n \in Nat : n = Len(t) /\ n > 0 /\ Len(s) = 2 * n + 2 /\ DOMAIN s = 1 .. 2 * n + 2
  BY DEF Escaped
<1>2. s \in Seq(Printable) /\ t \in Seq(Printable) /\ Len(s) > 0 /\ s[1] = "a" /\ \A i \in 1 .. Len(t) : t[i] # "$"
  BY <1>1 DEF Escaped
<1>3. Protected(s)
  <2>1. ASSUME NEW i \in Bare(s) PROVE s[i] \in {"a", "blank", "'", "\\"}
    <3>1. i \in 1 .. 2 * n + 2 /\ Modes(s)[i] = "plain"
      BY <1>1 DEF Bare
    <3>2. CASE i \in {1, 2}
      BY <3>2 DEF Escaped
    <3>3. ASSUME NEW h \in 1 .. n, i = 2 * h + 1 PROVE s[i] = "\\"
      BY <1>1, <3>3 DEF Escaped
    <3>4. ASSUME NEW h \in 1 .. n, i = 2 * h + 2 PROVE FALSE
      BY <1>1, <3>1, <3>4, EscapedModes
    <3> QED BY <3>1, <3>2, <3>3, <3>4, EveryOther
  <2> QED BY <2>1 DEF Protected
<1>4. ~Unbalanced(s)
  <2>1. n \in 0 .. Len(t) /\ Len(s) + 1 = 2 * n + 3
    BY <1>1
  <2>2. Modes(s)[2 * n + 3] = "plain"
    BY <2>1, EscapedModes
  <2> QED BY <2>1, <2>2 DEF Unbalanced
<1>5. ASSUME NEW i \in 1 .. 2 * n + 2, s[i] \notin {"a", "blank", "\\"}
      PROVE  \E h \in 1 .. n : i = 2 * h + 2 /\ t[h] = s[i]
  <2>1. i \notin {1, 2}
    BY <1>5 DEF Escaped
  <2>2. ASSUME NEW h \in 1 .. n PROVE s[2 * h + 1] = "\\" /\ s[2 * h + 2] = t[h]
    BY <1>1 DEF Escaped
  <2>3. PICK h \in 1 .. n : i = 2 * h + 1 \/ i = 2 * h + 2
    BY <2>1, EveryOther
  <2> QED BY <1>5, <2>2, <2>3
<1>6. ASSUME NEW x, NEW y, x \notin {"a", "blank", "\\"}, y \notin {"a", "blank", "\\"}, Occurs(s, <<x, y>>)
      PROVE  FALSE
  <2>1. PICK i \in 1 .. Len(s) - 1 : s[i] = x /\ s[i + 1] = y
    BY <1>2, <1>6, OccursTwo
  <2>2. i \in 1 .. 2 * n + 2 /\ i + 1 \in 1 .. 2 * n + 2
    BY <1>1
  <2>3. (\E h \in 1 .. n : i = 2 * h + 2) /\ (\E g \in 1 .. n : i + 1 = 2 * g + 2)
    BY <1>5, <1>6, <2>1, <2>2
  <2>4. PICK h \in 1 .. n, g \in 1 .. n : i = 2 * h + 2 /\ i + 1 = 2 * g + 2
    BY <2>3
  <2>5. 2 * g = 2 * h + 1
    BY <2>4
  <2> QED BY <2>5
<1>7. ASSUME NEW x, x \notin {"a", "blank", "\\"}, Occurs(s, <<x>>) PROVE Occurs(t, <<x>>)
  <2>1. PICK i \in 1 .. Len(s) : s[i] = x
    BY <1>2, <1>7, OccursOne
  <2>2. \E h \in 1 .. Len(t) : t[h] = x
    BY <1>1, <1>5, <1>7, <2>1
  <2> QED BY <1>2, <2>2, OccursOne
<1>8. ~ExplicitOpacity(s)
  <2>1. \A u : ExplicitOpacity(u) <=>
          Occurs(u, <<"$", "(">>) \/ Occurs(u, <<"backquote">>) \/ Occurs(u, <<"<", "(">>) \/ Occurs(u, <<"<", "<">>)
    BY DEF ExplicitOpacity
  <2>2. ~Occurs(s, <<"$", "(">>)
    BY <1>6
  <2>3. ~Occurs(s, <<"<", "(">>)
    BY <1>6
  <2>4. ~Occurs(s, <<"<", "<">>)
    BY <1>6
  <2>5. Occurs(s, <<"backquote">>) => Occurs(t, <<"backquote">>)
    BY <1>7
  <2> QED BY <2>1, <2>2, <2>3, <2>4, <2>5
<1> QED BY <1>2, <1>3, <1>4, <1>8, EscapedWords, ArgumentRead

LEMMA LineOf ==
  ASSUME NEW argument \in Seq(Printable)
  PROVE  LET s == <<"a", "blank">> \o argument IN
         /\ s \in Seq(Printable) /\ Len(s) = Len(argument) + 2 /\ s[1] = "a" /\ s[2] = "blank"
         /\ \A j \in 1 .. Len(argument) : s[j + 2] = argument[j]
<1>1. PICK a \in Printable, blank \in Printable : a = "a" /\ blank = "blank"
  BY DEF Printable
<1>2. PICK front \in Seq(Printable) : front = <<a, blank>> /\ Len(front) = 2 /\ front[1] = a /\ front[2] = blank
  <2>1. <<a, blank>> \in Seq(Printable) /\ Len(<<a, blank>>) = 2
    OBVIOUS
  <2> QED BY <2>1
<1>3. PICK s \in Seq(Printable) : s = front \o argument
  <2>1. front \o argument \in Seq(Printable)
    OBVIOUS
  <2> QED BY <2>1, Zenon
<1>4. Len(s) = Len(argument) + 2
  <2>1. Len(s) = Len(front) + Len(argument)
    BY <1>3, ConcatProperties
  <2> QED BY <1>2, <2>1
<1>5. s[1] = a /\ s[2] = blank
  BY <1>2, <1>3
<1>6. ASSUME NEW j \in 1 .. Len(argument) PROVE s[j + 2] = argument[j]
  BY <1>2, <1>3
<1> QED BY <1>1, <1>2, <1>3, <1>4, <1>5, <1>6

LEMMA LineInQuotes ==
  ASSUME NEW t \in Seq(Printable), \A i \in 1 .. Len(t) : t[i] # "'" /\ t[i] # "$"
  PROVE  InQuotes(<<"a", "blank">> \o (<<"'">> \o t \o <<"'">>), t)
<1>1. PICK quote \in Printable : quote = "'"
  BY DEF Printable
<1>2. PICK one \in Seq(Printable) : one = <<quote>> /\ Len(one) = 1 /\ one[1] = quote
  <2>1. <<quote>> \in Seq(Printable)
    OBVIOUS
  <2> QED BY <2>1
<1>3. PICK n \in Nat : n = Len(t)
  OBVIOUS
<1>4. PICK opened \in Seq(Printable) :
        opened = one \o t /\ Len(opened) = n + 1 /\ opened[1] = quote /\ \A i \in 1 .. n : opened[i + 1] = t[i]
  <2>1. PICK opened \in Seq(Printable) : opened = one \o t
    <3>1. one \o t \in Seq(Printable)
      OBVIOUS
    <3> QED BY <3>1, Zenon
  <2>2. Len(opened) = n + 1
    <3>1. Len(opened) = Len(one) + Len(t)
      BY <2>1, ConcatProperties
    <3> QED BY <1>2, <1>3, <3>1
  <2>3. opened[1] = quote /\ \A i \in 1 .. n : opened[i + 1] = t[i]
    BY <1>2, <1>3, <2>1
  <2> QED BY <2>1, <2>2, <2>3
<1>5. PICK argument \in Seq(Printable) :
        /\ argument = opened \o one /\ Len(argument) = n + 2 /\ argument[n + 2] = quote
        /\ \A i \in 1 .. n + 1 : argument[i] = opened[i]
  <2>1. PICK argument \in Seq(Printable) : argument = opened \o one
    <3>1. opened \o one \in Seq(Printable)
      OBVIOUS
    <3> QED BY <3>1, Zenon
  <2>2. Len(argument) = n + 2
    <3>1. Len(argument) = Len(opened) + Len(one)
      BY <2>1, ConcatProperties
    <3> QED BY <1>2, <1>4, <3>1
  <2>3. argument[n + 2] = quote
    <3>1. Len(opened) + 1 \in 1 .. Len(opened) + Len(one) /\ ~(Len(opened) + 1 <= Len(opened)) /\ Len(opened) + 1 = n + 2
      BY <1>2, <1>4
    <3>2. argument[Len(opened) + 1] = one[1]
      BY <1>2, <2>1, <3>1
    <3> QED BY <1>2, <3>1, <3>2
  <2>4. ASSUME NEW i \in 1 .. n + 1 PROVE argument[i] = opened[i]
    <3>1. i \in 1 .. Len(opened)
      BY <1>4
    <3> QED BY <2>1, <3>1
  <2> QED BY <2>1, <2>2, <2>3, <2>4
<1>6. PICK s : s = <<"a", "blank">> \o argument
  OBVIOUS
<1>7. /\ s \in Seq(Printable) /\ Len(s) = Len(argument) + 2 /\ s[1] = "a" /\ s[2] = "blank"
      /\ \A j \in 1 .. Len(argument) : s[j + 2] = argument[j]
  BY <1>6, LineOf
<1>8. Len(s) = n + 4
  BY <1>5, <1>7
<1>9. s[3] = quote
  <2>1. 1 \in 1 .. Len(argument) /\ 1 + 2 = 3 /\ 1 \in 1 .. n + 1
    BY <1>5
  <2> QED BY <1>4, <1>5, <1>7, <2>1
<1>10. s[n + 4] = quote
  <2>1. n + 2 \in 1 .. Len(argument) /\ (n + 2) + 2 = n + 4
    BY <1>5
  <2> QED BY <1>5, <1>7, <2>1
<1>11. ASSUME NEW i \in 1 .. n PROVE s[i + 3] = t[i]
  <2>1. i + 1 \in 1 .. Len(argument) /\ (i + 1) + 2 = i + 3 /\ i + 1 \in 1 .. n + 1
    BY <1>5
  <2>2. s[(i + 1) + 2] = argument[i + 1]
    BY <1>7, <2>1
  <2>3. argument[i + 1] = opened[i + 1] /\ opened[i + 1] = t[i]
    BY <1>4, <1>5, <2>1
  <2> QED BY <2>1, <2>2, <2>3
<1>12. InQuotes(s, t)
  BY <1>1, <1>3, <1>7, <1>8, <1>9, <1>10, <1>11 DEF InQuotes
<1>13. argument = <<"'">> \o t \o <<"'">>
  BY <1>1, <1>2, <1>4, <1>5
<1> QED BY <1>6, <1>12, <1>13

LEMMA LineEscaped ==
  ASSUME NEW t \in Seq(Printable), Len(t) > 0, \A i \in 1 .. Len(t) : t[i] # "$"
  PROVE  Escaped(<<"a", "blank">> \o [i \in 1 .. 2 * Len(t) |-> IF i % 2 = 1 THEN "\\" ELSE t[i \div 2]], t)
<1>1. PICK n \in Nat : n = Len(t) /\ n > 0
  OBVIOUS
<1> DEFINE argument == [i \in 1 .. 2 * n |-> IF i % 2 = 1 THEN "\\" ELSE t[i \div 2]]
<1>2. ASSUME NEW h \in 1 .. n PROVE argument[2 * h - 1] = "\\" /\ argument[2 * h] = t[h]
  <2>1. 2 * h - 1 \in 1 .. 2 * n /\ 2 * h \in 1 .. 2 * n
    OBVIOUS
  <2>2. (2 * h - 1) % 2 = 1 /\ (2 * h) % 2 = 0 /\ (2 * h) \div 2 = h
    OBVIOUS
  <2> QED BY <2>1, <2>2
<1>3. ASSUME NEW i \in 1 .. 2 * n PROVE argument[i] \in Printable
  <2>1. i % 2 # 1 => i \div 2 \in 1 .. Len(t)
    BY <1>1
  <2>2. "\\" \in Printable
    BY DEF Printable
  <2> QED BY <2>1, <2>2
<1>4. argument \in Seq(Printable) /\ Len(argument) = 2 * n
  <2>1. PICK m \in Nat : m = 2 * n
    OBVIOUS
  <2>2. argument \in [1 .. m -> Printable]
    BY <1>3, <2>1
  <2> HIDE DEF argument
  <2>3. argument \in Seq(Printable) /\ Len(argument) = m
    BY <2>2
  <2> QED BY <2>1, <2>3
<1> HIDE DEF argument
<1>5. PICK s : s = <<"a", "blank">> \o argument
  OBVIOUS
<1>6. /\ s \in Seq(Printable) /\ Len(s) = Len(argument) + 2 /\ s[1] = "a" /\ s[2] = "blank"
      /\ \A j \in 1 .. Len(argument) : s[j + 2] = argument[j]
  BY <1>4, <1>5, LineOf
<1>7. ASSUME NEW h \in 1 .. n PROVE s[2 * h + 1] = "\\" /\ s[2 * h + 2] = t[h]
  <2>1. 2 * h - 1 \in 1 .. Len(argument) /\ (2 * h - 1) + 2 = 2 * h + 1 /\ 2 * h \in 1 .. Len(argument)
    BY <1>4
  <2>2. s[(2 * h - 1) + 2] = argument[2 * h - 1] /\ s[2 * h + 2] = argument[2 * h]
    BY <1>6, <2>1
  <2>3. argument[2 * h - 1] = "\\" /\ argument[2 * h] = t[h]
    BY <1>2
  <2> QED BY <2>1, <2>2, <2>3, Zenon
<1>8. Escaped(s, t)
  BY <1>1, <1>4, <1>6, <1>7 DEF Escaped
<1> QED BY <1>1, <1>5, <1>8 DEF argument

LEMMA LineStaysTogether ==
  ASSUME NEW t \in Seq(Printable), t = text
  PROVE  QuotedStaysTogether
<1> DEFINE quoted == <<"a", "blank">> \o (<<"'">> \o t \o <<"'">>)
           escaped == <<"a", "blank">> \o [i \in 1 .. 2 * Len(t) |-> IF i % 2 = 1 THEN "\\" ELSE t[i \div 2]]
<1>1. QuotedStaysTogether <=>
        ("$" \notin ToSet(t) /\ ~ExplicitOpacity(t) =>
           /\ "'" \notin ToSet(t) => Parse(quoted) = AsOne(t)
           /\ t # <<>> => Parse(escaped) = AsOne(t))
  BY DEF QuotedStaysTogether, AsOne
<1> SUFFICES ASSUME "$" \notin ToSet(t), ~ExplicitOpacity(t)
             PROVE  /\ "'" \notin ToSet(t) => Parse(quoted) = AsOne(t)
                    /\ t # <<>> => Parse(escaped) = AsOne(t)
  BY <1>1
<1>2. \A i \in 1 .. Len(t) : t[i] \in ToSet(t)
  BY DEF ToSet
<1>3. \A i \in 1 .. Len(t) : t[i] # "$"
  BY <1>2
<1>4. ASSUME "'" \notin ToSet(t) PROVE Parse(quoted) = AsOne(t)
  <2>1. InQuotes(quoted, t)
    BY <1>2, <1>3, <1>4, LineInQuotes
  <2> HIDE DEF quoted
  <2> QED BY <2>1, QuotedRead
<1>5. ASSUME t # <<>> PROVE Parse(escaped) = AsOne(t)
  <2>1. Len(t) > 0
    BY <1>5
  <2>2. Escaped(escaped, t)
    BY <1>3, <2>1, LineEscaped
  <2> HIDE DEF escaped
  <2> QED BY <2>2, EscapedRead
<1> QED BY <1>4, <1>5

-----------------------------------------------------------------------------
(* The theorems of the lines *)

\* parse.rs, split_top_level: a line that is cut at a semicolon outside quotes is read as
\* its two halves are, whatever line is typed.
THEOREM SequencesAreComposed == LineSpec => []SequencesCompose
<1>1. text = <<>> => text \in Seq(Character)
  OBVIOUS
<1>2. text \in Seq(Character) /\ [\E ch \in Character : Type(ch)]_text => (text \in Seq(Character))'
  BY DEF Type
<1>3. text \in Seq(Character) => SequencesCompose
  <2>1. text \in Seq(Character) => text \in Seq(Printable)
    BY DEF Printable
  <2> QED BY <2>1, LineComposes DEF SequencesCompose
<1> QED BY <1>1, <1>2, <1>3, PTL DEF LineSpec

\* parse.rs, extract_redirects: a redirection outside quotes is an effect of the line that
\* is read, and its sign is left in no argument, whatever line is typed.
THEOREM RedirectionsAreEffects == LineSpec => []RedirectionIsAnEffect
<1>1. text = <<>> => text \in Seq(Character)
  OBVIOUS
<1>2. text \in Seq(Character) /\ [\E ch \in Character : Type(ch)]_text => (text \in Seq(Character))'
  BY DEF Type
<1>3. text \in Seq(Character) => RedirectionIsAnEffect
  <2>1. text \in Seq(Character) => text \in Seq(Printable)
    BY DEF Printable
  <2> QED BY <2>1, LineRedirected
<1> QED BY <1>1, <1>2, <1>3, PTL DEF LineSpec

\* parse.rs, split_top_level, extract_redirects and substitute_variables: an argument that
\* is quoted whole, or escaped character by character, stays one argument, whatever it is.
THEOREM QuotedIsOneArgument == LineSpec => []QuotedStaysTogether
<1>1. text = <<>> => text \in Seq(Character)
  OBVIOUS
<1>2. text \in Seq(Character) /\ [\E ch \in Character : Type(ch)]_text => (text \in Seq(Character))'
  BY DEF Type
<1>3. text \in Seq(Character) => QuotedStaysTogether
  <2>1. text \in Seq(Character) => text \in Seq(Printable)
    BY DEF Printable
  <2> QED BY <2>1, LineStaysTogether
<1> QED BY <1>1, <1>2, <1>3, PTL DEF LineSpec

-----------------------------------------------------------------------------
(* A path, one component after the other *)

\* Where the first components of a path lead from the working directory.
Steps(parts, n, reached) ==
  reached = [k \in 0 .. n |-> IF k > 0 THEN Enter(reached[k - 1], parts[k]) ELSE Cwd]

LEMMA StepsExist ==
  ASSUME NEW parts \in Seq(STRING)
  PROVE  \A n \in 0 .. Len(parts) : \E reached : Steps(parts, n, reached)
<1> DEFINE Undone == {n \in 0 .. Len(parts) : ~ \E reached : Steps(parts, n, reached)}
<1> SUFFICES ASSUME Undone # {} PROVE FALSE
  OBVIOUS
<1>1. PICK n \in Undone : \A h \in Undone : n <= h
  <2>1. Undone \subseteq Nat
    OBVIOUS
  <2> HIDE DEF Undone
  <2> QED BY <2>1, FirstPlace
<1>2. n # 0
  <2>1. Steps(parts, 0, [k \in 0 .. 0 |-> Cwd])
    BY DEF Steps
  <2> QED BY <2>1
<1>3. n \in Nat /\ n - 1 \in 0 .. Len(parts) /\ n - 1 \notin Undone
  BY <1>1, <1>2
<1>4. PICK reached : Steps(parts, n - 1, reached)
  BY <1>3
<1> DEFINE more == [k \in 0 .. n |-> IF k < n THEN reached[k] ELSE Enter(reached[n - 1], parts[n])]
<1>5. \A k \in 0 .. n : more[k] = IF k > 0 THEN Enter(more[k - 1], parts[k]) ELSE Cwd
  <2> TAKE k \in 0 .. n
  <2>1. CASE k = n
    BY <1>2, <1>3, <2>1
  <2>2. CASE k # n
    <3>1. k \in 0 .. n - 1 /\ more[k] = reached[k] /\ (k > 0 => more[k - 1] = reached[k - 1])
      BY <1>3, <2>2
    <3>2. reached[k] = IF k > 0 THEN Enter(reached[k - 1], parts[k]) ELSE Cwd
      BY <1>4, <3>1 DEF Steps
    <3> QED BY <3>1, <3>2
  <2> QED BY <2>1, <2>2
<1>6. more = [k \in 0 .. n |-> more[k]]
  OBVIOUS
<1> HIDE DEF more
<1>7. Steps(parts, n, more)
  BY <1>5, <1>6 DEF Steps
<1> QED BY <1>1, <1>7

LEMMA NormalizeBySteps ==
  ASSUME NEW word \in Word, ~word.absolute
  PROVE  \E reached : Steps(word.parts, Len(word.parts), reached)
                      /\ NormalizePath(Cwd, word) = reached[Len(word.parts)]
<1> DEFINE made == CHOOSE reached : Steps(word.parts, Len(word.parts), reached)
<1>1. word.parts \in Seq(STRING) /\ Len(word.parts) \in 0 .. Len(word.parts)
  BY WordAssumption
<1>2. Steps(word.parts, Len(word.parts), made)
  BY <1>1, StepsExist
<1>3. NormalizePath(Cwd, word) = made[Len(word.parts)]
  BY DEF NormalizePath, Steps
<1> QED BY <1>2, <1>3

\* A component leads nowhere, one directory up or one down.
LEMMA DepthSteps ==
  ASSUME NEW parts \in Seq(STRING), NEW k \in 1 .. Len(parts)
  PROVE  /\ Depth(parts, k) \in Int /\ Depth(parts, k - 1) \in Int
         /\ parts[k] = "." => Depth(parts, k) = Depth(parts, k - 1)
         /\ parts[k] = ".." => Depth(parts, k) = Depth(parts, k - 1) - 1
         /\ parts[k] \notin {".", ".."} => Depth(parts, k) = Depth(parts, k - 1) + 1
<1> DEFINE Down(n) == {j \in 1 .. n : parts[j] \notin {".", ".."}}
           Up(n) == {j \in 1 .. n : parts[j] = ".."}
<1>1. IsFiniteSet(1 .. k - 1) /\ Len(Cwd.parts) \in Nat /\ Len(Root.parts) \in Nat
  BY FS_Interval, DirectoryAssumption DEF Path
<1>2. Down(k - 1) \subseteq 1 .. k - 1 /\ Up(k - 1) \subseteq 1 .. k - 1
  OBVIOUS
<1>3. IsFiniteSet(Down(k - 1)) /\ IsFiniteSet(Up(k - 1)) /\ k \notin Down(k - 1) /\ k \notin Up(k - 1)
  <2>1. k \notin 1 .. k - 1
    OBVIOUS
  <2> HIDE DEF Down, Up
  <2> QED BY <1>1, <1>2, <2>1, FS_Subset
<1>4. /\ Down(k) = Down(k - 1) \union (IF parts[k] \notin {".", ".."} THEN {k} ELSE {})
      /\ Up(k) = Up(k - 1) \union (IF parts[k] = ".." THEN {k} ELSE {})
  <2>1. 1 .. k = (1 .. k - 1) \union {k}
    OBVIOUS
  <2> QED BY <2>1
<1>5. /\ Depth(parts, k) = Len(Cwd.parts) - Len(Root.parts) + Cardinality(Down(k)) - Cardinality(Up(k))
      /\ Depth(parts, k - 1) = Len(Cwd.parts) - Len(Root.parts) + Cardinality(Down(k - 1)) - Cardinality(Up(k - 1))
  BY DEF Depth
<1> HIDE DEF Down, Up
<1>6. Cardinality(Down(k - 1)) \in Nat /\ Cardinality(Up(k - 1)) \in Nat
  BY <1>3, FS_CardinalityType
<1>7. Cardinality(Down(k)) = Cardinality(Down(k - 1)) + (IF parts[k] \notin {".", ".."} THEN 1 ELSE 0)
  <2>1. Cardinality(Down(k - 1) \union {k}) = Cardinality(Down(k - 1)) + 1
    BY <1>3, FS_AddElement
  <2>2. CASE parts[k] \notin {".", ".."}
    <3>1. Down(k) = Down(k - 1) \union {k}
      BY <1>4, <2>2
    <3> QED BY <2>1, <2>2, <3>1
  <2>3. CASE parts[k] \in {".", ".."}
    <3>1. Down(k) = Down(k - 1)
      BY <1>4, <2>3
    <3> QED BY <1>6, <2>3, <3>1
  <2> QED BY <2>2, <2>3
<1>8. Cardinality(Up(k)) = Cardinality(Up(k - 1)) + (IF parts[k] = ".." THEN 1 ELSE 0)
  <2>1. Cardinality(Up(k - 1) \union {k}) = Cardinality(Up(k - 1)) + 1
    BY <1>3, FS_AddElement
  <2>2. CASE parts[k] = ".."
    <3>1. Up(k) = Up(k - 1) \union {k}
      BY <1>4, <2>2
    <3> QED BY <2>1, <2>2, <3>1
  <2>3. CASE parts[k] # ".."
    <3>1. Up(k) = Up(k - 1)
      BY <1>4, <2>3
    <3> QED BY <1>6, <2>3, <3>1
  <2> QED BY <2>2, <2>3
<1>9. PICK down \in Nat, up \in Nat : down = Cardinality(Down(k - 1)) /\ up = Cardinality(Up(k - 1))
  BY <1>6
<1>10. PICK cwd \in Nat, root \in Nat : cwd = Len(Cwd.parts) /\ root = Len(Root.parts)
  BY <1>1
<1>11. /\ Depth(parts, k - 1) = cwd - root + down - up
       /\ Depth(parts, k) = cwd - root + (down + (IF parts[k] \notin {".", ".."} THEN 1 ELSE 0))
                                 - (up + (IF parts[k] = ".." THEN 1 ELSE 0))
  BY <1>5, <1>7, <1>8, <1>9, <1>10
<1> QED BY <1>11

LEMMA DepthAtStart ==
  ASSUME NEW parts \in Seq(STRING)
  PROVE  \E start \in Nat : Depth(parts, 0) = start /\ Len(Cwd.parts) = Len(Root.parts) + start
<1>1. PICK cwd \in Nat, root \in Nat : cwd = Len(Cwd.parts) /\ root = Len(Root.parts) /\ root <= cwd
  BY DirectoryAssumption DEF Path, IsPrefix
<1>2. 1 .. 0 = {}
  OBVIOUS
<1>3. Depth(parts, 0) = Len(Cwd.parts) - Len(Root.parts) + Cardinality({}) - Cardinality({})
  <2>1. {j \in 1 .. 0 : parts[j] \notin {".", ".."}} = {} /\ {j \in 1 .. 0 : parts[j] = ".."} = {}
    BY <1>2
  <2> QED BY <2>1 DEF Depth
<1>4. Depth(parts, 0) = cwd - root + 0 - 0
  BY <1>1, <1>3, FS_EmptySet
<1>5. PICK start \in Nat : start = cwd - root
  <2>1. cwd - root \in Nat
    BY <1>1
  <2> QED BY <2>1
<1>6. cwd - root + 0 - 0 = start /\ cwd = root + start
  BY <1>1, <1>5
<1>7. Depth(parts, 0) = start
  BY <1>4, <1>6
<1>8. Len(Cwd.parts) = Len(Root.parts) + start
  BY <1>1, <1>6
<1> HIDE DEF Depth
<1> QED BY <1>7, <1>8

-----------------------------------------------------------------------------
(* Where a path has led so far *)

Anchored(path) == path \in Path /\ path.absolute
\* Below the root at its depth; or above the root, or beside it.
Below(path, depth) ==
  /\ Len(path.parts) = Len(Root.parts) + depth
  /\ \A p \in 1 .. Len(Root.parts) : path.parts[p] = Root.parts[p]
Beside(path) ==
  LET root == Len(Root.parts) IN Len(path.parts) < root \/ path.parts[root] \notin ToSet(Root.parts)

LEMMA EnterParts ==
  ASSUME NEW path, Anchored(path), NEW part \in STRING
  PROVE  LET next == Enter(path, part) n == Len(path.parts) IN
         /\ Anchored(next) /\ n \in Nat /\ path.parts \in Seq(STRING)
         /\ part = "." => next = path
         /\ part = ".." /\ n = 0 => next = path
         /\ part = ".." /\ n > 0 =>
              Len(next.parts) = n - 1 /\ \A p \in 1 .. n - 1 : next.parts[p] = path.parts[p]
         /\ part \notin {".", ".."} =>
              /\ Len(next.parts) = n + 1 /\ next.parts[n + 1] = part
              /\ \A p \in 1 .. n : next.parts[p] = path.parts[p]
<1> DEFINE parts == path.parts
<1>1. /\ parts \in Seq(STRING) /\ Len(parts) \in Nat /\ path.absolute = TRUE
      /\ parts = <<>> <=> Len(parts) = 0
  BY DEF Anchored, Path
<1>2. ASSUME NEW ps \in Seq(STRING)
      PROVE  Led(path, ps) \in Path /\ Led(path, ps).absolute /\ Led(path, ps).parts = ps
  BY <1>1, <1>2 DEF Led, Path
<1>3. /\ part = "." => Enter(path, part) = path
      /\ part = ".." /\ Len(parts) = 0 => Enter(path, part) = path
      /\ part = ".." /\ Len(parts) > 0 => Enter(path, part) = Led(path, Front(parts))
      /\ part \notin {".", ".."} => Enter(path, part) = Led(path, Append(parts, part))
  BY <1>1 DEF Enter
<1> HIDE DEF parts
<1>4. ASSUME Len(parts) > 0
      PROVE  /\ Front(parts) \in Seq(STRING) /\ Len(Front(parts)) = Len(parts) - 1
             /\ \A p \in 1 .. Len(parts) - 1 : Front(parts)[p] = parts[p]
  <2>1. PICK m \in Nat : m = Len(parts) - 1 /\ m \in 0 .. Len(parts)
    <3>1. PICK n \in Nat : n = Len(parts) /\ n > 0
      BY <1>1, <1>4
    <3>2. n - 1 \in Nat /\ n - 1 \in 0 .. n
      BY <3>1
    <3> QED BY <3>1, <3>2
  <2>2. /\ SubSeq(parts, 1, m) \in Seq(STRING)
        /\ Len(SubSeq(parts, 1, m)) = m
        /\ \A p \in 1 .. m : SubSeq(parts, 1, m)[p] = parts[p]
    <3>1. 1 \in 1 .. Len(parts) + 1 /\ m \in 1 - 1 .. Len(parts)
      BY <1>1, <1>4, <2>1
    <3>2. \A i \in 1 .. m : parts[i] \in STRING
      BY <1>1, <2>1
    <3>3. SubSeq(parts, 1, m) = [p \in 1 .. m |-> parts[p]]
      BY <1>1, <2>1
    <3>4. [p \in 1 .. m |-> parts[p]] \in Seq(STRING) /\ Len([p \in 1 .. m |-> parts[p]]) = m
      BY <2>1, <3>2
    <3> QED BY <3>3, <3>4
  <2>3. Front(parts) = SubSeq(parts, 1, m)
    BY <2>1 DEF Front
  <2> QED BY <2>1, <2>2, <2>3
<1>5. /\ Append(parts, part) \in Seq(STRING) /\ Len(Append(parts, part)) = Len(parts) + 1
      /\ Append(parts, part)[Len(parts) + 1] = part
      /\ \A p \in 1 .. Len(parts) : Append(parts, part)[p] = parts[p]
  BY <1>1
<1>6. CASE part = "."
  BY <1>1, <1>3, <1>6 DEF parts
<1>7. CASE part = ".." /\ Len(parts) = 0
  BY <1>1, <1>3, <1>7 DEF parts
<1>8. CASE part = ".." /\ Len(parts) > 0
  BY <1>1, <1>2, <1>3, <1>4, <1>8 DEF parts, Anchored
<1>9. CASE part \notin {".", ".."}
  <2>1. Enter(path, part) = Led(path, Append(parts, part)) /\ part # "." /\ part # ".."
    BY <1>3, <1>9
  <2> DEFINE added == Append(parts, part)
  <2>2. Led(path, added).parts = added /\ Anchored(Led(path, added))
    BY <1>2, <1>5 DEF Anchored
  <2> HIDE DEF added
  <2> QED BY <1>1, <1>5, <2>1, <2>2 DEF parts, added
<1> QED BY <1>1, <1>6, <1>7, <1>8, <1>9

LEMMA RootType == Root.parts \in Seq(STRING) /\ Len(Root.parts) \in Nat /\ Len(Root.parts) > 0
<1>1. Root.parts \in Seq(STRING) /\ Root.parts # <<>>
  BY DirectoryAssumption DEF Path
<1> QED BY <1>1

\* A path below the root stays there as long as its depth is not negative.
LEMMA StaysBelow ==
  ASSUME NEW parts \in Seq(STRING), NEW k \in 1 .. Len(parts), NEW path, Anchored(path),
         Depth(parts, k - 1) >= 0, Below(path, Depth(parts, k - 1)), Depth(parts, k) >= 0
  PROVE  Below(Enter(path, parts[k]), Depth(parts, k))
<1> DEFINE next == Enter(path, parts[k])
<1>1. parts[k] \in STRING
  OBVIOUS
<1>2. PICK root \in Nat, n \in Nat, was \in Int, is \in Int :
        /\ root = Len(Root.parts) /\ n = Len(path.parts) /\ was = Depth(parts, k - 1) /\ is = Depth(parts, k)
  BY <1>1, RootType, EnterParts, DepthSteps
<1>3. n = root + was /\ was >= 0 /\ is >= 0 /\ root > 0 /\ \A p \in 1 .. root : path.parts[p] = Root.parts[p]
  BY <1>2, RootType DEF Below
<1> HIDE DEF next
<1>4. CASE parts[k] = "."
  <2>1. next = path /\ is = was
    BY <1>1, <1>2, <1>4, EnterParts, DepthSteps DEF next
  <2> QED BY <1>2, <2>1 DEF next
<1>5. CASE parts[k] = ".."
  <2>1. is = was - 1
    BY <1>2, <1>5, DepthSteps
  <2>2. n > 0 /\ n - 1 = root + is /\ root <= n - 1
    BY <1>3, <2>1
  <2>3. Len(next.parts) = n - 1 /\ \A p \in 1 .. n - 1 : next.parts[p] = path.parts[p]
    BY <1>1, <1>2, <1>5, <2>2, EnterParts DEF next
  <2>4. \A p \in 1 .. root : p \in 1 .. n - 1
    BY <2>2
  <2> QED BY <1>2, <1>3, <2>2, <2>3, <2>4 DEF Below, next
<1>6. CASE parts[k] \notin {".", ".."}
  <2>1. is = was + 1
    BY <1>2, <1>6, DepthSteps
  <2>2. n + 1 = root + is
    BY <1>3, <2>1
  <2>3. Len(next.parts) = n + 1 /\ \A p \in 1 .. n : next.parts[p] = path.parts[p]
    BY <1>1, <1>2, <1>6, EnterParts DEF next
  <2>4. \A p \in 1 .. root : p \in 1 .. n
    BY <1>3
  <2> QED BY <1>2, <1>3, <2>2, <2>3, <2>4 DEF Below, next
<1> QED BY <1>4, <1>5, <1>6

\* A path that climbs from the root is beside it.
LEMMA ClimbsBeside ==
  ASSUME NEW parts \in Seq(STRING), NEW k \in 1 .. Len(parts), NEW path, Anchored(path),
         Depth(parts, k - 1) >= 0, Below(path, Depth(parts, k - 1)), Depth(parts, k) < 0
  PROVE  Beside(Enter(path, parts[k]))
<1> DEFINE next == Enter(path, parts[k])
<1>1. parts[k] \in STRING
  OBVIOUS
<1>2. PICK root \in Nat, n \in Nat, was \in Int, is \in Int :
        /\ root = Len(Root.parts) /\ n = Len(path.parts) /\ was = Depth(parts, k - 1) /\ is = Depth(parts, k)
  BY <1>1, RootType, EnterParts, DepthSteps
<1>3. n = root + was /\ was >= 0 /\ is < 0 /\ root > 0
  BY <1>2, RootType DEF Below
<1>4. /\ parts[k] = "." => is = was
      /\ parts[k] = ".." => is = was - 1
      /\ parts[k] \notin {".", ".."} => is = was + 1
  BY <1>2, DepthSteps
<1>5. parts[k] = ".." /\ is = was - 1
  BY <1>3, <1>4
<1>6. was = 0 /\ n = root /\ n > 0 /\ n - 1 < root
  BY <1>3, <1>5
<1> HIDE DEF next
<1>7. Len(next.parts) = n - 1
  BY <1>1, <1>2, <1>5, <1>6, EnterParts DEF next
<1>8. Len(next.parts) < root
  BY <1>6, <1>7
<1> QED BY <1>2, <1>8 DEF Beside, next

\* Once beside the root a path stays there until it names the root again.
LEMMA StaysBeside ==
  ASSUME NEW part \in STRING, part \notin ToSet(Root.parts), NEW path, Anchored(path), Beside(path)
  PROVE  Beside(Enter(path, part))
<1> DEFINE next == Enter(path, part)
<1>1. PICK root \in Nat, n \in Nat : root = Len(Root.parts) /\ n = Len(path.parts) /\ root > 0
  BY RootType, EnterParts
<1>2. n < root \/ path.parts[root] \notin ToSet(Root.parts)
  BY <1>1 DEF Beside
<1> HIDE DEF next
<1>3. CASE part = "." \/ (part = ".." /\ n = 0)
  <2>1. next = path
    BY <1>1, <1>3, EnterParts DEF next
  <2> QED BY <2>1 DEF next
<1>4. CASE part = ".." /\ n > 0
  <2>1. Len(next.parts) = n - 1 /\ \A p \in 1 .. n - 1 : next.parts[p] = path.parts[p]
    BY <1>1, <1>4, EnterParts DEF next
  <2>2. CASE n - 1 < root
    BY <1>1, <2>1, <2>2 DEF Beside, next
  <2>3. CASE root <= n - 1
    <3>1. ~(n < root) /\ root \in 1 .. n - 1
      BY <1>1, <2>3
    <3>2. next.parts[root] \notin ToSet(Root.parts)
      BY <1>2, <2>1, <3>1
    <3> QED BY <1>1, <3>2 DEF Beside, next
  <2> QED BY <2>2, <2>3
<1>5. CASE part \notin {".", ".."}
  <2>1. Len(next.parts) = n + 1 /\ next.parts[n + 1] = part /\ \A p \in 1 .. n : next.parts[p] = path.parts[p]
    BY <1>1, <1>5, EnterParts DEF next
  <2>2. CASE n + 1 < root
    BY <1>1, <2>1, <2>2 DEF Beside, next
  <2>3. CASE n + 1 = root
    BY <1>1, <2>1, <2>3 DEF Beside, next
  <2>4. CASE root <= n
    <3>1. ~(n < root) /\ root \in 1 .. n
      BY <1>1, <2>4
    <3>2. next.parts[root] \notin ToSet(Root.parts)
      BY <1>2, <2>1, <3>1
    <3> QED BY <1>1, <3>2 DEF Beside, next
  <2> QED BY <2>2, <2>3, <2>4
<1> QED BY <1>3, <1>4, <1>5

-----------------------------------------------------------------------------
(* Along a path *)

Climbs(parts, k) == \E j \in 0 .. k : Depth(parts, j) < 0
Followed(parts, reached, k) ==
  /\ Anchored(reached[k])
  /\ ~Climbs(parts, k) => Below(reached[k], Depth(parts, k))
  /\ Climbs(parts, k) /\ ToSet(parts) \intersect ToSet(Root.parts) = {} => Beside(reached[k])

LEMMA StartsBelow ==
  ASSUME NEW parts \in Seq(STRING)
  PROVE  Anchored(Cwd) /\ Below(Cwd, Depth(parts, 0)) /\ ~Climbs(parts, 0)
<1>1. Anchored(Cwd)
  BY DirectoryAssumption DEF Anchored
<1>2. /\ Root.parts \in Seq(STRING) /\ Cwd.parts \in Seq(STRING)
      /\ Len(Root.parts) <= Len(Cwd.parts)
      /\ SubSeq(Root.parts, 1, Len(Root.parts)) = SubSeq(Cwd.parts, 1, Len(Root.parts))
  BY DirectoryAssumption DEF Path, IsPrefix
<1>3. \A p \in 1 .. Len(Root.parts) : Cwd.parts[p] = Root.parts[p]
  <2> TAKE p \in 1 .. Len(Root.parts)
  <2>1. SubSeq(Root.parts, 1, Len(Root.parts))[p] = Root.parts[p]
    BY <1>2
  <2>2. SubSeq(Cwd.parts, 1, Len(Root.parts))[p] = Cwd.parts[p]
    BY <1>2
  <2> QED BY <1>2, <2>1, <2>2
<1>4. PICK start \in Nat : Depth(parts, 0) = start /\ Len(Cwd.parts) = Len(Root.parts) + start
  BY DepthAtStart
<1>5. ~Climbs(parts, 0)
  <2>1. \A j \in 0 .. 0 : j = 0
    OBVIOUS
  <2>2. ~(start < 0)
    OBVIOUS
  <2> QED BY <1>4, <2>1, <2>2 DEF Climbs
<1> QED BY <1>1, <1>3, <1>4, <1>5 DEF Below

LEMMA FollowedOneMore ==
  ASSUME NEW parts \in Seq(STRING), NEW reached, Steps(parts, Len(parts), reached),
         NEW k \in 1 .. Len(parts), Followed(parts, reached, k - 1)
  PROVE  Followed(parts, reached, k)
<1>1. reached[k] = Enter(reached[k - 1], parts[k])
  BY DEF Steps
<1>2. parts[k] \in STRING /\ parts[k] \in ToSet(parts)
  <2>1. k \in DOMAIN parts
    OBVIOUS
  <2> QED BY <2>1 DEF ToSet
<1>3. Anchored(reached[k - 1]) /\ Anchored(reached[k])
  BY <1>1, <1>2, EnterParts DEF Followed
<1>4. Climbs(parts, k) <=> Climbs(parts, k - 1) \/ Depth(parts, k) < 0
  <2>1. 0 .. k = (0 .. k - 1) \union {k}
    OBVIOUS
  <2> QED BY <2>1 DEF Climbs
<1>5. ~Climbs(parts, k - 1) => Depth(parts, k - 1) >= 0
  <2>1. k - 1 \in 0 .. k - 1 /\ Depth(parts, k - 1) \in Int
    BY DepthSteps
  <2>2. ~Climbs(parts, k - 1) => ~(Depth(parts, k - 1) < 0)
    BY <2>1 DEF Climbs
  <2> HIDE DEF Climbs
  <2>3. PICK depth \in Int : depth = Depth(parts, k - 1)
    BY <2>1
  <2> QED BY <2>2, <2>3
<1>6. Depth(parts, k) >= 0 \/ Depth(parts, k) < 0
  <2>1. PICK depth \in Int : depth = Depth(parts, k)
    BY DepthSteps
  <2> QED BY <2>1
<1>7. CASE ~Climbs(parts, k)
  <2>1. ~Climbs(parts, k - 1) /\ Depth(parts, k) >= 0
    BY <1>4, <1>6, <1>7
  <2>2. Below(reached[k], Depth(parts, k))
    BY <1>1, <1>3, <1>5, <2>1, StaysBelow DEF Followed
  <2> QED BY <1>3, <1>7, <2>2 DEF Followed
<1>8. CASE Climbs(parts, k - 1)
  <2>1. ASSUME ToSet(parts) \intersect ToSet(Root.parts) = {}
        PROVE  Beside(reached[k])
    <3>1. parts[k] \notin ToSet(Root.parts) /\ Beside(reached[k - 1])
      BY <1>2, <1>8, <2>1 DEF Followed
    <3> QED BY <1>1, <1>2, <1>3, <3>1, StaysBeside
  <2>2. Climbs(parts, k)
    BY <1>4, <1>8
  <2> QED BY <1>3, <2>1, <2>2 DEF Followed
<1>9. CASE ~Climbs(parts, k - 1) /\ Depth(parts, k) < 0
  <2>1. Beside(reached[k])
    BY <1>1, <1>3, <1>5, <1>9, ClimbsBeside DEF Followed
  <2>2. Climbs(parts, k)
    BY <1>4, <1>9
  <2> QED BY <1>3, <2>1, <2>2 DEF Followed
<1> QED BY <1>4, <1>7, <1>8, <1>9

LEMMA FollowedToTheEnd ==
  ASSUME NEW parts \in Seq(STRING), NEW reached, Steps(parts, Len(parts), reached)
  PROVE  Followed(parts, reached, Len(parts))
<1> DEFINE Unfollowed == {k \in 0 .. Len(parts) : ~Followed(parts, reached, k)}
<1>1. Unfollowed = {}
  <2> SUFFICES ASSUME Unfollowed # {} PROVE FALSE
    OBVIOUS
  <2>1. PICK k \in Unfollowed : \A h \in Unfollowed : k <= h
    <3>1. Unfollowed \subseteq Nat
      OBVIOUS
    <3> HIDE DEF Unfollowed
    <3> QED BY <3>1, FirstPlace
  <2>2. k \in 0 .. Len(parts) /\ ~Followed(parts, reached, k)
    BY <2>1
  <2>3. k # 0
    <3>1. reached[0] = Cwd
      BY DEF Steps
    <3>2. Followed(parts, reached, 0)
      BY <3>1, StartsBelow DEF Followed
    <3> QED BY <2>2, <3>2
  <2>4. k \in 1 .. Len(parts) /\ k - 1 \in 0 .. Len(parts) /\ ~(k <= k - 1)
    BY <2>2, <2>3
  <2>5. Followed(parts, reached, k - 1)
    BY <2>1, <2>4
  <2> HIDE DEF Unfollowed
  <2> QED BY <2>2, <2>4, <2>5, FollowedOneMore
<1>2. Len(parts) \in 0 .. Len(parts)
  OBVIOUS
<1> QED BY <1>1, <1>2

-----------------------------------------------------------------------------
(* In the workspace or outside it *)

LEMMA BelowIsInside ==
  ASSUME NEW path, Anchored(path), NEW depth \in Int, depth >= 0, Below(path, depth)
  PROVE  ~Escapes(Root, path)
<1>1. path.parts \in Seq(STRING) /\ Root.parts \in Seq(STRING) /\ path.absolute = Root.absolute
  BY DirectoryAssumption DEF Anchored, Path
<1>2. PICK root \in Nat, n \in Nat : root = Len(Root.parts) /\ n = Len(path.parts)
  BY <1>1
<1>3. root <= n /\ \A p \in 1 .. root : path.parts[p] = Root.parts[p]
  BY <1>2 DEF Below
<1>4. SubSeq(Root.parts, 1, root) = [p \in 1 .. root |-> Root.parts[p]]
  BY <1>1, <1>2
<1>5. SubSeq(path.parts, 1, root) = [p \in 1 .. root |-> path.parts[p]]
  BY <1>1, <1>2, <1>3
<1>6. SubSeq(Root.parts, 1, root) = SubSeq(path.parts, 1, root)
  BY <1>3, <1>4, <1>5
<1>7. IsPrefix(Root.parts, path.parts)
  BY <1>2, <1>3, <1>6 DEF IsPrefix
<1> QED BY <1>1, <1>7 DEF Escapes

LEMMA BesideIsOutside ==
  ASSUME NEW path, Anchored(path), Beside(path)
  PROVE  Escapes(Root, path)
<1> SUFFICES ASSUME IsPrefix(Root.parts, path.parts) PROVE FALSE
  BY DEF Escapes
<1>1. path.parts \in Seq(STRING) /\ Root.parts \in Seq(STRING)
  BY DirectoryAssumption DEF Anchored, Path
<1>2. PICK root \in Nat, n \in Nat : root = Len(Root.parts) /\ n = Len(path.parts) /\ root > 0
  BY <1>1, RootType
<1>3. root <= n /\ SubSeq(Root.parts, 1, root) = SubSeq(path.parts, 1, root)
  BY <1>2 DEF IsPrefix
<1>4. root \in 1 .. root /\ root \in 1 .. n
  BY <1>2, <1>3
<1>5. SubSeq(Root.parts, 1, root)[root] = Root.parts[root] /\ SubSeq(path.parts, 1, root)[root] = path.parts[root]
  BY <1>1, <1>2, <1>3, <1>4
<1>6. path.parts[root] \in ToSet(Root.parts)
  <2>1. root \in DOMAIN Root.parts
    BY <1>1, <1>2, <1>4
  <2> QED BY <1>3, <1>5, <2>1 DEF ToSet
<1> QED BY <1>2, <1>3, <1>6 DEF Beside

-----------------------------------------------------------------------------
(* The theorem of the paths *)

\* The words a command is written with are words.
Typed == argv \in Seq(Word)

\* A path leaves the workspace if and only if it leads there (EscapesByClimbing), for
\* every word, any depth of directory and any number of components: what the contract
\* takes for a path outside the workspace is one.
THEOREM PathsEscapeByClimbing == CommandSpec => []EscapesByClimbing
<1>1. argv = <<>> => Typed
  BY DEF Typed
<1>2. Typed /\ [\E word \in Word : Write(word)]_argv => Typed'
  BY DEF Typed, Write
<1>3. Typed => EscapesByClimbing
  <2> SUFFICES ASSUME Typed, NEW i \in DOMAIN argv, ~Flag(argv[i]), ~argv[i].absolute
               PROVE  LET parts == argv[i].parts
                          outside == Escapes(Root, NormalizePath(Cwd, argv[i]))
                      IN  /\ (\A k \in DOMAIN parts : Depth(parts, k) >= 0) => ~outside
                          /\ (\E k \in DOMAIN parts : Depth(parts, k) < 0)
                               /\ ToSet(parts) \intersect ToSet(Root.parts) = {} => outside
    BY DEF EscapesByClimbing
  <2>1. PICK word \in Word : word = argv[i]
    BY DEF Typed
  <2>2. PICK parts \in Seq(STRING), n \in Nat : parts = argv[i].parts /\ n = Len(parts) /\ DOMAIN parts = 1 .. n
    BY <2>1, WordAssumption
  <2>3. PICK reached : Steps(parts, n, reached) /\ NormalizePath(Cwd, argv[i]) = reached[n]
    BY <2>1, <2>2, NormalizeBySteps
  <2>4. Followed(parts, reached, n)
    BY <2>2, <2>3, FollowedToTheEnd
  <2>5. PICK start \in Nat : Depth(parts, 0) = start
    BY DepthAtStart
  <2>6. 0 .. n = {0} \union 1 .. n
    BY <2>2
  <2>7. ASSUME \A k \in 1 .. n : Depth(parts, k) >= 0
        PROVE  ~Escapes(Root, reached[n])
    <3>1. \A k \in 0 .. n : Depth(parts, k) \in Int
      <4>1. \A k \in 1 .. n : Depth(parts, k) \in Int
        BY <2>2, DepthSteps
      <4> QED BY <2>5, <2>6, <4>1
    <3>2. \A k \in 0 .. n : Depth(parts, k) >= 0
      BY <2>5, <2>6, <2>7
    <3>3. ~Climbs(parts, n)
      <4>1. ASSUME NEW k \in 0 .. n, Depth(parts, k) < 0 PROVE FALSE
        <5>1. PICK depth \in Int : depth = Depth(parts, k)
          BY <3>1
        <5>2. depth >= 0 /\ depth < 0
          BY <3>2, <4>1, <5>1
        <5> QED BY <5>1, <5>2
      <4> QED BY <4>1 DEF Climbs
    <3>4. n \in 0 .. n
      BY <2>2
    <3> QED BY <2>4, <3>1, <3>2, <3>3, <3>4, BelowIsInside DEF Followed
  <2>8. ASSUME \E k \in 1 .. n : Depth(parts, k) < 0, ToSet(parts) \intersect ToSet(Root.parts) = {}
        PROVE  Escapes(Root, reached[n])
    <3>1. Climbs(parts, n)
      BY <2>6, <2>8 DEF Climbs
    <3> QED BY <2>4, <2>8, <3>1, BesideIsOutside DEF Followed
  <2> QED BY <2>2, <2>3, <2>7, <2>8
<1> QED BY <1>1, <1>2, <1>3, PTL DEF CommandSpec

-----------------------------------------------------------------------------
(* Where the flags stand *)

\* The positional arguments, word after word.
TakenAlong(words, from, taken) ==
  /\ taken = [k \in DOMAIN taken |-> taken[k]] /\ DOMAIN taken = from .. Len(words)
  /\ \A k \in from .. Len(words) :
       taken[k] = IF k = from THEN <<>>
                  ELSE IF Flag(words[k]) THEN taken[k - 1] ELSE Append(taken[k - 1], words[k])

LEMMA TakenExists ==
  ASSUME NEW words, Len(words) \in Nat, NEW from \in Nat, from <= Len(words)
  PROVE  \E taken : TakenAlong(words, from, taken)
<1> DEFINE n == Len(words) - from
           Rule(taken, m) ==
             taken = [k \in from .. from + m |->
                        IF k = from THEN <<>>
                        ELSE IF Flag(words[k]) THEN taken[k - 1] ELSE Append(taken[k - 1], words[k])]
           Done == {m \in 0 .. n : \E taken : Rule(taken, m)}
<1>0. n \in Nat /\ from + n = Len(words)
  OBVIOUS
<1>1. 0 \in Done
  <2>1. Rule([k \in from .. from + 0 |-> <<>>], 0)
    OBVIOUS
  <2>2. \E taken : Rule(taken, 0)
    BY <2>1
  <2> HIDE DEF Rule
  <2> QED BY <1>0, <2>2
<1>2. ASSUME NEW m \in 1 .. n, m - 1 \in Done PROVE m \in Done
  <2>1. PICK taken : Rule(taken, m - 1)
    BY <1>2
  <2>9. \A k \in from .. from + (m - 1) :
          taken[k] = IF k = from THEN <<>>
                     ELSE IF Flag(words[k]) THEN taken[k - 1] ELSE Append(taken[k - 1], words[k])
    BY <2>1
  <2> DEFINE at == from + m
             more == [k \in from .. from + m |->
                        IF k # at THEN taken[k]
                        ELSE IF Flag(words[k]) THEN taken[k - 1] ELSE Append(taken[k - 1], words[k])]
  <2>2. \A k \in from .. from + m :
          more[k] = IF k = from THEN <<>>
                    ELSE IF Flag(words[k]) THEN more[k - 1] ELSE Append(more[k - 1], words[k])
    <3> TAKE k \in from .. from + m
    <3>1. CASE k = at
      <4>1. k # from /\ k - 1 \in from .. from + m /\ k - 1 # at
        BY <1>0, <3>1
      <4>2. more[k - 1] = taken[k - 1]
        BY <4>1
      <4> QED BY <3>1, <4>1, <4>2
    <3>2. CASE k # at
      <4>1. k \in from .. from + (m - 1) /\ more[k] = taken[k]
        BY <1>0, <3>2
      <4>2. k # from => k - 1 \in from .. from + m /\ k - 1 # at
        BY <1>0, <4>1
      <4>3. k # from => more[k - 1] = taken[k - 1]
        BY <4>2
      <4> QED BY <2>9, <4>1, <4>3, Zenon
    <3> QED BY <3>1, <3>2
  <2>3. more = [k \in from .. from + m |-> more[k]]
    OBVIOUS
  <2> HIDE DEF more
  <2>4. Rule(more, m)
    BY <2>2, <2>3
  <2> QED BY <2>4
<1>3. Done \subseteq 0 .. n
  OBVIOUS
<1> HIDE DEF Done
<1>4. Done = 0 .. n
  BY <1>0, <1>1, <1>2, <1>3, Inductively
<1>5. n \in Done
  BY <1>0, <1>4
<1>6. PICK taken : Rule(taken, n)
  BY <1>5 DEF Done
<1> HIDE DEF n
<1>7. TakenAlong(words, from, taken)
  <2>1. DOMAIN taken = from .. Len(words)
    BY <1>0, <1>6
  <2>2. taken = [k \in DOMAIN taken |-> taken[k]]
    BY <1>6
  <2>3. \A k \in from .. Len(words) :
          taken[k] = IF k = from THEN <<>>
                     ELSE IF Flag(words[k]) THEN taken[k - 1] ELSE Append(taken[k - 1], words[k])
    BY <1>0, <1>6
  <2> QED BY <2>1, <2>2, <2>3 DEF TakenAlong
<1> QED BY <1>7

LEMMA ArgumentsAlong ==
  ASSUME NEW entry, NEW words, Len(words) \in Nat, Leading(entry) <= Len(words)
  PROVE  \E taken : TakenAlong(words, Leading(entry), taken) /\ PositionalArgs(entry, words) = taken[Len(words)]
<1> DEFINE from == Leading(entry)
           Rule(taken) ==
             taken = [k \in from .. Len(words) |->
                        IF k = from THEN <<>>
                        ELSE IF Flag(words[k]) THEN taken[k - 1] ELSE Append(taken[k - 1], words[k])]
           chosen == CHOOSE taken : Rule(taken)
<1>1. from \in Nat
  BY DEF Leading
<1>2. PICK taken : TakenAlong(words, from, taken)
  BY <1>1, TakenExists
<1>3. Rule(taken)
  BY <1>2 DEF TakenAlong
<1>4. Rule(chosen)
  BY <1>3
<1>5. PositionalArgs(entry, words) = chosen[Len(words)]
  BY DEF PositionalArgs
<1> HIDE DEF chosen
<1>6. TakenAlong(words, from, chosen)
  <2>1. DOMAIN chosen = from .. Len(words) /\ chosen = [k \in DOMAIN chosen |-> chosen[k]]
    BY <1>4
  <2>2. \A k \in from .. Len(words) :
          chosen[k] = IF k = from THEN <<>>
                     ELSE IF Flag(words[k]) THEN chosen[k - 1] ELSE Append(chosen[k - 1], words[k])
    BY <1>4
  <2> QED BY <2>1, <2>2 DEF TakenAlong
<1> QED BY <1>5, <1>6

\* Flags put between the words of a command.
Amid(words, more, at, extra) ==
  /\ Len(words) \in Nat /\ extra \in Nat /\ Len(more) = Len(words) + extra /\ at \in 1 .. Len(words)
  /\ \A k \in 1 .. at : more[k] = words[k]
  /\ \A k \in at + 1 .. at + extra : Flag(more[k])
  /\ \A k \in at + 1 .. Len(words) : more[k + extra] = words[k]

LEMMA SameArguments ==
  ASSUME NEW entry, NEW words, NEW more, NEW at, NEW extra,
         Amid(words, more, at, extra), Leading(entry) <= at
  PROVE  PositionalArgs(entry, more) = PositionalArgs(entry, words)
<1>1. PICK from \in Nat : from = Leading(entry)
  BY DEF Leading
<1>2. /\ Len(words) \in Nat /\ extra \in Nat /\ Len(more) = Len(words) + extra /\ at \in 1 .. Len(words)
      /\ from <= at /\ Len(more) \in Nat /\ from <= Len(words) /\ from <= Len(more)
  BY <1>1 DEF Amid
<1>3. PICK taken : TakenAlong(words, from, taken) /\ PositionalArgs(entry, words) = taken[Len(words)]
  BY <1>1, <1>2, ArgumentsAlong
<1>4. PICK wider : TakenAlong(more, from, wider) /\ PositionalArgs(entry, more) = wider[Len(more)]
  BY <1>1, <1>2, ArgumentsAlong
<1>5. \A k \in from .. at : wider[k] = taken[k]
  <2> DEFINE Same == {m \in 0 .. at - from : wider[from + m] = taken[from + m]}
  <2>1. 0 \in Same
    BY <1>2, <1>3, <1>4 DEF TakenAlong
  <2>2. ASSUME NEW m \in 1 .. at - from, m - 1 \in Same PROVE m \in Same
    <3>1. PICK k \in from + 1 .. at : k = from + m
      BY <1>2
    <3>2. k - 1 = from + (m - 1) /\ k # from /\ k \in from .. Len(words) /\ k \in from .. Len(more) /\ k \in 1 .. at
      BY <1>2, <3>1
    <3>3. wider[k - 1] = taken[k - 1]
      BY <2>2, <3>2
    <3>4. more[k] = words[k]
      BY <3>2 DEF Amid
    <3>5. wider[k] = taken[k]
      BY <1>3, <1>4, <3>2, <3>3, <3>4 DEF TakenAlong
    <3> QED BY <3>1, <3>5
  <2>3. Same \subseteq 0 .. at - from /\ at - from \in Nat
    BY <1>2
  <2> HIDE DEF Same
  <2>4. Same = 0 .. at - from
    BY <2>1, <2>2, <2>3, Inductively
  <2>5. ASSUME NEW k \in from .. at PROVE wider[k] = taken[k]
    <3>1. k - from \in Same /\ from + (k - from) = k
      BY <1>2, <2>4
    <3> QED BY <3>1 DEF Same
  <2> QED BY <2>5
<1>6. wider[at + extra] = taken[at]
  <2> DEFINE Same == {m \in 0 .. extra : wider[at + m] = taken[at]}
  <2>1. 0 \in Same
    BY <1>2, <1>5
  <2>2. ASSUME NEW m \in 1 .. extra, m - 1 \in Same PROVE m \in Same
    <3>1. PICK k \in at + 1 .. at + extra : k = at + m
      BY <1>2
    <3>2. k - 1 = at + (m - 1) /\ k # from /\ k \in from .. Len(more)
      BY <1>2, <3>1
    <3>3. wider[k - 1] = taken[at]
      BY <2>2, <3>2
    <3>4. Flag(more[k])
      BY DEF Amid
    <3>5. wider[k] = taken[at]
      BY <1>4, <3>2, <3>3, <3>4 DEF TakenAlong
    <3> QED BY <3>1, <3>5
  <2>3. Same \subseteq 0 .. extra
    OBVIOUS
  <2> HIDE DEF Same
  <2>4. Same = 0 .. extra
    BY <1>2, <2>1, <2>2, <2>3, Inductively
  <2>5. extra \in Same
    BY <1>2, <2>4
  <2> QED BY <2>5 DEF Same
<1>7. wider[Len(words) + extra] = taken[Len(words)]
  <2> DEFINE Same == {m \in 0 .. Len(words) - at : wider[at + extra + m] = taken[at + m]}
  <2>1. 0 \in Same
    BY <1>2, <1>6
  <2>2. ASSUME NEW m \in 1 .. Len(words) - at, m - 1 \in Same PROVE m \in Same
    <3>1. PICK k \in at + 1 .. Len(words), h \in at + extra + 1 .. Len(more) : k = at + m /\ h = at + extra + m
      BY <1>2
    <3>2. /\ k - 1 = at + (m - 1) /\ h - 1 = at + extra + (m - 1) /\ h = k + extra
          /\ k # from /\ k \in from .. Len(words) /\ h # from /\ h \in from .. Len(more)
      BY <1>2, <3>1
    <3>3. wider[h - 1] = taken[k - 1]
      BY <2>2, <3>2
    <3>4. more[h] = words[k]
      BY <3>2 DEF Amid
    <3>5. wider[h] = taken[k]
      BY <1>3, <1>4, <3>2, <3>3, <3>4 DEF TakenAlong
    <3> QED BY <3>1, <3>5
  <2>3. Same \subseteq 0 .. Len(words) - at /\ Len(words) - at \in Nat
    BY <1>2
  <2> HIDE DEF Same
  <2>4. Same = 0 .. Len(words) - at
    BY <2>1, <2>2, <2>3, Inductively
  <2>5. Len(words) - at \in Same /\ at + extra + (Len(words) - at) = Len(words) + extra /\ at + (Len(words) - at) = Len(words)
    BY <1>2, <2>4
  <2> QED BY <2>5 DEF Same
<1> QED BY <1>2, <1>3, <1>4, <1>7

-----------------------------------------------------------------------------
\* The programs and subcommands of the corpus.
LEMMA CorpusRows ==
  /\ DOMAIN Corpus = 1 .. 18
  /\ \A e \in 1 .. 18 : Corpus[e].sub = "any" <=> e \in {13, 14, 15, 18}
  /\ \A e \in 1 .. 18 : Corpus[e].argv0 = IF e <= 5 THEN "cargo" ELSE IF e <= 12 THEN "git" ELSE IF e = 13 THEN "rm"
                                          ELSE IF e = 14 THEN "mv" ELSE IF e = 15 THEN "cp" ELSE IF e = 16 THEN "npm"
                                          ELSE IF e = 17 THEN "pip" ELSE "curl"
BY DEF Corpus

LEMMA OneRowForAny ==
  ASSUME NEW e \in DOMAIN Corpus, NEW f \in DOMAIN Corpus, Corpus[e].sub = "any", Corpus[f].argv0 = Corpus[e].argv0
  PROVE  e = f
<1>1. e \in {13, 14, 15, 18} /\ f \in 1 .. 18
  BY CorpusRows
<1>2. CASE e = 13
  BY <1>1, <1>2, CorpusRows
<1>3. CASE e = 14
  BY <1>1, <1>3, CorpusRows
<1>4. CASE e = 15
  BY <1>1, <1>4, CorpusRows
<1>5. CASE e = 18
  BY <1>1, <1>5, CorpusRows
<1> QED BY <1>1, <1>2, <1>3, <1>4, <1>5

LEMMA RowFound ==
  ASSUME NEW words, Matching(words) # {}
  PROVE  \E e \in Matching(words) : Found(words) = Corpus[e]
<1>1. Matching(words) \subseteq Nat
  BY CorpusRows DEF Matching
<1>2. \E e \in Matching(words) : \A f \in Matching(words) : e <= f
  BY <1>1, FirstPlace
<1> QED BY <1>2 DEF Found

\* The words that say which row it is.
Alike(words, others, entry) ==
  /\ others[1] = words[1] /\ Len(words) \in Nat /\ Len(others) \in Nat /\ Len(others) >= Leading(entry)
  /\ entry.sub # "any" => others[2] = words[2]

LEMMA SameRow ==
  ASSUME NEW words, NEW others, Matching(words) # {}, Alike(words, others, Found(words))
  PROVE  Matching(others) = Matching(words) /\ Found(others) = Found(words)
<1>1. PICK e \in Matching(words) : Found(words) = Corpus[e]
  BY RowFound
<1>2. e \in DOMAIN Corpus /\ Matches(Corpus[e], words)
  BY DEF Matching
<1>3. Matching(others) = Matching(words)
  <2>1. CASE Corpus[e].sub = "any"
    <3>1. ASSUME NEW f \in DOMAIN Corpus, NEW either \in {words, others}
          PROVE  Matches(Corpus[f], either) <=> f = e
      <4>1. Matches(Corpus[f], either) => Corpus[f].argv0 = Corpus[e].argv0
        BY <1>1, <1>2 DEF Matches, Alike
      <4>2. Matches(Corpus[f], either) => f = e
        BY <1>2, <2>1, <4>1, OneRowForAny
      <4>3. Matches(Corpus[e], either)
        BY <1>1, <1>2, <2>1 DEF Matches, Alike
      <4> QED BY <4>2, <4>3
    <3> QED BY <3>1 DEF Matching
  <2>2. CASE Corpus[e].sub # "any"
    <3>1. Len(words) > 1 /\ Len(others) > 1 /\ others[2] = words[2] /\ others[1] = words[1]
      BY <1>1, <1>2, <2>2 DEF Matches, Alike, Leading
    <3>2. \A f \in DOMAIN Corpus : Matches(Corpus[f], others) <=> Matches(Corpus[f], words)
      BY <3>1 DEF Matches
    <3> QED BY <3>2 DEF Matching
  <2> QED BY <2>1, <2>2
<1> QED BY <1>3 DEF Found

-----------------------------------------------------------------------------
\* The flags that escalate, and what they make of a declaration.
LEMMA EscalationFacts ==
  ASSUME NEW entry, NEW e \in Escalations(entry)
  PROVE  /\ e.field \in {"recursive", "forced", "git"} /\ Flag(e.flag)
         /\ e.field = "recursive" => e.to = TRUE
         /\ e.field = "forced" => e.to = TRUE
         /\ e.field = "git" => e.to = "forcePush"
         /\ e.flag.dashes = 1 => \E letter \in {"r", "R", "f"} : e.flag = Short(letter)
<1>1. PICK kind : kind = entry.argv0
  OBVIOUS
<1>2. PICK listed : listed = Escalations(entry) /\ e \in listed
  OBVIOUS
<1>3. CASE kind = "rm"
  <2>1. listed = {[flag |-> Short(letter), field |-> "recursive", to |-> TRUE] : letter \in {"r", "R"}}
                   \union {[flag |-> Short("f"), field |-> "forced", to |-> TRUE]}
    BY <1>1, <1>2, <1>3 DEF Escalations
  <2>2. \/ \E letter \in {"r", "R"} : e = [flag |-> Short(letter), field |-> "recursive", to |-> TRUE]
        \/ e = [flag |-> Short("f"), field |-> "forced", to |-> TRUE]
    BY <1>2, <2>1, Zenon
  <2>3. \E letter \in {"r", "R", "f"}, field \in {"recursive", "forced"} :
          e = [flag |-> Short(letter), field |-> field, to |-> TRUE]
    BY <2>2, SMT
  <2>4. PICK letter \in {"r", "R", "f"}, field \in {"recursive", "forced"} :
          e = [flag |-> Short(letter), field |-> field, to |-> TRUE]
    BY <2>3
  <2>5. Flag(Short(letter))
    BY DEF Flag, Short
  <2>6. e.flag = Short(letter) /\ e.field = field /\ e.to = TRUE
    BY <2>4
  <2> QED BY <2>5, <2>6
<1>4. CASE kind = "git" /\ entry.sub = "push"
  <2>1. listed = {[flag |-> flag, field |-> "git", to |-> "forcePush"] : flag \in {Short("f"), Long("force")}}
    BY <1>1, <1>2, <1>4 DEF Escalations
  <2>2. PICK flag \in {Short("f"), Long("force")} : e = [flag |-> flag, field |-> "git", to |-> "forcePush"]
    BY <1>2, <2>1
  <2>3. Flag(flag) /\ (flag.dashes = 1 => flag = Short("f"))
    BY <2>2 DEF Flag, Short, Long
  <2>4. e.flag = flag /\ e.field = "git" /\ e.to = "forcePush"
    BY <2>2
  <2> QED BY <2>3, <2>4
<1>5. CASE kind # "rm" /\ ~(kind = "git" /\ entry.sub = "push")
  BY <1>1, <1>2, <1>5 DEF Escalations
<1> QED BY <1>3, <1>4, <1>5

\* What the words between raise.
Brought(entry, more, at, extra) ==
  {e \in Escalations(entry) : \E k \in at + 1 .. at + extra : e.flag \in Meant(more[k], Escalations(entry))}

LEMMA RaisedAmid ==
  ASSUME NEW entry, NEW words, NEW more, NEW at, NEW extra, Amid(words, more, at, extra)
  PROVE  Raised(entry, more) = Raised(entry, words) \union Brought(entry, more, at, extra)
<1>1. /\ Len(words) \in Nat /\ extra \in Nat /\ Len(more) = Len(words) + extra /\ at \in 1 .. Len(words)
      /\ \A k \in 1 .. at : more[k] = words[k]
      /\ \A k \in at + 1 .. Len(words) : more[k + extra] = words[k]
  BY DEF Amid
<1> SUFFICES ASSUME NEW e \in Escalations(entry)
             PROVE  (\E i \in 2 .. Len(more) : e.flag \in Meant(more[i], Escalations(entry))) <=>
                      \/ \E i \in 2 .. Len(words) : e.flag \in Meant(words[i], Escalations(entry))
                      \/ \E k \in at + 1 .. at + extra : e.flag \in Meant(more[k], Escalations(entry))
  BY DEF Raised, Brought
<1> DEFINE By(word) == e.flag \in Meant(word, Escalations(entry))
<1> HIDE DEF By
<1>2. ASSUME NEW i \in 2 .. Len(more), By(more[i])
      PROVE  \/ \E j \in 2 .. Len(words) : By(words[j])
             \/ \E k \in at + 1 .. at + extra : By(more[k])
  <2>1. CASE i <= at
    <3>1. i \in 2 .. Len(words) /\ more[i] = words[i]
      BY <1>1, <2>1
    <3> QED BY <1>2, <3>1
  <2>2. CASE i > at /\ i <= at + extra
    <3>1. i \in at + 1 .. at + extra
      BY <1>1, <2>2
    <3> QED BY <1>2, <3>1
  <2>3. CASE i > at + extra
    <3>1. PICK j \in at + 1 .. Len(words) : i = j + extra
      <4>1. i - extra \in at + 1 .. Len(words) /\ (i - extra) + extra = i
        BY <1>1, <2>3
      <4> QED BY <4>1
    <3>2. j \in 2 .. Len(words) /\ more[i] = words[j]
      BY <1>1, <3>1
    <3> QED BY <1>2, <3>2
  <2> QED BY <1>1, <2>1, <2>2, <2>3
<1>3. ASSUME NEW j \in 2 .. Len(words), By(words[j]) PROVE \E i \in 2 .. Len(more) : By(more[i])
  <2>1. CASE j <= at
    <3>1. j \in 2 .. Len(more) /\ more[j] = words[j]
      BY <1>1, <2>1
    <3> QED BY <1>3, <3>1
  <2>2. CASE j > at
    <3>1. j + extra \in 2 .. Len(more) /\ more[j + extra] = words[j]
      BY <1>1, <2>2
    <3> QED BY <1>3, <3>1
  <2> QED BY <1>1, <2>1, <2>2
<1>4. ASSUME NEW k \in at + 1 .. at + extra, By(more[k]) PROVE \E i \in 2 .. Len(more) : By(more[i])
  <2>1. k \in 2 .. Len(more)
    BY <1>1
  <2> QED BY <1>4, <2>1
<1>5. (\E i \in 2 .. Len(more) : By(more[i])) <=>
        (\E j \in 2 .. Len(words) : By(words[j])) \/ (\E k \in at + 1 .. at + extra : By(more[k]))
  BY <1>2, <1>3, <1>4
<1> QED BY <1>5 DEF By

LEMMA EscalatedFields ==
  ASSUME NEW entry, NEW raised, raised \subseteq Escalations(entry), NEW declared, NEW positional,
         NEW effects, effects = Escalated(raised, Declared(declared, positional, Cwd))
  PROVE  /\ effects.known
         /\ effects.recursive <=> \E e \in raised : e.field = "recursive"
         /\ effects.forced <=> \E e \in raised : e.field = "forced"
         /\ effects.git = IF \E e \in raised : e.field = "git" THEN "forcePush" ELSE declared.git
         /\ effects.reads = Declared(declared, positional, Cwd).reads
         /\ effects.writes = Declared(declared, positional, Cwd).writes
         /\ effects.deletes = Declared(declared, positional, Cwd).deletes
         /\ effects.manifest = Declared(declared, positional, Cwd).manifest
<1>1. PICK plain : plain = Declared(declared, positional, Cwd)
  OBVIOUS
<1>2. /\ DOMAIN plain = {"known", "op", "git", "network", "manifest", "recursive", "forced", "reads", "writes", "deletes"}
      /\ plain.known = TRUE /\ plain.recursive = FALSE /\ plain.forced = FALSE /\ plain.git = declared.git
  BY <1>1 DEF Declared
<1>3. \A field \in DOMAIN plain :
        effects[field] = IF \E e \in raised : e.field = field
                         THEN (CHOOSE e \in raised : e.field = field).to ELSE plain[field]
  BY <1>1 DEF Escalated
<1>4. \A e \in raised : /\ e.field \in {"recursive", "forced", "git"}
                        /\ e.field \in {"recursive", "forced"} => e.to = TRUE
                        /\ e.field = "git" => e.to = "forcePush"
  BY EscalationFacts
<1>5. ASSUME NEW field, \E e \in raised : e.field = field
      PROVE  (CHOOSE e \in raised : e.field = field) \in raised /\ (CHOOSE e \in raised : e.field = field).field = field
  BY <1>5
<1>6. effects.known = TRUE /\ effects.reads = plain.reads /\ effects.writes = plain.writes
        /\ effects.deletes = plain.deletes /\ effects.manifest = plain.manifest
  BY <1>2, <1>3, <1>4
<1>7. effects.recursive = \E e \in raised : e.field = "recursive"
  BY <1>2, <1>3, <1>4, <1>5
<1>8. effects.forced = \E e \in raised : e.field = "forced"
  BY <1>2, <1>3, <1>4, <1>5
<1>9. effects.git = IF \E e \in raised : e.field = "git" THEN "forcePush" ELSE declared.git
  BY <1>2, <1>3, <1>4, <1>5
<1> QED BY <1>1, <1>6, <1>7, <1>8, <1>9

LEMMA ApartMeans ==
  ASSUME NEW entry, NEW e \in Escalations(entry), NEW word, word.parts \in Seq(STRING), word.dashes = 1
  PROVE  e.flag \in Meant(word, Escalations(entry))
           <=> \E k \in 1 .. Len(word.parts) : e.flag \in Meant(Short(word.parts[k]), Escalations(entry))
<1> DEFINE escalations == Escalations(entry)
<1>1. ASSUME NEW letter PROVE Meant(Short(letter), escalations) = {Short(letter)}
  <2>1. Short(letter).dashes = 1 /\ Short(letter).parts = <<letter>>
    BY DEF Short
  <2>2. {Short(Short(letter).parts[k]) : k \in DOMAIN Short(letter).parts} = {Short(letter)}
    <3>1. DOMAIN <<letter>> = {1} /\ <<letter>>[1] = letter
      OBVIOUS
    <3> QED BY <2>1, <3>1
  <2> QED BY <2>1, <2>2 DEF Meant
<1>2. DOMAIN word.parts = 1 .. Len(word.parts)
  OBVIOUS
<1>3. CASE \E f \in escalations : f.flag = word
  <2>1. PICK letter : word = Short(letter)
    BY <1>3, EscalationFacts
  <2>2. Len(word.parts) = 1 /\ word.parts[1] = letter
    BY <2>1 DEF Short
  <2>3. Meant(word, escalations) = {word}
    BY <1>3 DEF Meant
  <2> QED BY <1>1, <2>1, <2>2, <2>3
<1>4. CASE ~\E f \in escalations : f.flag = word
  <2>1. Meant(word, escalations) = {Short(word.parts[k]) : k \in 1 .. Len(word.parts)}
    BY <1>2, <1>4 DEF Meant
  <2> QED BY <1>1, <2>1
<1> QED BY <1>3, <1>4

LEMMA PutBetween ==
  ASSUME NEW S, NEW b \in Seq(S), NEW f \in Seq(S), NEW a \in Seq(S), b # <<>>, \A k \in 1 .. Len(f) : Flag(f[k])
  PROVE  /\ Amid(b \o a, b \o f \o a, Len(b), Len(f))
         /\ \A k \in 1 .. Len(f) : (b \o f \o a)[Len(b) + k] = f[k]
<1>0. b \o a \in Seq(S) /\ b \o f \in Seq(S) /\ b \o f \o a \in Seq(S)
  BY ConcatProperties
<1>1. PICK short \in Seq(S) : short = b \o a
  BY <1>0, Zenon
<1>2. PICK long \in Seq(S) : long = b \o f \o a
  BY <1>0, Zenon
<1>3. /\ Len(b) \in Nat /\ Len(f) \in Nat /\ Len(a) \in Nat /\ Len(b) > 0
      /\ Len(short) = Len(b) + Len(a) /\ Len(long) = Len(b) + Len(f) + Len(a)
  BY <1>1, <1>2, ConcatProperties, EmptySeq
<1>4. ASSUME NEW k \in 1 .. Len(b) PROVE long[k] = short[k]
  BY <1>1, <1>2, <1>3
<1>7. ASSUME NEW k \in 1 .. Len(f) PROVE long[Len(b) + k] = f[k]
  BY <1>2, <1>3
<1>5. ASSUME NEW k \in Len(b) + 1 .. Len(b) + Len(f) PROVE Flag(long[k])
  <2>1. PICK h \in 1 .. Len(f) : k = Len(b) + h
    <3>1. k - Len(b) \in 1 .. Len(f) /\ k = Len(b) + (k - Len(b))
      BY <1>3
    <3> QED BY <3>1
  <2> QED BY <1>7, <2>1
<1>6. ASSUME NEW k \in Len(b) + 1 .. Len(short) PROVE long[k + Len(f)] = short[k]
  <2>1. short[k] = a[k - Len(b)]
    BY <1>1, <1>3
  <2>2. long[k + Len(f)] = a[(k + Len(f)) - Len(b \o f)] /\ Len(b \o f) = Len(b) + Len(f)
    BY <1>2, <1>3
  <2>3. (k + Len(f)) - (Len(b) + Len(f)) = k - Len(b)
    BY <1>3
  <2> QED BY <2>1, <2>2, <2>3
<1>8. Amid(short, long, Len(b), Len(f))
  BY <1>3, <1>4, <1>5, <1>6 DEF Amid
<1> QED BY <1>1, <1>2, <1>8, <1>7

LEMMA KnownRow ==
  ASSUME NEW words, Len(words) \in Nat
  PROVE  Classify(words, Cwd).known =>
           /\ words # <<>> /\ Matching(words) # {} /\ Len(words) >= Leading(Found(words))
<1> SUFFICES ASSUME Classify(words, Cwd).known
             PROVE  words # <<>> /\ Matching(words) # {} /\ Len(words) >= Leading(Found(words))
  OBVIOUS
<1>1. words # <<>> /\ Matching(words) # {}
  BY DEF Classify, Unclassified
<1>2. PICK e \in Matching(words) : Found(words) = Corpus[e]
  BY <1>1, RowFound
<1>3. Matches(Found(words), words)
  BY <1>2 DEF Matching
<1>4. Len(words) # 0
  BY <1>1
<1> QED BY <1>1, <1>3, <1>4 DEF Matches, Leading

\* What a command is declared to do, with what its flags raise.
Declares(words, raised) ==
  Escalated(raised, Declared(Found(words).effects, PositionalArgs(Found(words), words), Cwd))

\* What a command is declared to do with flags put between its words.
LEMMA DeclaredAmid ==
  ASSUME NEW words, NEW more, NEW at, NEW extra, Amid(words, more, at, extra), words # <<>>, more # <<>>,
         Matching(words) # {}, Leading(Found(words)) <= at
  PROVE  /\ Classify(words, Cwd) = Declares(words, Raised(Found(words), words))
         /\ Classify(more, Cwd) = Declares(words, Raised(Found(words), words) \union Brought(Found(words), more, at, extra))
<1> DEFINE entry == Found(words)
<1>1. Alike(words, more, entry)
  BY DEF Alike, Amid, Leading
<1>2. Matching(more) = Matching(words) /\ Found(more) = entry
  BY <1>1, SameRow
<1>3. PositionalArgs(entry, more) = PositionalArgs(entry, words)
  BY SameArguments
<1>4. Raised(entry, more) = Raised(entry, words) \union Brought(entry, more, at, extra)
  BY RaisedAmid
<1> QED BY <1>2, <1>3, <1>4 DEF Classify, Declares

-----------------------------------------------------------------------------
\* Where a flag stands, and whether it stands alone or in a bundle, changes nothing of
\* what a command is declared to do, and a flag more neither hides a path nor makes it
\* milder (FlagsAnywhere), for commands of any length in any words.
THEOREM FlagsCountAnywhere == CommandSpec => []FlagsAnywhere
<1>1. argv = <<>> => Typed
  BY DEF Typed
<1>2. Typed /\ [\E word \in Word : Write(word)]_argv => Typed'
  BY DEF Typed, Write
<1>3. Typed => FlagsAnywhere
  <2> DEFINE effects == Classify(argv, Cwd)
             entry == Found(argv)
  <2> SUFFICES ASSUME Typed, effects.known, NEW i \in Leading(entry) + 1 .. Len(argv), Flag(argv[i])
               PROVE  LET before == SubSeq(argv, 1, i - 1)
                          after == SubSeq(argv, i + 1, Len(argv))
                          without == Classify(before \o after, Cwd)
                          Paths(e) == <<e.reads, e.writes, e.deletes, e.manifest>>
                      IN  /\ Classify(before \o after \o <<argv[i]>>, Cwd) = effects
                          /\ argv[i].dashes = 1 => Classify(before \o Apart(argv[i]) \o after, Cwd) = effects
                          /\ without.known /\ Paths(without) = Paths(effects)
                          /\ without.recursive => effects.recursive
                          /\ without.forced => effects.forced
                          /\ effects.git \in {without.git, "forcePush"}
    BY DEF FlagsAnywhere
  <2> DEFINE Pieces == Word \union {Short(letter) : letter \in STRING}
             before == SubSeq(argv, 1, i - 1)
             after == SubSeq(argv, i + 1, Len(argv))
             fewer == before \o after
             without == Classify(fewer, Cwd)
             raised == Raised(entry, fewer)
             by == {e \in Escalations(entry) : e.flag \in Meant(argv[i], Escalations(entry))}
  <2>1. PICK n \in Nat : n = Len(argv) /\ argv \in [1 .. n -> Word]
    BY DEF Typed
  <2>2. argv \in Seq(Pieces) /\ Leading(entry) \in 1 .. 2 /\ i \in 2 .. n /\ i - 1 >= Leading(entry) /\ Len(argv) = n
    BY <2>1 DEF Typed, Leading
  <2>3. /\ before = [k \in 1 .. i - 1 |-> argv[k]] /\ after = [k \in 1 .. n - i |-> argv[k + i]]
        /\ before \in Seq(Pieces) /\ after \in Seq(Pieces) /\ Len(before) = i - 1 /\ Len(after) = n - i
    <3>1. before \in Seq(Pieces) /\ Len(before) = i - 1 /\ \A k \in 1 .. i - 1 : before[k] = argv[k]
      BY <2>2, SubSeqProperties
    <3>2. after \in Seq(Pieces) /\ Len(after) = n - i /\ \A k \in 1 .. n - i : after[k] = argv[k + i]
      BY <2>2, SubSeqProperties
    <3> QED BY <3>1, <3>2
  <2>4. argv[i] \in Pieces /\ <<argv[i]>> \in Seq(Pieces) /\ argv[i].parts \in Seq(STRING)
    <3>1. argv[i] \in Word
      BY <2>1, <2>2
    <3> QED BY <3>1, WordAssumption
  <2>5. /\ fewer \in Seq(Pieces) /\ Len(fewer) = n - 1
        /\ \A k \in 1 .. i - 1 : fewer[k] = argv[k]
        /\ \A k \in i .. n - 1 : fewer[k] = argv[k + 1]
    <3>1. fewer \in Seq(Pieces) /\ Len(fewer) = Len(before) + Len(after)
      <4> HIDE DEF before, after, Pieces
      <4> QED BY <2>3, ConcatProperties
    <3>2. ASSUME NEW k \in 1 .. i - 1 PROVE fewer[k] = argv[k]
      BY <2>2, <2>3
    <3>3. ASSUME NEW k \in i .. n - 1 PROVE fewer[k] = argv[k + 1]
      <4>1. fewer[k] = after[k - Len(before)] /\ k - Len(before) \in 1 .. n - i /\ (k - Len(before)) + i = k + 1
        BY <2>2, <2>3
      <4> QED BY <2>3, <4>1
    <3> QED BY <2>2, <2>3, <3>1, <3>2, <3>3
  <2> HIDE DEF before, after, fewer, Pieces
  <2>6. Amid(fewer, argv, i - 1, 1)
    BY <2>1, <2>2, <2>5 DEF Amid
  <2>7. Amid(fewer, fewer \o <<argv[i]>>, Len(fewer), 1) /\ (fewer \o <<argv[i]>>)[n] = argv[i] /\ Len(fewer \o <<argv[i]>>) = n
    <3>1. PICK moved : moved = fewer \o <<argv[i]>>
      OBVIOUS
    <3>2. Len(moved) = n /\ moved[n] = argv[i] /\ \A k \in 1 .. n - 1 : moved[k] = fewer[k]
      BY <2>2, <2>4, <2>5, <3>1
    <3>3. Amid(fewer, moved, Len(fewer), 1)
      BY <2>2, <2>5, <3>2 DEF Amid
    <3> QED BY <3>1, <3>2, <3>3
  <2>8. Apart(argv[i]) \in Seq(Pieces) /\ Len(Apart(argv[i])) = Len(argv[i].parts)
          /\ \A k \in 1 .. Len(Apart(argv[i])) : Apart(argv[i])[k] = Short(argv[i].parts[k])
    BY <2>4 DEF Apart, Pieces
  <2>9. PICK apart : apart = before \o Apart(argv[i]) \o after
    OBVIOUS
  <2>10. /\ Amid(fewer, apart, i - 1, Len(Apart(argv[i])))
        /\ \A k \in 1 .. Len(Apart(argv[i])) : apart[(i - 1) + k] = Apart(argv[i])[k]
    <3>1. \A k \in 1 .. Len(Apart(argv[i])) : Flag(Apart(argv[i])[k])
      <4>1. \A letter : Flag(Short(letter))
        BY DEF Flag, Short
      <4> QED BY <2>8, <4>1
    <3>2. before # <<>>
      BY <2>2, <2>3
    <3>3. Amid(before \o after, before \o Apart(argv[i]) \o after, Len(before), Len(Apart(argv[i])))
            /\ \A k \in 1 .. Len(Apart(argv[i])) : (before \o Apart(argv[i]) \o after)[Len(before) + k] = Apart(argv[i])[k]
      <4>1. PICK letters \in Seq(Pieces) : letters = Apart(argv[i])
        BY <2>8, Zenon
      <4>2. \A k \in 1 .. Len(letters) : Flag(letters[k])
        BY <3>1, <4>1
      <4>3. before \in Seq(Pieces) /\ after \in Seq(Pieces)
        BY <2>3
      <4>4. /\ Amid(before \o after, before \o letters \o after, Len(before), Len(letters))
            /\ \A k \in 1 .. Len(letters) : (before \o letters \o after)[Len(before) + k] = letters[k]
        BY <3>2, <4>2, <4>3, PutBetween
      <4> QED BY <4>1, <4>4, Zenon
    <3>4. Len(before) = i - 1 /\ fewer = before \o after
      BY <2>3 DEF fewer
    <3> QED BY <2>9, <3>3, <3>4, Zenon
  <2>11. fewer # <<>> /\ Matching(fewer) # {} /\ Found(fewer) = entry /\ Leading(entry) <= i - 1
    <3>1. Matching(argv) # {} /\ Len(argv) \in Nat
      BY <2>1, KnownRow
    <3>2. Alike(argv, fewer, entry)
      BY <2>2, <2>5 DEF Alike, Leading
    <3>3. Matching(fewer) = Matching(argv) /\ Found(fewer) = entry
      BY <3>1, <3>2, SameRow
    <3> QED BY <2>2, <2>5, <3>1, <3>3
  <2>12. effects = Declares(fewer, raised \union by) /\ without = Declares(fewer, raised)
    <3>1. Brought(entry, argv, i - 1, 1) = by
      BY <2>2 DEF Brought
    <3>2. argv # <<>> /\ Leading(Found(fewer)) <= i - 1
      BY <2>1, <2>2, <2>11
    <3>3. /\ Classify(fewer, Cwd) = Declares(fewer, Raised(Found(fewer), fewer))
          /\ Classify(argv, Cwd) = Declares(fewer, Raised(Found(fewer), fewer) \union Brought(Found(fewer), argv, i - 1, 1))
      BY <2>6, <2>11, <3>2, DeclaredAmid
    <3> QED BY <2>11, <3>1, <3>3
  <2>13. Classify(fewer \o <<argv[i]>>, Cwd) = effects
    <3>1. PICK moved : moved = fewer \o <<argv[i]>>
      OBVIOUS
    <3>2. Brought(entry, moved, n - 1, 1) = by
      BY <2>1, <2>7, <3>1 DEF Brought
    <3>3. Amid(fewer, moved, n - 1, 1) /\ moved # <<>> /\ Leading(Found(fewer)) <= n - 1
      BY <2>2, <2>5, <2>7, <2>11, <3>1
    <3>4. Classify(moved, Cwd) = Declares(fewer, Raised(Found(fewer), fewer) \union Brought(Found(fewer), moved, n - 1, 1))
      BY <2>11, <3>3, DeclaredAmid
    <3> QED BY <2>11, <2>12, <3>1, <3>2, <3>4
  <2>14. argv[i].dashes = 1 => Classify(apart, Cwd) = effects
    <3> SUFFICES ASSUME argv[i].dashes = 1 PROVE Classify(apart, Cwd) = effects
      OBVIOUS
    <3>1. PICK m \in Nat : m = Len(Apart(argv[i])) /\ m = Len(argv[i].parts)
      BY <2>4, <2>8
    <3>2. \A k \in 1 .. m : apart[(i - 1) + k] = Short(argv[i].parts[k])
      BY <2>8, <2>10, <3>1
    <3>3. ASSUME NEW e \in Escalations(entry)
          PROVE  (\E k \in (i - 1) + 1 .. (i - 1) + m : e.flag \in Meant(apart[k], Escalations(entry)))
                   <=> e.flag \in Meant(argv[i], Escalations(entry))
      <4>1. e.flag \in Meant(argv[i], Escalations(entry))
              <=> \E k \in 1 .. m : e.flag \in Meant(Short(argv[i].parts[k]), Escalations(entry))
        BY <2>4, <3>1, ApartMeans
      <4>2. ASSUME NEW k \in (i - 1) + 1 .. (i - 1) + m PROVE \E h \in 1 .. m : k = (i - 1) + h
        <5>1. k - (i - 1) \in 1 .. m /\ k = (i - 1) + (k - (i - 1))
          BY <2>2, <3>1
        <5> QED BY <5>1
      <4>3. \A h \in 1 .. m : (i - 1) + h \in (i - 1) + 1 .. (i - 1) + m
        BY <2>2, <3>1
      <4> QED BY <3>2, <4>1, <4>2, <4>3
    <3>4. Brought(entry, apart, i - 1, m) = by
      BY <3>3 DEF Brought
    <3>5. Amid(fewer, apart, i - 1, m) /\ apart # <<>> /\ Leading(Found(fewer)) <= i - 1
      <4>1. Amid(fewer, apart, i - 1, m) /\ Len(apart) = n - 1 + m
        BY <2>5, <2>10, <3>1 DEF Amid
      <4>2. Len(apart) # 0
        BY <2>2, <3>1, <4>1
      <4>3. apart # <<>>
        BY <4>2
      <4> QED BY <2>11, <4>1, <4>3
    <3>6. Classify(apart, Cwd) = Declares(fewer, Raised(Found(fewer), fewer) \union Brought(Found(fewer), apart, i - 1, m))
      BY <2>11, <3>5, DeclaredAmid
    <3> QED BY <2>11, <2>12, <3>4, <3>6
  <2>15. raised \subseteq Escalations(entry) /\ raised \union by \subseteq Escalations(entry)
    BY DEF Raised
  <2> HIDE DEF effects, without, raised, by
  <2>16. /\ without.known /\ without.reads = effects.reads /\ without.writes = effects.writes
         /\ without.deletes = effects.deletes /\ without.manifest = effects.manifest
         /\ without.recursive => effects.recursive
         /\ without.forced => effects.forced
         /\ effects.git \in {without.git, "forcePush"}
    <3>1. PICK declared, positional : \A set : Declares(fewer, set) = Escalated(set, Declared(declared, positional, Cwd))
      BY DEF Declares
    <3>2. PICK plain : plain = Declared(declared, positional, Cwd)
      OBVIOUS
    <3>3. effects = Escalated(raised \union by, Declared(declared, positional, Cwd))
            /\ without = Escalated(raised, Declared(declared, positional, Cwd))
      BY <2>12, <3>1
    <3>4. /\ without.known
          /\ without.recursive <=> \E e \in raised : e.field = "recursive"
          /\ without.forced <=> \E e \in raised : e.field = "forced"
          /\ without.git = IF \E e \in raised : e.field = "git" THEN "forcePush" ELSE declared.git
          /\ without.reads = plain.reads /\ without.writes = plain.writes
          /\ without.deletes = plain.deletes /\ without.manifest = plain.manifest
      BY <2>15, <3>2, <3>3, EscalatedFields
    <3>5. PICK more : more = raised \union by /\ more \subseteq Escalations(entry)
      BY <2>15
    <3>6. /\ effects.recursive <=> \E e \in more : e.field = "recursive"
          /\ effects.forced <=> \E e \in more : e.field = "forced"
          /\ effects.git = IF \E e \in more : e.field = "git" THEN "forcePush" ELSE declared.git
          /\ effects.reads = plain.reads /\ effects.writes = plain.writes
          /\ effects.deletes = plain.deletes /\ effects.manifest = plain.manifest
      <4>1. effects = Escalated(more, Declared(declared, positional, Cwd))
        BY <3>3, <3>5
      <4>2. more \subseteq Escalations(entry)
        BY <3>5
      <4> HIDE DEF entry
      <4> QED BY <3>2, <4>1, <4>2, EscalatedFields
    <3> QED BY <3>4, <3>5, <3>6
  <2>17. <<without.reads, without.writes, without.deletes, without.manifest>>
           = <<effects.reads, effects.writes, effects.deletes, effects.manifest>>
    BY <2>16
  <2> QED BY <2>9, <2>13, <2>14, <2>16, <2>17, Zenon DEF fewer, before, after, without, effects
<1> QED BY <1>1, <1>2, <1>3, PTL DEF CommandSpec
=============================================================================
