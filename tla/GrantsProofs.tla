---------------------------- MODULE GrantsProofs ----------------------------
(***************************************************************************)
(* What a contract grants, for lines with any number of paths of any       *)
(* length: what is typed is what is enforced, and the console's reading of *)
(* the same wishes is the prompts'.                                        *)
(***************************************************************************)
EXTENDS Grants, SequenceTheorems, WellFoundedInduction, TLAPS

Named == Component \union {"**", "target", "node_modules", "__pycache__", ".venv"}
Glob == Seq(Named)

-----------------------------------------------------------------------------
(* Deduplication *)

LEMMA FirstPlace ==
  ASSUME NEW S, S \subseteq Nat, S # {}
  PROVE  \E g \in S : \A h \in S : g <= h
<1> DEFINE R == OpToRel(<, Nat)
<1>1. \A j, k \in Nat : j < k => <<j, k>> \in R
  BY DEF OpToRel
<1>2. IsWellFoundedOn(R, Nat)
  BY NatLessThanWellFounded
<1> HIDE DEF R
<1>3. PICK m \in S : \A k \in S : <<k, m>> \notin R
  BY <1>2, WFMin
<1>4. ASSUME NEW k \in S PROVE m <= k
  <2>1. m \in Nat /\ k \in Nat
    OBVIOUS
  <2>2. ~(k < m)
    BY <1>1, <1>3, <2>1, Zenon
  <2> QED BY <2>1, <2>2
<1> QED BY <1>3, <1>4

\* One turn of the loop.
Turn(kept, glob) == IF glob = Rejected \/ glob \in ToSet(kept) THEN kept ELSE Append(kept, glob)
\* What is kept after each of the first n turns.
Turns(globs, n, kept) ==
  kept = [i \in 0 .. n |-> IF i = 0 THEN <<>> ELSE Turn(kept[i - 1], globs[i])]

LEMMA TurnsExist ==
  ASSUME NEW globs \in Seq(Glob)
  PROVE  \A n \in 0 .. Len(globs) : \E kept : Turns(globs, n, kept)
<1> DEFINE Undone == {n \in 0 .. Len(globs) : ~ \E kept : Turns(globs, n, kept)}
<1> SUFFICES ASSUME Undone # {} PROVE FALSE
  OBVIOUS
<1>1. PICK n \in Undone : \A h \in Undone : n <= h
  <2>1. Undone \subseteq Nat
    OBVIOUS
  <2> HIDE DEF Undone
  <2> QED BY <2>1, FirstPlace
<1>2. n # 0
  <2>1. Turns(globs, 0, [i \in 0 .. 0 |-> <<>>])
    BY DEF Turns
  <2> QED BY <2>1
<1>3. n \in Nat /\ n - 1 \in 0 .. Len(globs) /\ n - 1 \notin Undone
  BY <1>1, <1>2
<1>4. PICK kept : Turns(globs, n - 1, kept)
  BY <1>3
<1> DEFINE more == [i \in 0 .. n |-> IF i < n THEN kept[i] ELSE Turn(kept[n - 1], globs[n])]
<1>5. \A i \in 0 .. n : more[i] = IF i = 0 THEN <<>> ELSE Turn(more[i - 1], globs[i])
  <2> TAKE i \in 0 .. n
  <2>1. CASE i = n
    BY <1>2, <1>3, <2>1
  <2>2. CASE i # n
    <3>1. i \in 0 .. n - 1 /\ more[i] = kept[i] /\ (i # 0 => more[i - 1] = kept[i - 1])
      BY <1>3, <2>2
    <3>2. kept[i] = IF i = 0 THEN <<>> ELSE Turn(kept[i - 1], globs[i])
      BY <1>4, <3>1 DEF Turns
    <3> QED BY <3>1, <3>2
  <2> QED BY <2>1, <2>2
<1>6. more = [i \in 0 .. n |-> more[i]]
  OBVIOUS
<1> HIDE DEF more
<1>7. Turns(globs, n, more)
  BY <1>5, <1>6 DEF Turns
<1> QED BY <1>1, <1>7

\* What is kept of the first i globs.
KeptOf(globs, i, kept) == kept \in Seq(Glob) /\ ToSet(kept) = {globs[j] : j \in 1 .. i} \ {Rejected}

LEMMA TurnKeeps ==
  ASSUME NEW globs \in Seq(Glob), NEW i \in 1 .. Len(globs), NEW kept, KeptOf(globs, i - 1, kept)
  PROVE  KeptOf(globs, i, Turn(kept, globs[i]))
<1>1. {globs[j] : j \in 1 .. i} = {globs[j] : j \in 1 .. i - 1} \union {globs[i]}
  OBVIOUS
<1>2. kept \in Seq(Glob) /\ globs[i] \in Glob
  BY DEF KeptOf
<1>3. CASE globs[i] = Rejected \/ globs[i] \in ToSet(kept)
  BY <1>1, <1>3 DEF Turn, KeptOf
<1>4. CASE ~(globs[i] = Rejected \/ globs[i] \in ToSet(kept))
  <2>1. /\ Append(kept, globs[i]) \in Seq(Glob)
        /\ DOMAIN Append(kept, globs[i]) = DOMAIN kept \union {Len(kept) + 1}
        /\ \A k \in DOMAIN kept : Append(kept, globs[i])[k] = kept[k]
        /\ Append(kept, globs[i])[Len(kept) + 1] = globs[i]
    BY <1>2
  <2>2. ToSet(Append(kept, globs[i])) = ToSet(kept) \union {globs[i]}
    BY <2>1 DEF ToSet
  <2> QED BY <1>1, <1>4, <2>1, <2>2 DEF Turn, KeptOf
<1> QED BY <1>3, <1>4

\* What is kept is what was given, each glob once, but for what was rejected.
LEMMA DeduplicatedMembers ==
  ASSUME NEW globs \in Seq(Glob)
  PROVE  ToSet(Deduplicated(globs)) = ToSet(globs) \ {Rejected}
<1>1. PICK kept : Turns(globs, Len(globs), kept) /\ Deduplicated(globs) = kept[Len(globs)]
  <2> DEFINE made == CHOOSE kept : Turns(globs, Len(globs), kept)
  <2>1. Turns(globs, Len(globs), made)
    BY TurnsExist
  <2>2. Deduplicated(globs) = made[Len(globs)]
    BY DEF Deduplicated, Turns, Turn
  <2> QED BY <2>1, <2>2
<1> DEFINE Bad == {i \in 0 .. Len(globs) : ~KeptOf(globs, i, kept[i])}
<1>2. Bad = {}
  <2> SUFFICES ASSUME Bad # {} PROVE FALSE
    OBVIOUS
  <2>1. PICK i \in Bad : \A h \in Bad : i <= h
    <3>1. Bad \subseteq Nat
      OBVIOUS
    <3> HIDE DEF Bad
    <3> QED BY <3>1, FirstPlace
  <2>2. i \in 0 .. Len(globs) /\ ~KeptOf(globs, i, kept[i])
    BY <2>1
  <2>3. kept[i] = IF i = 0 THEN <<>> ELSE Turn(kept[i - 1], globs[i])
    BY <1>1, <2>2 DEF Turns
  <2>4. i # 0
    BY <2>2, <2>3 DEF KeptOf, ToSet
  <2>5. i - 1 \in 0 .. Len(globs) /\ i - 1 \notin Bad
    BY <2>1, <2>2, <2>4
  <2>6. KeptOf(globs, i - 1, kept[i - 1])
    BY <2>5
  <2> QED BY <2>2, <2>3, <2>4, <2>6, TurnKeeps
<1>3. KeptOf(globs, Len(globs), kept[Len(globs)])
  BY <1>2
<1>4. ToSet(globs) = {globs[j] : j \in 1 .. Len(globs)}
  BY DEF ToSet
<1> QED BY <1>1, <1>3, <1>4 DEF KeptOf

-----------------------------------------------------------------------------
(* Matching *)

\* Where component i of a glob may end if it begins at j, and where all of them begin.
Ends(glob, path, i, j) ==
  CASE glob[i] = "**" /\ i < Len(glob) -> j .. Len(path) + 1
    [] glob[i] = "**" /\ i = Len(glob) -> {Len(path) + 1} \ {j}
    [] glob[i] = "*" -> j + 1 .. Len(path) + 1
    [] OTHER -> IF j < Len(path) + 1 /\ path[j] = glob[i] THEN {j + 1} ELSE {}
Placed(glob, path, at) ==
  /\ at \in [1 .. Len(glob) + 1 -> 1 .. Len(path) + 1]
  /\ at[1] = 1 /\ at[Len(glob) + 1] = Len(path) + 1
  /\ \A i \in 1 .. Len(glob) : at[i + 1] \in Ends(glob, path, i, at[i])

LEMMA MatchesByPlacing ==
  ASSUME NEW glob, NEW path
  PROVE  MatchesGlob(glob, path) <=> \E at : Placed(glob, path, at)
BY DEF MatchesGlob, Placed, Ends

\* Components that are not wild stand for themselves, one after the other.
LEMMA PlainComponents ==
  ASSUME NEW glob \in Glob, NEW path \in Glob, NEW at, Placed(glob, path, at),
         NEW k \in 0 .. Len(glob), \A i \in 1 .. k : ~Wild(glob[i])
  PROVE  at[k + 1] = k + 1 /\ \A i \in 1 .. k : i <= Len(path) /\ path[i] = glob[i]
<1>1. ASSUME NEW i \in 1 .. k
      PROVE  at[i] < Len(path) + 1 /\ path[at[i]] = glob[i] /\ at[i + 1] = at[i] + 1
  <2>1. at[i + 1] \in Ends(glob, path, i, at[i]) /\ glob[i] \notin {"*", "**"}
    BY DEF Placed, Wild
  <2> QED BY <2>1 DEF Ends
<1> DEFINE Off == {i \in 1 .. k + 1 : at[i] # i}
<1>2. Off = {}
  <2> SUFFICES ASSUME Off # {} PROVE FALSE
    OBVIOUS
  <2>1. PICK i \in Off : \A h \in Off : i <= h
    <3>1. Off \subseteq Nat
      OBVIOUS
    <3> HIDE DEF Off
    <3> QED BY <3>1, FirstPlace
  <2>2. i \in 1 .. k + 1 /\ at[i] # i
    BY <2>1
  <2>3. i # 1
    BY <2>2 DEF Placed
  <2>4. i - 1 \in 1 .. k /\ i - 1 \notin Off
    BY <2>1, <2>2, <2>3
  <2>5. at[i - 1] = i - 1
    BY <2>4
  <2>6. at[(i - 1) + 1] = at[i - 1] + 1
    BY <1>1, <2>4
  <2> QED BY <2>2, <2>5, <2>6
<1>3. \A i \in 1 .. k + 1 : at[i] = i
  BY <1>2
<1> HIDE DEF Off
<1>4. k \in Nat /\ Len(path) \in Nat
  BY DEF Glob
<1>5. at[k + 1] = k + 1
  BY <1>3, <1>4
<1>6. ASSUME NEW i \in 1 .. k PROVE i <= Len(path) /\ path[i] = glob[i]
  <2>1. at[i] = i
    BY <1>3, <1>4
  <2> QED BY <1>1, <1>4, <2>1
<1> QED BY <1>5, <1>6

\* A glob without wildcards matches itself alone.
LEMMA MatchesPlain ==
  ASSUME NEW glob \in Glob, NEW path \in Glob, ~Globbed(glob)
  PROVE  MatchesGlob(glob, path) <=> path = glob
<1>1. \A i \in 1 .. Len(glob) : glob[i] \notin {"*", "**"}
  BY DEF Globbed, Wild
<1>2. ASSUME NEW at, Placed(glob, path, at) PROVE path = glob
  <2>1. /\ at[Len(glob) + 1] = Len(glob) + 1
        /\ \A i \in 1 .. Len(glob) : i <= Len(path) /\ path[i] = glob[i]
    BY <1>1, <1>2, PlainComponents DEF Wild
  <2>2. Len(path) = Len(glob)
    BY <1>2, <2>1 DEF Placed
  <2>3. path \in Seq(Named) /\ glob \in Seq(Named) /\ \A i \in 1 .. Len(path) : path[i] = glob[i]
    BY <2>1, <2>2 DEF Glob
  <2> QED BY <2>2, <2>3, SeqEqual
<1>3. ASSUME path = glob PROVE Placed(glob, path, [i \in 1 .. Len(glob) + 1 |-> i])
  <2> DEFINE at == [i \in 1 .. Len(glob) + 1 |-> i]
  <2>1. ASSUME NEW i \in 1 .. Len(glob) PROVE at[i + 1] \in Ends(glob, path, i, at[i])
    BY <1>1, <1>3 DEF Ends
  <2> QED BY <1>3, <2>1 DEF Placed
<1> QED BY <1>2, <1>3, MatchesByPlacing

\* dir/** matches what is below dir.
LEMMA MatchesBelow ==
  ASSUME NEW dir \in Glob, NEW path \in Glob, ~Globbed(dir)
  PROVE  MatchesGlob(Recursive(dir), path) <=>
           Len(dir) < Len(path) /\ \A i \in 1 .. Len(dir) : path[i] = dir[i]
<1> DEFINE glob == Recursive(dir)
<1>1. /\ glob \in Glob /\ Len(glob) = Len(dir) + 1 /\ glob[Len(dir) + 1] = "**"
      /\ \A i \in 1 .. Len(dir) : glob[i] = dir[i] /\ dir[i] \notin {"*", "**"}
  <2>1. dir \in Seq(Named) /\ "**" \in Named
    BY DEF Glob, Named
  <2>2. \A i \in 1 .. Len(dir) : dir[i] \notin {"*", "**"}
    BY <2>1 DEF Globbed, Wild
  <2> QED BY <2>1, <2>2 DEF Recursive, Glob
<1> HIDE DEF glob
<1>2. ASSUME NEW at, Placed(glob, path, at)
      PROVE  Len(dir) < Len(path) /\ \A i \in 1 .. Len(dir) : path[i] = dir[i]
  <2>1. /\ at[Len(dir) + 1] = Len(dir) + 1
        /\ \A i \in 1 .. Len(dir) : i <= Len(path) /\ path[i] = glob[i]
    BY <1>1, <1>2, PlainComponents DEF Wild
  <2>2. at[(Len(dir) + 1) + 1] \in Ends(glob, path, Len(dir) + 1, Len(dir) + 1)
    BY <1>1, <1>2, <2>1 DEF Placed
  <2>3. Ends(glob, path, Len(dir) + 1, Len(dir) + 1) = {Len(path) + 1} \ {Len(dir) + 1}
    BY <1>1 DEF Ends
  <2>4. Len(dir) <= Len(path)
    BY <2>1
  <2> QED BY <1>1, <2>1, <2>2, <2>3, <2>4
<1>3. ASSUME Len(dir) < Len(path), \A i \in 1 .. Len(dir) : path[i] = dir[i]
      PROVE  \E at : Placed(glob, path, at)
  <2> DEFINE at == [i \in 1 .. Len(glob) + 1 |-> IF i <= Len(dir) + 1 THEN i ELSE Len(path) + 1]
  <2>1. ASSUME NEW i \in 1 .. Len(dir) PROVE at[i + 1] \in Ends(glob, path, i, at[i])
    BY <1>1, <1>3 DEF Ends
  <2>2. at[(Len(dir) + 1) + 1] \in Ends(glob, path, Len(dir) + 1, at[Len(dir) + 1])
    BY <1>1, <1>3 DEF Ends
  <2>3. \A i \in 1 .. Len(glob) : at[i + 1] \in Ends(glob, path, i, at[i])
    <3> HIDE DEF at
    <3> QED BY <1>1, <2>1, <2>2
  <2>4. /\ at \in [1 .. Len(glob) + 1 -> 1 .. Len(path) + 1]
        /\ at[1] = 1 /\ at[Len(glob) + 1] = Len(path) + 1
    BY <1>1, <1>3
  <2> HIDE DEF at
  <2>5. Placed(glob, path, at)
    BY <2>3, <2>4 DEF Placed
  <2> QED BY <2>5
<1>4. MatchesGlob(glob, path) <=> Len(dir) < Len(path) /\ \A i \in 1 .. Len(dir) : path[i] = dir[i]
  BY <1>2, <1>3, MatchesByPlacing
<1> QED BY <1>4 DEF glob

\* The cache's globs together match what has the cache's name in it.
Cache == <<"**", "__pycache__", "**">>
CacheItself == <<"**", "__pycache__">>
LEMMA MatchesCache ==
  ASSUME NEW path \in Glob
  PROVE  MatchesGlob(Cache, path) \/ MatchesGlob(CacheItself, path) <=> "__pycache__" \in ToSet(path)
<1> DEFINE end == Len(path) + 1
<1>1. /\ Len(Cache) = 3 /\ Cache[1] = "**" /\ Cache[2] = "__pycache__" /\ Cache[3] = "**"
      /\ Len(CacheItself) = 2 /\ CacheItself[1] = "**" /\ CacheItself[2] = "__pycache__"
  BY DEF Cache, CacheItself
<1>2. /\ end \in Nat /\ DOMAIN path = 1 .. Len(path)
      /\ "__pycache__" # "**" /\ "__pycache__" # "*"
  BY DEF Glob
<1>3. ASSUME NEW at, Placed(Cache, path, at) PROVE "__pycache__" \in ToSet(path)
  <2>1. at[2] \in 1 .. end /\ at[2 + 1] \in Ends(Cache, path, 2, at[2])
    BY <1>1, <1>3 DEF Placed
  <2>2. at[2] < end /\ path[at[2]] = "__pycache__"
    BY <1>1, <1>2, <2>1 DEF Ends
  <2> QED BY <1>2, <2>1, <2>2 DEF ToSet
<1>4. ASSUME NEW at, Placed(CacheItself, path, at) PROVE "__pycache__" \in ToSet(path)
  <2>1. at[2] \in 1 .. end /\ at[2 + 1] \in Ends(CacheItself, path, 2, at[2])
    BY <1>1, <1>4 DEF Placed
  <2>2. at[2] < end /\ path[at[2]] = "__pycache__"
    BY <1>1, <1>2, <2>1 DEF Ends
  <2> QED BY <1>2, <2>1, <2>2 DEF ToSet
<1>5. ASSUME NEW k \in 1 .. Len(path), path[k] = "__pycache__", k < Len(path)
      PROVE  \E at : Placed(Cache, path, at)
  <2> DEFINE at == [i \in 1 .. 4 |-> IF i = 1 THEN 1 ELSE IF i = 2 THEN k ELSE IF i = 3 THEN k + 1 ELSE end]
  <2>1. at[1] = 1 /\ at[2] = k /\ at[3] = k + 1 /\ at[4] = end /\ at \in [1 .. 4 -> 1 .. end]
    BY <1>2, <1>5
  <2> HIDE DEF at
  <2>2. k \in Ends(Cache, path, 1, 1)
    BY <1>1, <1>2 DEF Ends
  <2>3. k + 1 \in Ends(Cache, path, 2, k)
    BY <1>1, <1>2, <1>5 DEF Ends
  <2>4. end \in Ends(Cache, path, 3, k + 1)
    BY <1>1, <1>2, <1>5 DEF Ends
  <2>5. \A i \in 1 .. 3 : at[i + 1] \in Ends(Cache, path, i, at[i])
    <3> TAKE i \in 1 .. 3
    <3>1. i = 1 \/ i = 2 \/ i = 3
      OBVIOUS
    <3>2. at[1 + 1] = k /\ at[2 + 1] = k + 1 /\ at[3 + 1] = end
      BY <2>1
    <3> QED BY <2>1, <2>2, <2>3, <2>4, <3>1, <3>2
  <2>6. Placed(Cache, path, at)
    BY <1>1, <2>1, <2>5 DEF Placed
  <2> QED BY <2>6
<1>6. ASSUME NEW k \in 1 .. Len(path), path[k] = "__pycache__", k = Len(path)
      PROVE  \E at : Placed(CacheItself, path, at)
  <2> DEFINE at == [i \in 1 .. 3 |-> IF i = 1 THEN 1 ELSE IF i = 2 THEN k ELSE end]
  <2>1. at[1] = 1 /\ at[2] = k /\ at[3] = end /\ at \in [1 .. 3 -> 1 .. end] /\ end = k + 1
    BY <1>2, <1>6
  <2> HIDE DEF at
  <2>2. k \in Ends(CacheItself, path, 1, 1)
    BY <1>1, <1>2 DEF Ends
  <2>3. k + 1 \in Ends(CacheItself, path, 2, k)
    BY <1>1, <1>2, <1>6 DEF Ends
  <2>4. \A i \in 1 .. 2 : at[i + 1] \in Ends(CacheItself, path, i, at[i])
    <3> TAKE i \in 1 .. 2
    <3>1. i = 1 \/ i = 2
      OBVIOUS
    <3>2. at[1 + 1] = k /\ at[2 + 1] = k + 1
      BY <2>1
    <3> QED BY <2>1, <2>2, <2>3, <3>1, <3>2
  <2>5. Placed(CacheItself, path, at)
    BY <1>1, <2>1, <2>4 DEF Placed
  <2> QED BY <2>5
<1>7. "__pycache__" \in ToSet(path) => \E k \in 1 .. Len(path) : path[k] = "__pycache__"
  BY <1>2 DEF ToSet
<1>8. \A k \in 1 .. Len(path) : k < Len(path) \/ k = Len(path)
  BY DEF Glob
<1> HIDE DEF end
<1> QED BY <1>3, <1>4, <1>5, <1>6, <1>7, <1>8, MatchesByPlacing

-----------------------------------------------------------------------------
(* What a glob covers once it is compiled *)

Reaches(glob, path) ==
  \/ MatchesGlob(glob, path)
  \/ Len(glob) > 1 /\ Last(glob) = "**" /\ MatchesGlob(Front(glob), path)

LEMMA CoversByReaching ==
  ASSUME NEW globs, NEW path
  PROVE  Covers(Compiled(globs), path) <=> \E glob \in ToSet(globs) : Reaches(glob, path)
BY DEF Covers, Compiled, Reaches

LEMMA PrefixByComponents ==
  ASSUME NEW dir \in Glob, NEW path \in Glob
  PROVE  IsPrefix(dir, path) <=> Len(dir) <= Len(path) /\ \A i \in 1 .. Len(dir) : path[i] = dir[i]
<1>1. CASE Len(dir) <= Len(path)
  <2>1. /\ SubSeq(dir, 1, Len(dir)) \in Seq(Named) /\ SubSeq(path, 1, Len(dir)) \in Seq(Named)
        /\ Len(SubSeq(dir, 1, Len(dir))) = Len(dir) /\ Len(SubSeq(path, 1, Len(dir))) = Len(dir)
        /\ \A i \in 1 .. Len(dir) : SubSeq(dir, 1, Len(dir))[i] = dir[i] /\ SubSeq(path, 1, Len(dir))[i] = path[i]
    BY <1>1 DEF Glob
  <2>2. SubSeq(dir, 1, Len(dir)) = SubSeq(path, 1, Len(dir)) <=> \A i \in 1 .. Len(dir) : path[i] = dir[i]
    BY <2>1, SeqEqual
  <2>3. Len(dir) \in Nat /\ Len(path) \in Nat
    BY DEF Glob
  <2> QED BY <1>1, <2>2, <2>3 DEF IsPrefix
<1>2. CASE ~(Len(dir) <= Len(path))
  <2>1. Len(dir) \in Nat /\ Len(path) \in Nat
    BY DEF Glob
  <2> QED BY <1>2, <2>1 DEF IsPrefix
<1> QED BY <1>1, <1>2

LEMMA RecursiveParts ==
  ASSUME NEW dir \in Glob
  PROVE  /\ Recursive(dir) \in Glob /\ Len(Recursive(dir)) = Len(dir) + 1
         /\ Last(Recursive(dir)) = "**" /\ Front(Recursive(dir)) = dir
<1>1. dir \in Seq(Named) /\ "**" \in Named
  BY DEF Glob, Named
<1>2. /\ Append(dir, "**") \in Seq(Named) /\ Len(Append(dir, "**")) = Len(dir) + 1
      /\ Append(dir, "**")[Len(dir) + 1] = "**" /\ Len(dir) \in Nat
  BY <1>1
<1>3. SubSeq(Append(dir, "**"), 1, Len(dir)) = dir
  BY <1>1
<1>4. Len(Append(dir, "**")) - 1 = Len(dir)
  BY <1>2
<1> QED BY <1>2, <1>3, <1>4 DEF Recursive, Last, Front, Glob

\* A directory that is granted covers itself and what is below it.
LEMMA ReachesDirectory ==
  ASSUME NEW dir \in Glob, dir # <<>>, ~Globbed(dir), NEW path \in Glob
  PROVE  Reaches(Recursive(dir), path) <=> IsPrefix(dir, path)
<1>1. Reaches(Recursive(dir), path) <=> MatchesGlob(Recursive(dir), path) \/ MatchesGlob(dir, path)
  <2>1. Len(dir) > 0
    BY DEF Glob
  <2>2. Len(Recursive(dir)) > 1
    BY <2>1, RecursiveParts
  <2> QED BY <2>2, RecursiveParts DEF Reaches
<1>2. MatchesGlob(dir, path) <=> path = dir
  BY MatchesPlain
<1>3. path = dir <=> Len(path) = Len(dir) /\ \A i \in 1 .. Len(dir) : path[i] = dir[i]
  BY SeqEqual DEF Glob
<1>4. Len(dir) \in Nat /\ Len(path) \in Nat
  BY DEF Glob
<1> QED BY <1>1, <1>2, <1>3, <1>4, MatchesBelow, PrefixByComponents

\* A file that is granted covers itself.
LEMMA ReachesFile ==
  ASSUME NEW file \in Glob, file # <<>>, ~Globbed(file), NEW path \in Glob
  PROVE  Reaches(file, path) <=> path = file
<1>1. Last(file) # "**"
  BY DEF Glob, Globbed, Wild, Last
<1> QED BY <1>1, MatchesPlain DEF Reaches

LEMMA ReachesArtifact ==
  ASSUME NEW path \in Glob, path # <<>>
  PROVE  (\E glob \in ToSet(ArtifactPaths) : Reaches(glob, path)) <=> Artifact(path)
<1>1. ToSet(ArtifactPaths) = {Recursive(<<"target">>), Recursive(<<"node_modules">>), Cache, Recursive(<<".venv">>)}
  BY DEF ToSet, ArtifactPaths, Recursive, Cache
<1>2. ASSUME NEW name \in {"target", "node_modules", ".venv"}
      PROVE  Reaches(Recursive(<<name>>), path) <=> path[1] = name
  <2>1. <<name>> \in Glob /\ <<name>> # <<>> /\ ~Globbed(<<name>>)
    BY <1>2 DEF Glob, Named, Globbed, Wild
  <2>2. IsPrefix(<<name>>, path) <=> path[1] = name
    <3>1. Len(path) \in Nat /\ Len(path) > 0
      BY DEF Glob
    <3>2. PICK dir : dir = <<name>>
      OBVIOUS
    <3>3. Len(dir) = 1 /\ dir[1] = name
      BY <3>2
    <3>4. IsPrefix(dir, path) <=> path[1] = name
      BY <2>1, <3>1, <3>2, <3>3, PrefixByComponents
    <3> QED BY <3>2, <3>4
  <2> QED BY <2>1, <2>2, ReachesDirectory
<1>3. Reaches(Cache, path) <=> "__pycache__" \in ToSet(path)
  <2>1. Len(Cache) = 3 /\ Cache = Recursive(CacheItself) /\ CacheItself \in Glob
    BY DEF Cache, CacheItself, Recursive, Glob, Named
  <2>2. Last(Cache) = "**" /\ Front(Cache) = CacheItself
    BY <2>1, RecursiveParts
  <2> QED BY <2>1, <2>2, MatchesCache DEF Reaches
<1> QED BY <1>1, <1>2, <1>3 DEF Artifact

-----------------------------------------------------------------------------
(* What a grant becomes *)

LEMMA NormalizedType ==
  ASSUME NEW grant \in Grant
  PROVE  NormalizeGrant(grant) \in Glob
<1>1. grant.parts \in Glob /\ <<"**">> \in Glob /\ <<>> \in Glob
  BY DEF Grant, Glob, Named
<1> QED BY <1>1, RecursiveParts DEF NormalizeGrant, Granted, Rejected

\* Of an ordinary path both programs make the same glob, and it covers what the path names.
LEMMA OrdinaryGrant ==
  ASSUME NEW grant \in Grant, Ordinary(grant)
  PROVE  /\ NormalizeGrant(grant) = Granted(grant) /\ NormalizePathGlob(grant) = Granted(grant)
         /\ Granted(grant) \in Glob /\ Granted(grant) # Rejected
         /\ \A path \in Glob : Reaches(Granted(grant), path) <=> Names(grant, path)
<1> DEFINE parts == grant.parts
<1>1. parts \in Glob /\ parts # <<>> /\ ~Globbed(parts) /\ ~grant.lead
      /\ ".." \notin ToSet(parts) /\ "." \notin ToSet(parts)
  BY DEF Grant, Glob, Named, Ordinary
<1>2. parts # <<".">>
  BY <1>1 DEF ToSet
<1>3. ~(Len(parts) > 1 /\ Last(parts) = "**")
  BY <1>1 DEF Glob, Last, Globbed, Wild
<1>4. NormalizeGrant(grant) = Granted(grant)
  BY <1>1, <1>2 DEF NormalizeGrant
<1>5. NormalizePathGlob(grant) = Granted(grant)
  BY <1>1, <1>3 DEF NormalizePathGlob
<1> HIDE DEF parts
<1>6. Recursive(parts) \in Glob /\ Recursive(parts) # <<>>
  <2>1. Len(Recursive(parts)) = Len(parts) + 1 /\ Len(parts) \in Nat /\ Recursive(parts) \in Glob
    BY <1>1, RecursiveParts DEF Glob
  <2> QED BY <2>1
<1>7. CASE grant.trail \/ Last(parts) \notin FileName
  <2>1. Granted(grant) = Recursive(parts) /\ \A path : Names(grant, path) <=> IsPrefix(parts, path)
    BY <1>7 DEF Granted, Names, parts
  <2> QED BY <1>1, <1>4, <1>5, <1>6, <2>1, ReachesDirectory DEF Rejected
<1>8. CASE ~(grant.trail \/ Last(parts) \notin FileName)
  <2>1. Granted(grant) = parts /\ \A path : Names(grant, path) <=> path = parts
    BY <1>8 DEF Granted, Names, parts
  <2> QED BY <1>1, <1>4, <1>5, <2>1, ReachesFile DEF Rejected
<1> QED BY <1>7, <1>8

-----------------------------------------------------------------------------
(* The questions *)

\* What has been answered by the time the contract is saved.
Answered ==
  /\ DOMAIN answers \subseteq Questions
  /\ \A q \in DOMAIN answers : answers[q] \in Line[q]
  /\ question \in {"operations", "deps", "git", "network", "save", "saved"} => "paths" \in DOMAIN answers

\* The line is taken as the answer and the next question asked, or this one is asked again,
\* or the prompts are over.
Onward(here, next) ==
  /\ DOMAIN answers' \subseteq Questions /\ \A q \in DOMAIN answers' : answers'[q] \in Line[q]
  /\ question = here /\ DOMAIN answers \subseteq DOMAIN answers'
  /\ \/ question' = "closed" \/ question' = here
     \/ question' = next /\ here \in DOMAIN answers'

LEMMA StepAsk ==
  ASSUME Answered, NEW here \in Questions, NEW next, NEW ok, NEW line, Ask(here, next, ok, line),
         line.kind = "end" \/ line \in Line[here]
  PROVE  Onward(here, next)
<1>1. CASE line.kind = "end"
  BY <1>1 DEF Ask, Answered, Onward
<1>2. CASE line.kind # "end" /\ ok
  <2>1. /\ question = here /\ question' = next
        /\ answers' = [q \in DOMAIN answers \union {here} |-> IF q = here THEN line ELSE answers[q]]
    BY <1>2 DEF Ask
  <2>2. /\ DOMAIN answers' = DOMAIN answers \union {here} /\ answers'[here] = line
        /\ \A q \in DOMAIN answers : q = here \/ answers'[q] = answers[q]
    BY <2>1
  <2>3. line \in Line[here]
    BY <1>2
  <2>4. \A q \in DOMAIN answers' : answers'[q] \in Line[q]
    BY <2>2, <2>3 DEF Answered
  <2> QED BY <2>1, <2>2, <2>4 DEF Answered, Onward
<1>3. CASE line.kind # "end" /\ ~ok
  BY <1>3 DEF Ask, Answered, Onward, grantsVars
<1> QED BY <1>1, <1>2, <1>3

LEMMA StepAnswered == Answered /\ [RunNew]_grantsVars => Answered'
<1> SUFFICES ASSUME Answered, [RunNew]_grantsVars PROVE Answered'
  OBVIOUS
<1>1. CASE UNCHANGED grantsVars
  BY <1>1 DEF grantsVars, Answered
<1>2. ASSUME NEW q \in DOMAIN Line, NEW line \in Line[q] \union {[kind |-> "end", items |-> <<>>]}, q = question,
             \/ AskTask(line) \/ AskPaths(line) \/ AskOperations(line) \/ AskDeps(line)
             \/ AskGit(line) \/ AskNetwork(line) \/ AskSave(line)
      PROVE  Answered'
  <2>1. line.kind = "end" \/ line \in Line[question]
    BY <1>2
  <2>2. CASE AskTask(line)
    <3>1. Onward("task", "paths")
      BY <2>1, <2>2, StepAsk DEF AskTask, Questions, Ask
    <3> QED BY <3>1 DEF Onward, Answered
  <2>3. CASE AskPaths(line)
    <3>1. Onward("paths", "operations")
      BY <2>1, <2>3, StepAsk DEF AskPaths, Questions, Ask
    <3> QED BY <3>1 DEF Onward, Answered
  <2>4. CASE AskOperations(line)
    <3>1. Onward("operations", "deps")
      BY <2>1, <2>4, StepAsk DEF AskOperations, Questions, Ask
    <3> QED BY <3>1 DEF Onward, Answered
  <2>5. CASE AskDeps(line)
    <3>1. Onward("deps", "git")
      BY <2>1, <2>5, StepAsk DEF AskDeps, Questions, Ask
    <3> QED BY <3>1 DEF Onward, Answered
  <2>6. CASE AskGit(line)
    <3>1. Onward("git", "network")
      BY <2>1, <2>6, StepAsk DEF AskGit, Questions, Ask
    <3> QED BY <3>1 DEF Onward, Answered
  <2>7. CASE AskNetwork(line)
    <3>1. Onward("network", "save")
      BY <2>1, <2>7, StepAsk DEF AskNetwork, Questions, Ask
    <3> QED BY <3>1 DEF Onward, Answered
  <2>8. CASE AskSave(line)
    <3>1. Onward("save", IF Yes(line, TRUE) THEN "saved" ELSE "cancelled")
      BY <2>1, <2>8, StepAsk DEF AskSave, Questions, Ask
    <3> QED BY <3>1 DEF Onward, Answered
  <2> QED BY <1>2, <2>2, <2>3, <2>4, <2>5, <2>6, <2>7, <2>8
<1> QED BY <1>1, <1>2 DEF RunNew

LEMMA AlwaysAnswered == GrantsSpec => []Answered
<1>1. GrantsInit => Answered
  BY DEF GrantsInit, Answered
<1> QED BY <1>1, StepAnswered, PTL DEF GrantsSpec

LEMMA GrantsTyped ==
  ASSUME Answered, Saved
  PROVE  Grants(answers["paths"]) \in Seq(Grant)
<1>1. answers["paths"] \in Line["paths"]
  BY DEF Answered, Saved
<1> QED BY <1>1, LineAssumption DEF Grants

-----------------------------------------------------------------------------
(* What is saved *)

\* Whatever is typed, what is chosen is among the names that are offered.
LEMMA ChosenOffered ==
  ASSUME NEW line, NEW names, NEW default, default \subseteq DOMAIN names, NEW allowNone
  PROVE  ParseChoices(line, names, default, allowNone).chosen \subseteq {names[i] : i \in DOMAIN names}
BY DEF ParseChoices

\* A set of offered operations survives its passage through the bits.
LEMMA HoldsBits ==
  ASSUME NEW order, NEW names, names \subseteq {order[i] : i \in DOMAIN order}
  PROVE  Holds(Bits(names, order), order) = names
BY DEF Holds, Bits

LEMMA Concatenated ==
  ASSUME NEW S, NEW s \in Seq(S), NEW T, NEW t \in Seq(T)
  PROVE  /\ DOMAIN (s \o t) = 1 .. Len(s) + Len(t) /\ Len(s \o t) = Len(s) + Len(t)
         /\ \A i \in 1 .. Len(s) : (s \o t)[i] = s[i]
         /\ \A i \in Len(s) + 1 .. Len(s) + Len(t) : (s \o t)[i] = t[i - Len(s)]
         /\ ToSet(s \o t) = ToSet(s) \union ToSet(t)
<1>1. s \in Seq(S \union T) /\ t \in Seq(S \union T)
  OBVIOUS
<1>2. /\ Len(s) \in Nat /\ Len(t) \in Nat
      /\ DOMAIN s = 1 .. Len(s) /\ DOMAIN t = 1 .. Len(t)
  OBVIOUS
<1>3. /\ s \o t \in Seq(S \union T) /\ Len(s \o t) = Len(s) + Len(t)
      /\ \A i \in 1 .. Len(s) + Len(t) : (s \o t)[i] = IF i <= Len(s) THEN s[i] ELSE t[i - Len(s)]
  BY <1>1, ConcatProperties
<1>4. DOMAIN (s \o t) = 1 .. Len(s) + Len(t)
  BY <1>3
<1>5. /\ \A i \in 1 .. Len(s) : (s \o t)[i] = s[i]
      /\ \A i \in Len(s) + 1 .. Len(s) + Len(t) : (s \o t)[i] = t[i - Len(s)]
  BY <1>2, <1>3
<1>6. ToSet(s \o t) = ToSet(s) \union ToSet(t)
  <2>1. ASSUME NEW i \in 1 .. Len(s) + Len(t) PROVE (s \o t)[i] \in ToSet(s) \union ToSet(t)
    <3>1. CASE i \in 1 .. Len(s)
      BY <1>2, <1>5, <3>1 DEF ToSet
    <3>2. CASE i \in Len(s) + 1 .. Len(s) + Len(t)
      <4>1. i - Len(s) \in 1 .. Len(t)
        BY <1>2, <3>2
      <4> QED BY <1>2, <1>5, <3>2, <4>1 DEF ToSet
    <3> QED BY <1>2, <3>1, <3>2
  <2>2. ASSUME NEW i \in 1 .. Len(s) PROVE s[i] \in ToSet(s \o t)
    BY <1>2, <1>4, <1>5 DEF ToSet
  <2>3. ASSUME NEW i \in 1 .. Len(t) PROVE t[i] \in ToSet(s \o t)
    <3>1. PICK j \in Len(s) + 1 .. Len(s) + Len(t) : j - Len(s) = i
      <4>1. i + Len(s) \in Len(s) + 1 .. Len(s) + Len(t) /\ (i + Len(s)) - Len(s) = i
        BY <1>2
      <4> QED BY <4>1
    <3>2. j \in DOMAIN (s \o t) /\ (s \o t)[j] = t[i]
      BY <1>2, <1>4, <1>5, <3>1
    <3> QED BY <3>2 DEF ToSet
  <2> QED BY <1>2, <1>4, <2>1, <2>2, <2>3 DEF ToSet
<1> QED BY <1>3, <1>4, <1>5, <1>6

LEMMA SameGlobs ==
  ASSUME NEW grants \in Seq(Grant), \A i \in DOMAIN grants : Ordinary(grants[i]), NEW wish, wish.paths = grants
  PROVE  NormalizeContract(wish).paths = NormalizePaths(grants)
<1> DEFINE artifacts == [a \in DOMAIN ArtifactPaths |-> [lead |-> FALSE, parts |-> ArtifactPaths[a], trail |-> FALSE]]
           raw == grants \o artifacts
           theirs == [i \in DOMAIN raw |-> NormalizePathGlob(raw[i])]
           globs == [i \in DOMAIN grants |-> NormalizeGrant(grants[i])]
           ours == globs \o ArtifactPaths
<1>1. /\ ArtifactPaths \in Seq(Glob) /\ Len(ArtifactPaths) = 4
      /\ \A a \in 1 .. 4 : Len(ArtifactPaths[a]) > 1 /\ Last(ArtifactPaths[a]) = "**"
  BY DEF ArtifactPaths, Glob, Named, Last
<1>2. \A a \in 1 .. 4 : NormalizePathGlob(artifacts[a]) = ArtifactPaths[a]
  <2> TAKE a \in 1 .. 4
  <2>1. ArtifactPaths[a] # <<>> /\ artifacts[a].parts = ArtifactPaths[a]
    BY <1>1
  <2> QED BY <1>1, <2>1 DEF NormalizePathGlob
<1>3. artifacts \in Seq({artifacts[a] : a \in 1 .. 4}) /\ Len(artifacts) = 4
  <2>1. artifacts = [a \in 1 .. 4 |-> artifacts[a]]
    BY <1>1
  <2> HIDE DEF artifacts
  <2> QED BY <2>1
<1>4. \A i \in DOMAIN grants : NormalizePathGlob(grants[i]) = globs[i] /\ globs[i] \in Glob
  BY OrdinaryGrant
<1>5. globs \in Seq(Glob) /\ Len(globs) = Len(grants)
  BY <1>4
<1> HIDE DEF artifacts, globs
<1>6. /\ Len(raw) = Len(grants) + 4 /\ DOMAIN raw = 1 .. Len(grants) + 4
      /\ \A i \in 1 .. Len(grants) : raw[i] = grants[i]
      /\ \A i \in Len(grants) + 1 .. Len(grants) + 4 : raw[i] = artifacts[i - Len(grants)]
  <2>1. /\ DOMAIN raw = 1 .. Len(grants) + Len(artifacts) /\ Len(raw) = Len(grants) + Len(artifacts)
        /\ \A i \in 1 .. Len(grants) : raw[i] = grants[i]
        /\ \A i \in Len(grants) + 1 .. Len(grants) + Len(artifacts) : raw[i] = artifacts[i - Len(grants)]
    <3>1. PICK T : artifacts \in Seq(T)
      BY <1>3
    <3> QED BY <3>1, Concatenated
  <2> HIDE DEF raw
  <2> QED BY <1>3, <2>1
<1>7. /\ Len(ours) = Len(grants) + 4 /\ DOMAIN ours = 1 .. Len(grants) + 4 /\ ours \in Seq(Glob)
      /\ \A i \in 1 .. Len(grants) : ours[i] = globs[i]
      /\ \A i \in Len(grants) + 1 .. Len(grants) + 4 : ours[i] = ArtifactPaths[i - Len(grants)]
  <2>1. /\ DOMAIN ours = 1 .. Len(globs) + Len(ArtifactPaths) /\ Len(ours) = Len(globs) + Len(ArtifactPaths)
        /\ \A i \in 1 .. Len(globs) : ours[i] = globs[i]
        /\ \A i \in Len(globs) + 1 .. Len(globs) + Len(ArtifactPaths) : ours[i] = ArtifactPaths[i - Len(globs)]
    <3>1. globs \in Seq(Glob) /\ ArtifactPaths \in Seq(Glob)
      BY <1>1, <1>5
    <3> QED BY <3>1, Concatenated
  <2>2. ours \in Seq(Glob)
    BY <1>1, <1>5
  <2>3. Len(globs) = Len(grants) /\ Len(ArtifactPaths) = 4
    BY <1>1, <1>5
  <2> HIDE DEF ours
  <2>4. \A i \in Len(grants) + 1 .. Len(grants) + 4 : ours[i] = ArtifactPaths[i - Len(grants)]
    BY <2>1, <2>3
  <2>5. \A i \in 1 .. Len(grants) : ours[i] = globs[i]
    BY <2>1, <2>3
  <2> QED BY <2>1, <2>2, <2>3, <2>4, <2>5
<1> HIDE DEF raw, ours
<1>8. \A i \in 1 .. Len(grants) + 4 : theirs[i] = ours[i]
  <2> TAKE i \in 1 .. Len(grants) + 4
  <2>1. CASE i \in 1 .. Len(grants)
    BY <1>4, <1>6, <1>7, <2>1
  <2>2. CASE i \in Len(grants) + 1 .. Len(grants) + 4
    <3>1. i - Len(grants) \in 1 .. 4
      BY <2>2
    <3> QED BY <1>2, <1>6, <1>7, <2>2, <3>1
  <2> QED BY <2>1, <2>2
<1>9. theirs = ours
  <2>1. ours = [i \in 1 .. Len(grants) + 4 |-> ours[i]]
    BY <1>7
  <2> QED BY <1>6, <1>8, <2>1
<1> QED BY <1>9 DEF NormalizeContract, NormalizePaths, raw, ours, globs, artifacts

\* What `tractus new` saves grants what was chosen with what it implies, and is the contract
\* the console sends for the same wishes.
THEOREM SameContractSaved == GrantsSpec => []SameContract
<1>1. Answered => SameContract
  <2> SUFFICES ASSUME Answered, Saved PROVE SameContract
    BY DEF SameContract
  <2> DEFINE contract == BuildContract
             grants == Grants(answers["paths"])
             chosen == OperationsOf(answers["operations"]).chosen
             git == GitOf(answers["git"]).chosen
             wish == [paths |-> grants, ops |-> chosen, deps |-> contract.deps,
                      git |-> git, network |-> contract.network]
             Offered(order) == {order[i] : i \in DOMAIN order}
  <2>1. /\ chosen \subseteq Offered(OpClass) /\ {"test", "build"} \subseteq Offered(OpClass)
        /\ git \subseteq Offered(GitOp)
    <3>1. OperationFromChoice = OpClass /\ GitFromChoice = GitOp
      BY DEF OperationFromChoice, OpClass, GitFromChoice, GitOp
    <3>2. DOMAIN OpClass = 1 .. 7 /\ DOMAIN GitOp = 1 .. 10 /\ OpClass[5] = "test" /\ OpClass[6] = "build"
      BY DEF OpClass, GitOp
    <3>3. {1, 2} \subseteq DOMAIN OpClass /\ {1, 2} \subseteq DOMAIN GitOp
      BY <3>2
    <3>4. chosen \subseteq Offered(OpClass) /\ git \subseteq Offered(GitOp)
      BY <3>1, <3>3, ChosenOffered DEF OperationsOf, GitOf
    <3> QED BY <3>2, <3>4
  <2>2. ImpliedOperations(chosen) \subseteq Offered(OpClass)
    BY <2>1 DEF ImpliedOperations
  <2>3. ImpliedOperations(chosen) = chosen \union
          (IF \E op \in {"edit", "create", "delete"} : op \in chosen THEN {"test", "build"} ELSE {})
    BY DEF ImpliedOperations
  <2>4. /\ contract.ops = Bits(ImpliedOperations(chosen), OpClass) /\ contract.git = Bits(git, GitOp)
        /\ contract.paths = NormalizePaths(grants)
        /\ contract = [paths |-> contract.paths, ops |-> contract.ops, deps |-> contract.deps,
                       git |-> contract.git, network |-> contract.network]
    BY DEF BuildContract
  <2>5. wish.paths = grants /\ wish.ops = chosen /\ wish.git = git
        /\ wish.deps = contract.deps /\ wish.network = contract.network
    OBVIOUS
  <2>6. Operation = OpClass /\ GitOperation = GitOp
    BY DEF Operation, OpClass, GitOperation, GitOp
  <2> HIDE DEF contract, grants, chosen, git, wish, Offered
  <2>7. /\ Holds(contract.ops, OpClass) = ImpliedOperations(chosen)
        /\ Holds(contract.git, GitOp) = git
    BY <2>1, <2>2, <2>4, HoldsBits DEF Offered
  <2>8. ASSUME \A i \in DOMAIN grants : Ordinary(grants[i])
        PROVE  DaemonWire(NormalizeContract(wish)) = contract
    <3>1. grants \in Seq(Grant)
      BY GrantsTyped DEF grants
    <3>2. NormalizeContract(wish).paths = contract.paths
      BY <2>4, <2>5, <2>8, <3>1, SameGlobs
    <3>3. /\ NormalizeContract(wish).ops = ImpliedOperations(chosen) /\ NormalizeContract(wish).git = git
          /\ NormalizeContract(wish).deps = contract.deps /\ NormalizeContract(wish).network = contract.network
      BY <2>5 DEF NormalizeContract
    <3> QED BY <2>4, <2>6, <3>2, <3>3 DEF DaemonWire
  <2> QED BY <2>3, <2>5, <2>7, <2>8 DEF SameContract, contract, grants, chosen, git, wish
<1> QED BY <1>1, AlwaysAnswered, PTL

\* A path is in the scope of a saved contract exactly when something that was typed names it,
\* or it is a build artifact.
THEOREM GrantsMeanThemselves == GrantsSpec => []GrantMeans
<1>1. Answered => GrantMeans
  <2> SUFFICES ASSUME Answered, Saved, \A i \in DOMAIN Grants(answers["paths"]) : Ordinary(Grants(answers["paths"])[i]),
                      NEW path \in Asked
               PROVE  Covers(Compiled(BuildContract.paths), path) <=>
                        \/ Artifact(path)
                        \/ \E i \in DOMAIN Grants(answers["paths"]) : Names(Grants(answers["paths"])[i], path)
    BY DEF GrantMeans
  <2> DEFINE grants == Grants(answers["paths"])
             globs == [i \in DOMAIN grants |-> NormalizeGrant(grants[i])]
  <2>1. grants \in Seq(Grant) /\ path \in Glob /\ path # <<>>
    BY GrantsTyped, AskedAssumption DEF Glob, Named
  <2>2. \A i \in DOMAIN grants : globs[i] = Granted(grants[i]) /\ globs[i] \in Glob /\ globs[i] # Rejected
                                 /\ (Reaches(globs[i], path) <=> Names(grants[i], path))
    BY <2>1, OrdinaryGrant
  <2>3. BuildContract.paths = Deduplicated(globs \o ArtifactPaths)
    BY DEF BuildContract, NormalizePaths
  <2> HIDE DEF grants
  <2>4. globs \in Seq(Glob) /\ DOMAIN globs = DOMAIN grants
    BY <2>1, <2>2
  <2> HIDE DEF globs
  <2>5. ArtifactPaths \in Seq(Glob) /\ Rejected \notin ToSet(ArtifactPaths)
    BY DEF ArtifactPaths, Glob, Named, Rejected, ToSet
  <2>6. globs \o ArtifactPaths \in Seq(Glob) /\ ToSet(globs \o ArtifactPaths) = ToSet(globs) \union ToSet(ArtifactPaths)
    BY <2>4, <2>5, Concatenated
  <2>7. Rejected \notin ToSet(globs)
    BY <2>2, <2>4 DEF ToSet
  <2>8. ToSet(BuildContract.paths) = ToSet(globs) \union ToSet(ArtifactPaths)
    BY <2>3, <2>5, <2>6, <2>7, DeduplicatedMembers
  <2>9. (\E glob \in ToSet(globs) : Reaches(glob, path)) <=> \E i \in DOMAIN grants : Names(grants[i], path)
    BY <2>2, <2>4 DEF ToSet
  <2> QED BY <2>1, <2>8, <2>9, CoversByReaching, ReachesArtifact DEF grants
<1> QED BY <1>1, AlwaysAnswered, PTL
=============================================================================
