-------------------------- MODULE PatchPathsProofs --------------------------
(***************************************************************************)
(* What the hook reads off a patch, for a patch of any length: the files   *)
(* it names are the files it changes.  After each line the files found so  *)
(* far are those of the lines read so far, but for the last update, which  *)
(* waits until the next line tells whether it is a move.                   *)
(***************************************************************************)
EXTENDS PatchPaths, SequenceTheorems, TLAPS

Line == [what : Directive \union Kind, path : File]

Typed ==
  /\ lines \in Seq(Line) /\ pending \in File \union {Nothing}
  /\ writes \in Seq(File) /\ deletes \in Seq(File)

\* The update that waits is the last line that changes a file.
Latest(i) == i \in Headers /\ \A k \in Headers : k <= i
Waiting == {i \in Headers : Latest(i) /\ lines[i].what = "update"}

Written == HeadersOf({"update", "add", "move", "written"}) \ Moved
Gone == HeadersOf({"delete", "gone"}) \union Moved

Pending == IF pending = Nothing THEN {} ELSE {pending}

Reading ==
  /\ Typed
  /\ PathsAt(Waiting) = Pending
  /\ ToSet(writes) = PathsAt(Written \ Waiting)
  /\ ToSet(deletes) = PathsAt(Gone)

-----------------------------------------------------------------------------
(* One more line *)

LEMMA AppendedFile ==
  ASSUME NEW paths \in Seq(File), NEW path \in File
  PROVE  Appended(paths, path) \in Seq(File) /\ ToSet(Appended(paths, path)) = ToSet(paths) \union {path}
<1>1. CASE path \in ToSet(paths)
  BY <1>1 DEF Appended
<1>2. CASE path \notin ToSet(paths)
  <2>1. Appended(paths, path) = Append(paths, path)
    BY <1>2 DEF Appended
  <2>2. /\ Append(paths, path) \in Seq(File)
        /\ DOMAIN Append(paths, path) = DOMAIN paths \union {Len(paths) + 1}
        /\ \A i \in DOMAIN paths : Append(paths, path)[i] = paths[i]
        /\ Append(paths, path)[Len(paths) + 1] = path
    OBVIOUS
  <2>3. ToSet(Append(paths, path)) = ToSet(paths) \union {path}
    BY <2>2 DEF ToSet
  <2> QED BY <2>1, <2>2, <2>3
<1> QED BY <1>1, <1>2

LEMMA FlushedFiles ==
  ASSUME Typed
  PROVE  /\ Flushed \in Seq(File)
         /\ ToSet(Flushed) = ToSet(writes) \union Pending
BY AppendedFile DEF Typed, Flushed, Pending

LEMMA HeaderFacts ==
  ASSUME Typed
  PROVE  /\ \A i \in Headers : i \in Nat /\ i \in DOMAIN lines /\ lines[i] \in Line
         /\ Waiting \subseteq Written /\ Waiting \intersect Moved = {} /\ Gone \intersect Waiting = {}
         /\ Written \subseteq Headers /\ Gone \subseteq Headers
<1>1. \A i \in Headers : i \in Nat /\ i \in DOMAIN lines /\ lines[i] \in Line
  BY DEF Typed, Headers
<1>2. Waiting \intersect Moved = {}
  <2> SUFFICES ASSUME NEW i \in Waiting, IsMoved(i) PROVE FALSE
    BY DEF Moved
  <2>1. PICK j \in Headers : i < j
    BY DEF IsMoved
  <2>2. j <= i /\ i \in Nat /\ j \in Nat
    BY <1>1 DEF Waiting, Latest
  <2> QED BY <2>1, <2>2
<1> QED BY <1>1, <1>2 DEF Waiting, Written, Gone, HeadersOf, Moved

\* A line more makes a header of itself, and a move of the update that waits if it is one.
LEMMA HeaderAdded ==
  ASSUME Typed, NEW e \in Line, lines' = Append(lines, e)
  PROVE  LET n == Len(lines) + 1 IN
         /\ lines' \in Seq(Line) /\ lines'[n] = e /\ n \notin Headers
         /\ \A i \in Headers : lines'[i] = lines[i]
         /\ Headers' = Headers \union (IF e.what = "other" THEN {} ELSE {n})
         /\ Moved' = Moved \union (IF e.what = "move" THEN Waiting ELSE {})
         /\ Waiting' = IF e.what = "other" THEN Waiting ELSE IF e.what = "update" THEN {n} ELSE {}
<1>0. PICK n : n = Len(lines) + 1
  OBVIOUS
<1>1. /\ n \in Nat /\ lines' \in Seq(Line) /\ DOMAIN lines' = DOMAIN lines \union {n}
      /\ DOMAIN lines = 1 .. Len(lines)
      /\ lines'[n] = e /\ \A i \in DOMAIN lines : lines'[i] = lines[i]
  BY <1>0 DEF Typed
<1>2. \A i \in Headers : i \in Nat /\ i \in DOMAIN lines /\ i < n /\ lines'[i] = lines[i]
  BY <1>1 DEF Typed, Headers
<1>3. Headers' = Headers \union (IF e.what = "other" THEN {} ELSE {n})
  BY <1>1 DEF Headers
<1>4. n \notin Headers
  BY <1>1, <1>2
<1>5. ASSUME IsMoved(n)' PROVE FALSE
  <2>1. PICK j \in Headers' : n < j
    BY <1>5 DEF IsMoved
  <2>2. j <= n /\ j \in Nat
    BY <1>1, <1>2, <1>3
  <2> QED BY <1>1, <2>1, <2>2
<1>6. ASSUME NEW i \in Headers
      PROVE  IsMoved(i)' <=> IsMoved(i) \/ (e.what = "move" /\ i \in Waiting)
  <2>1. ASSUME IsMoved(i) PROVE IsMoved(i)'
    <3>1. PICK j \in Headers : lines[j].what = "move" /\ i < j /\ \A k \in Headers : k <= i \/ j <= k
      BY <2>1 DEF IsMoved
    <3>2. j \in Headers' /\ lines'[j].what = "move" /\ lines'[i].what = "update"
      BY <1>2, <1>3, <2>1, <3>1 DEF IsMoved
    <3>3. \A k \in Headers' : k <= i \/ j <= k
      BY <1>1, <1>2, <1>3, <3>1
    <3> QED BY <3>1, <3>2, <3>3 DEF IsMoved
  <2>2. ASSUME e.what = "move", i \in Waiting PROVE IsMoved(i)'
    <3>1. n \in Headers' /\ lines'[n].what = "move" /\ i < n /\ lines'[i].what = "update"
      BY <1>1, <1>2, <1>3, <2>2 DEF Waiting
    <3>2. \A k \in Headers' : k <= i \/ n <= k
      BY <1>1, <1>3, <2>2 DEF Waiting, Latest
    <3> QED BY <3>1, <3>2 DEF IsMoved
  <2>3. ASSUME IsMoved(i)', ~IsMoved(i) PROVE e.what = "move" /\ i \in Waiting
    <3>1. PICK j \in Headers' :
            lines'[j].what = "move" /\ i < j /\ \A k \in Headers' : k <= i \/ j <= k
      BY <2>3 DEF IsMoved
    <3>2. lines[i].what = "update" /\ \A k \in Headers : k <= i \/ j <= k
      BY <1>2, <1>3, <2>3, <3>1 DEF IsMoved
    <3>3. j = n /\ e.what # "other"
      BY <1>2, <1>3, <2>3, <3>1, <3>2 DEF IsMoved
    <3>4. Latest(i)
      BY <1>1, <1>2, <3>2, <3>3 DEF Latest
    <3> QED BY <1>1, <3>1, <3>2, <3>3, <3>4 DEF Waiting
  <2> QED BY <2>1, <2>2, <2>3
<1>7. Moved' = Moved \union (IF e.what = "move" THEN Waiting ELSE {})
  <2>1. Waiting \subseteq Headers /\ Moved \subseteq Headers
    BY DEF Waiting, Moved
  <2>2. \A i \in Headers' : i \in Headers \/ i = n
    BY <1>3
  <2>3. \A i : i \in Moved' <=> i \in Headers /\ IsMoved(i)'
    <3>1. \A i : i \in Moved' <=> i \in Headers' /\ IsMoved(i)'
      BY DEF Moved
    <3>2. \A i \in Headers : i \in Headers'
      BY <1>3
    <3>3. \A i \in Headers' : IsMoved(i)' => i \in Headers
      <4> TAKE i \in Headers'
      <4>1. CASE i = n
        BY <1>5, <4>1
      <4> QED BY <2>2, <4>1
    <3> QED BY <3>1, <3>2, <3>3
  <2>4. \A i : i \in Moved <=> i \in Headers /\ IsMoved(i)
    BY DEF Moved
  <2> QED BY <1>6, <2>1, <2>3, <2>4
<1>8. Waiting' = IF e.what = "other" THEN Waiting ELSE IF e.what = "update" THEN {n} ELSE {}
  <2>1. CASE e.what = "other"
    <3>1. Headers' = Headers
      BY <1>3, <2>1
    <3> QED BY <1>2, <2>1, <3>1 DEF Waiting, Latest
  <2>2. CASE e.what # "other"
    <3>1. \A i \in Headers' : Latest(i)' <=> i = n
      BY <1>1, <1>2, <1>3, <2>2 DEF Latest
    <3>2. \A i : i \in Waiting' <=> i = n /\ e.what = "update"
      BY <1>1, <1>3, <2>2, <3>1 DEF Waiting
    <3> QED BY <2>2, <3>2
  <2> QED BY <2>1, <2>2
<1> QED BY <1>1, <1>2, <1>3, <1>4, <1>7, <1>8, <1>0

PathsIn(ls, is) == {ls[i].path : i \in is}

\* What a line adds to the files that are written and to those that are gone.
LEMMA FilesAdded ==
  ASSUME Reading, NEW e \in Line, lines' = Append(lines, e)
  PROVE  /\ e.what = "other" =>
              /\ PathsAt(Waiting)' = Pending /\ PathsAt(Gone)' = PathsAt(Gone)
              /\ PathsAt(Written \ Waiting)' = PathsAt(Written \ Waiting)
         /\ e.what = "update" =>
              /\ PathsAt(Waiting)' = {e.path} /\ PathsAt(Gone)' = PathsAt(Gone)
              /\ PathsAt(Written \ Waiting)' = PathsAt(Written \ Waiting) \union Pending
         /\ e.what \in {"add", "written"} =>
              /\ PathsAt(Waiting)' = {} /\ PathsAt(Gone)' = PathsAt(Gone)
              /\ PathsAt(Written \ Waiting)' = PathsAt(Written \ Waiting) \union Pending \union {e.path}
         /\ e.what = "move" =>
              /\ PathsAt(Waiting)' = {} /\ PathsAt(Gone)' = PathsAt(Gone) \union Pending
              /\ PathsAt(Written \ Waiting)' = PathsAt(Written \ Waiting) \union {e.path}
         /\ e.what \in {"delete", "gone"} =>
              /\ PathsAt(Waiting)' = {} /\ PathsAt(Gone)' = PathsAt(Gone) \union {e.path}
              /\ PathsAt(Written \ Waiting)' = PathsAt(Written \ Waiting) \union Pending
<1> DEFINE n == Len(lines) + 1
<1>1. Typed /\ PathsAt(Waiting) = Pending
  BY DEF Reading
<1>2. /\ lines'[n] = e /\ n \notin Headers
      /\ \A i \in Headers : lines'[i] = lines[i]
      /\ Headers' = Headers \union (IF e.what = "other" THEN {} ELSE {n})
      /\ Moved' = Moved \union (IF e.what = "move" THEN Waiting ELSE {})
      /\ Waiting' = IF e.what = "other" THEN Waiting ELSE IF e.what = "update" THEN {n} ELSE {}
  BY <1>1, HeaderAdded
<1>3. /\ Waiting \subseteq Written /\ Written \subseteq Headers /\ Gone \subseteq Headers
      /\ Moved \subseteq Headers /\ Waiting \intersect Moved = {}
  BY <1>1, HeaderFacts DEF Moved
<1> HIDE DEF n
<1>4. \A whats : HeadersOf(whats)' = HeadersOf(whats) \union
                   (IF e.what # "other" /\ e.what \in whats THEN {n} ELSE {})
  BY <1>2 DEF HeadersOf
<1>5. /\ Written' = (Written \ (IF e.what = "move" THEN Waiting ELSE {})) \union
                      (IF e.what \in {"update", "add", "move", "written"} THEN {n} ELSE {})
      /\ Gone' = Gone \union (IF e.what = "move" THEN Waiting ELSE {}) \union
                   (IF e.what \in {"delete", "gone"} THEN {n} ELSE {})
  BY <1>2, <1>3, <1>4 DEF Written, Gone
<1>6. /\ \A is : is \subseteq Headers => PathsIn(lines', is) = PathsAt(is)
      /\ PathsIn(lines', {n}) = {e.path} /\ PathsIn(lines', {}) = {}
      /\ \A is, js : PathsIn(lines', is \union js) = PathsIn(lines', is) \union PathsIn(lines', js)
  BY <1>2 DEF PathsAt, PathsIn
<1>7. \A is, js : PathsAt(is \union js) = PathsAt(is) \union PathsAt(js)
  BY DEF PathsAt
<1>8. PathsAt(Written) = PathsAt(Written \ Waiting) \union Pending
  <2>1. Written = (Written \ Waiting) \union Waiting
    BY <1>3
  <2> QED BY <1>1, <1>7, <2>1
<1>9. /\ PathsAt(Waiting)' = PathsIn(lines', Waiting')
      /\ PathsAt(Gone)' = PathsIn(lines', Gone')
      /\ PathsAt(Written \ Waiting)' = PathsIn(lines', Written' \ Waiting')
  BY DEF PathsAt, PathsIn
<1>10. /\ Waiting \subseteq Headers /\ Written \ Waiting \subseteq Headers /\ Gone \subseteq Headers
       /\ Written \subseteq Headers /\ n \notin Written
  BY <1>2, <1>3
<1>11. ASSUME e.what = "other"
       PROVE  /\ PathsAt(Waiting)' = Pending /\ PathsAt(Gone)' = PathsAt(Gone)
              /\ PathsAt(Written \ Waiting)' = PathsAt(Written \ Waiting)
  <2>1. Waiting' = Waiting /\ Written' \ Waiting' = Written \ Waiting /\ Gone' = Gone
    BY <1>2, <1>5, <1>11
  <2> QED BY <1>1, <1>6, <1>9, <1>10, <2>1
<1>12. ASSUME e.what = "update"
       PROVE  /\ PathsAt(Waiting)' = {e.path} /\ PathsAt(Gone)' = PathsAt(Gone)
              /\ PathsAt(Written \ Waiting)' = PathsAt(Written \ Waiting) \union Pending
  <2>1. Waiting' = {n} /\ Written' \ Waiting' = Written /\ Gone' = Gone
    BY <1>2, <1>5, <1>10, <1>12
  <2> QED BY <1>6, <1>8, <1>9, <1>10, <2>1
<1>13. ASSUME e.what \in {"add", "written"}
       PROVE  /\ PathsAt(Waiting)' = {} /\ PathsAt(Gone)' = PathsAt(Gone)
              /\ PathsAt(Written \ Waiting)' = PathsAt(Written \ Waiting) \union Pending \union {e.path}
  <2>1. Waiting' = {} /\ Written' \ Waiting' = Written \union {n} /\ Gone' = Gone
    BY <1>2, <1>5, <1>13
  <2>2. PathsIn(lines', Written \union {n}) = PathsAt(Written) \union {e.path}
    BY <1>6, <1>10
  <2> QED BY <1>6, <1>8, <1>9, <1>10, <2>1, <2>2
<1>14. ASSUME e.what = "move"
       PROVE  /\ PathsAt(Waiting)' = {} /\ PathsAt(Gone)' = PathsAt(Gone) \union Pending
              /\ PathsAt(Written \ Waiting)' = PathsAt(Written \ Waiting) \union {e.path}
  <2>1. /\ Waiting' = {} /\ Gone' = Gone \union Waiting
        /\ Written' \ Waiting' = (Written \ Waiting) \union {n}
    BY <1>2, <1>5, <1>14
  <2>2. PathsIn(lines', (Written \ Waiting) \union {n}) = PathsAt(Written \ Waiting) \union {e.path}
    BY <1>6, <1>10
  <2>3. PathsIn(lines', Gone \union Waiting) = PathsAt(Gone) \union Pending
    BY <1>1, <1>6, <1>10
  <2> QED BY <1>6, <1>9, <2>1, <2>2, <2>3
<1>15. ASSUME e.what \in {"delete", "gone"}
       PROVE  /\ PathsAt(Waiting)' = {} /\ PathsAt(Gone)' = PathsAt(Gone) \union {e.path}
              /\ PathsAt(Written \ Waiting)' = PathsAt(Written \ Waiting) \union Pending
  <2>1. Waiting' = {} /\ Written' \ Waiting' = Written /\ Gone' = Gone \union {n}
    BY <1>2, <1>5, <1>10, <1>15
  <2>2. PathsIn(lines', Gone \union {n}) = PathsAt(Gone) \union {e.path}
    <3>1. PathsIn(lines', Gone \union {n}) = PathsIn(lines', Gone) \union PathsIn(lines', {n})
      BY <1>6
    <3> QED BY <1>6, <1>10, <3>1
  <2> QED BY <1>6, <1>8, <1>9, <1>10, <2>1, <2>2
<1> QED BY <1>11, <1>12, <1>13, <1>14, <1>15

-----------------------------------------------------------------------------
(* What is reported *)

LEMMA StepReading == Reading /\ [ReadLine]_patchVars => Reading'
<1> SUFFICES ASSUME Reading, [ReadLine]_patchVars PROVE Reading'
  OBVIOUS
<1>1. /\ Typed /\ ToSet(writes) = PathsAt(Written \ Waiting) /\ ToSet(deletes) = PathsAt(Gone)
      /\ lines \in Seq(Line) /\ pending \in File \union {Nothing}
      /\ writes \in Seq(File) /\ deletes \in Seq(File)
  BY DEF Reading, Typed, Pending
<1>2. /\ Flushed \in Seq(File)
      /\ ToSet(Flushed) = ToSet(writes) \union Pending
  BY <1>1, FlushedFiles
<1>3. ASSUME NEW what \in Directive \union Kind, NEW file \in File,
             Given([what |-> what, path |-> file])
      PROVE  /\ [what |-> what, path |-> file] \in Line
             /\ lines' = Append(lines, [what |-> what, path |-> file]) /\ lines' \in Seq(Line)
  BY <1>1, <1>3 DEF Given, Line
<1>5. ASSUME NEW file \in File, UpdateLine(file) PROVE Reading'
  <2> DEFINE e == [what |-> "update", path |-> file]
  <2>1. e \in Line /\ lines' = Append(lines, e) /\ lines' \in Seq(Line)
    BY <1>3, <1>5 DEF UpdateLine, Directive
  <2>2. writes' = Flushed /\ pending' = file /\ deletes' = deletes /\ file # Nothing
    BY <1>5, NothingAssumption DEF UpdateLine
  <2>3. e.what = "update" /\ e.path = file
    OBVIOUS
  <2> HIDE DEF e
  <2>4. /\ PathsAt(Waiting)' = {file} /\ PathsAt(Gone)' = PathsAt(Gone)
        /\ PathsAt(Written \ Waiting)' = PathsAt(Written \ Waiting) \union Pending
    BY <2>1, <2>3, FilesAdded
  <2>5. Typed' /\ Pending' = {file}
    BY <1>1, <1>2, <2>1, <2>2 DEF Typed, Pending
  <2> QED BY <1>1, <1>2, <2>2, <2>4, <2>5 DEF Reading
<1>6. ASSUME NEW file \in File, AddLine(file) PROVE Reading'
  <2> DEFINE e == [what |-> "add", path |-> file]
  <2>1. e \in Line /\ lines' = Append(lines, e) /\ lines' \in Seq(Line)
    BY <1>3, <1>6 DEF AddLine, Directive
  <2>2. writes' = Appended(Flushed, file) /\ pending' = Nothing /\ deletes' = deletes
    BY <1>6 DEF AddLine
  <2>3. e.what = "add" /\ e.path = file
    OBVIOUS
  <2> HIDE DEF e
  <2>4. writes' \in Seq(File) /\ ToSet(writes') = ToSet(writes) \union Pending \union {file}
    BY <1>2, <2>2, AppendedFile
  <2>5. /\ PathsAt(Waiting)' = {} /\ PathsAt(Gone)' = PathsAt(Gone)
        /\ PathsAt(Written \ Waiting)' = PathsAt(Written \ Waiting) \union Pending \union {file}
    BY <2>1, <2>3, FilesAdded
  <2>6. Typed' /\ Pending' = {}
    BY <1>1, <2>1, <2>2, <2>4 DEF Typed, Pending
  <2> QED BY <1>1, <2>2, <2>4, <2>5, <2>6 DEF Reading
<1>7. ASSUME NEW file \in File, DeleteLine(file) PROVE Reading'
  <2> DEFINE e == [what |-> "delete", path |-> file]
  <2>1. e \in Line /\ lines' = Append(lines, e) /\ lines' \in Seq(Line)
    BY <1>3, <1>7 DEF DeleteLine, Directive
  <2>2. writes' = Flushed /\ pending' = Nothing /\ deletes' = Appended(deletes, file)
    BY <1>7 DEF DeleteLine
  <2>3. e.what = "delete" /\ e.path = file
    OBVIOUS
  <2> HIDE DEF e
  <2>4. deletes' \in Seq(File) /\ ToSet(deletes') = ToSet(deletes) \union {file}
    BY <1>1, <2>2, AppendedFile
  <2>5. /\ PathsAt(Waiting)' = {} /\ PathsAt(Gone)' = PathsAt(Gone) \union {file}
        /\ PathsAt(Written \ Waiting)' = PathsAt(Written \ Waiting) \union Pending
    BY <2>1, <2>3, FilesAdded
  <2>6. Typed' /\ Pending' = {}
    BY <1>1, <1>2, <2>1, <2>2, <2>4 DEF Typed, Pending
  <2> QED BY <1>1, <1>2, <2>2, <2>4, <2>5, <2>6 DEF Reading
<1>8. ASSUME NEW file \in File, MoveLine(file) PROVE Reading'
  <2> DEFINE e == [what |-> "move", path |-> file]
  <2>1. e \in Line /\ lines' = Append(lines, e) /\ lines' \in Seq(Line)
    BY <1>3, <1>8 DEF MoveLine, Directive
  <2>2. /\ writes' = Appended(writes, file) /\ pending' = Nothing
        /\ deletes' = IF pending = Nothing THEN deletes ELSE Appended(deletes, pending)
    BY <1>8 DEF MoveLine
  <2>3. e.what = "move" /\ e.path = file
    OBVIOUS
  <2>4. /\ deletes' \in Seq(File)
        /\ ToSet(deletes') = ToSet(deletes) \union Pending
    BY <1>1, <2>2, AppendedFile DEF Pending
  <2>5. writes' \in Seq(File) /\ ToSet(writes') = ToSet(writes) \union {file}
    BY <1>1, <2>2, AppendedFile
  <2> HIDE DEF e
  <2>6. /\ PathsAt(Waiting)' = {} /\ PathsAt(Gone)' = PathsAt(Gone) \union Pending
        /\ PathsAt(Written \ Waiting)' = PathsAt(Written \ Waiting) \union {file}
    BY <2>1, <2>3, FilesAdded
  <2>7. Typed' /\ Pending' = {}
    BY <2>1, <2>2, <2>4, <2>5 DEF Typed, Pending
  <2> QED BY <1>1, <2>4, <2>5, <2>6, <2>7 DEF Reading
<1>9. ASSUME NEW file \in File, OtherLine(file) PROVE Reading'
  <2> DEFINE e == [what |-> "other", path |-> file]
  <2>1. e \in Line /\ lines' = Append(lines, e) /\ lines' \in Seq(Line)
    BY <1>3, <1>9 DEF OtherLine, Directive
  <2>2. UNCHANGED <<pending, writes, deletes>>
    BY <1>9 DEF OtherLine
  <2>3. e.what = "other"
    OBVIOUS
  <2> HIDE DEF e
  <2> QED BY <1>1, <2>1, <2>2, <2>3, FilesAdded DEF Reading, Typed, Pending
<1>10. ASSUME NEW file \in File, NEW kind \in Kind, ChangesEntry(kind, file) PROVE Reading'
  <2> DEFINE e == [what |-> kind, path |-> file]
  <2>1. e \in Line /\ lines' = Append(lines, e) /\ lines' \in Seq(Line)
    BY <1>3, <1>10 DEF ChangesEntry
  <2>2. /\ writes' = IF kind = "written" THEN Appended(Flushed, file) ELSE Flushed
        /\ deletes' = IF kind = "gone" THEN Appended(deletes, file) ELSE deletes
        /\ pending' = Nothing /\ kind \in {"written", "gone"}
    BY <1>10 DEF ChangesEntry, Kind
  <2>3. e.what = kind /\ e.path = file
    OBVIOUS
  <2> HIDE DEF e
  <2>4. CASE kind = "written"
    <3>1. /\ writes' \in Seq(File) /\ ToSet(writes') = ToSet(writes) \union Pending \union {file}
          /\ deletes' = deletes
      BY <1>2, <2>2, <2>4, AppendedFile
    <3>2. /\ PathsAt(Waiting)' = {} /\ PathsAt(Gone)' = PathsAt(Gone)
          /\ PathsAt(Written \ Waiting)' = PathsAt(Written \ Waiting) \union Pending \union {file}
      BY <2>1, <2>3, <2>4, FilesAdded
    <3>3. Typed' /\ Pending' = {}
      BY <1>1, <2>1, <2>2, <3>1 DEF Typed, Pending
    <3> QED BY <1>1, <3>1, <3>2, <3>3 DEF Reading
  <2>5. CASE kind = "gone"
    <3>1. /\ writes' \in Seq(File) /\ ToSet(writes') = ToSet(writes) \union Pending
          /\ deletes' \in Seq(File) /\ ToSet(deletes') = ToSet(deletes) \union {file}
      BY <1>1, <1>2, <2>2, <2>5, AppendedFile
    <3>2. /\ PathsAt(Waiting)' = {} /\ PathsAt(Gone)' = PathsAt(Gone) \union {file}
          /\ PathsAt(Written \ Waiting)' = PathsAt(Written \ Waiting) \union Pending
      BY <2>1, <2>3, <2>5, FilesAdded
    <3>3. Typed' /\ Pending' = {}
      BY <1>1, <2>1, <2>2, <3>1 DEF Typed, Pending
    <3> QED BY <1>1, <3>1, <3>2, <3>3 DEF Reading
  <2> QED BY <2>2, <2>4, <2>5
<1>11. CASE UNCHANGED patchVars
  <2>1. lines' = lines /\ pending' = pending /\ writes' = writes /\ deletes' = deletes
    BY <1>11 DEF patchVars
  <2>2. Headers' = Headers
    BY <2>1 DEF Headers
  <2>3. \A i : IsMoved(i)' <=> IsMoved(i)
    BY <2>1, <2>2 DEF IsMoved
  <2>4. Moved' = Moved /\ Waiting' = Waiting /\ \A whats : HeadersOf(whats)' = HeadersOf(whats)
    BY <2>1, <2>2, <2>3 DEF Moved, Waiting, Latest, HeadersOf
  <2>5. Written' = Written /\ Gone' = Gone
    BY <2>4 DEF Written, Gone
  <2>6. \A is : PathsAt(is)' = PathsAt(is)
    BY <2>1 DEF PathsAt
  <2>7. PathsAt(Waiting)' = PathsAt(Waiting) /\ PathsAt(Gone)' = PathsAt(Gone)
        /\ PathsAt(Written \ Waiting)' = PathsAt(Written \ Waiting)
    BY <2>1, <2>4, <2>5 DEF PathsAt
  <2>8. Typed' /\ Pending' = Pending
    BY <1>1, <2>1 DEF Typed, Pending
  <2> QED BY <1>1, <2>1, <2>7, <2>8 DEF Reading
<1> QED BY <1>5, <1>6, <1>7, <1>8, <1>9, <1>10, <1>11 DEF ReadLine

\* The hook asks the daemon about exactly the files an edit changes, and denies it
\* unasked exactly when it names none (touched_paths).
THEOREM TouchedPathsAreReported == PatchSpec => []EveryTouchedPathReported
<1>1. Unread => Reading
  <2> SUFFICES ASSUME Unread PROVE Reading
    OBVIOUS
  <2>1. Headers = {}
    BY DEF Unread, Headers
  <2>2. Waiting = {} /\ Written = {} /\ Gone = {}
    BY <2>1 DEF Waiting, Written, Gone, HeadersOf, Moved
  <2>3. PathsAt({}) = {} /\ ToSet(<<>>) = {}
    BY DEF PathsAt, ToSet
  <2>4. PathsAt(Waiting) = {} /\ PathsAt(Written \ Waiting) = {} /\ PathsAt(Gone) = {}
    BY <2>2, <2>3
  <2>5. Typed /\ Pending = {}
    BY DEF Unread, Typed, Pending
  <2> QED BY <2>3, <2>4, <2>5 DEF Unread, Reading
<1>2. Reading => EveryTouchedPathReported
  <2> SUFFICES ASSUME Reading PROVE EveryTouchedPathReported
    OBVIOUS
  <2>1. Typed /\ Flushed \in Seq(File) /\ deletes \in Seq(File)
    BY FlushedFiles DEF Reading, Typed, Pending
  <2>2. ToSet(Flushed) = PathsAt(Written)
    <3>1. Written = (Written \ Waiting) \union Waiting
      BY <2>1, HeaderFacts
    <3>2. \A is, js : PathsAt(is \union js) = PathsAt(is) \union PathsAt(js)
      BY DEF PathsAt
    <3>3. PathsAt(Written) = PathsAt(Written \ Waiting) \union PathsAt(Waiting)
      BY <3>1, <3>2
    <3> QED BY <2>1, <3>3, FlushedFiles DEF Reading
  <2>3. ToSet(deletes) = PathsAt(Gone)
    BY DEF Reading
  <2>4. Flushed \o deletes = <<>> <=> Headers = {}
    <3>1. Flushed \o deletes = <<>> <=> Flushed = <<>> /\ deletes = <<>>
      BY <2>1
    <3>2. \A paths \in Seq(File) : paths = <<>> <=> ToSet(paths) = {}
      BY DEF ToSet
    <3>3. \A is : PathsAt(is) = {} <=> is = {}
      BY DEF PathsAt
    <3>4. Written \union Gone = Headers
      <4>1. \A i \in Headers : lines[i].what \in (Directive \union Kind) \ {"other"}
        BY <2>1, HeaderFacts DEF Headers, Line
      <4>2. \A i \in Headers :
              i \in HeadersOf({"update", "add", "move", "written"}) \union HeadersOf({"delete", "gone"})
        BY <4>1 DEF HeadersOf, Directive, Kind
      <4> QED BY <2>1, <4>2, HeaderFacts DEF Written, Gone
    <3> QED BY <2>1, <2>2, <2>3, <3>1, <3>2, <3>3, <3>4
  <2> QED BY <2>2, <2>3, <2>4 DEF EveryTouchedPathReported, Touched, Written, Gone
<1> QED BY <1>1, <1>2, StepReading, PTL DEF PatchSpec
=============================================================================
