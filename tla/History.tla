------------------------------ MODULE History ------------------------------
(***************************************************************************)
(* The loop detector's ring buffer, tractus-core/src/history.rs.           *)
(*                                                                         *)
(* A shape stands for all of an argv that command_signature hashes: the    *)
(* program, the first argument when it is not a flag, and the sorted       *)
(* flags.  Two argvs with the same shape are the same command here, as     *)
(* they are to the detector.                                               *)
(*                                                                         *)
(* run and seg are auxiliary, read by properties only: the execution an    *)
(* entry comes from and the segment's place in the compound.               *)
(***************************************************************************)
EXTENDS Naturals, Sequences, FiniteSets

CONSTANTS
  Shape,      \* what command_signature keeps of an argv
  Window,     \* WINDOW_SIZE, 20 in the code
  Threshold   \* identical failures that make a loop, 3 in the code

ASSUME WindowAssumption == Window \in Nat \ {0}
ASSUME ThresholdAssumption == Threshold \in Nat \ {0}

ExitClass == {"success", "nonzero", "signal"}

IsFailure(class) == class # "success"

\* The exit class is hashed too, so the same argv failing in two ways has two
\* signatures.
Signature(shape, class) == <<shape, class>>

Entry(shape, class, run, seg) ==
  [sig |-> Signature(shape, class), failed |-> IsFailure(class),
   run |-> run, seg |-> seg]

EntryOf(Run) ==
  [sig : Shape \X ExitClass, failed : BOOLEAN, run : Run, seg : Nat]

(***************************************************************************)
(* The caller records every segment of one compound with the exit class of *)
(* the whole (server.rs record_report); pushing each and popping the front *)
(* beyond WINDOW_SIZE leaves the last Window entries of the concatenation. *)
(***************************************************************************)
\* Seeded fault: the front is popped one entry too late.
LateTrim(log) ==
  IF Len(log) > Window + 1 THEN SubSeq(log, Len(log) - Window, Len(log)) ELSE log

LastEntries(log) ==
  IF Len(log) > Window THEN SubSeq(log, Len(log) - Window + 1, Len(log)) ELSE log

RecordExecutions(h, shapes, class, run) ==
  LastEntries(h \o [k \in DOMAIN shapes |-> Entry(shapes[k], class, run, k)])

-----------------------------------------------------------------------------

\* The positions at which loop_detected's scan would have returned: a failure
\* that is at least the Threshold-th with its signature.
FailuresUpTo(h, k) == {j \in 1 .. k : h[j].failed /\ h[j].sig = h[k].sig}

Repeats(h) ==
  {k \in DOMAIN h : h[k].failed /\ Cardinality(FailuresUpTo(h, k)) >= Threshold}

First(S) == CHOOSE k \in S : \A j \in S : k <= j

LoopDetected(h) == Repeats(h) # {}

LoopSignature(h) == h[First(Repeats(h))].sig
=============================================================================
