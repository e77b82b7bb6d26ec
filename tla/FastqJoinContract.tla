------------------------- MODULE FastqJoinContract -------------------------
(***************************************************************************)
(* What --fastq_join promises, with no buffers, headers or outputs: the    *)
(* pairs of the two files are emitted one at a time in file order, and a   *)
(* run either ends normally, having emitted every pair of two files of     *)
(* equal length, or fails.  It fails only for a reason: the options or     *)
(* the outputs are unusable (then nothing was emitted), or the files have  *)
(* different lengths (then every pair the shorter file forms was emitted   *)
(* first).                                                                 *)
(***************************************************************************)
EXTENDS Naturals, Sequences

VARIABLES
  fwd,       \* the forward reads
  rev,       \* the reverse reads
  usable,    \* the options are consistent and every output could be opened
  emitted,   \* number of pairs emitted so far
  status     \* "running", "done" or "failed"

vars == <<fwd, rev, usable, emitted, status>>

\* Pairs the two files form.
Common == IF Len(fwd) <= Len(rev) THEN Len(fwd) ELSE Len(rev)

Init ==
  /\ emitted = 0
  /\ status = "running"

\* The next pair, in file order.
Emit ==
  /\ status = "running" /\ usable
  /\ emitted < Common
  /\ emitted' = emitted + 1
  /\ UNCHANGED <<fwd, rev, usable, status>>

\* Every pair emitted and no read left over in either file.
Complete ==
  /\ status = "running" /\ usable
  /\ Len(fwd) = Len(rev) /\ emitted = Len(fwd)
  /\ status' = "done"
  /\ UNCHANGED <<fwd, rev, usable, emitted>>

\* Unusable options or outputs, before any pair; or files of different
\* lengths, once every common pair is out.
Fail ==
  /\ status = "running"
  /\ \/ ~usable /\ emitted = 0
     \/ usable /\ Len(fwd) # Len(rev) /\ emitted = Common
  /\ status' = "failed"
  /\ UNCHANGED <<fwd, rev, usable, emitted>>

Next == Emit \/ Complete \/ Fail

Spec == Init /\ [][Next]_vars /\ WF_vars(Next)

=============================================================================
