---------------------------- MODULE OutputBuffer ----------------------------
(***************************************************************************)
(* The output buffer of one launch (src/internal/daemon/output.go): a ring *)
(* of the last Limit bytes and a terminal emulator that has seen them all. *)
(* A byte is named by its position in the output of the launch, so that a  *)
(* byte that is lost, repeated or overwritten shows.                       *)
(***************************************************************************)
EXTENDS Integers, Sequences

CONSTANTS
  Limit,  \* historyLimit
  Chunk   \* the most bytes one read returns

ASSUME LimitAssumption == Limit \in Nat \ {0}
ASSUME ChunkAssumption == Chunk \in Nat \ {0}

Output == [ring: [0..(Limit - 1) -> Int], start: Nat, end: Nat, exited: BOOLEAN]

newOutput == [ring |-> [k \in 0..(Limit - 1) |-> -1],
              start |-> 0, end |-> 0, exited |-> FALSE]

\* Mutant: start is left behind when the ring wraps.
AppendWithoutTruncation(o, n) ==
  LET end == o.end + n
      newest(k) == {j \in o.end..(end - 1) : j % Limit = k /\ j >= end - Limit}
  IN [o EXCEPT
        !.ring = [k \in 0..(Limit - 1) |->
                    IF newest(k) = {} THEN o.ring[k] ELSE CHOOSE j \in newest(k) : TRUE],
        !.end = end]

(***************************************************************************)
(* append: n bytes go round the ring from end on; of those that fall on    *)
(* one slot the last stays.                                                *)
(***************************************************************************)
append(o, n) ==
  LET end == o.end + n
      newest(k) == {j \in o.end..(end - 1) : j % Limit = k /\ j >= end - Limit}
  IN [o EXCEPT
        !.ring = [k \in 0..(Limit - 1) |->
                    IF newest(k) = {} THEN o.ring[k] ELSE CHOOSE j \in newest(k) : TRUE],
        !.end = end,
        !.start = IF end > Limit THEN end - Limit ELSE o.start]

exit(o) == [o EXCEPT !.exited = TRUE]

rangeBytes(o, from, to) == [k \in 1..(to - from) |-> o.ring[(from + k - 1) % Limit]]

\* The bytes of an output from one position up to another, in order.
Piece(from, to) == [k \in 1..(to - from) |-> from + k - 1]

(***************************************************************************)
(* A snapshot redraws the screen of the emulator and, newest first, the    *)
(* lines above it until the limit of bytes, or the scrollback of the       *)
(* emulator, is reached; above the alternate screen it redraws nothing.    *)
(* oldest is how far that goes back: what was printed decides, and it may  *)
(* be nothing at all, for a screen that has been cleared.  Up to o.end     *)
(* nothing is left out: append feeds the emulator under the lock the       *)
(* snapshot takes.                                                         *)
(***************************************************************************)
snapshot(o, oldest) ==
  [snapshot |-> TRUE, data |-> Piece(oldest, o.end), sequence |-> o.end, exited |-> o.exited]

\* read returns at once; otherwise it waits for the next append or exit.
Ready(o, sequence) == sequence < o.start \/ sequence < o.end \/ o.exited

\* Mutant: exited is reported before the last bytes are.
ReadExitedEarly(o, sequence, oldest) ==
  IF sequence < o.start THEN snapshot(o, oldest)
  ELSE LET from == IF sequence > o.end THEN o.end ELSE sequence
           to == IF from + Chunk > o.end THEN o.end ELSE from + Chunk
       IN [snapshot |-> FALSE, data |-> rangeBytes(o, from, to),
           sequence |-> to, exited |-> o.exited]

\* Mutant: a reader that has just not been overtaken is given a snapshot.
ReadRedrawsTooSoon(o, sequence, oldest) ==
  IF sequence <= o.start THEN snapshot(o, oldest)
  ELSE LET from == IF sequence > o.end THEN o.end ELSE sequence
           to == IF from + Chunk > o.end THEN o.end ELSE from + Chunk
       IN [snapshot |-> FALSE, data |-> rangeBytes(o, from, to),
           sequence |-> to, exited |-> o.exited /\ to = o.end]

(***************************************************************************)
(* read: a reader that is too far behind is given a snapshot instead.      *)
(* (Without an emulator, which only tests do, it would skip ahead.)        *)
(***************************************************************************)
read(o, sequence, oldest) ==
  IF sequence < o.start THEN snapshot(o, oldest)
  ELSE LET from == IF sequence > o.end THEN o.end ELSE sequence
           to == IF from + Chunk > o.end THEN o.end ELSE from + Chunk
       IN [snapshot |-> FALSE, data |-> rangeBytes(o, from, to),
           sequence |-> to, exited |-> o.exited /\ to = o.end]

-----------------------------------------------------------------------------
\* The ring holds the last Limit bytes, each where readers look for it.
RingHolds(o) ==
  /\ o.start = (IF o.end > Limit THEN o.end - Limit ELSE 0)
  /\ \A i \in o.start..(o.end - 1) : o.ring[i % Limit] = i
=============================================================================
