----------------------------- MODULE ByteStream -----------------------------
(***************************************************************************)
(* What terminal.OutputBatcher promises (src/internal/terminal/stream.go): *)
(* the bytes handed to Add reach the emit callback in their order, each    *)
(* exactly once, and none stays behind.                                    *)
(***************************************************************************)
EXTENDS Naturals, Sequences

CONSTANT Byte

VARIABLES
  added,    \* every byte the stream has accepted
  emitted   \* every byte that has come out of it

Init ==
  /\ added = <<>>
  /\ emitted = <<>>

\* Some bytes are accepted.
Accept ==
  /\ added' \in Seq(Byte)
  /\ Len(added') > Len(added)
  /\ SubSeq(added', 1, Len(added)) = added
  /\ UNCHANGED emitted

\* Some of the bytes that wait come out, the oldest first.
Emit ==
  /\ \E n \in (Len(emitted) + 1)..Len(added) : emitted' = SubSeq(added, 1, n)
  /\ UNCHANGED added

Next == Accept \/ Emit

vars == <<added, emitted>>

Spec == Init /\ [][Next]_vars /\ WF_vars(Emit)
=============================================================================
