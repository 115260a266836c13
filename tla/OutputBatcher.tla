--------------------------- MODULE OutputBatcher ---------------------------
(***************************************************************************)
(* terminal.OutputBatcher (src/internal/terminal/stream.go): the output of *)
(* a shell is collected and emitted in batches, from Add when a batch is   *)
(* full, from a timer otherwise.  A frame whose cursor the application has *)
(* yet to put back is held until the cursor is shown, for a limited time.  *)
(*                                                                         *)
(* A byte is ordinary or is the last byte of one of the three control      *)
(* sequences the code looks for; sequenceTail makes a sequence count in    *)
(* the chunk that completes it, wherever the earlier chunks were cut.      *)
(* b.mu is only taken under b.emitMu and never kept while emitting, so     *)
(* what happens under it is one action; emitMu is kept while a batch is    *)
(* emitted, and the emit callback may take its time.                       *)
(*                                                                         *)
(* Time passes in intervals of the ticker.  An instant is kept as its      *)
(* distance from now, which is all the code looks at.                      *)
(***************************************************************************)
EXTENDS Naturals, Sequences, SequencesExt

CONSTANTS
  MaxBytes,  \* size of a batch, maxBytes
  Delay,     \* SynchronizedOutputRepairDelay, in intervals of the ticker
  None,      \* a zero time.Time; nobody holding emitMu
  MaxChunk,  \* bound: bytes in one call of Add
  MaxAdded   \* bound: bytes added in all

\* readOutput, which calls Add; the goroutine of run; the caller of Close.
Thread == {"reader", "runner", "closer"}

ASSUME BatcherAssumption ==
  /\ MaxBytes \in Nat \ {0}
  /\ Delay \in Nat \ {0}
  /\ MaxChunk \in Nat \ {0}
  /\ MaxAdded \in Nat
  /\ None \notin Nat \cup Thread

VARIABLES
  buffer,          \* b.buffer
  closed,          \* b.closed
  syncDeadline,    \* time left until b.syncDeadline, 0 when it has passed
  syncEndPending,  \* b.syncEndPending
  cursorHidden,    \* b.cursorHidden
  syncHeldSince,   \* time since b.syncHeldSince, at most Delay
  emitMu,          \* the thread holding b.emitMu
  payload,         \* per thread: bytes taken from the buffer, to be emitted
  pc,              \* per thread: what it is doing
  tick,            \* ticker.C has a tick
  stop,            \* b.stop is closed
  added,           \* history: the bytes Add has accepted
  emitted,         \* history: the bytes given to emit
  held             \* history: how long a deadline has held back what is in the
                   \* buffer since the timer began to pass over it, None if
                   \* it has not; at most HoldLimit

vars == <<buffer, closed, syncDeadline, syncEndPending, cursorHidden,
          syncHeldSince, emitMu, payload, pc, tick, stop, added, emitted, held>>

(***************************************************************************)
(* "x" ordinary output; "end" the end of a synchronized update (?2026l);   *)
(* "show" and "hide" the cursor (?25h, ?25l).                              *)
(***************************************************************************)
Byte == {"x", "end", "show", "hide"}

Chunks == UNION {[1..n -> Byte] : n \in 1..MaxChunk}
Time == 0..Delay

(***************************************************************************)
(* A wait that outlives its frame, because the frame left in a full batch, *)
(* still delays what comes next, which may end in a frame with a delay of  *)
(* its own.                                                                *)
(***************************************************************************)
HoldLimit == 2 * Delay

TypeOK ==
  /\ buffer \in Seq(Byte)
  /\ Len(buffer) < MaxBytes
  /\ closed \in BOOLEAN
  /\ syncDeadline \in Time \cup {None}
  /\ syncEndPending \in BOOLEAN
  /\ cursorHidden \in BOOLEAN
  /\ syncHeldSince \in Time \cup {None}
  /\ emitMu \in Thread \cup {None}
  /\ payload \in [Thread -> Seq(Byte)]
  /\ pc \in [Thread -> {"idle", "emitting", "stopping", "waiting", "done"}]
  /\ tick \in BOOLEAN
  /\ stop \in BOOLEAN
  /\ added \in Seq(Byte)
  /\ emitted \in Seq(Byte)
  /\ held \in 0..HoldLimit \cup {None}

-----------------------------------------------------------------------------
\* The cursor after some bytes: the last of ?25h and ?25l in them decides.
cursorHiddenAfter(bytes, hidden) ==
  LET last == SelectLastInSeq(bytes, LAMBDA b : b \in {"show", "hide"})
  IN  IF last = 0 THEN hidden ELSE bytes[last] = "hide"

Shown(bytes) == Contains(bytes, "show")
Before(bytes, i) == SubSeq(bytes, 1, i - 1)
After(bytes, i) == SubSeq(bytes, i + 1, Len(bytes))

\* Mutant: every frame that ends starts the delay anew.
trackPostponing(bytes) ==
  LET end == SelectLastInSeq(bytes, LAMBDA b : b = "end")
      holds == end # 0 /\ ~cursorHiddenAfter(Before(bytes, end), cursorHidden)
      over == IF end = 0 THEN syncEndPending /\ Shown(bytes) ELSE Shown(After(bytes, end))
  IN  /\ syncHeldSince' = IF holds THEN 0 ELSE syncHeldSince
      /\ syncDeadline' = IF over THEN None ELSE IF holds THEN Delay ELSE syncDeadline
      /\ syncEndPending' = (~over /\ (holds \/ syncEndPending))
      /\ cursorHidden' = cursorHiddenAfter(bytes, cursorHidden)

(***************************************************************************)
(* A chunk that shows the cursor ends the wait for it.  The last frame end *)
(* of the chunk then starts a wait if the cursor is visible there, anchored *)
(* to the first frame held, unless the cursor is shown after it.           *)
(***************************************************************************)
trackSynchronizedOutput(bytes) ==
  LET end == SelectLastInSeq(bytes, LAMBDA b : b = "end")
      repaired == syncEndPending /\ Shown(bytes)
      holds == end # 0 /\ ~cursorHiddenAfter(Before(bytes, end), cursorHidden)
      over == end # 0 /\ Shown(After(bytes, end))
      since == IF holds /\ syncHeldSince = None THEN 0 ELSE syncHeldSince
  IN  /\ syncHeldSince' = since
      /\ syncDeadline' = CASE over -> None
                           [] holds /\ ~over -> Delay - since
                           [] ~holds /\ ~over /\ repaired -> None
                           [] OTHER -> syncDeadline
      /\ syncEndPending' = (~over /\ (holds \/ (syncEndPending /\ ~repaired)))
      /\ cursorHidden' = cursorHiddenAfter(bytes, cursorHidden)

\* Mutant: emitMu is let go before the batch is emitted.
LockEmitUntilTaken(t) == UNCHANGED emitMu

LockEmit(t) ==
  /\ emitMu = None
  /\ emitMu' = t

Goto(t, label) == pc' = [pc EXCEPT ![t] = label]

\* The bytes of n that go out in full batches.
FullBatches(n) == n - (n % MaxBytes)

\* Everything in the buffer becomes what thread t emits.
TakeBuffer(t) ==
  /\ payload' = [payload EXCEPT ![t] = buffer]
  /\ buffer' = <<>>

sync == <<syncDeadline, syncEndPending, cursorHidden, syncHeldSince>>

-----------------------------------------------------------------------------
Init ==
  /\ buffer = <<>>
  /\ closed = FALSE
  /\ syncDeadline = None
  /\ syncEndPending = FALSE
  /\ cursorHidden = FALSE
  /\ syncHeldSince = None
  /\ emitMu = None
  /\ payload = [t \in Thread |-> <<>>]
  /\ pc = [t \in Thread |-> "idle"]
  /\ tick = FALSE
  /\ stop = FALSE
  /\ added = <<>>
  /\ emitted = <<>>
  /\ held = None

\* Mutant: Add forgets that the batcher is closed.
AddToClosed(data) ==
  LET whole == buffer \o data
      full == FullBatches(Len(whole))
  IN  /\ pc["reader"] = "idle"
      /\ Len(added) + Len(data) <= MaxAdded
      /\ LockEmit("reader")
      /\ Goto("reader", "emitting")
      /\ trackSynchronizedOutput(data)
      /\ payload' = [payload EXCEPT !["reader"] = SubSeq(whole, 1, full)]
      /\ buffer' = SubSeq(whole, full + 1, Len(whole))
      /\ added' = added \o data
      /\ held' = IF full > 0 THEN None ELSE held
      /\ UNCHANGED <<closed, tick, stop, emitted>>

(***************************************************************************)
(* Add: full batches are cut off the buffer, and emitted by this call.     *)
(* An Add on a closed batcher drops its bytes and changes nothing.         *)
(***************************************************************************)
Add(data) ==
  LET whole == buffer \o data
      full == FullBatches(Len(whole))
  IN  /\ pc["reader"] = "idle"
      /\ Len(added) + Len(data) <= MaxAdded
      /\ ~closed
      /\ LockEmit("reader")
      /\ Goto("reader", "emitting")
      /\ trackSynchronizedOutput(data)
      /\ payload' = [payload EXCEPT !["reader"] = SubSeq(whole, 1, full)]
      /\ buffer' = SubSeq(whole, full + 1, Len(whole))
      /\ added' = added \o data
      /\ held' = IF full > 0 THEN None ELSE held
      /\ UNCHANGED <<closed, tick, stop, emitted>>

(***************************************************************************)
(* emitAll: one batch after the other goes to the callback.                *)
(***************************************************************************)
Emit(t) ==
  LET n == IF Len(payload[t]) < MaxBytes THEN Len(payload[t]) ELSE MaxBytes
  IN  /\ payload[t] # <<>>
      /\ emitted' = emitted \o SubSeq(payload[t], 1, n)
      /\ payload' = [payload EXCEPT ![t] = SubSeq(@, n + 1, Len(@))]
      /\ UNCHANGED <<buffer, closed, sync, emitMu, pc, tick, stop, added, held>>

\* The end of Add, of flushOnTimer and of the last Flush: emitMu is unlocked.
Finish(t) ==
  /\ pc[t] \in {"emitting", "stopping"}
  /\ t # "closer"
  /\ payload[t] = <<>>
  /\ emitMu' = None
  /\ Goto(t, IF pc[t] = "stopping" THEN "done" ELSE "idle")
  /\ UNCHANGED <<buffer, closed, sync, payload, tick, stop, added, emitted, held>>

\* The deadline lies in the future.
MustHold == syncDeadline # None /\ syncDeadline # 0

\* flushOnTimer, on an empty buffer.
TimerFindsNothing ==
  /\ pc["runner"] = "idle" /\ tick
  /\ emitMu = None
  /\ buffer = <<>>
  /\ tick' = FALSE
  /\ syncHeldSince' = None
  /\ held' = None
  /\ UNCHANGED <<buffer, closed, syncDeadline, syncEndPending, cursorHidden,
                 emitMu, payload, pc, stop, added, emitted>>

\* flushOnTimer, when the frame in the buffer still has to be held.
TimerHolds ==
  /\ pc["runner"] = "idle" /\ tick
  /\ emitMu = None
  /\ buffer # <<>> /\ MustHold
  /\ tick' = FALSE
  /\ held' = IF held = None THEN 0 ELSE held
  /\ UNCHANGED <<buffer, closed, sync, emitMu, payload, pc, stop, added, emitted>>

\* flushOnTimer, otherwise.
TimerFlushes ==
  /\ pc["runner"] = "idle" /\ tick
  /\ buffer # <<>> /\ ~MustHold
  /\ LockEmit("runner")
  /\ tick' = FALSE
  /\ TakeBuffer("runner")
  /\ syncDeadline' = None
  /\ syncEndPending' = FALSE
  /\ syncHeldSince' = None
  /\ held' = None
  /\ Goto("runner", "emitting")
  /\ UNCHANGED <<closed, cursorHidden, stop, added, emitted>>

\* run, after stop: one last Flush.
RunnerStops ==
  /\ pc["runner"] = "idle" /\ stop
  /\ LockEmit("runner")
  /\ TakeBuffer("runner")
  /\ Goto("runner", "stopping")
  /\ UNCHANGED <<closed, sync, tick, stop, added, emitted, held>>

\* Close, up to the point where it emits what was left.
Close ==
  /\ pc["closer"] = "idle"
  /\ LockEmit("closer")
  /\ closed' = TRUE
  /\ TakeBuffer("closer")
  /\ Goto("closer", "emitting")
  /\ UNCHANGED <<sync, tick, stop, added, emitted, held>>

\* Close: the run goroutine is told to stop, and waited for.
CloseStops ==
  /\ pc["closer"] = "emitting"
  /\ payload["closer"] = <<>>
  /\ stop' = TRUE
  /\ emitMu' = None
  /\ Goto("closer", "waiting")
  /\ UNCHANGED <<buffer, closed, sync, payload, tick, added, emitted, held>>

CloseReturns ==
  /\ pc["closer"] = "waiting"
  /\ pc["runner"] = "done"
  /\ Goto("closer", "done")
  /\ UNCHANGED <<buffer, closed, sync, emitMu, payload, tick, stop, added, emitted, held>>

\* An interval of the ticker goes by; its channel holds one tick.
Pass ==
  /\ pc["runner"] # "done"
  /\ tick' = TRUE
  /\ syncDeadline' = IF syncDeadline \in 1..Delay THEN syncDeadline - 1 ELSE syncDeadline
  /\ syncHeldSince' = IF syncHeldSince \in 0..(Delay - 1) THEN syncHeldSince + 1 ELSE syncHeldSince
  /\ held' = IF MustHold /\ held \in 0..(HoldLimit - 1) THEN held + 1 ELSE held
  /\ UNCHANGED <<buffer, closed, syncEndPending, cursorHidden, emitMu, payload,
                 pc, stop, added, emitted>>

Runner == TimerFindsNothing \/ TimerHolds \/ TimerFlushes \/ RunnerStops

Next ==
  \/ \E data \in Chunks : Add(data)
  \/ \E t \in Thread : Emit(t) \/ Finish(t)
  \/ Runner
  \/ Close \/ CloseStops \/ CloseReturns
  \/ Pass

(***************************************************************************)
(* The clock goes on; Go's scheduler runs every goroutine, the callback    *)
(* returns, and a thread that waits for emitMu gets it at last.  Neither   *)
(* more output nor a Close is assumed to come.                             *)
(***************************************************************************)
Fairness ==
  /\ WF_vars(Pass)
  /\ SF_vars(Runner)
  /\ \A t \in Thread : WF_vars(Emit(t)) /\ WF_vars(Finish(t))
  /\ WF_vars(CloseStops)
  /\ WF_vars(CloseReturns)

Spec == Init /\ [][Next]_vars /\ Fairness

-----------------------------------------------------------------------------
(***************************************************************************)
(* Once Close has returned, every byte Add had accepted has been emitted   *)
(* and no thread has anything left to emit.  Session.waitForExit relies on *)
(* it: it announces the exit of the shell after Close.                     *)
(***************************************************************************)
ClosedMeansDrained ==
  pc["closer"] = "done" =>
    /\ emitted = added
    /\ \A t \in Thread : payload[t] = <<>>

(***************************************************************************)
(* Output waits only while a cursor is to be put back: the program ended a *)
(* frame with the cursor visible and has not shown the cursor since.       *)
(* Programs that draw with a hidden cursor are never slowed down ("must    *)
(* not wait for a ?25h that never arrives").                               *)
(***************************************************************************)
HeldOnlyForCursor ==
  MustHold =>
    \E i \in DOMAIN added :
      /\ added[i] = "end"
      /\ ~cursorHiddenAfter(Before(added, i), FALSE)
      /\ ~Shown(After(added, i))

(***************************************************************************)
(* The state at any moment: the types, that a closed batcher has emitted   *)
(* everything, and that output is held back for nothing but a cursor.      *)
(***************************************************************************)
BatcherInv == TypeOK /\ ClosedMeansDrained /\ HeldOnlyForCursor

(***************************************************************************)
(* Whatever the program prints, and however often it ends a frame, output  *)
(* that the timer passes over is not passed over any more when deadlines   *)
(* have held it for twice the repair delay ("back-to-back frames ...       *)
(* cannot postpone the flush indefinitely").  Time in which the goroutine  *)
(* of the timer is late does not count.                                    *)
(***************************************************************************)
HeldForLimitAtMost == [][TimerHolds => held = None \/ held < HoldLimit]_vars

(***************************************************************************)
(* The batches leave in the order of their bytes, each byte once and, as   *)
(* the abstract specification is fair, every byte some time.               *)
(***************************************************************************)
Abstract == INSTANCE ByteStream
ImplementsByteStream == Abstract!Spec
=============================================================================
