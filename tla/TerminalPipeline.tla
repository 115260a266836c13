-------------------------- MODULE TerminalPipeline --------------------------
(***************************************************************************)
(* One launch from the pipe of its console host to the screen and back:    *)
(* terminal.Session (readOutput, waitForExit, Close) over conptyProcess,   *)
(* the output callback of daemon.Runtime.launch (output.append, metadata), *)
(* the goroutine in launch that pumps the emulator's replies to the shell, *)
(* OnExit, and those who share a lock with them: the checkpoints of the    *)
(* terminal history and the calls that use an output under r.mu.           *)
(*                                                                         *)
(* The terminal emulator is a library: it answers a query in its input by  *)
(* writing to an unbuffered pipe, from which the pump reads, and so goes   *)
(* on only when the pump has taken the answer or the pipe is closed.       *)
(*                                                                         *)
(* The batcher is what module OutputBatcher shows it to be, a stream that  *)
(* keeps the order: full batches leave with Add, the rest with the timer   *)
(* or with Close, always under emitMu.                                     *)
(***************************************************************************)
EXTENDS Naturals, Sequences, FiniteSets

CONSTANTS
  BatchBytes,  \* size of a batch
  MaxBytes,    \* bound: bytes the shell prints
  MaxLate,     \* bound: queries still unanswered when the input closes
  None         \* nobody

ASSUME PipelineAssumption ==
  /\ BatchBytes \in Nat \ {0} /\ MaxBytes \in Nat /\ MaxLate \in Nat
  /\ None \notin {"append", "write", "metadata", "reader", "timer", "closer", "client", "checkpoint"}

\* "x": ordinary output; "query": the end of a query to the terminal.
Byte == {"x", "query"}

VARIABLES
  process,     \* "alive" or "ended"
  input,       \* conptyProcess.input is not nil
  pipe,        \* conptyProcess.output is not nil
  unread,      \* bytes in the output pipe
  chunk,       \* bytes readOutput has read and not yet added
  reader,      \* "reading", "adding", "emitting", "done" (readDone is closed)
  buffer,      \* the batcher's buffer
  emitMu,      \* who holds the batcher's emitMu, emitting a batch
  batch,       \* what is left of the batch for the emulator
  emitting,    \* where that goroutine is: "append", "write", "metadata"
  reply,       \* the emulator waits for the pump to take an answer
  replyPipe,   \* the emulator's input pipe is open
  pump,        \* "reading", "writing", "ended"
  waiter,      \* waitForExit: "process", "reader", "batcher", "exit", "remove", "done"
  oMu,         \* who holds output.mu
  rMu,         \* who holds r.mu
  historyMu,   \* who holds r.historyMu
  checkpoint,  \* checkpointLoop: "idle", "saving", "ended"
  client,      \* a call that uses the output under r.mu: "idle", "locked"
  closing,     \* Runtime.Close has cancelled the loops
  read,        \* history: the bytes read from the pipe
  shown        \* history: the bytes the emulator has taken

vars == <<process, input, pipe, unread, chunk, reader, buffer, emitMu, batch,
          emitting, reply, replyPipe, pump, waiter, oMu, rMu, historyMu,
          checkpoint, client, closing, read, shown>>

console == <<process, input, pipe, unread>>
session == <<chunk, reader, waiter>>
batcher == <<buffer, emitMu, batch, emitting>>
replies == <<reply, replyPipe, pump>>
locks == <<oMu, rMu, historyMu>>
others == <<checkpoint, client, closing>>
history == <<read, shown>>

TypeOK ==
  /\ process \in {"alive", "ended"}
  /\ input \in BOOLEAN /\ pipe \in BOOLEAN /\ reply \in BOOLEAN
  /\ replyPipe \in BOOLEAN /\ closing \in BOOLEAN
  /\ {unread, chunk, buffer, batch, read, shown} \subseteq Seq(Byte)
  /\ reader \in {"reading", "adding", "emitting", "done"}
  /\ emitMu \in {None, "reader", "timer", "closer"}
  /\ emitting \in {None, "append", "write", "metadata"}
  /\ (emitting = None) <=> (emitMu = None)
  /\ pump \in {"reading", "writing", "ended"}
  /\ waiter \in {"process", "reader", "batcher", "exit", "remove", "done"}
  /\ oMu \in {None, "append"}
  /\ rMu \in {None, "client"}
  /\ historyMu \in {None, "checkpoint"}
  /\ checkpoint \in {"idle", "saving", "ended"}
  /\ client \in {"idle", "locked"}
  /\ (oMu = "append") <=> (emitting = "write")
  /\ (rMu = "client") <=> (client = "locked")
  /\ (historyMu = "checkpoint") <=> (checkpoint = "saving")

-----------------------------------------------------------------------------
Init ==
  /\ process = "alive" /\ input = TRUE /\ pipe = TRUE
  /\ unread = <<>> /\ chunk = <<>> /\ buffer = <<>> /\ batch = <<>>
  /\ reader = "reading" /\ waiter = "process" /\ pump = "reading"
  /\ emitMu = None /\ emitting = None
  /\ reply = FALSE /\ replyPipe = TRUE
  /\ oMu = None /\ rMu = None /\ historyMu = None
  /\ checkpoint = "idle" /\ client = "idle" /\ closing = FALSE
  /\ read = <<>> /\ shown = <<>>

Queries(bytes) == Cardinality({i \in DOMAIN bytes : bytes[i] = "query"})

\* Queries that were read from the pipe and have not been answered.
Unanswered ==
  Queries(chunk) + Queries(buffer) + Queries(batch)
  + (IF reply THEN 1 ELSE 0) + (IF pump = "writing" THEN 1 ELSE 0)

-----------------------------------------------------------------------------
(* The console host and conptyProcess. *)

ShellPrints(b) ==
  /\ process = "alive"
  /\ Len(read) + Len(unread) < MaxBytes
  /\ unread' = Append(unread, b)
  /\ UNCHANGED <<process, input, pipe, session, batcher, replies, locks, others, history>>

ShellEnds ==
  /\ process = "alive"
  /\ process' = "ended"
  /\ UNCHANGED <<input, pipe, unread, session, batcher, replies, locks, others, history>>

\* conptyProcess.Close, when the pane is closed or stopped or the runtime ends.
CloseConsole ==
  /\ input \/ pipe
  /\ Unanswered <= MaxLate
  /\ process' = "ended"
  /\ input' = FALSE
  /\ pipe' = FALSE
  /\ UNCHANGED <<unread, session, batcher, replies, locks, others, history>>

\* Mutant: the output pipe is left to the console host.
WaitKeepingPipe ==
  /\ waiter = "process" /\ process = "ended"
  /\ Unanswered <= MaxLate
  /\ input' = FALSE
  /\ waiter' = "reader"
  /\ UNCHANGED <<process, pipe, unread, chunk, reader, batcher, replies, locks, others, history>>

\* Wait returns: releaseResources closes what Close has left open.
Wait ==
  /\ waiter = "process" /\ process = "ended"
  /\ Unanswered <= MaxLate
  /\ input' = FALSE
  /\ pipe' = FALSE
  /\ waiter' = "reader"
  /\ UNCHANGED <<process, unread, chunk, reader, batcher, replies, locks, others, history>>

-----------------------------------------------------------------------------
(* readOutput and the batcher. *)

Read(n) ==
  /\ reader = "reading" /\ pipe
  /\ chunk' = SubSeq(unread, 1, n)
  /\ unread' = SubSeq(unread, n + 1, Len(unread))
  /\ read' = read \o chunk'
  /\ reader' = "adding"
  /\ UNCHANGED <<process, input, pipe, waiter, batcher, replies, locks, others, shown>>

\* Read fails once the pipe is closed.
ReadFails ==
  /\ reader = "reading" /\ ~pipe
  /\ reader' = "done"
  /\ UNCHANGED <<console, chunk, waiter, batcher, replies, locks, others, history>>

Emit(who, bytes) ==
  /\ emitMu' = who
  /\ batch' = bytes
  /\ emitting' = "append"

Add ==
  LET whole == buffer \o chunk
      full == Len(whole) - (Len(whole) % BatchBytes)
  IN  /\ reader = "adding"
      /\ emitMu = None
      /\ chunk' = <<>>
      /\ buffer' = SubSeq(whole, full + 1, Len(whole))
      /\ IF full > 0
         THEN Emit("reader", SubSeq(whole, 1, full)) /\ reader' = "emitting"
         ELSE reader' = "reading" /\ UNCHANGED <<emitMu, batch, emitting>>
      /\ UNCHANGED <<console, waiter, replies, locks, others, history>>

TimerFlushes ==
  /\ emitMu = None /\ buffer # <<>>
  /\ Emit("timer", buffer)
  /\ buffer' = <<>>
  /\ UNCHANGED <<console, session, replies, locks, others, history>>

\* Mutant: the batcher is closed without waiting for the reader.
CloseBatcherEarly ==
  /\ waiter = "reader"
  /\ emitMu = None
  /\ waiter' = "batcher"
  /\ Emit("closer", buffer)
  /\ buffer' = <<>>
  /\ UNCHANGED <<console, chunk, reader, replies, locks, others, history>>

\* waitForExit, once the reader is done: batcher.Close emits what is left.
CloseBatcher ==
  /\ waiter = "reader" /\ reader = "done"
  /\ emitMu = None
  /\ waiter' = "batcher"
  /\ Emit("closer", buffer)
  /\ buffer' = <<>>
  /\ UNCHANGED <<console, chunk, reader, replies, locks, others, history>>

-----------------------------------------------------------------------------
(* The callback: output.append under output.mu, then metadata under r.mu. *)

AppendStarts ==
  /\ emitting = "append" /\ oMu = None
  /\ oMu' = "append"
  /\ emitting' = "write"
  /\ UNCHANGED <<console, session, buffer, emitMu, batch, replies, rMu, historyMu, others, history>>

\* emulator.Write, byte by byte: a query waits for its answer to be taken.
EmulatorWrites ==
  /\ emitting = "write" /\ batch # <<>> /\ ~reply
  /\ shown' = Append(shown, Head(batch))
  /\ batch' = Tail(batch)
  /\ reply' = (Head(batch) = "query" /\ replyPipe)
  /\ UNCHANGED <<console, session, buffer, emitMu, emitting, replyPipe, pump, locks, others, read>>

\* Mutant: append asks for r.mu, for the metadata, before it lets output.mu go.
AppendWantsRuntime ==
  /\ emitting = "write" /\ batch = <<>> /\ ~reply
  /\ rMu = None
  /\ oMu' = None
  /\ emitting' = "metadata"
  /\ UNCHANGED <<console, session, buffer, emitMu, batch, replies, rMu, historyMu, others, history>>

AppendEnds ==
  /\ emitting = "write" /\ batch = <<>> /\ ~reply
  /\ oMu' = None
  /\ emitting' = "metadata"
  /\ UNCHANGED <<console, session, buffer, emitMu, batch, replies, rMu, historyMu, others, history>>

\* metadata takes r.mu for a moment; then the batch is out.
Metadata ==
  /\ emitting = "metadata" /\ rMu = None
  /\ emitting' = None
  /\ emitMu' = None
  /\ reader' = IF emitMu = "reader" THEN "reading" ELSE reader
  /\ waiter' = IF emitMu = "closer" THEN "exit" ELSE waiter
  /\ UNCHANGED <<console, chunk, buffer, batch, replies, locks, others, history>>

-----------------------------------------------------------------------------
(* The pump. *)

PumpReads ==
  /\ pump = "reading"
  /\ IF reply THEN pump' = "writing" /\ reply' = FALSE
     ELSE ~replyPipe /\ pump' = "ended" /\ UNCHANGED reply
  /\ UNCHANGED <<console, session, batcher, replyPipe, locks, others, history>>

\* session.Write: the console host takes the answer, or the input is closed.
PumpWrites ==
  /\ pump = "writing"
  /\ pump' = IF input THEN "reading" ELSE "ended"
  /\ UNCHANGED <<console, session, batcher, reply, replyPipe, locks, others, history>>

-----------------------------------------------------------------------------
(* OnExit. *)

ExitOutput ==
  /\ waiter = "exit" /\ oMu = None
  /\ replyPipe' = FALSE
  /\ waiter' = "remove"
  /\ UNCHANGED <<console, chunk, reader, batcher, reply, pump, locks, others, history>>

\* removePane and the deletion of the history, under r.mu and historyMu.
RemovePane ==
  /\ waiter = "remove" /\ rMu = None /\ historyMu = None
  /\ waiter' = "done"
  /\ UNCHANGED <<console, chunk, reader, batcher, replies, locks, others, history>>

-----------------------------------------------------------------------------
(* Who else uses the output. *)

\* checkpointHistory takes historyMu under r.mu and gives r.mu back.
CheckpointStarts ==
  /\ checkpoint = "idle" /\ ~closing
  /\ rMu = None /\ historyMu = None
  /\ historyMu' = "checkpoint"
  /\ checkpoint' = "saving"
  /\ UNCHANGED <<console, session, batcher, replies, oMu, rMu, client, closing, history>>

\* needsSave and persistedSnapshot take output.mu.
CheckpointSaves ==
  /\ checkpoint = "saving" /\ oMu = None
  /\ historyMu' = None
  /\ checkpoint' = "idle"
  /\ UNCHANGED <<console, session, batcher, replies, oMu, rMu, client, closing, history>>

\* Runtime.Close cancels the loop and waits for it.
StartClose ==
  /\ rMu = None /\ ~closing
  /\ closing' = TRUE
  /\ UNCHANGED <<console, session, batcher, replies, locks, checkpoint, client, history>>

CheckpointLoopEnds ==
  /\ closing /\ checkpoint = "idle"
  /\ checkpoint' = "ended"
  /\ UNCHANGED <<console, session, batcher, replies, locks, client, closing, history>>

\* terminal.viewport.set, terminal.resize, a mutation that drops the output.
ClientLocks ==
  /\ client = "idle" /\ rMu = None
  /\ rMu' = "client"
  /\ client' = "locked"
  /\ UNCHANGED <<console, session, batcher, replies, oMu, historyMu, checkpoint, closing, history>>

ClientUsesOutput ==
  /\ client = "locked" /\ oMu = None
  /\ rMu' = None
  /\ client' = "idle"
  /\ UNCHANGED <<console, session, batcher, replies, oMu, historyMu, checkpoint, closing, history>>

-----------------------------------------------------------------------------
Reader == (\E n \in 1..Len(unread) : Read(n)) \/ ReadFails \/ Add
Callback == AppendStarts \/ EmulatorWrites \/ AppendEnds \/ Metadata
Pump == PumpReads \/ PumpWrites
Waiter == Wait \/ CloseBatcher \/ ExitOutput \/ RemovePane

Next ==
  \/ \E b \in Byte : ShellPrints(b)
  \/ ShellEnds \/ CloseConsole
  \/ Reader \/ TimerFlushes \/ Callback \/ Pump \/ Waiter
  \/ CheckpointStarts \/ CheckpointSaves \/ CheckpointLoopEnds
  \/ ClientLocks \/ ClientUsesOutput
  \/ StartClose

(***************************************************************************)
(* Every goroutine runs on, gets the locks it asks for in the end if they  *)
(* are free again and again (Go's mutexes let nobody starve), and the      *)
(* console host takes what is written to it.  Nobody has to print, to end, *)
(* to close or to call.                                                    *)
(***************************************************************************)
Fairness ==
  /\ SF_vars(Reader) /\ SF_vars(TimerFlushes) /\ SF_vars(Callback)
  /\ WF_vars(Pump) /\ SF_vars(Waiter)
  /\ SF_vars(CheckpointSaves) /\ WF_vars(CheckpointLoopEnds)
  /\ SF_vars(ClientUsesOutput)

Spec == Init /\ [][Next]_vars /\ Fairness

-----------------------------------------------------------------------------
(***************************************************************************)
(* When the exit of a shell is told, everything read from it is on the     *)
(* screen, in the order it was read ("Sessions drain their final output on *)
(* close, so the last checkpoint follows session shutdown").               *)
(***************************************************************************)
DrainedAtExit ==
  /\ Len(shown) <= Len(read) /\ shown = SubSeq(read, 1, Len(shown))
  /\ waiter \in {"exit", "remove", "done"} => shown = read

(***************************************************************************)
(* The emulator, which waits in emulator.Write with output.mu and the      *)
(* batcher's emitMu, never waits for a pump that is gone.  The pump of     *)
(* launch returns at the first answer that the session does not take, and  *)
(* only ExitOutput, after the last batch, would free the emulator then: it *)
(* is true if no more than one query is unanswered when the input closes.  *)
(***************************************************************************)
AnswersAreTaken == MaxLate <= 1 /\ reply => pump # "ended"

(***************************************************************************)
(* The holder of a lock is not stuck: of emitMu and output.mu the callback *)
(* goes on, or the pump does, for which it waits; of r.mu and r.historyMu  *)
(* who has them gets output.mu in the end.  And while a shell that ended   *)
(* still has a pane, one of those who have to act on it can.               *)
(***************************************************************************)
HolderCanMove ==
  \/ emitting = "append" /\ oMu = None
  \/ emitting = "write" /\ ~reply
  \/ emitting = "metadata" /\ rMu = None
  \/ pump = "writing" \/ (pump = "reading" /\ reply)
  \/ oMu = None /\ (client = "locked" \/ checkpoint = "saving")

ReaderCanMove ==
  \/ reader = "reading" /\ ~pipe
  \/ reader = "adding" /\ emitMu = None
  \/ buffer # <<>> /\ emitMu = None

WaiterCanMove ==
  \/ waiter = "process" /\ Unanswered <= MaxLate
  \/ waiter = "reader" /\ reader = "done" /\ emitMu = None
  \/ waiter = "exit" /\ oMu = None
  \/ waiter = "remove" /\ rMu = None /\ historyMu = None

NobodyIsStuck ==
  MaxLate <= 1 =>
    /\ {emitMu, oMu, rMu, historyMu} # {None} => HolderCanMove
    /\ process = "ended" /\ waiter # "done" => HolderCanMove \/ ReaderCanMove \/ WaiterCanMove

\* The types, the order of output and exit, and no wait without an end.
PipelineInv == TypeOK /\ DrainedAtExit /\ AnswersAreTaken /\ NobodyIsStuck

(***************************************************************************)
(* A shell that ends is taken out of the runtime ("A normal shell exit     *)
(* closes its pane and removes its saved record").  On the way, who can go *)
(* on according to NobodyIsStuck has a step to take.                       *)
(***************************************************************************)
CanMoveIsEnabled ==
  /\ HolderCanMove => ENABLED (Callback \/ Pump \/ ClientUsesOutput \/ CheckpointSaves)
  /\ ReaderCanMove => ENABLED (Reader \/ TimerFlushes)
  /\ process = "ended" /\ WaiterCanMove => ENABLED Waiter
ExitIsHandled == ((process = "ended") ~> (waiter = "done")) /\ []CanMoveIsEnabled

(***************************************************************************)
(* Nobody waits for ever: a call that waits for an output while it holds   *)
(* r.mu, and so stops every other call, is answered, and Runtime.Close     *)
(* gets past its wait for the checkpoints of the history.                  *)
(***************************************************************************)
CallsAreAnswered == (client = "locked") ~> (client = "idle")
CheckpointsEnd == closing ~> (checkpoint = "ended")
LocksAreReleased == CallsAreAnswered /\ CheckpointsEnd
=============================================================================
