------------------------------ MODULE History ------------------------------
(***************************************************************************)
(* The saved terminal history (src/internal/daemon/runtime.go and          *)
(* src/internal/persistence/store.go): checkpoints every two seconds and   *)
(* after the shells have ended, deletion with the pane, the setting that   *)
(* turns history off and on, pruning at the next start.                    *)
(*                                                                         *)
(* A checkpoint copies the panes under r.mu and r.historyMu, lets r.mu go, *)
(* and writes pane by pane under historyMu.  The calls that delete or      *)
(* rewrite history keep r.mu meanwhile and take historyMu in it.  Both     *)
(* locks are given by who is where: r.mu is held as long as call is not    *)
(* None, historyMu while the checkpoint is "writing" or a call rewrites.   *)
(*                                                                         *)
(* What is saved of an output is its generation, the number of changes it  *)
(* has seen.  Every deletion and every write of history may fail, and the  *)
(* process may end at any moment.                                          *)
(***************************************************************************)
EXTENDS Naturals, FiniteSets

CONSTANTS
  Pane,
  Launch,         \* outputs of a pane that may be referred to at a time
  None,
  MaxGeneration,  \* bound: changes of one output
  MaxFaults       \* bound: deletions and writes that fail

Generation == 0..MaxGeneration
Saved == [launch : Launch, generation : Generation]
Call == [op : {"delete", "clear", "trim", "trimming"}, todo : SUBSET Pane]
Copy == [pane : Pane, launch : Launch]
Checkpoint ==
  [at : {"writing", "telling"}, force : BOOLEAN, on : BOOLEAN, todo : SUBSET Copy,
   copy : Copy \cup {None}, generation : Generation, failed : SUBSET (Pane \cup {None})]

ASSUME HistoryAssumption ==
  /\ None \notin Pane \cup Launch \cup Saved \cup Copy
  /\ None \notin Call /\ None \notin Checkpoint
  /\ Launch # {}
  /\ MaxGeneration \in Nat /\ MaxFaults \in Nat

VARIABLES
  app,         \* "down", "serving", "closing", "draining", "final", "closed"
  present,     \* the panes of r.state
  on,          \* TerminalHistoryLines is not 0; changes only with a Save
  savedPanes,  \* the panes of the last successful Save
  live,        \* panes whose shell runs
  output,      \* per pane: the launch whose output r.outputs has
  generation,  \* per pane and launch: o.generation
  saved,       \* per pane and launch: o.savedGeneration
  warning,     \* per pane: "none", "save" (failed), "clear" (could not be)
  history,     \* per pane, on disk: [launch, generation], or None
  call,        \* what a call has still to do under r.mu, or None
  checkpoint,  \* the checkpoint that runs, or None
  faults,      \* failures so far
  left,        \* history: panes whose history a failure has left on disk
  late         \* history: panes whose shell did not end in the time Close
               \* waits for it, or that were launched, or had their history
               \* trimmed, after that

vars == <<app, present, on, savedPanes, live, output, generation,
          saved, warning, history, call, checkpoint, faults, left, late>>

TypeOK ==
  /\ app \in {"down", "serving", "closing", "draining", "final", "closed"}
  /\ present \subseteq Pane /\ savedPanes \subseteq Pane /\ live \subseteq present
  /\ on \in BOOLEAN
  /\ output \in [Pane -> Launch]
  /\ generation \in [Pane -> [Launch -> Generation]]
  /\ saved \in [Pane -> [Launch -> Generation]]
  /\ \A p \in Pane, l \in Launch : saved[p][l] <= generation[p][l]
  /\ warning \in [Pane -> {"none", "save", "clear"}]
  /\ \A p \in Pane \ present : warning[p] = "none"
  /\ history \in [Pane -> Saved \cup {None}]
  /\ call \in Call \cup {None}
  /\ checkpoint \in Checkpoint \cup {None}
  /\ faults \in 0..MaxFaults
  /\ left \subseteq Pane /\ late \subseteq Pane

-----------------------------------------------------------------------------
Zero == [p \in Pane |-> [l \in Launch |-> 0]]
NoHistory == [p \in Pane |-> None]
state == <<present, on, savedPanes>>
outputs == <<live, output, generation, saved, late>>

Running == app # "down"
MuFree == call = None

\* Mutant: a checkpoint writes without holding historyMu.
HistoryMuFreeDuringCheckpoint == call # None => call.op # "trimming"

HistoryMuFree ==
  /\ checkpoint # None => checkpoint.at # "writing"
  /\ call # None => call.op # "trimming"

\* A deletion or write of history succeeds or, for a while, fails.
Succeeds == UNCHANGED faults
Fails == faults < MaxFaults /\ faults' = faults + 1

\* store.Save
Save == savedPanes' = present'

\* A launch nothing refers to stands for a new outputBuffer.
Unused(p, l) ==
  /\ l # output[p]
  /\ history[p] # None => history[p].launch # l
  /\ checkpoint # None => [pane |-> p, launch |-> l] \notin checkpoint.todo \cup {checkpoint.copy}

Late(panes) == late' = IF app \in {"draining", "final", "closed"} THEN late \cup panes ELSE late

\* newOutput for a pane.
NewOutput(p, l) ==
  /\ Unused(p, l)
  /\ output' = [output EXCEPT ![p] = l]
  /\ generation' = [generation EXCEPT ![p] = [k \in Launch |-> IF Unused(p, k) THEN 0 ELSE @[k]]]
  /\ saved' = [saved EXCEPT ![p] = [k \in Launch |-> IF Unused(p, k) THEN 0 ELSE @[k]]]
  /\ live' = live \cup {p}
  /\ warning' = [warning EXCEPT ![p] = "none"]
  /\ Late({p})

\* The bound leaves room for n more changes; a call that has begun can end.
Room(n, panes) == \A p \in panes : generation[p][output[p]] + n <= MaxGeneration

\* output.applyHistoryLimit for the outputs of some panes.
applyHistoryLimit(panes) ==
  /\ Room(1, panes)
  /\ generation' = [p \in Pane |->
       IF p \in panes THEN [generation[p] EXCEPT ![output[p]] = @ + 1] ELSE generation[p]]

-----------------------------------------------------------------------------
Init ==
  /\ app = "down"
  /\ present = {} /\ savedPanes = {} /\ live = {} /\ left = {} /\ late = {}
  /\ on = TRUE
  /\ output \in [Pane -> Launch]
  /\ generation = Zero
  /\ saved = Zero
  /\ warning = [p \in Pane |-> "none"]
  /\ history = NoHistory
  /\ call = None /\ checkpoint = None
  /\ faults = 0

(***************************************************************************)
(* New: history of panes that are gone, or all of it when it is off, is    *)
(* deleted; every saved pane gets a new shell, which may fail to start.    *)
(***************************************************************************)
Start ==
  /\ app = "down"
  /\ app' = "serving"
  /\ present' = savedPanes
  /\ \/ /\ Succeeds
        /\ history' = [p \in Pane |-> IF on /\ p \in present' THEN history[p] ELSE None]
        /\ left' = {}
     \/ /\ Fails
        /\ UNCHANGED history
        /\ left' = {p \in Pane : history[p] # None}
  /\ live' \in SUBSET present'
  /\ output' \in [Pane -> Launch]
  /\ \A p \in Pane : history[p] # None => history[p].launch # output'[p]
  /\ generation' = Zero
  /\ saved' = Zero
  /\ warning' = [p \in Pane |-> "none"]
  /\ late' = {}
  /\ UNCHANGED <<on, savedPanes, call, checkpoint>>

\* The process ends: at the end of Close, by a crash, or with Windows.
End ==
  /\ Running
  /\ app' = "down"
  /\ call' = None /\ checkpoint' = None
  /\ present' = {} /\ live' = {} /\ late' = {}
  /\ generation' = Zero /\ saved' = Zero
  /\ warning' = [p \in Pane |-> "none"]
  /\ UNCHANGED <<on, savedPanes, output, history, faults, left>>

\* output.append
AppendOutput(p) ==
  /\ p \in live
  /\ Room(IF call # None /\ call.op = "trim" THEN 2 ELSE 1, {p})
  /\ generation' = [generation EXCEPT ![p][output[p]] = @ + 1]
  /\ UNCHANGED <<app, state, live, output, saved, warning, history, call, checkpoint, faults, left, late>>

-----------------------------------------------------------------------------
(* Calls, and the exit of a shell. *)

\* tab.create, pane.split: ids are never drawn twice.
CreatePane(p, l) ==
  /\ Running /\ MuFree
  /\ p \notin present \cup savedPanes \cup left
  /\ history[p] = None
  /\ checkpoint # None => \A c \in checkpoint.todo \cup {checkpoint.copy} : c # None => c.pane # p
  /\ present' = present \cup {p} /\ UNCHANGED on
  /\ NewOutput(p, l)
  /\ Save
  /\ UNCHANGED <<app, history, call, checkpoint, faults, left>>

\* agent.stop closes the shell and keeps the pane.
StopAgent(p) ==
  /\ MuFree /\ p \in live
  /\ live' = live \ {p}
  /\ UNCHANGED <<app, state, output, generation, saved, warning, history, call, checkpoint, faults, left, late>>

\* pane.restart
RestartPane(p, l) ==
  /\ Running /\ MuFree /\ p \in present \ live
  /\ NewOutput(p, l)
  /\ UNCHANGED <<app, state, history, call, checkpoint, faults, left>>

\* pane.close, tab.close, workspace.close; a shell that ends, when Save succeeds.
RemovePanes(panes) ==
  /\ MuFree
  /\ panes # {} /\ panes \subseteq present
  /\ present' = present \ panes /\ UNCHANGED on
  /\ live' = live \ panes
  /\ warning' = [p \in Pane |-> IF p \in panes THEN "none" ELSE warning[p]]
  /\ Save
  /\ call' = [op |-> "delete", todo |-> panes]
  /\ UNCHANGED <<app, output, generation, saved, history, checkpoint, faults, left, late>>

\* A shell ends and the Save fails: the history stays, as the saved pane does.
ExitUnsaved(p) ==
  /\ app = "serving" /\ MuFree /\ p \in live
  /\ Fails
  /\ present' = present \ {p}
  /\ live' = live \ {p}
  /\ left' = left \cup {p}
  /\ warning' = [warning EXCEPT ![p] = "none"]
  /\ UNCHANGED <<app, on, savedPanes, output, generation, saved, history, call, checkpoint, late>>

\* The call goes on with the rest of its panes, or returns.
Proceed(p) == call' = IF call.todo = {p} THEN None ELSE [call EXCEPT !.todo = @ \ {p}]

\* deleteHistoryLocked
DeleteHistory(p) ==
  /\ call # None /\ call.op = "delete" /\ p \in call.todo
  /\ HistoryMuFree
  /\ \/ Succeeds /\ history' = [history EXCEPT ![p] = None] /\ UNCHANGED left
     \/ Fails /\ left' = left \cup {p} /\ UNCHANGED history
  /\ Proceed(p)
  /\ UNCHANGED <<app, state, outputs, warning, checkpoint>>

\* settings.set to Off, or to another scrollback while it is off: the outputs
\* are trimmed at once.
TurnOff ==
  /\ Running /\ MuFree
  /\ on' = FALSE
  /\ applyHistoryLimit(present)
  /\ UNCHANGED present
  /\ Save
  /\ call' = [op |-> "clear", todo |-> {}]
  /\ UNCHANGED <<app, live, output, saved, warning, history, checkpoint, faults, left, late>>

\* ... and all saved history is deleted.
ClearHistory ==
  /\ call # None /\ call.op = "clear"
  /\ HistoryMuFree
  /\ \/ Succeeds /\ history' = NoHistory /\ left' = {} /\ UNCHANGED warning
     \/ /\ Fails
        /\ left' = {p \in Pane : history[p] # None}
        /\ warning' = [p \in Pane |-> IF p \in present THEN "clear" ELSE warning[p]]
        /\ UNCHANGED history
  /\ call' = None
  /\ UNCHANGED <<app, state, outputs, checkpoint>>

\* settings.set to another number of lines, from Off or from another number.
SetLines ==
  /\ Running /\ MuFree
  /\ on' = TRUE
  /\ Room(1, present)
  /\ UNCHANGED present
  /\ Save
  /\ call' = [op |-> "trim", todo |-> present]
  /\ Late(present)
  /\ UNCHANGED <<app, live, output, generation, saved, warning, history, checkpoint, faults, left>>

\* applyHistoryLimitLocked: the outputs are trimmed,
TrimOutputs ==
  /\ call # None /\ call.op = "trim"
  /\ HistoryMuFree
  /\ applyHistoryLimit(present)
  /\ call' = IF present = {} THEN None ELSE [call EXCEPT !.op = "trimming"]
  /\ UNCHANGED <<app, state, live, output, saved, warning, history, checkpoint, faults, left, late>>

\* ... and what is left of each is saved.
TrimHistory(p) ==
  LET l == output[p]
  IN  /\ call # None /\ call.op = "trimming" /\ p \in call.todo
      /\ \/ /\ Succeeds
            /\ history' = [history EXCEPT ![p] = [launch |-> l, generation |-> generation[p][l]]]
            /\ saved' = [saved EXCEPT ![p][l] = generation[p][l]]
            /\ UNCHANGED warning
         \/ /\ Fails
            /\ warning' = [warning EXCEPT ![p] = "save"]
            /\ UNCHANGED <<history, saved>>
      /\ Proceed(p)
      /\ UNCHANGED <<app, state, live, output, generation, checkpoint, left, late>>

-----------------------------------------------------------------------------
(* checkpointHistory. *)

StartCheckpoint(force) ==
  /\ checkpoint = None /\ MuFree
  /\ checkpoint' = [at |-> "writing", force |-> force, on |-> on,
                    todo |-> {[pane |-> p, launch |-> output[p]] : p \in present},
                    copy |-> None, generation |-> 0, failed |-> {}]
  /\ UNCHANGED <<state, outputs, warning, history, call, faults, left>>

\* checkpointLoop, at a tick.
CheckpointTick ==
  /\ app \in {"serving", "closing"}
  /\ StartCheckpoint(FALSE)
  /\ UNCHANGED app

Writing == checkpoint # None /\ checkpoint.at = "writing"

\* Mutant: with history off there is nothing to do.
CheckpointIdles ==
  /\ Writing /\ ~checkpoint.on
  /\ checkpoint' = [checkpoint EXCEPT !.at = "telling", !.todo = {}]
  /\ UNCHANGED <<app, state, outputs, warning, history, call, faults, left>>

\* With history off, the checkpoint deletes what is saved.
CheckpointDeletes ==
  /\ Writing /\ ~checkpoint.on
  /\ \/ /\ Succeeds /\ history' = NoHistory /\ left' = {}
        /\ checkpoint' = [checkpoint EXCEPT !.at = "telling", !.todo = {}]
     \/ /\ Fails /\ UNCHANGED <<history, left>>
        /\ checkpoint' = [checkpoint EXCEPT !.at = "telling", !.todo = {}, !.failed = {None}]
  /\ UNCHANGED <<app, state, outputs, warning, call>>

needsSave(c) == generation[c.pane][c.launch] > saved[c.pane][c.launch]

\* The next output: nothing to save, or a snapshot of what it is now.
CheckpointSnapshot(c) ==
  /\ Writing /\ checkpoint.on /\ checkpoint.copy = None
  /\ c \in checkpoint.todo
  /\ checkpoint' = IF checkpoint.force \/ needsSave(c)
                   THEN [checkpoint EXCEPT !.todo = @ \ {c}, !.copy = c,
                                           !.generation = generation[c.pane][c.launch]]
                   ELSE [checkpoint EXCEPT !.todo = @ \ {c}]
  /\ UNCHANGED <<app, state, outputs, warning, history, call, faults, left>>

\* Mutant: what the output has become since the snapshot counts as saved.
SavedAfterWrite(c) == generation[c.pane][c.launch]

\* markSaved: the generation of the snapshot.
SavedGeneration(c) ==
  IF checkpoint.generation > saved[c.pane][c.launch]
  THEN checkpoint.generation ELSE saved[c.pane][c.launch]

CheckpointWrites ==
  LET c == checkpoint.copy
  IN  /\ Writing /\ c # None
      /\ \/ /\ Succeeds
            /\ history' = [history EXCEPT ![c.pane] =
                             [launch |-> c.launch, generation |-> checkpoint.generation]]
            /\ saved' = [saved EXCEPT ![c.pane][c.launch] = SavedGeneration(c)]
            /\ checkpoint' = [checkpoint EXCEPT !.copy = None, !.generation = 0]
         \/ /\ Fails
            /\ checkpoint' = [checkpoint EXCEPT !.copy = None, !.generation = 0,
                                                !.failed = @ \cup {c.pane}]
            /\ UNCHANGED <<history, saved>>
      /\ UNCHANGED <<app, state, live, output, generation, warning, call, left, late>>

\* historyMu is let go.
CheckpointWritten ==
  /\ Writing /\ checkpoint.on
  /\ checkpoint.todo = {} /\ checkpoint.copy = None
  /\ checkpoint' = [checkpoint EXCEPT !.at = "telling"]
  /\ UNCHANGED <<app, state, outputs, warning, history, call, faults, left>>

\* Failures become warnings; a checkpoint without any takes all of them back.
Warning(failed, p) ==
  CASE p \in present \cap failed -> "save"
    [] p \in present /\ failed = {} /\ warning[p] = "save" -> "none"
    [] OTHER -> warning[p]

CheckpointTells ==
  /\ checkpoint # None /\ checkpoint.at = "telling" /\ MuFree
  /\ warning' = [p \in Pane |-> Warning(checkpoint.failed, p)]
  /\ UNCHANGED <<present, on>>
  /\ IF warning' = warning THEN UNCHANGED savedPanes
     ELSE Save \/ UNCHANGED savedPanes
  /\ checkpoint' = None
  /\ app' = IF checkpoint.force THEN "closed" ELSE app
  /\ UNCHANGED <<outputs, history, call, faults, left>>

-----------------------------------------------------------------------------
(* Runtime.Close. *)

StartClose ==
  /\ app = "serving" /\ MuFree
  /\ app' = "closing"
  /\ UNCHANGED <<state, outputs, warning, history, call, checkpoint, faults, left>>

\* Mutant: the last checkpoint is taken before the shells are ended.
DrainLater ==
  /\ app = "closing" /\ checkpoint = None /\ MuFree
  /\ app' = "draining"
  /\ UNCHANGED <<state, outputs, warning, history, call, checkpoint, faults, left>>

(***************************************************************************)
(* The loops have ended, and the shells are told to end.  Close waits five *)
(* seconds for each and goes on without those that are slow, which may     *)
(* print during and after the last checkpoint.                             *)
(***************************************************************************)
Drain ==
  /\ app = "closing" /\ checkpoint = None /\ MuFree
  /\ app' = "draining"
  /\ \E slow \in SUBSET live : live' = slow /\ late' = late \cup slow
  /\ UNCHANGED <<state, output, generation, saved, warning, history, call, checkpoint, faults, left>>

FinalCheckpoint ==
  /\ app = "draining"
  /\ app' = "final"
  /\ StartCheckpoint(TRUE)

-----------------------------------------------------------------------------
CallStep ==
  \/ \E p \in Pane : DeleteHistory(p) \/ TrimHistory(p)
  \/ ClearHistory \/ TrimOutputs

CheckpointStep ==
  \/ CheckpointDeletes \/ CheckpointWrites \/ CheckpointWritten \/ CheckpointTells
  \/ \E c \in Copy : CheckpointSnapshot(c)

Next ==
  \/ Start \/ End
  \/ \E p \in Pane : AppendOutput(p) \/ StopAgent(p) \/ ExitUnsaved(p)
  \/ \E p \in Pane, l \in Launch : CreatePane(p, l) \/ RestartPane(p, l)
  \/ \E panes \in SUBSET Pane : RemovePanes(panes)
  \/ TurnOff \/ SetLines
  \/ CallStep
  \/ CheckpointTick \/ CheckpointStep
  \/ StartClose \/ Drain \/ FinalCheckpoint

(***************************************************************************)
(* Calls and checkpoints that have begun go on, and the ticker of the loop *)
(* starts the next checkpoint, after the calls that hold r.mu.             *)
(***************************************************************************)
Fairness ==
  /\ SF_vars(CallStep)
  /\ SF_vars(CheckpointStep)
  /\ SF_vars(CheckpointTick)

Spec == Init /\ [][Next]_vars /\ Fairness

-----------------------------------------------------------------------------
(***************************************************************************)
(* The history of a pane that has been removed is deleted and does not     *)
(* come back, whatever checkpoint was under way ("Keep pane deletion       *)
(* serialized with checkpoint writes"): it is there only while the call    *)
(* that removed the pane is about to delete it, or if that failed.         *)
(***************************************************************************)
RemovedPanesLeaveNoHistory ==
  \A p \in Pane :
    Running /\ history[p] # None /\ p \notin present =>
      \/ call # None /\ call.op \in {"delete", "clear"}
      \/ p \in left

(***************************************************************************)
(* With history off nothing is saved on disk, but for the moment before    *)
(* the call deletes it, or if that failed ("Off deletes saved history").   *)
(***************************************************************************)
OffLeavesNoHistory ==
  Running /\ ~on => \A p \in Pane :
    history[p] # None => p \in left \/ (call # None /\ call.op = "clear")

(***************************************************************************)
(* An output without unsaved changes is on disk as it is, with history on  *)
(* and no call in progress: what a checkpoint skips is not lost, also      *)
(* after history was turned off, deleted and turned on again.              *)
(***************************************************************************)
SkippedOutputIsOnDisk ==
  Running /\ on /\ MuFree => \A p \in present :
    LET l == output[p]
    IN  generation[p][l] > 0 /\ generation[p][l] = saved[p][l] =>
          history[p] = [launch |-> l, generation |-> generation[p][l]]

(***************************************************************************)
(* When Runtime.Close returns, the last output of every pane whose shell   *)
(* ended in time is saved, or a warning tells that it is not ("the last    *)
(* checkpoint follows session shutdown").  What a slower shell prints once *)
(* that checkpoint has begun is lost without a word, and shells launched,  *)
(* or history trimmed by a setting, after the shutdown are not meant       *)
(* either (late).                                                          *)
(***************************************************************************)
ClosedMeansSaved ==
  app = "closed" /\ on /\ MuFree => \A p \in present \ late :
    LET l == output[p]
    IN  \/ generation[p][l] = 0
        \/ history[p] = [launch |-> l, generation |-> generation[p][l]]
        \/ warning[p] # "none"

(***************************************************************************)
(* What the database has and lacks at any moment, with the types.          *)
(***************************************************************************)
HistoryInv == TypeOK /\ OffLeavesNoHistory /\ ClosedMeansSaved

(***************************************************************************)
(* As long as deletions do not fail for ever, history that is turned off   *)
(* is deleted in the end: every checkpoint tries again.                    *)
(***************************************************************************)
OffDeletesHistory == []<>(on \/ app # "serving" \/ history = NoHistory)

(***************************************************************************)
(* The warning that history could not be saved is taken back once it can.  *)
(***************************************************************************)
WarningsEnd ==
  \A p \in Pane : warning[p] = "save" ~> (warning[p] # "save" \/ app # "serving")

\* Every checkpoint repairs what a failure before it has left.
RetriesSucceed == OffDeletesHistory /\ WarningsEnd
=============================================================================
