--------------------------- MODULE HistoryProofs ---------------------------
(***************************************************************************)
(* Proofs about History, for any panes, launches, changes and failures.    *)
(***************************************************************************)
EXTENDS History, TLAPS

\* The outputs the checkpoint has still to write.
Pending == IF checkpoint = None THEN {} ELSE {c \in Copy : c \in checkpoint.todo \/ c = checkpoint.copy}

\* What a call is about, and what a checkpoint copied before it.
Settings ==
  /\ call # None /\ call.op = "clear" => ~on
  /\ call # None /\ call.op = "delete" => call.todo \cap present = {}
  /\ call # None /\ call.op \in {"trim", "trimming"} => on /\ call.todo \subseteq present
  /\ Writing /\ checkpoint.on /\ ~on => call # None /\ call.op = "clear"
  /\ Writing /\ ~checkpoint.on /\ on => call # None /\ call.op = "trim"
  /\ Writing /\ call # None => call.op # "trimming"
  /\ checkpoint # None /\ ~checkpoint.on => checkpoint.copy = None
  /\ checkpoint # None /\ ~Writing => Pending = {}

\* Which outputs a checkpoint has, and how old its snapshot may be.
Copies ==
  /\ \A c, d \in Pending : c.pane = d.pane => c = d
  /\ checkpoint # None => checkpoint.copy \notin checkpoint.todo
  /\ checkpoint # None /\ checkpoint.copy # None =>
       /\ saved[checkpoint.copy.pane][checkpoint.copy.launch] <= checkpoint.generation
       /\ checkpoint.generation <= generation[checkpoint.copy.pane][checkpoint.copy.launch]
  /\ \A c \in Pending : c.pane \in present /\ c.launch # output[c.pane] =>
       saved[c.pane][output[c.pane]] = 0
  /\ Writing /\ checkpoint.on => \A c \in Pending :
       \/ c.pane \in present \cup left
       \/ call # None /\ call.op = "delete" /\ c.pane \in call.todo

IsSaved(p) == history[p] = [launch |-> output[p], generation |-> generation[p][output[p]]]

\* What is on disk of panes that are gone, with history off, and with it on.
Disk ==
  Running => \A p \in Pane :
    /\ history[p] # None /\ p \notin present =>
         p \in left \/ (call # None /\ (call.op = "clear" \/ (call.op = "delete" /\ p \in call.todo)))
    /\ history[p] # None /\ ~on => p \in left \/ (call # None /\ call.op = "clear")
    /\ on /\ p \in present /\ generation[p][output[p]] > 0
       /\ saved[p][output[p]] = generation[p][output[p]] =>
         IsSaved(p) \/ (call # None /\ call.op = "trim")

Settled(p) == generation[p][output[p]] = 0 \/ IsSaved(p)

\* The last checkpoint, which begins when all shells but the slow ones have ended.
Closing ==
  /\ app = "down" => checkpoint = None /\ call = None /\ present = {}
  /\ app \in {"draining", "closed"} => checkpoint = None
  /\ checkpoint # None => (checkpoint.force <=> app = "final")
  /\ app \in {"draining", "final", "closed"} =>
       /\ live \subseteq late
       /\ call # None /\ call.op \in {"trim", "trimming"} => present \subseteq late
  /\ app = "final" => checkpoint # None
  /\ app = "final" /\ on => \A p \in present \ late :
       /\ checkpoint.on
       /\ \A c \in Pending : c.pane = p => c.launch = output[p]
       /\ checkpoint.copy # None /\ checkpoint.copy.pane = p =>
            checkpoint.generation = generation[p][output[p]]
       /\ Settled(p) \/ p \in checkpoint.failed \/ [pane |-> p, launch |-> output[p]] \in Pending
  /\ app = "closed" /\ on => \A p \in present \ late : Settled(p) \/ warning[p] # "none"

IInv == TypeOK /\ Settings /\ Copies /\ Disk /\ Closing

-----------------------------------------------------------------------------
LEMMA InitInvariant == Init => IInv
<1> SUFFICES ASSUME Init PROVE IInv
  OBVIOUS
<1>1. TypeOK
  BY HistoryAssumption DEF Init, Zero, NoHistory, TypeOK, Generation
<1>2. Settings /\ Copies /\ Disk /\ Closing
  BY HistoryAssumption DEF Init, Settings, Copies, Disk, Closing, Pending, Writing, Running
<1> QED
  BY <1>1, <1>2 DEF IInv

-----------------------------------------------------------------------------
\* What a step makes of a checkpoint, field by field.
LEMMA Told ==
  ASSUME NEW k \in Checkpoint, NEW f \in {k.failed, {None}}
  PROVE  LET t == [k EXCEPT !.at = "telling", !.todo = {}, !.failed = f]
         IN  /\ t \in Checkpoint /\ t.at = "telling" /\ t.todo = {} /\ t.copy = k.copy
             /\ t.force = k.force /\ t.on = k.on /\ t.failed = f
  BY DEF Checkpoint

LEMMA Released ==
  ASSUME NEW k \in Checkpoint
  PROVE  LET t == [k EXCEPT !.at = "telling"]
         IN  /\ t \in Checkpoint /\ t.todo = k.todo /\ t.copy = k.copy
             /\ t.force = k.force /\ t.on = k.on /\ t.failed = k.failed
  BY DEF Checkpoint

LEMMA Nested ==
  ASSUME NEW f \in [Pane -> [Launch -> Generation]], NEW p \in Pane, NEW l \in Launch, NEW n \in Generation
  PROVE  LET g == [f EXCEPT ![p][l] = n]
         IN  /\ g \in [Pane -> [Launch -> Generation]]
             /\ \A q \in Pane, k \in Launch : g[q][k] = IF q = p /\ k = l THEN n ELSE f[q][k]
  OBVIOUS

\* The effects of the steps of the checkpoint.
LEMMA Deletes ==
  ASSUME IInv, CheckpointDeletes
  PROVE  /\ Writing /\ ~checkpoint.on /\ checkpoint \in Checkpoint /\ checkpoint' \in Checkpoint
         /\ checkpoint'.at = "telling" /\ checkpoint'.todo = {} /\ checkpoint'.copy = None
         /\ checkpoint'.force = checkpoint.force /\ checkpoint'.on = checkpoint.on
         /\ \/ history' = NoHistory /\ left' = {} /\ UNCHANGED faults
            \/ Fails /\ UNCHANGED <<history, left>>
         /\ UNCHANGED <<app, present, on, savedPanes, live, output, generation, saved, late, warning, call>>
<1>1. Writing /\ checkpoint \in Checkpoint /\ ~checkpoint.on /\ checkpoint.copy = None
  BY DEF CheckpointDeletes, Writing, IInv, TypeOK, Settings
<1>2. PICK f \in {checkpoint.failed, {None}} :
        checkpoint' = [checkpoint EXCEPT !.at = "telling", !.todo = {}, !.failed = f]
  <2>1. [checkpoint EXCEPT !.at = "telling", !.todo = {}]
          = [checkpoint EXCEPT !.at = "telling", !.todo = {}, !.failed = checkpoint.failed]
    BY <1>1 DEF Checkpoint
  <2> QED
    BY <2>1 DEF CheckpointDeletes
<1>3. /\ checkpoint' \in Checkpoint /\ checkpoint'.at = "telling" /\ checkpoint'.todo = {}
      /\ checkpoint'.copy = None
      /\ checkpoint'.force = checkpoint.force /\ checkpoint'.on = checkpoint.on
  BY <1>1, <1>2, Told
<1> QED
  BY <1>1, <1>3 DEF CheckpointDeletes, Succeeds, state, outputs

LEMMA Snapshots ==
  ASSUME IInv, NEW c \in Copy, CheckpointSnapshot(c)
  PROVE  /\ Writing /\ checkpoint \in Checkpoint /\ checkpoint' \in Checkpoint /\ checkpoint.on
         /\ c \in checkpoint.todo /\ checkpoint.copy = None
         /\ checkpoint'.at = checkpoint.at /\ checkpoint'.todo = checkpoint.todo \ {c}
         /\ checkpoint'.force = checkpoint.force /\ checkpoint'.on = checkpoint.on
         /\ checkpoint'.failed = checkpoint.failed
         /\ \/ checkpoint'.copy = c /\ checkpoint'.generation = generation[c.pane][c.launch]
            \/ ~checkpoint.force /\ checkpoint'.copy = None
         /\ UNCHANGED <<app, present, on, savedPanes, live, output, generation, saved, late, warning,
                        history, call, faults, left>>
<1> USE DEF CheckpointSnapshot
<1>1. Writing /\ checkpoint \in Checkpoint /\ c \in checkpoint.todo /\ checkpoint.copy = None /\ checkpoint.on
  BY DEF Writing, IInv, TypeOK
<1>2. c.pane \in Pane /\ c.launch \in Launch /\ generation[c.pane][c.launch] \in Generation
  BY DEF Copy, IInv, TypeOK
<1>3. /\ checkpoint.todo \ {c} \in SUBSET Copy /\ checkpoint.failed \in SUBSET (Pane \cup {None})
      /\ checkpoint.generation \in Generation
  BY <1>1 DEF Checkpoint
<1>4. CASE checkpoint.force \/ needsSave(c)
  <2>1. checkpoint' = [checkpoint EXCEPT !.todo = checkpoint.todo \ {c}, !.copy = c,
                         !.generation = generation[c.pane][c.launch], !.failed = checkpoint.failed]
    BY <1>1, <1>4 DEF Checkpoint
  <2>2. /\ checkpoint' \in Checkpoint /\ checkpoint'.at = checkpoint.at /\ checkpoint'.todo = checkpoint.todo \ {c}
        /\ checkpoint'.copy = c /\ checkpoint'.generation = generation[c.pane][c.launch]
        /\ checkpoint'.force = checkpoint.force /\ checkpoint'.on = checkpoint.on
        /\ checkpoint'.failed = checkpoint.failed
    BY <1>1, <1>2, <1>3, <2>1 DEF Checkpoint
  <2> QED
    BY <1>1, <2>2 DEF state, outputs
<1>5. CASE ~(checkpoint.force \/ needsSave(c))
  <2>1. checkpoint' = [checkpoint EXCEPT !.todo = checkpoint.todo \ {c}, !.copy = None,
                         !.generation = checkpoint.generation, !.failed = checkpoint.failed]
    BY <1>1, <1>5 DEF Checkpoint
  <2>2. /\ checkpoint' \in Checkpoint /\ checkpoint'.at = checkpoint.at /\ checkpoint'.todo = checkpoint.todo \ {c}
        /\ checkpoint'.copy = None /\ checkpoint'.generation = checkpoint.generation
        /\ checkpoint'.force = checkpoint.force /\ checkpoint'.on = checkpoint.on
        /\ checkpoint'.failed = checkpoint.failed
    BY <1>1, <1>3, <2>1 DEF Checkpoint
  <2> QED
    BY <1>1, <1>5, <2>2 DEF state, outputs
<1> QED
  BY <1>4, <1>5

LEMMA Writes ==
  ASSUME IInv, CheckpointWrites
  PROVE  LET c == checkpoint.copy
         IN  /\ Writing /\ checkpoint \in Checkpoint /\ checkpoint' \in Checkpoint /\ c # None /\ c \in Copy
             /\ checkpoint.on /\ c.pane \in Pane /\ c.launch \in Launch
             /\ saved[c.pane][c.launch] <= checkpoint.generation
             /\ checkpoint'.at = checkpoint.at /\ checkpoint'.todo = checkpoint.todo /\ checkpoint'.copy = None
             /\ checkpoint'.force = checkpoint.force /\ checkpoint'.on = checkpoint.on
             /\ \/ /\ history' = [history EXCEPT ![c.pane] = [launch |-> c.launch, generation |-> checkpoint.generation]]
                   /\ saved' \in [Pane -> [Launch -> Generation]]
                   /\ \A q \in Pane, k \in Launch : saved'[q][k] =
                        IF q = c.pane /\ k = c.launch THEN checkpoint.generation ELSE saved[q][k]
                   /\ checkpoint'.failed = checkpoint.failed /\ UNCHANGED faults
                \/ /\ checkpoint'.failed = checkpoint.failed \cup {c.pane} /\ Fails
                   /\ UNCHANGED <<history, saved>>
             /\ UNCHANGED <<app, present, on, savedPanes, live, output, generation, warning, call, left, late>>
<1> DEFINE c == checkpoint.copy
<1> USE DEF CheckpointWrites
<1>1. Writing /\ checkpoint \in Checkpoint /\ c # None /\ c \in Copy /\ checkpoint.on
  BY DEF Writing, IInv, TypeOK, Settings, Checkpoint
<1>2. c.pane \in Pane /\ c.launch \in Launch
  BY <1>1 DEF Copy
<1>3. /\ checkpoint.todo \in SUBSET Copy /\ checkpoint.failed \in SUBSET (Pane \cup {None})
      /\ checkpoint.generation \in Generation /\ 0 \in Generation
  BY <1>1, HistoryAssumption DEF Checkpoint, Generation
<1>4. saved[c.pane][c.launch] <= checkpoint.generation
  BY <1>1 DEF IInv, Copies, Writing
<1>5. SavedGeneration(c) = checkpoint.generation
  <2>1. saved[c.pane][c.launch] \in Nat /\ checkpoint.generation \in Nat
    BY <1>2, <1>3, HistoryAssumption DEF IInv, TypeOK, Generation
  <2> QED
    BY <1>4, <2>1 DEF SavedGeneration
<1>6. CASE /\ Succeeds
           /\ history' = [history EXCEPT ![c.pane] = [launch |-> c.launch, generation |-> checkpoint.generation]]
           /\ saved' = [saved EXCEPT ![c.pane][c.launch] = SavedGeneration(c)]
           /\ checkpoint' = [checkpoint EXCEPT !.copy = None, !.generation = 0]
  <2>1. checkpoint' = [checkpoint EXCEPT !.todo = checkpoint.todo, !.copy = None,
                         !.generation = 0, !.failed = checkpoint.failed]
    BY <1>1, <1>6 DEF Checkpoint
  <2>2. saved' = [saved EXCEPT ![c.pane][c.launch] = checkpoint.generation]
    BY <1>5, <1>6
  <2>3. /\ saved' \in [Pane -> [Launch -> Generation]]
        /\ \A q \in Pane, k \in Launch : saved'[q][k] =
             IF q = c.pane /\ k = c.launch THEN checkpoint.generation ELSE saved[q][k]
    BY <1>2, <1>3, <2>2, Nested DEF IInv, TypeOK
  <2>4. /\ checkpoint' \in Checkpoint /\ checkpoint'.at = checkpoint.at /\ checkpoint'.todo = checkpoint.todo
        /\ checkpoint'.copy = None /\ checkpoint'.force = checkpoint.force /\ checkpoint'.on = checkpoint.on
        /\ checkpoint'.failed = checkpoint.failed
    BY <1>1, <1>3, <2>1 DEF Checkpoint
  <2> QED
    BY <1>1, <1>2, <1>4, <1>6, <2>3, <2>4 DEF Succeeds, state
<1>7. CASE /\ Fails
           /\ checkpoint' = [checkpoint EXCEPT !.copy = None, !.generation = 0, !.failed = @ \cup {c.pane}]
           /\ UNCHANGED <<history, saved>>
  <2>1. checkpoint' = [checkpoint EXCEPT !.todo = checkpoint.todo, !.copy = None,
                         !.generation = 0, !.failed = checkpoint.failed \cup {c.pane}]
    BY <1>1, <1>7 DEF Checkpoint
  <2>2. checkpoint.failed \cup {c.pane} \in SUBSET (Pane \cup {None})
    BY <1>2, <1>3
  <2>3. /\ checkpoint' \in Checkpoint /\ checkpoint'.at = checkpoint.at /\ checkpoint'.todo = checkpoint.todo
        /\ checkpoint'.copy = None /\ checkpoint'.force = checkpoint.force /\ checkpoint'.on = checkpoint.on
        /\ checkpoint'.failed = checkpoint.failed \cup {c.pane}
    BY <1>1, <1>3, <2>1, <2>2 DEF Checkpoint
  <2> QED
    BY <1>1, <1>2, <1>4, <1>7, <2>3 DEF state
<1> QED
  BY <1>6, <1>7

\* What is left to be written.
LEMMA PendingAfter ==
  ASSUME IInv
  PROVE  /\ CheckpointDeletes => Pending' = {}
         /\ \A c \in Copy : CheckpointSnapshot(c) =>
              c \in Pending /\ Pending' = IF checkpoint'.copy = None THEN Pending \ {c} ELSE Pending
         /\ CheckpointWrites =>
              checkpoint.copy \in Pending /\ Pending' = Pending \ {checkpoint.copy}
<1> USE HistoryAssumption
<1>1. ASSUME CheckpointDeletes PROVE Pending' = {}
  BY <1>1, Deletes DEF Pending
<1>2. ASSUME NEW c \in Copy, CheckpointSnapshot(c)
      PROVE  c \in Pending /\ Pending' = IF checkpoint'.copy = None THEN Pending \ {c} ELSE Pending
  <2>1. checkpoint # None /\ checkpoint' # None
    BY <1>2, Snapshots DEF Writing
  <2> QED
    BY <1>2, <2>1, Snapshots DEF Pending
<1>3. ASSUME CheckpointWrites
      PROVE  checkpoint.copy \in Pending /\ Pending' = Pending \ {checkpoint.copy}
  <2>1. checkpoint # None /\ checkpoint' # None /\ checkpoint.copy \notin checkpoint.todo
    BY <1>3, Writes DEF Writing, IInv, Copies
  <2> QED
    BY <1>3, <2>1, Writes DEF Pending
<1> QED
  BY <1>1, <1>2, <1>3

-----------------------------------------------------------------------------
LEMMA TypeStep ==
  ASSUME IInv, [Next]_vars
  PROVE  TypeOK'
<1> USE HistoryAssumption DEF IInv, TypeOK, Generation, Saved, Call, Copy, Checkpoint
<1>1. CASE Start
  BY <1>1 DEF Start, Succeeds, Fails, Zero
<1>2. CASE End
  BY <1>2 DEF End, Running, Zero
<1>3. ASSUME NEW p \in Pane, AppendOutput(p) PROVE TypeOK'
  BY <1>3 DEF AppendOutput, Room, state, outputs
<1>4. ASSUME NEW p \in Pane, StopAgent(p) PROVE TypeOK'
  BY <1>4 DEF StopAgent, MuFree, state
<1>5. ASSUME NEW p \in Pane, ExitUnsaved(p) PROVE TypeOK'
  BY <1>5 DEF ExitUnsaved, MuFree, Fails
<1>6. ASSUME NEW p \in Pane, NEW l \in Launch, CreatePane(p, l) PROVE TypeOK'
  BY <1>6 DEF CreatePane, MuFree, NewOutput, Unused, Late, Save
<1>7. ASSUME NEW p \in Pane, NEW l \in Launch, RestartPane(p, l) PROVE TypeOK'
  BY <1>7 DEF RestartPane, MuFree, NewOutput, Unused, Late, state
<1>8. ASSUME NEW panes \in SUBSET Pane, RemovePanes(panes) PROVE TypeOK'
  BY <1>8 DEF RemovePanes, MuFree, Save
<1>9. ASSUME NEW p \in Pane, DeleteHistory(p) PROVE TypeOK'
  <2> USE <1>9 DEF DeleteHistory
  <2>1. call' \in Call \cup {None}
    BY DEF Proceed
  <2>2. history' \in [Pane -> Saved \cup {None}] /\ faults' \in 0..MaxFaults /\ left' \subseteq Pane
    BY DEF Succeeds, Fails
  <2> QED
    BY <2>1, <2>2 DEF state, outputs
<1>10. ASSUME NEW p \in Pane, TrimHistory(p) PROVE TypeOK'
  <2> USE <1>10 DEF TrimHistory
  <2>1. call' \in Call \cup {None}
    BY DEF Proceed
  <2>2. output[p] \in Launch /\ generation[p][output[p]] \in Generation
    OBVIOUS
  <2>3. faults' \in 0..MaxFaults
    BY DEF Succeeds, Fails
  <2>4. history' \in [Pane -> Saved \cup {None}]
    BY <2>2
  <2>5. CASE saved' = saved /\ warning' = [warning EXCEPT ![p] = "save"]
    BY <2>1, <2>3, <2>4, <2>5 DEF state, Settings
  <2>6. CASE saved' = [saved EXCEPT ![p][output[p]] = generation[p][output[p]]] /\ UNCHANGED warning
    <3>1. /\ saved' \in [Pane -> [Launch -> Generation]]
          /\ \A q \in Pane, k \in Launch : saved'[q][k] =
               IF q = p /\ k = output[p] THEN generation[p][output[p]] ELSE saved[q][k]
      BY <2>2, <2>6, Nested
    <3>2. \A q \in Pane, k \in Launch : saved'[q][k] <= generation[q][k]
      BY <3>1, <2>2
    <3> QED
      BY <2>1, <2>3, <2>4, <2>6, <3>1, <3>2 DEF state
  <2> QED
    BY <2>5, <2>6
<1>11. CASE ClearHistory
  <2> USE <1>11 DEF ClearHistory
  <2>1. history' \in [Pane -> Saved \cup {None}] /\ faults' \in 0..MaxFaults /\ left' \subseteq Pane
    BY DEF Succeeds, Fails, NoHistory
  <2>2. warning' \in [Pane -> {"none", "save", "clear"}] /\ \A p \in Pane \ present : warning'[p] = "none"
    OBVIOUS
  <2> QED
    BY <2>1, <2>2 DEF state, outputs
<1>12. CASE TrimOutputs
  BY <1>12 DEF TrimOutputs, HistoryMuFree, applyHistoryLimit, Room, state
<1>13. CASE TurnOff
  <2> USE <1>13 DEF TurnOff
  <2>1. /\ generation' \in [Pane -> [Launch -> Generation]]
        /\ \A p \in Pane, l \in Launch : generation[p][l] <= generation'[p][l]
    BY DEF applyHistoryLimit, Room
  <2>2. \A p \in Pane, l \in Launch : saved[p][l] <= generation'[p][l]
    BY <2>1
  <2>3. call' \in Call /\ on' \in BOOLEAN /\ savedPanes' \subseteq Pane
    BY DEF Save
  <2> QED
    BY <2>1, <2>2, <2>3
<1>14. CASE SetLines
  BY <1>14 DEF SetLines, MuFree, Save, Late
<1>15. CASE CheckpointTick
  BY <1>15 DEF CheckpointTick, StartCheckpoint, MuFree, state, outputs
<1>16. CASE CheckpointDeletes
  <2>1. history' \in [Pane -> Saved \cup {None}] /\ faults' \in 0..MaxFaults /\ left' \subseteq Pane
    BY <1>16, Deletes DEF Fails, NoHistory
  <2>2. checkpoint' \in Checkpoint
    BY <1>16, Deletes
  <2> HIDE DEF Checkpoint
  <2> QED
    BY <1>16, <2>1, <2>2, Deletes
<1>17. ASSUME NEW c \in Copy, CheckpointSnapshot(c) PROVE TypeOK'
  <2> HIDE DEF Checkpoint, Copy
  <2> QED
    BY <1>17, Snapshots
<1>18. CASE CheckpointWrites
  <2> DEFINE c == checkpoint.copy
  <2>1. checkpoint.generation \in Generation
    BY <1>18, Writes
  <2> HIDE DEF Checkpoint, Copy
  <2>2. history' \in [Pane -> Saved \cup {None}] /\ faults' \in 0..MaxFaults
    BY <1>18, <2>1, Writes DEF Fails
  <2>3. saved' \in [Pane -> [Launch -> Generation]]
    BY <1>18, Writes
  <2>4. \A p \in Pane, l \in Launch : saved'[p][l] <= generation[p][l]
    <3>1. checkpoint.generation <= generation[c.pane][c.launch]
      BY <1>18, Writes DEF Copies, Writing
    <3>2. \/ saved' = saved
          \/ \A q \in Pane, k \in Launch : saved'[q][k] =
               IF q = c.pane /\ k = c.launch THEN checkpoint.generation ELSE saved[q][k]
      BY <1>18, Writes
    <3>3. \A q \in Pane, k \in Launch : saved[q][k] <= generation[q][k]
      OBVIOUS
    <3> HIDE DEF c, IInv
    <3> QED
      BY <3>1, <3>2, <3>3
  <2> QED
    BY <1>18, <2>2, <2>3, <2>4, Writes
<1>19. CASE CheckpointWritten
  <2>1. checkpoint \in Checkpoint
    BY <1>19 DEF CheckpointWritten, Writing
  <2>2. [checkpoint EXCEPT !.at = "telling"] \in Checkpoint
    BY <2>1
  <2> HIDE DEF Checkpoint
  <2> QED
    BY <1>19, <2>2 DEF CheckpointWritten, state, outputs
<1>20. CASE CheckpointTells
  <2> USE <1>20 DEF CheckpointTells
  <2>1. \A p \in Pane : /\ Warning(checkpoint.failed, p) \in {"none", "save", "clear"}
                        /\ p \notin present => Warning(checkpoint.failed, p) = "none"
    <3> TAKE p \in Pane
    <3>1. warning[p] \in {"none", "save", "clear"} /\ (p \notin present => warning[p] = "none")
      OBVIOUS
    <3>2. CASE p \notin present
      <4>1. Warning(checkpoint.failed, p) = warning[p]
        <5> HIDE DEF IInv, TypeOK, CheckpointTells
        <5> QED
          BY <3>2 DEF Warning
      <4> QED
        BY <3>1, <4>1
    <3>3. CASE p \in present /\ p \in checkpoint.failed
      BY <3>1, <3>3 DEF Warning
    <3>4. CASE p \in present /\ p \notin checkpoint.failed
      <4>1. Warning(checkpoint.failed, p) \in {"none", warning[p]}
        <5> HIDE DEF IInv, TypeOK, CheckpointTells
        <5>1. CASE checkpoint.failed = {} /\ warning[p] = "save"
          BY <3>4, <5>1 DEF Warning
        <5>2. CASE ~(checkpoint.failed = {} /\ warning[p] = "save")
          BY <3>4, <5>2 DEF Warning
        <5> QED
          BY <5>1, <5>2
      <4> QED
        BY <3>1, <3>4, <4>1
    <3> QED
      BY <3>2, <3>3, <3>4
  <2>2. /\ warning' \in [Pane -> {"none", "save", "clear"}]
        /\ \A p \in Pane \ present : warning'[p] = "none"
    BY <2>1
  <2>3. savedPanes' \subseteq Pane
    BY DEF Save
  <2> QED
    BY <2>2, <2>3 DEF outputs
<1>21. CASE StartClose
  BY <1>21 DEF StartClose, MuFree, state, outputs
<1>22. CASE Drain
  BY <1>22 DEF Drain, MuFree, state
<1>23. CASE FinalCheckpoint
  BY <1>23 DEF FinalCheckpoint, StartCheckpoint, MuFree, state, outputs
<1>24. CASE UNCHANGED vars
  BY <1>24 DEF vars, state, outputs
<1> HIDE DEF IInv, TypeOK, Generation, Saved, Call, Copy, Checkpoint
<1> QED
  BY <1>1, <1>2, <1>3, <1>4, <1>5, <1>6, <1>7, <1>8, <1>9, <1>10, <1>11, <1>12, <1>13, <1>14, <1>15, <1>16, <1>17, <1>18, <1>19, <1>20, <1>21, <1>22, <1>23, <1>24, Zenon DEF Next, CallStep, CheckpointStep

LEMMA SettingsStep ==
  ASSUME IInv, [Next]_vars
  PROVE  Settings'
<1> USE HistoryAssumption DEF IInv, TypeOK, Generation, Saved, Call, Copy, Checkpoint, Settings, Writing, Pending
<1>1. CASE Start
  BY <1>1 DEF Start, Closing
<1>2. CASE End
  BY <1>2 DEF End, Running, Zero
<1>3. ASSUME NEW p \in Pane, AppendOutput(p) PROVE Settings'
  BY <1>3 DEF AppendOutput, Room, state, outputs
<1>4. ASSUME NEW p \in Pane, StopAgent(p) PROVE Settings'
  BY <1>4 DEF StopAgent, MuFree, state
<1>5. ASSUME NEW p \in Pane, ExitUnsaved(p) PROVE Settings'
  BY <1>5 DEF ExitUnsaved, MuFree, Fails
<1>6. ASSUME NEW p \in Pane, NEW l \in Launch, CreatePane(p, l) PROVE Settings'
  BY <1>6 DEF CreatePane, MuFree, NewOutput, Unused, Late, Save
<1>7. ASSUME NEW p \in Pane, NEW l \in Launch, RestartPane(p, l) PROVE Settings'
  BY <1>7 DEF RestartPane, MuFree, NewOutput, Unused, Late, state
<1>8. ASSUME NEW panes \in SUBSET Pane, RemovePanes(panes) PROVE Settings'
  BY <1>8 DEF RemovePanes, MuFree, Save
<1>9. ASSUME NEW p \in Pane, DeleteHistory(p) PROVE Settings'
  BY <1>9 DEF DeleteHistory, Succeeds, Fails, Proceed, HistoryMuFree, state, outputs
<1>10. ASSUME NEW p \in Pane, TrimHistory(p) PROVE Settings'
  BY <1>10 DEF TrimHistory, Succeeds, Fails, Proceed, state
<1>11. CASE ClearHistory
  BY <1>11 DEF ClearHistory, HistoryMuFree, Succeeds, Fails, state, outputs
<1>12. CASE TrimOutputs
  BY <1>12 DEF TrimOutputs, HistoryMuFree, applyHistoryLimit, Room, state
<1>13. CASE TurnOff
  BY <1>13 DEF TurnOff, MuFree, applyHistoryLimit, Room, Save
<1>14. CASE SetLines
  BY <1>14 DEF SetLines, MuFree, Save, Late
<1>15. CASE CheckpointTick
  BY <1>15 DEF CheckpointTick, StartCheckpoint, MuFree, state, outputs
<1>16. CASE CheckpointDeletes
  BY <1>16, Deletes, PendingAfter
<1>17. ASSUME NEW c \in Copy, CheckpointSnapshot(c) PROVE Settings'
  BY <1>17 DEF CheckpointSnapshot, needsSave, state, outputs
<1>18. CASE CheckpointWrites
  <2>1. UNCHANGED <<call, on, present>> /\ (Writing' <=> Writing) /\ checkpoint'.on = checkpoint.on /\ Writing
        /\ checkpoint # None /\ checkpoint' # None /\ checkpoint'.copy = None
    BY <1>18, Writes
  <2> HIDE DEF Pending, Checkpoint, Copy, Saved, Call
  <2> QED
    BY <2>1
<1>19. CASE CheckpointWritten
  BY <1>19 DEF CheckpointWritten, state, outputs
<1>20. CASE CheckpointTells
  BY <1>20 DEF CheckpointTells, MuFree, Warning, Save, outputs
<1>21. CASE StartClose
  BY <1>21 DEF StartClose, MuFree, state, outputs
<1>22. CASE Drain
  BY <1>22 DEF Drain, MuFree, state
<1>23. CASE FinalCheckpoint
  BY <1>23 DEF FinalCheckpoint, StartCheckpoint, MuFree, state, outputs
<1>24. CASE UNCHANGED vars
  BY <1>24 DEF vars, state, outputs
<1> HIDE DEF IInv, TypeOK, Generation, Saved, Call, Copy, Checkpoint, Settings, Writing, Pending
<1> QED
  BY <1>1, <1>2, <1>3, <1>4, <1>5, <1>6, <1>7, <1>8, <1>9, <1>10, <1>11, <1>12, <1>13, <1>14, <1>15, <1>16, <1>17, <1>18, <1>19, <1>20, <1>21, <1>22, <1>23, <1>24, Zenon DEF Next, CallStep, CheckpointStep

LEMMA CopiesStep ==
  ASSUME IInv, [Next]_vars
  PROVE  Copies'
<1> USE HistoryAssumption DEF IInv, TypeOK, Generation, Saved, Call, Copy, Checkpoint, Settings, Copies, Writing, Pending
<1>1. CASE Start
  BY <1>1 DEF Start, Closing
<1>2. CASE End
  BY <1>2 DEF End, Running, Zero
<1>3. ASSUME NEW p \in Pane, AppendOutput(p) PROVE Copies'
  BY <1>3 DEF AppendOutput, Room, state, outputs
<1>4. ASSUME NEW p \in Pane, StopAgent(p) PROVE Copies'
  BY <1>4 DEF StopAgent, MuFree, state
<1>5. ASSUME NEW p \in Pane, ExitUnsaved(p) PROVE Copies'
  BY <1>5 DEF ExitUnsaved, MuFree, Fails
<1>6. ASSUME NEW p \in Pane, NEW l \in Launch, CreatePane(p, l) PROVE Copies'
  <2> USE <1>6 DEF CreatePane
  <2>1. \A c \in Pending : c.pane # p /\ c.pane \in Pane
    <3>1. \A c \in Pending : c \in Copy /\ c # None /\ c \in checkpoint.todo \cup {checkpoint.copy} /\ checkpoint # None
      OBVIOUS
    <3> QED
      BY <3>1
  <2>2. \A q \in Pane : q # p =>
          generation'[q] = generation[q] /\ saved'[q] = saved[q] /\ output'[q] = output[q] /\ (q \in present' <=> q \in present)
    BY DEF NewOutput
  <2>3. checkpoint # None /\ checkpoint.copy # None => checkpoint.copy \in Pending
    OBVIOUS
  <2>4. Pending' = Pending /\ UNCHANGED <<checkpoint, left, call>>
    OBVIOUS
  <2> HIDE DEF Pending, Checkpoint, Copy, Saved, Call
  <2> QED
    BY <2>1, <2>2, <2>3, <2>4
<1>7. ASSUME NEW p \in Pane, NEW l \in Launch, RestartPane(p, l) PROVE Copies'
  BY <1>7, ZenonT(60) DEF RestartPane, MuFree, NewOutput, Unused, Late, state
<1>8. ASSUME NEW panes \in SUBSET Pane, RemovePanes(panes) PROVE Copies'
  BY <1>8 DEF RemovePanes, MuFree, Save
<1>9. ASSUME NEW p \in Pane, DeleteHistory(p) PROVE Copies'
  BY <1>9 DEF DeleteHistory, Succeeds, Fails, Proceed, HistoryMuFree, state, outputs
<1>10. ASSUME NEW p \in Pane, TrimHistory(p) PROVE Copies'
  BY <1>10 DEF TrimHistory, Succeeds, Fails, Proceed, state
<1>11. CASE ClearHistory
  BY <1>11 DEF ClearHistory, HistoryMuFree, Succeeds, Fails, state, outputs
<1>12. CASE TrimOutputs
  BY <1>12 DEF TrimOutputs, HistoryMuFree, applyHistoryLimit, Room, state
<1>13. CASE TurnOff
  BY <1>13 DEF TurnOff, MuFree, applyHistoryLimit, Room, Save
<1>14. CASE SetLines
  BY <1>14 DEF SetLines, MuFree, Save, Late
<1>15. CASE CheckpointTick
  BY <1>15 DEF CheckpointTick, StartCheckpoint, MuFree, state, outputs
<1>16. CASE CheckpointDeletes
  BY <1>16, Deletes, PendingAfter
<1>17. ASSUME NEW c \in Copy, CheckpointSnapshot(c) PROVE Copies'
  BY <1>17 DEF CheckpointSnapshot, needsSave, state, outputs
<1>18. CASE CheckpointWrites
  <2> DEFINE c == checkpoint.copy
  <2>1. /\ checkpoint' # None /\ checkpoint'.copy = None /\ checkpoint'.todo = checkpoint.todo
        /\ checkpoint'.copy \notin checkpoint'.todo
    BY <1>18, Writes
  <2>2. Pending' = Pending \ {c} /\ c \in Pending
    BY <1>18, PendingAfter
  <2>3. UNCHANGED <<present, output, call, left, generation>> /\ (Writing' <=> Writing) /\ checkpoint'.on = checkpoint.on
    BY <1>18, <2>1, Writes
  <2>4. \A d \in Pending' : d.pane \in Pane /\ output[d.pane] \in Launch /\ d.pane # c.pane
    <3>1. \A d \in Pending : d \in Copy
      BY DEF Pending
    <3> QED
      BY <2>2, <3>1
  <2>5. \A d \in Pending' : saved'[d.pane][output[d.pane]] = saved[d.pane][output[d.pane]]
    BY <1>18, <2>4, Writes
  <2> HIDE DEF Pending, Checkpoint, Copy
  <2> QED
    BY <2>1, <2>2, <2>3, <2>5
<1>19. CASE CheckpointWritten
  BY <1>19 DEF CheckpointWritten, state, outputs
<1>20. CASE CheckpointTells
  BY <1>20 DEF CheckpointTells, MuFree, Warning, Save, outputs
<1>21. CASE StartClose
  BY <1>21 DEF StartClose, MuFree, state, outputs
<1>22. CASE Drain
  BY <1>22 DEF Drain, MuFree, state
<1>23. CASE FinalCheckpoint
  BY <1>23 DEF FinalCheckpoint, StartCheckpoint, MuFree, state, outputs
<1>24. CASE UNCHANGED vars
  BY <1>24 DEF vars, state, outputs
<1> HIDE DEF IInv, TypeOK, Generation, Saved, Call, Copy, Checkpoint, Settings, Copies, Writing, Pending
<1> QED
  BY <1>1, <1>2, <1>3, <1>4, <1>5, <1>6, <1>7, <1>8, <1>9, <1>10, <1>11, <1>12, <1>13, <1>14, <1>15, <1>16, <1>17, <1>18, <1>19, <1>20, <1>21, <1>22, <1>23, <1>24, Zenon DEF Next, CallStep, CheckpointStep

LEMMA DiskStep ==
  ASSUME IInv, [Next]_vars
  PROVE  Disk'
<1> USE HistoryAssumption DEF IInv, TypeOK, Generation, Saved, Call, Copy, Checkpoint, Settings, Copies, Disk, IsSaved, Writing, Pending, Running
<1>1. CASE Start
  BY <1>1 DEF Start, Succeeds, Fails, Zero
<1>2. CASE End
  BY <1>2 DEF End, Running, Zero
<1>3. ASSUME NEW p \in Pane, AppendOutput(p) PROVE Disk'
  BY <1>3 DEF AppendOutput, Room, state, outputs
<1>4. ASSUME NEW p \in Pane, StopAgent(p) PROVE Disk'
  BY <1>4 DEF StopAgent, MuFree, state
<1>5. ASSUME NEW p \in Pane, ExitUnsaved(p) PROVE Disk'
  BY <1>5 DEF ExitUnsaved, MuFree, Fails
<1>6. ASSUME NEW p \in Pane, NEW l \in Launch, CreatePane(p, l) PROVE Disk'
  BY <1>6 DEF CreatePane, MuFree, NewOutput, Unused, Late, Save
<1>7. ASSUME NEW p \in Pane, NEW l \in Launch, RestartPane(p, l) PROVE Disk'
  BY <1>7 DEF RestartPane, MuFree, NewOutput, Unused, Late, state
<1>8. ASSUME NEW panes \in SUBSET Pane, RemovePanes(panes) PROVE Disk'
  BY <1>8 DEF RemovePanes, MuFree, Save
<1>9. ASSUME NEW p \in Pane, DeleteHistory(p) PROVE Disk'
  <2>1. /\ call # None /\ call.op = "delete" /\ p \in call.todo /\ p \notin present
        /\ call' # None => call'.op = "delete"
        /\ \A q \in call.todo : q # p => call' # None /\ q \in call'.todo
    BY <1>9 DEF DeleteHistory, Proceed
  <2>2. /\ \A q \in Pane : q # p => history'[q] = history[q] /\ (q \in left' <=> q \in left)
        /\ history'[p] # None => p \in left'
        /\ UNCHANGED <<app, present, on, output, generation, saved>>
    BY <1>9 DEF DeleteHistory, state, outputs
  <2> HIDE DEF Pending, Checkpoint, Copy, Saved, Call
  <2> QED
    BY <2>1, <2>2
<1>10. ASSUME NEW p \in Pane, TrimHistory(p) PROVE Disk'
  BY <1>10 DEF TrimHistory, Succeeds, Fails, Proceed, state
<1>11. CASE ClearHistory
  <2>1. ~on /\ ~on'
    BY <1>11 DEF ClearHistory, state
  <2>2. \A p \in Pane : history'[p] # None => p \in left'
    BY <1>11 DEF ClearHistory, NoHistory
  <2> QED
    BY <2>1, <2>2
<1>12. CASE TrimOutputs
  BY <1>12 DEF TrimOutputs, HistoryMuFree, applyHistoryLimit, Room, state
<1>13. CASE TurnOff
  BY <1>13 DEF TurnOff, MuFree, applyHistoryLimit, Room, Save
<1>14. CASE SetLines
  BY <1>14 DEF SetLines, MuFree, Save, Late
<1>15. CASE CheckpointTick
  BY <1>15 DEF CheckpointTick, StartCheckpoint, MuFree, state, outputs
<1>16. CASE CheckpointDeletes
  <2> HIDE DEF Checkpoint, Copy, Pending
  <2> QED
    BY <1>16, Deletes DEF NoHistory
<1>17. ASSUME NEW c \in Copy, CheckpointSnapshot(c) PROVE Disk'
  BY <1>17 DEF CheckpointSnapshot, needsSave, state, outputs
<1>18. CASE CheckpointWrites
  <2> DEFINE c == checkpoint.copy
  <2>1. c.pane \in Pane /\ c.launch \in Launch /\ c \in Pending /\ checkpoint.on /\ Writing
    BY <1>18, Writes, PendingAfter
  <2>2. UNCHANGED <<app, present, on, output, generation, call, left>>
    BY <1>18, Writes
  <2>3. \/ /\ history' = [history EXCEPT ![c.pane] = [launch |-> c.launch, generation |-> checkpoint.generation]]
           /\ \A q \in Pane, k \in Launch : saved'[q][k] =
                IF q = c.pane /\ k = c.launch THEN checkpoint.generation ELSE saved[q][k]
        \/ UNCHANGED <<history, saved>>
    BY <1>18, Writes
  <2>4. ~on => call # None /\ call.op = "clear"
    BY <2>1
  <2>5. c.pane \in present /\ c.launch # output[c.pane] => saved[c.pane][output[c.pane]] = 0
    BY <2>1
  <2>6. c.pane \in present \cup left \/ (call # None /\ call.op = "delete" /\ c.pane \in call.todo)
    BY <2>1
  <2>7. \A q \in Pane : output[q] \in Launch
    OBVIOUS
  <2> HIDE DEF c, Pending, Checkpoint, Copy, Saved, Call, Settings, Copies
  <2> QED
    BY <2>1, <2>2, <2>3, <2>4, <2>5, <2>6, <2>7
<1>19. CASE CheckpointWritten
  BY <1>19 DEF CheckpointWritten, state, outputs
<1>20. CASE CheckpointTells
  <2>1. UNCHANGED <<present, on, output, generation, saved, history, call, left>>
    BY <1>20 DEF CheckpointTells, outputs
  <2>2. Running
    BY <1>20 DEF CheckpointTells, Closing
  <2> HIDE DEF Pending, Checkpoint, Copy, Saved, Call
  <2> QED
    BY <2>1, <2>2
<1>21. CASE StartClose
  BY <1>21 DEF StartClose, MuFree, state, outputs
<1>22. CASE Drain
  BY <1>22 DEF Drain, MuFree, state
<1>23. CASE FinalCheckpoint
  BY <1>23 DEF FinalCheckpoint, StartCheckpoint, MuFree, state, outputs
<1>24. CASE UNCHANGED vars
  BY <1>24 DEF vars, state, outputs
<1> HIDE DEF IInv, TypeOK, Generation, Saved, Call, Copy, Checkpoint, Settings, Copies, Disk, IsSaved, Writing, Pending, Running
<1> QED
  BY <1>1, <1>2, <1>3, <1>4, <1>5, <1>6, <1>7, <1>8, <1>9, <1>10, <1>11, <1>12, <1>13, <1>14, <1>15, <1>16, <1>17, <1>18, <1>19, <1>20, <1>21, <1>22, <1>23, <1>24, Zenon DEF Next, CallStep, CheckpointStep

LEMMA ClosingStep ==
  ASSUME IInv, [Next]_vars
  PROVE  Closing'
<1> USE HistoryAssumption DEF IInv, TypeOK, Generation, Saved, Call, Copy, Checkpoint, Settings, Copies, Closing, Settled, IsSaved, Writing, Pending
<1>1. CASE Start
  BY <1>1 DEF Start, Succeeds, Fails, Zero
<1>2. CASE End
  BY <1>2 DEF End, Running, Zero
<1>3. ASSUME NEW p \in Pane, AppendOutput(p) PROVE Closing'
  <2>1. /\ p \in live /\ \A q \in Pane : q # p => generation'[q] = generation[q]
        /\ UNCHANGED <<app, present, on, live, output, saved, warning, history, call, checkpoint, late>>
    BY <1>3 DEF AppendOutput, state
  <2>2. Pending' = Pending
    BY <2>1
  <2>3. app \in {"draining", "final", "closed"} => p \in late
    BY <2>1
  <2>4. \A q \in Pane : q # p => (Settled(q)' <=> Settled(q))
    BY <2>1
  <2>5. present \subseteq Pane
    OBVIOUS
  <2> HIDE DEF Pending, Checkpoint, Copy, Saved, Call, TypeOK, Settings, Copies, Settled, IsSaved
  <2> QED
    BY <2>1, <2>2, <2>3, <2>4, <2>5
<1>4. ASSUME NEW p \in Pane, StopAgent(p) PROVE Closing'
  BY <1>4 DEF StopAgent, MuFree, state
<1>5. ASSUME NEW p \in Pane, ExitUnsaved(p) PROVE Closing'
  <2>1. /\ present' = present \ {p} /\ live' = live \ {p} /\ p \in present
        /\ \A q \in present' : warning'[q] = warning[q]
        /\ UNCHANGED <<app, on, output, generation, history, call, checkpoint, late>>
    BY <1>5 DEF ExitUnsaved, MuFree
  <2>2. Pending' = Pending
    BY <2>1
  <2> HIDE DEF Pending, Checkpoint, Copy, Saved, Call
  <2> QED
    BY <2>1, <2>2
<1>6. ASSUME NEW p \in Pane, NEW l \in Launch, CreatePane(p, l) PROVE Closing'
  <2>1. \A q \in Pane : q # p =>
          /\ generation'[q] = generation[q] /\ output'[q] = output[q] /\ warning'[q] = warning[q]
          /\ (q \in present' => q \in present)
    BY <1>6 DEF CreatePane, NewOutput, state
  <2>2. /\ UNCHANGED <<app, on, history, call, checkpoint>> /\ live' = live \cup {p} /\ call = None
        /\ app \in {"draining", "final", "closed"} => late' = late \cup {p}
        /\ app # "down"
    BY <1>6 DEF CreatePane, NewOutput, Late, MuFree, Running, state
  <2>3. Pending' = Pending
    BY <2>2
  <2>4. present' \subseteq present \cup {p} /\ (late' = late \/ late' = late \cup {p})
    BY <1>6 DEF CreatePane, NewOutput, Late, state
  <2> HIDE DEF Pending, Checkpoint, Copy, Saved, Call
  <2> QED
    BY <2>1, <2>2, <2>3, <2>4
<1>7. ASSUME NEW p \in Pane, NEW l \in Launch, RestartPane(p, l) PROVE Closing'
  <2>1. \A q \in Pane : q # p =>
          /\ generation'[q] = generation[q] /\ output'[q] = output[q] /\ warning'[q] = warning[q]
          /\ (q \in present' => q \in present)
    BY <1>7 DEF RestartPane, NewOutput, state
  <2>2. /\ UNCHANGED <<app, on, history, call, checkpoint>> /\ live' = live \cup {p} /\ call = None
        /\ app \in {"draining", "final", "closed"} => late' = late \cup {p}
        /\ app # "down"
    BY <1>7 DEF RestartPane, NewOutput, Late, MuFree, Running, state
  <2>3. Pending' = Pending
    BY <2>2
  <2>4. present' \subseteq present \cup {p} /\ (late' = late \/ late' = late \cup {p})
    BY <1>7 DEF RestartPane, NewOutput, Late, state
  <2> HIDE DEF Pending, Checkpoint, Copy, Saved, Call
  <2> QED
    BY <2>1, <2>2, <2>3, <2>4
<1>8. ASSUME NEW panes \in SUBSET Pane, RemovePanes(panes) PROVE Closing'
  <2>1. /\ \A q \in present' : q \in present /\ warning'[q] = warning[q]
        /\ live' \subseteq live /\ call'.op = "delete"
        /\ UNCHANGED <<app, on, output, generation, history, checkpoint, late>>
    BY <1>8 DEF RemovePanes, MuFree
  <2>2. app # "down"
    BY <1>8 DEF RemovePanes
  <2>3. Pending' = Pending
    BY <2>1
  <2> HIDE DEF Pending, Checkpoint, Copy, Saved, Call
  <2> QED
    BY <2>1, <2>2, <2>3
<1>9. ASSUME NEW p \in Pane, DeleteHistory(p) PROVE Closing'
  <2>1. /\ p \notin present /\ \A q \in Pane : q # p => history'[q] = history[q]
        /\ call # None /\ call.op = "delete" /\ (call' # None => call'.op = "delete")
        /\ UNCHANGED <<app, present, on, live, output, generation, warning, checkpoint, late>>
    BY <1>9 DEF DeleteHistory, Proceed, state, outputs
  <2>2. Pending' = Pending
    BY <2>1
  <2> HIDE DEF Pending, Checkpoint, Copy, Saved, Call
  <2> QED
    BY <2>1, <2>2
<1>10. ASSUME NEW p \in Pane, TrimHistory(p) PROVE Closing'
  BY <1>10 DEF TrimHistory, Succeeds, Fails, Proceed, state
<1>11. CASE ClearHistory
  BY <1>11 DEF ClearHistory, HistoryMuFree, Succeeds, Fails, state, outputs
<1>12. CASE TrimOutputs
  BY <1>12 DEF TrimOutputs, HistoryMuFree, applyHistoryLimit, Room, state
<1>13. CASE TurnOff
  <2>1. /\ ~on' /\ call'.op = "clear" /\ app # "down"
        /\ UNCHANGED <<app, present, live, checkpoint, late>>
    BY <1>13 DEF TurnOff, Running
  <2> HIDE DEF Pending, Checkpoint, Copy, Saved, Call
  <2> QED
    BY <2>1
<1>14. CASE SetLines
  <2>1. /\ app # "down" /\ UNCHANGED <<app, present, live, checkpoint, output, generation, warning, history>>
        /\ app \in {"draining", "final", "closed"} => late' = late \cup present
        /\ late' = late \cup present \/ late' = late
    BY <1>14 DEF SetLines, Running, Late
  <2> HIDE DEF Pending, Checkpoint, Copy, Saved, Call
  <2> QED
    BY <2>1
<1>15. CASE CheckpointTick
  BY <1>15 DEF CheckpointTick, StartCheckpoint, MuFree, state, outputs
<1>16. CASE CheckpointDeletes
  <2>1. checkpoint # None /\ checkpoint' # None /\ ~checkpoint.on /\ checkpoint'.force = checkpoint.force
    BY <1>16, Deletes
  <2>2. UNCHANGED <<app, present, on, live, call, late>>
    BY <1>16, Deletes
  <2> HIDE DEF Pending, Checkpoint, Copy, Saved, Call
  <2> QED
    BY <2>1, <2>2
<1>17. ASSUME NEW c \in Copy, CheckpointSnapshot(c) PROVE Closing'
  <2>1. checkpoint # None /\ checkpoint' # None /\ checkpoint'.force = checkpoint.force /\ checkpoint'.on = checkpoint.on
        /\ checkpoint'.failed = checkpoint.failed
    BY <1>17, Snapshots
  <2>2. UNCHANGED <<app, present, on, live, call, late, output, generation, history, warning>>
    BY <1>17, Snapshots
  <2>3. checkpoint.force =>
          checkpoint'.copy = c /\ checkpoint'.generation = generation[c.pane][c.launch] /\ c \in Pending /\ Pending' = Pending
    <3>1. c # None
      BY HistoryAssumption
    <3>2. /\ ~checkpoint.force \/ (checkpoint'.copy = c /\ checkpoint'.generation = generation[c.pane][c.launch])
          /\ c \in Pending /\ Pending' = IF checkpoint'.copy = None THEN Pending \ {c} ELSE Pending
      BY <1>17, Snapshots, PendingAfter
    <3> QED
      BY <3>1, <3>2
  <2> HIDE DEF Pending, Checkpoint, Copy, Saved, Call
  <2> QED
    BY <2>1, <2>2, <2>3
<1>18. CASE CheckpointWrites
  <2> DEFINE c == checkpoint.copy
  <2>1. /\ checkpoint # None /\ checkpoint' # None /\ checkpoint'.force = checkpoint.force /\ checkpoint'.on = checkpoint.on
        /\ checkpoint'.copy = None /\ c # None
    BY <1>18, Writes
  <2>2. UNCHANGED <<app, present, on, live, call, late, output, generation, warning>>
    BY <1>18, Writes
  <2>3. c \in Pending /\ Pending' = Pending \ {c} /\ c.pane \in Pane
    BY <1>18, PendingAfter, Writes
  <2>4. \/ /\ history' = [history EXCEPT ![c.pane] = [launch |-> c.launch, generation |-> checkpoint.generation]]
           /\ checkpoint'.failed = checkpoint.failed
        \/ checkpoint'.failed = checkpoint.failed \cup {c.pane} /\ UNCHANGED history
    BY <1>18, Writes
  <2>5. \A q \in Pane : q # c.pane => [pane |-> q, launch |-> output[q]] # c
    OBVIOUS
  <2>6. history \in [Pane -> Saved \cup {None}] /\ present \subseteq Pane
    OBVIOUS
  <2>7. Closing
    OBVIOUS
  <2>8. app \in {"final", "closed"} \/ app \notin {"final", "closed"}
    OBVIOUS
  <2>9. CASE app = "final" /\ on
    <3> SUFFICES ASSUME NEW q \in present \ late
                 PROVE  Settled(q)' \/ q \in checkpoint'.failed \/ [pane |-> q, launch |-> output[q]] \in Pending'
      <4> HIDE DEF c, Pending, Checkpoint, Copy, Saved, Call, Settings, Copies, TypeOK, Settled, IInv
      <4> QED
        BY <2>1, <2>2, <2>3, <2>7, <2>9
    <3>1. CASE q # c.pane
      <4> HIDE DEF c, Pending, Checkpoint, Copy, Saved, Call, Settings, Copies, IInv
      <4> QED
        BY <2>2, <2>3, <2>4, <2>5, <2>6, <2>7, <2>9, <3>1
    <3>2. CASE q = c.pane
      <4>1. c.launch = output[q] /\ checkpoint.generation = generation[q][output[q]]
        <5> HIDE DEF Pending, Checkpoint, Copy, Saved, Call, Settings, Copies, IInv, TypeOK, Settled, IsSaved
        <5> QED
          BY <2>1, <2>3, <2>7, <2>9, <3>2
      <4> HIDE DEF c, Pending, Checkpoint, Copy, Saved, Call, Settings, Copies, IInv, Closing
      <4> QED
        BY <2>2, <2>4, <2>6, <3>2, <4>1
    <3> QED
      BY <3>1, <3>2
  <2> HIDE DEF c, Pending, Checkpoint, Copy, Saved, Call, Settings, Copies, TypeOK, IInv
  <2> QED
    BY <2>1, <2>2, <2>7, <2>9
<1>19. CASE CheckpointWritten
  <2>1. checkpoint \in Checkpoint /\ checkpoint' = [checkpoint EXCEPT !.at = "telling"] /\ checkpoint.todo = {} /\ checkpoint.copy = None
    BY <1>19 DEF CheckpointWritten, Writing
  <2>2. /\ checkpoint' # None /\ checkpoint'.force = checkpoint.force /\ checkpoint'.on = checkpoint.on /\ checkpoint'.failed = checkpoint.failed
        /\ checkpoint'.todo = {} /\ checkpoint'.copy = None
    <3> HIDE DEF IInv, TypeOK, Checkpoint, Settings, Copies, Closing, Pending
    <3> QED
      BY <2>1, Released
  <2>3. UNCHANGED <<app, present, on, live, call, late, output, generation, history, warning>>
    BY <1>19 DEF CheckpointWritten, state, outputs
  <2>4. Pending = {} /\ Pending' = {} /\ checkpoint # None
    BY <2>1, <2>2
  <2> HIDE DEF Pending, Checkpoint, Copy, Saved, Call
  <2> QED
    BY <2>2, <2>3, <2>4
<1>20. CASE CheckpointTells
  BY <1>20 DEF CheckpointTells, MuFree, Warning, Save, outputs
<1>21. CASE StartClose
  BY <1>21 DEF StartClose, MuFree, state, outputs
<1>22. CASE Drain
  BY <1>22 DEF Drain, MuFree, state
<1>23. CASE FinalCheckpoint
  <2>1. /\ checkpoint' # None /\ checkpoint'.force /\ checkpoint'.on = on /\ checkpoint'.copy = None
        /\ checkpoint'.todo = {[pane |-> p, launch |-> output[p]] : p \in present}
        /\ app = "draining" /\ app' = "final" /\ call = None
        /\ UNCHANGED <<present, on, live, call, late, output, generation, history, warning>>
    <3>1. checkpoint' = [at |-> "writing", force |-> TRUE, on |-> on,
                         todo |-> {[pane |-> p, launch |-> output[p]] : p \in present},
                         copy |-> None, generation |-> 0, failed |-> {}]
      BY <1>23 DEF FinalCheckpoint, StartCheckpoint
    <3>2. {[pane |-> p, launch |-> output[p]] : p \in present} \in SUBSET Copy /\ 0 \in Generation /\ on \in BOOLEAN
      OBVIOUS
    <3>3. checkpoint' \in Checkpoint
      BY <3>1, <3>2
    <3>4. /\ app = "draining" /\ app' = "final" /\ call = None
          /\ UNCHANGED <<present, on, live, call, late, output, generation, history, warning>>
      BY <1>23 DEF FinalCheckpoint, StartCheckpoint, MuFree, state, outputs
    <3> QED
      BY <3>1, <3>3, <3>4
  <2>2. Pending' = {[pane |-> p, launch |-> output[p]] : p \in present}
    BY <2>1
  <2> HIDE DEF Pending, Checkpoint, Copy, Saved, Call
  <2> QED
    BY <2>1, <2>2
<1>24. CASE UNCHANGED vars
  BY <1>24 DEF vars, state, outputs
<1> HIDE DEF IInv, TypeOK, Generation, Saved, Call, Copy, Checkpoint, Settings, Copies, Closing, Settled, IsSaved, Writing, Pending
<1> QED
  BY <1>1, <1>2, <1>3, <1>4, <1>5, <1>6, <1>7, <1>8, <1>9, <1>10, <1>11, <1>12, <1>13, <1>14, <1>15, <1>16, <1>17, <1>18, <1>19, <1>20, <1>21, <1>22, <1>23, <1>24, Zenon DEF Next, CallStep, CheckpointStep

LEMMA InvariantStep ==
  ASSUME IInv, [Next]_vars
  PROVE  IInv'
  BY TypeStep, SettingsStep, CopiesStep, DiskStep, ClosingStep DEF IInv

LEMMA Invariant == Spec => []IInv
<1>1. Init => IInv
  BY InitInvariant
<1>2. IInv /\ [Next]_vars => IInv'
  BY InvariantStep
<1> QED
  BY <1>1, <1>2, PTL DEF Spec

-----------------------------------------------------------------------------
(***************************************************************************)
(* The history of a removed pane is deleted and does not come back,        *)
(* whatever checkpoint was under way when it was removed.                  *)
(***************************************************************************)
THEOREM RemovedPanesCorrect == Spec => []RemovedPanesLeaveNoHistory
<1>1. IInv => RemovedPanesLeaveNoHistory
  BY DEF IInv, Disk, RemovedPanesLeaveNoHistory
<1> QED
  BY <1>1, Invariant, PTL

(***************************************************************************)
(* With history off the database has none, but for what a call is about to *)
(* delete or could not; and when Close has returned the last output of     *)
(* every pane is saved, or a warning tells that it is not.                 *)
(***************************************************************************)
THEOREM HistoryInvCorrect == Spec => []HistoryInv
<1>1. IInv => OffLeavesNoHistory
  BY DEF IInv, Disk, OffLeavesNoHistory
<1>2. IInv => ClosedMeansSaved
  <2> SUFFICES ASSUME IInv, app = "closed", on, NEW p \in present \ late
               PROVE  \/ generation[p][output[p]] = 0
                      \/ history[p] = [launch |-> output[p], generation |-> generation[p][output[p]]]
                      \/ warning[p] # "none"
    BY DEF ClosedMeansSaved
  <2>1. Settled(p) \/ warning[p] # "none"
    BY DEF IInv, Closing
  <2> QED
    BY <2>1 DEF Settled, IsSaved
<1>3. IInv => HistoryInv
  BY <1>1, <1>2 DEF IInv, HistoryInv
<1> QED
  BY <1>3, Invariant, PTL

(***************************************************************************)
(* What a checkpoint skips is on disk, also after history was turned off,  *)
(* deleted and turned on again.                                            *)
(***************************************************************************)
THEOREM SkippedOutputCorrect == Spec => []SkippedOutputIsOnDisk
<1>1. IInv => SkippedOutputIsOnDisk
  <2> SUFFICES ASSUME IInv, Running, on, MuFree, NEW p \in present,
                      generation[p][output[p]] > 0, generation[p][output[p]] = saved[p][output[p]]
               PROVE  IsSaved(p)
    BY DEF SkippedOutputIsOnDisk, IsSaved
  <2>1. p \in Pane
    BY DEF IInv, TypeOK
  <2> QED
    BY <2>1 DEF IInv, Disk, MuFree
<1> QED
  BY <1>1, Invariant, PTL
=============================================================================
