----------------------------- MODULE SavedPanes -----------------------------
(***************************************************************************)
(* What the runtime promises about the database, whatever happens in       *)
(* between: a saved pane stays saved, across crashes, restarts and         *)
(* shutdowns, until a client closes it or the shell it runs has ended by   *)
(* itself; and an id that is gone never comes back.                        *)
(***************************************************************************)
CONSTANT Pane

VARIABLES
  saved,    \* panes in the saved state
  ended,    \* panes whose shell has ended by itself: their record may go
  closed,   \* panes a client has closed
  issued    \* ids that have been drawn

vars == <<saved, ended, closed, issued>>

Init ==
  /\ saved = {}
  /\ ended = {}
  /\ closed = {}
  /\ issued = {}

(***************************************************************************)
(* Any save may also drop the records of panes that ended; and a pane that *)
(* ended but was not dropped may be given a fresh shell.                   *)
(***************************************************************************)
Saving(created, dropped) ==
  /\ saved' \in SUBSET (saved \cup created)
  /\ created \subseteq saved'
  /\ dropped \cap saved' = {}
  /\ saved \ saved' \subseteq ended \cup dropped
  /\ ended' \in SUBSET ended

\* A new id, for a pane that is saved or for an attempt that fails.
Create(p) ==
  /\ p \notin issued
  /\ issued' = issued \cup {p}
  /\ \E created \in SUBSET {p} : Saving(created, {})
  /\ UNCHANGED closed

Close(S) ==
  /\ S \subseteq saved
  /\ closed' = closed \cup S
  /\ Saving({}, S)
  /\ UNCHANGED issued

ShellEnds(p) ==
  /\ ended' = ended \cup {p}
  /\ UNCHANGED <<saved, closed, issued>>

Save ==
  /\ Saving({}, {})
  /\ UNCHANGED <<closed, issued>>

Next ==
  \/ \E p \in Pane : Create(p) \/ ShellEnds(p)
  \/ \E S \in SUBSET Pane : Close(S)
  \/ Save

Spec == Init /\ [][Next]_vars
=============================================================================
