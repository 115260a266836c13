------------------------------ MODULE GuiSync ------------------------------
(***************************************************************************)
(* How the window keeps its copy of the runtime's state                    *)
(* (frontend/src/App.svelte): it polls state.get, applies what mutations   *)
(* answer, and shows a pane the user focuses as active before the runtime  *)
(* has agreed.  Every call has a connection and a goroutine of its own:    *)
(* calls are served, and their answers arrive, in any order.               *)
(*                                                                         *)
(* A state is its revision, its panes and which of them is active; other   *)
(* mutations (renames, settings, tabs) differ from these in data only.     *)
(***************************************************************************)
EXTENDS Naturals, FiniteSets

CONSTANTS
  Pane,
  Call,         \* calls in flight at the same time
  None,
  MaxChanges,   \* bound: no other client changes a later revision
  MaxClicks,    \* bound: what the user does
  MaxFaults     \* bound: calls, or answers, that are lost; failed saves

View == [revision : Nat, panes : SUBSET Pane, active : Pane \cup {None}]
NoView == [revision |-> 0, panes |-> {}, active |-> None]
Mutation == {"pane.focus", "tab.focus", "pane.close"}
CallRecord ==
  [method : Mutation \cup {"state.get"}, pane : Pane \cup {None}, polling : BOOLEAN,
   generation : 0..MaxClicks, status : {"sent", "answered", "refused", "lost"}, answer : View]

ASSUME GuiSyncAssumption ==
  /\ Pane # {} /\ None \notin Pane \cup View \cup CallRecord
  /\ {MaxChanges, MaxClicks, MaxFaults} \subseteq Nat

VARIABLES
  state,            \* the runtime's
  view,             \* the window's copy; None before the first
  busy,             \* a mutation is unanswered (the window's flag)
  connected,
  focusGeneration,  \* how often the user has focused a pane
  calls,            \* calls in flight
  focusLost,        \* history: a focus has failed since the view was replaced
  clicks, faults

windowVars == <<view, busy, connected, focusGeneration>>
vars == <<state, windowVars, calls, focusLost, clicks, faults>>

TypeOK ==
  /\ state \in View
  /\ state.active \in IF state.panes = {} THEN {None} ELSE state.panes
  /\ view \in View \cup {None}
  /\ busy \in BOOLEAN /\ connected \in BOOLEAN
  /\ focusGeneration \in 0..clicks
  /\ calls \in [Call -> CallRecord \cup {None}]
  /\ focusLost \in BOOLEAN
  /\ clicks \in 0..MaxClicks /\ faults \in 0..MaxFaults

InFlight(method) == {c \in Call : calls[c] # None /\ calls[c].method = method}
Mutating == UNION {InFlight(m) : m \in Mutation}

Init ==
  /\ state \in [revision : {0}, panes : {Pane}, active : Pane]
  /\ view = None
  /\ busy = FALSE /\ connected = FALSE
  /\ focusGeneration = 0
  /\ calls = [c \in Call |-> None]
  /\ focusLost = FALSE
  /\ clicks = 0 /\ faults = 0

-----------------------------------------------------------------------------
(* The window. *)

\* The names of calls mean nothing: the first free one is taken.
Send(c, method, pane, polling, generation) ==
  /\ calls[c] = None /\ c = CHOOSE d \in Call : calls[d] = None
  /\ calls' = [calls EXCEPT ![c] = [method |-> method, pane |-> pane, polling |-> polling,
        generation |-> generation, status |-> "sent", answer |-> NoView]]

\* Mutant: the generation is taken once, as the window opens.
RefreshOfMount(c, polling) == Send(c, "state.get", None, polling, 0)

Refresh(c, polling) == Send(c, "state.get", None, polling, focusGeneration)

\* The timer of poll is set again when its call has ended.
Poll(c) ==
  /\ ~busy
  /\ \A d \in InFlight("state.get") : ~calls[d].polling
  /\ Refresh(c, TRUE)
  /\ UNCHANGED <<state, windowVars, focusLost, clicks, faults>>

Click == clicks < MaxClicks /\ clicks' = clicks + 1

\* Paneacea.Reconnect
Reconnect(c) ==
  /\ Click
  /\ Refresh(c, FALSE)
  /\ UNCHANGED <<state, windowVars, focusLost, faults>>

\* Tabs, workspaces and menus, and the first pane as the window starts.
Mutate(c, method, p) ==
  /\ view # None /\ p \in view.panes
  /\ Click
  /\ busy' = TRUE
  /\ Send(c, method, p, FALSE, 0)
  /\ UNCHANGED <<state, view, connected, focusGeneration, focusLost, faults>>

Focus(c, p) ==
  /\ view # None /\ p \in view.panes
  /\ Click
  /\ focusGeneration' = focusGeneration + 1
  /\ view' = [view EXCEPT !.active = p]
  /\ busy' = TRUE
  /\ Send(c, "pane.focus", p, FALSE, 0)
  /\ UNCHANGED <<state, connected, focusLost, faults>>

\* Mutant: whatever arrives last is shown.
ApplyAlways(next) == next

Apply(next) == IF view = None \/ next.revision > view.revision THEN next ELSE view

End(c) == calls' = [calls EXCEPT ![c] = None]

\* refresh: an answer asked for before the latest focus is dropped.
Refreshed(c) ==
  /\ c \in InFlight("state.get") /\ calls[c].status # "sent"
  /\ LET current == calls[c].status = "answered" /\ calls[c].generation = focusGeneration
     IN  /\ view' = IF current THEN Apply(calls[c].answer) ELSE view
         /\ connected' = (current \/ (connected /\ calls[c].status = "answered"))
  /\ focusLost' = (focusLost /\ view' = view)
  /\ End(c)
  /\ UNCHANGED <<state, busy, focusGeneration, clicks, faults>>

\* mutate, and perform, which shows its error.
Mutated(c) ==
  /\ c \in Mutating /\ calls[c].status # "sent"
  /\ view' = IF calls[c].status = "answered" THEN Apply(calls[c].answer) ELSE view
  /\ connected' = (calls[c].status = "answered" \/ (connected /\ calls[c].status = "refused"))
  /\ busy' = FALSE
  /\ focusLost' = (focusLost /\ view' = view)
  /\ End(c)
  /\ UNCHANGED <<state, focusGeneration, clicks, faults>>

-----------------------------------------------------------------------------
(* The runtime. *)

\* What a mutation makes of the state; another pane takes over from an
\* active one that is closed.
Effects(method, p) ==
  IF method # "pane.close"
  THEN {[state EXCEPT !.active = p]}
  ELSE {[state EXCEPT !.panes = @ \ {p}, !.active = q] :
          q \in IF state.active # p THEN {state.active}
                ELSE IF state.panes = {p} THEN {None} ELSE state.panes \ {p}}

\* Mutant: revisions count what is created and closed.
ChangedUncounted(next) ==
  state' = [next EXCEPT !.revision = IF next.panes = state.panes THEN @ ELSE @ + 1]

Changed(next) == state' = [next EXCEPT !.revision = @ + 1]

Answer(c, status, answer) ==
  calls' = [calls EXCEPT ![c].status = status, ![c].answer = answer]

\* A call fails that the runtime has not served.
Fault(c) ==
  /\ faults < MaxFaults /\ faults' = faults + 1
  /\ focusLost' = (focusLost \/ (calls[c].method = "pane.focus" /\ calls[c].status = "sent"))

ServeGet(c) ==
  /\ c \in InFlight("state.get") /\ calls[c].status = "sent"
  /\ Answer(c, "answered", state)
  /\ UNCHANGED <<state, windowVars, focusLost, clicks, faults>>

ServeMutation(c) ==
  /\ c \in Mutating /\ calls[c].status = "sent" /\ calls[c].pane \in state.panes
  /\ \E next \in Effects(calls[c].method, calls[c].pane) : Changed(next)
  /\ Answer(c, "answered", state')
  /\ UNCHANGED <<windowVars, focusLost, clicks, faults>>

\* The pane is gone: nothing changes.
Refuse(c) ==
  /\ c \in Mutating /\ calls[c].status = "sent" /\ calls[c].pane \notin state.panes
  /\ Answer(c, "refused", NoView)
  /\ UNCHANGED <<state, windowVars, focusLost, clicks, faults>>

\* The state cannot be saved and is rolled back.
SaveFails(c) ==
  /\ c \in Mutating /\ calls[c].status = "sent"
  /\ Fault(c)
  /\ Answer(c, "refused", NoView)
  /\ UNCHANGED <<state, windowVars, clicks>>

\* A call, or its answer, is lost.
Lose(c) ==
  /\ calls[c] # None /\ calls[c].status \in {"sent", "answered"}
  /\ Fault(c)
  /\ Answer(c, "lost", NoView)
  /\ UNCHANGED <<state, windowVars, clicks>>

\* The monitor, shells that end, and other clients.
OtherChange ==
  /\ state.revision < MaxChanges
  /\ \/ Changed(state)
     \/ \E m \in {"pane.focus", "pane.close"}, p \in state.panes : \E next \in Effects(m, p) : Changed(next)
  /\ UNCHANGED <<windowVars, calls, focusLost, clicks, faults>>

-----------------------------------------------------------------------------
Serve(c) == ServeGet(c) \/ ServeMutation(c) \/ Refuse(c)
Arrive(c) == Refreshed(c) \/ Mutated(c)

Next ==
  \/ \E c \in Call : Poll(c) \/ Reconnect(c) \/ Serve(c) \/ SaveFails(c) \/ Lose(c) \/ Arrive(c)
  \/ \E c \in Call, p \in Pane : Focus(c, p) \/ \E m \in {"tab.focus", "pane.close"} : Mutate(c, m, p)
  \/ OtherChange

\* Calls are served and answered or fail; the window polls as long as it is
\* open and not busy.
Fairness ==
  /\ WF_vars(\E c \in Call : Poll(c))
  /\ \A c \in Call : WF_vars(Serve(c)) /\ WF_vars(Arrive(c))

Spec == Init /\ [][Next]_vars /\ Fairness

-----------------------------------------------------------------------------
(***************************************************************************)
(* What the window shows never goes back: an answer that is overtaken by a *)
(* later one changes nothing.                                              *)
(***************************************************************************)
NeverBack ==
  [][view # None => view' # None /\ view'.revision >= view.revision]_view

\* What the window shows is what the runtime has, but for a focus that failed:
\* nothing takes it back before the next revision.
Shown == view = state \/ (focusLost /\ view = [state EXCEPT !.active = view.active])

(***************************************************************************)
(* Revisions tell the window what it has missed: once its own focuses have *)
(* ended, well or not, it shows an older revision or what the runtime has, *)
(* and if a focus has failed no more than the active pane differs.         *)
(***************************************************************************)
Coherent ==
  view # None /\ InFlight("pane.focus") = {} =>
    view.revision <= state.revision /\ (view.revision = state.revision => Shown)

(***************************************************************************)
(* "Updates are synchronized through persisted state revisions": when      *)
(* nothing changes any more the window shows what the runtime has, however *)
(* calls were answered or lost before, but for the pane of a focus that    *)
(* has failed.                                                             *)
(***************************************************************************)
Converges == <>[](connected /\ view # None /\ Shown)
=============================================================================
