---------------------------- MODULE OutputStream ----------------------------
(***************************************************************************)
(* How the output of a pane reaches the screen: the output buffers of its  *)
(* launches (src/internal/daemon/output.go), the lookup in Call, the       *)
(* streams of src/internal/desktop/app.go, and the read loop of the        *)
(* terminal view (src/frontend/src/components/XtermView.svelte), which     *)
(* PaneTree mounts anew whenever the pane's process id changes.            *)
(*                                                                         *)
(* The pane is restarted, stopped, closed and hidden under its readers: a  *)
(* call that is under way holds on to the buffer it found, and a view that *)
(* is disposed of leaves a call behind, which Detach cancels.              *)
(***************************************************************************)
EXTENDS OutputBuffer

CONSTANTS
  View,       \* terminal views: a value is used again once its view is over
  None,       \* no view
  OtherTab,   \* whether the window has another tab to show
  MaxLaunch,  \* bound: launches of the pane
  MaxBytes,   \* bound: bytes a launch writes
  MaxCut      \* bound: bytes a snapshot leaves out

ASSUME ViewAssumption == None \notin View
ASSUME TabAssumption == OtherTab \in BOOLEAN
ASSUME BoundsAssumption == MaxLaunch \in Nat \ {0} /\ MaxBytes \in Nat /\ MaxCut \in Nat

VARIABLES
  out,        \* the output buffer of every launch
  launches,   \* launches so far
  cur,        \* r.outputs[pane], or 0
  alive,      \* launches whose shell may still write
  status,     \* of the pane: "running", "stopped" (agent.stop) or "gone"
  known,      \* the pane's process id in the state the window has
  mounted,    \* the view on the screen; every other one is disposed
  pc,         \* per view: where its read loop and the call it made are
  method,     \* per view: what ReadOutput decided to call
  held,       \* per view: the output buffer the call found
  answer,     \* per view: what the call returned
  sequence,   \* per view: as in read()
  shown,      \* the bytes the mounted view's screen reflects, with their launch
  of,         \* the launch of the last snapshot it was given, or 0
  finished,   \* it has printed "[Process exited ...]"
  streams,    \* App.streams
  cancelled,  \* views whose pending call had its stream cancelled
  detaching   \* disposed views whose Detach is still on its way

paneVars == <<out, launches, cur, alive, status>>
callVars == <<pc, method, held, answer, sequence>>
screenVars == <<shown, of, finished>>
appVars == <<streams, cancelled, detaching>>
vars == <<paneVars, known, mounted, callVars, screenVars, appVars>>

Launch == 1..MaxLaunch

\* Mutant: views are mounted anew only when the pane appears or goes.
KeyOfPaneAlone == IF status = "gone" THEN -1 ELSE 0

\* A stopped pane has process id 0; -1 stands for no pane.
Key == CASE status = "running" -> cur
         [] status = "stopped" -> 0
         [] status = "gone" -> -1

Answer == [snapshot: BOOLEAN, data: Seq(Nat), sequence: Nat, exited: BOOLEAN]

Nothing(s) == [snapshot |-> FALSE, data |-> <<>>, sequence |-> s, exited |-> FALSE]

TypeOK ==
  /\ out \in [Launch -> Output]
  /\ launches \in Launch
  /\ cur \in 0..launches
  /\ alive \in SUBSET (1..launches)
  /\ status \in {"running", "stopped", "gone"}
  /\ known \in -1..MaxLaunch
  /\ mounted \in View \cup {None}
  /\ pc \in [View -> {"idle", "loop", "called", "waiting", "answered"}]
  /\ method \in [View -> {"attach", "read"}]
  /\ held \in [View -> 0..launches]
  /\ answer \in [View -> Answer]
  /\ sequence \in [View -> Nat]
  /\ shown \in Seq(Launch \X Nat)
  /\ of \in 0..launches
  /\ finished \in BOOLEAN
  /\ streams \in SUBSET View
  /\ cancelled \in SUBSET View
  /\ detaching \in SUBSET View

Init ==
  /\ out = [l \in Launch |-> newOutput]
  /\ launches = 1
  /\ cur = 1
  /\ alive = {1}
  /\ status = "running"
  /\ known = -1
  /\ mounted = None
  /\ pc = [v \in View |-> "idle"]
  /\ method = [v \in View |-> "attach"]
  /\ held = [v \in View |-> 0]
  /\ answer = [v \in View |-> Nothing(0)]
  /\ sequence = [v \in View |-> 0]
  /\ shown = <<>>
  /\ of = 0
  /\ finished = FALSE
  /\ streams = {}
  /\ cancelled = {}
  /\ detaching = {}

-----------------------------------------------------------------------------
(* The pane *)

\* The batcher hands n bytes of a launch to its buffer.
Write(l, n) ==
  /\ l \in alive
  /\ out[l].end + n <= MaxBytes
  /\ out' = [out EXCEPT ![l] = append(@, n)]
  /\ UNCHANGED <<launches, cur, alive, status, known, mounted, callVars, screenVars, appVars>>

\* The output is drained, then OnExit marks the buffer as exited.
ShellEnds(l) ==
  /\ l \in alive
  /\ alive' = alive \ {l}
  /\ out' = [out EXCEPT ![l] = exit(@)]
  /\ UNCHANGED <<launches, cur, status, known, mounted, callVars, screenVars, appVars>>

\* The rest of OnExit, under r.mu: the pane goes, its buffer stays behind.
RemovePane ==
  /\ status = "running"
  /\ cur \notin alive
  /\ status' = "gone"
  /\ UNCHANGED <<out, launches, cur, alive, known, mounted, callVars, screenVars, appVars>>

\* agent.stop: the pane stays, its shell is told to end.
StopAgent ==
  /\ status = "running"
  /\ status' = "stopped"
  /\ UNCHANGED <<out, launches, cur, alive, known, mounted, callVars, screenVars, appVars>>

\* pane.restart, possibly before the old shell has ended.
RestartPane ==
  /\ status = "stopped"
  /\ launches < MaxLaunch
  /\ launches' = launches + 1
  /\ cur' = launches'
  /\ alive' = alive \cup {launches'}
  /\ out' = [out EXCEPT ![launches'] = newOutput]
  /\ status' = "running"
  /\ UNCHANGED <<known, mounted, callVars, screenVars, appVars>>

\* pane.close, and any mutation after the pane is gone: Call marks the buffer
\* as exited, whether or not its shell has ended, and drops it.
DropOutput ==
  /\ cur # 0
  /\ cur' = 0
  /\ status' = "gone"
  /\ out' = [out EXCEPT ![cur] = exit(@)]
  /\ UNCHANGED <<launches, alive, known, mounted, callVars, screenVars, appVars>>

-----------------------------------------------------------------------------
(* The window *)

Free(v) == v # mounted /\ pc[v] = "idle" /\ v \notin detaching

\* terminal.dispose(), or a new terminal.
EmptyScreen ==
  /\ shown' = <<>>
  /\ of' = 0
  /\ finished' = FALSE

\* A new XtermView with a new stream id begins to read.
Mount(v) ==
  /\ mounted' = v
  /\ EmptyScreen
  /\ pc' = [pc EXCEPT ![v] = "loop"]
  /\ sequence' = [sequence EXCEPT ![v] = 0]
  /\ UNCHANGED <<method, held, answer, streams, cancelled>>

NoMount ==
  /\ mounted' = None
  /\ EmptyScreen
  /\ UNCHANGED <<callVars, streams, cancelled>>

\* The window learns that the pane has another process id, or is gone: the
\* view is disposed of and, for a pane that is there, replaced.
Refresh ==
  /\ known # Key
  /\ known' = Key
  /\ detaching' = detaching \cup ({mounted} \ {None})
  /\ \/ mounted # None /\ Key # -1 /\ \E v \in View : Free(v) /\ Mount(v)
     \/ (mounted = None \/ Key = -1) /\ NoMount
  /\ UNCHANGED paneVars

\* The pane's tab is shown ...
Show ==
  /\ mounted = None
  /\ known # -1
  /\ \E v \in View : Free(v) /\ Mount(v)
  /\ UNCHANGED <<paneVars, known, detaching>>

\* ... and hidden, when another tab is shown.
Hide ==
  /\ OtherTab
  /\ mounted # None
  /\ detaching' = detaching \cup {mounted}
  /\ NoMount
  /\ UNCHANGED <<paneVars, known>>

-----------------------------------------------------------------------------
(* The read loop and its calls *)

\* The locals of a call are gone once it is over.
EndCall(v, next) ==
  /\ pc' = [pc EXCEPT ![v] = next]
  /\ method' = [method EXCEPT ![v] = "attach"]
  /\ held' = [held EXCEPT ![v] = 0]
  /\ answer' = [answer EXCEPT ![v] = Nothing(0)]

(***************************************************************************)
(* The loop ends without writing to the screen.  (If Detach came before    *)
(* the ReadOutput it was to end, App.streams keeps an entry for an id that *)
(* is not used again; the model forgets it here.)                          *)
(***************************************************************************)
LeaveLoop(v) ==
  /\ EndCall(v, "idle")
  /\ sequence' = [sequence EXCEPT ![v] = 0]
  /\ streams' = IF v = mounted \/ v \in detaching THEN streams ELSE streams \ {v}
  /\ UNCHANGED screenVars

\* The loop calls ReadOutput, unless the view has been disposed of.
CallReadOutput(v) ==
  /\ pc[v] = "loop"
  /\ \/ /\ v = mounted
        /\ pc' = [pc EXCEPT ![v] = "called"]
        /\ UNCHANGED <<method, held, answer, sequence, screenVars, streams>>
     \/ v # mounted /\ LeaveLoop(v)
  /\ UNCHANGED <<paneVars, known, mounted, cancelled, detaching>>

\* ReadOutput: the first call of a stream attaches, the others read.
FindStream(v) ==
  /\ streams' = streams \cup {v}
  /\ method' = [method EXCEPT ![v] = IF v \in streams THEN "read" ELSE "attach"]

(***************************************************************************)
(* ReadOutput up to the lookup in Call.  Registering the stream (under     *)
(* a.mu) and finding the buffer (under r.mu) touch different state, so one *)
(* step stands for both.                                                   *)
(***************************************************************************)
FindOutput(v) ==
  /\ pc[v] = "called"
  /\ cur # 0
  /\ FindStream(v)
  /\ held' = [held EXCEPT ![v] = cur]
  /\ pc' = [pc EXCEPT ![v] = "waiting"]
  /\ UNCHANGED <<paneVars, known, mounted, answer, sequence, screenVars,
                 cancelled, detaching>>

\* "terminal not found": ReadOutput drops the stream, the loop ends.
OutputNotFound(v) ==
  /\ pc[v] = "called"
  /\ cur = 0
  /\ EndCall(v, "idle")
  /\ sequence' = [sequence EXCEPT ![v] = 0]
  /\ streams' = streams \ {v}
  /\ UNCHANGED screenVars
  /\ UNCHANGED <<paneVars, known, mounted, cancelled, detaching>>

\* The call returns what it finds, or waits for, in the buffer it holds.
ReturnOutput(v) ==
  /\ pc[v] = "waiting"
  /\ v \notin cancelled
  /\ LET o == out[held[v]]
     IN \E oldest \in 0..o.end :
          /\ oldest <= MaxCut
          /\ \/ method[v] = "attach" /\ answer' = [answer EXCEPT ![v] = snapshot(o, oldest)]
             \/ /\ method[v] = "read"
                /\ Ready(o, sequence[v])
                /\ answer' = [answer EXCEPT ![v] = read(o, sequence[v], oldest)]
  /\ pc' = [pc EXCEPT ![v] = "answered"]
  /\ UNCHANGED <<paneVars, known, mounted, method, held, sequence, screenVars, appVars>>

\* After ten seconds without output a read returns nothing.  (If output comes
\* at that very moment, the next read returns it at once.)
ReadTimesOut(v) ==
  /\ pc[v] = "waiting"
  /\ v \notin cancelled
  /\ method[v] = "read"
  /\ ~Ready(out[held[v]], sequence[v])
  /\ answer' = [answer EXCEPT ![v] = Nothing(sequence[v])]
  /\ pc' = [pc EXCEPT ![v] = "answered"]
  /\ UNCHANGED <<paneVars, known, mounted, method, held, sequence, screenVars, appVars>>

\* Mutant: the wait does not look at the stream's context.
ReadIgnoresDetach(v) ==
  /\ pc[v] = "waiting"
  /\ v \in cancelled
  /\ method[v] = "read" => Ready(out[held[v]], sequence[v])
  /\ LeaveLoop(v)
  /\ cancelled' = cancelled \ {v}
  /\ UNCHANGED <<paneVars, known, mounted, detaching>>

\* A call whose stream was cancelled fails, waiting or not.
ReadDetached(v) ==
  /\ pc[v] = "waiting"
  /\ v \in cancelled
  /\ LeaveLoop(v)
  /\ cancelled' = cancelled \ {v}
  /\ UNCHANGED <<paneVars, known, mounted, detaching>>

\* The view writes what the call returned; a snapshot is for an empty screen.
Display(v) ==
  LET a == answer[v]
      data == [k \in 1..Len(a.data) |-> <<held[v], a.data[k]>>]
  IN /\ sequence' = [sequence EXCEPT ![v] = a.sequence]
     /\ shown' = IF a.snapshot THEN data ELSE shown \o data
     /\ of' = IF a.snapshot THEN held[v] ELSE of
     /\ finished' = a.exited
     /\ UNCHANGED streams
     /\ EndCall(v, IF a.exited THEN "idle" ELSE "loop")

HandleOutput(v) ==
  /\ pc[v] = "answered"
  /\ \/ v = mounted /\ Display(v)
     \/ v # mounted /\ LeaveLoop(v)
  /\ UNCHANGED <<paneVars, known, mounted, cancelled, detaching>>

Detach(v) ==
  /\ v \in detaching
  /\ detaching' = detaching \ {v}
  /\ streams' = streams \ {v}
  /\ cancelled' = IF v \in streams /\ pc[v] = "waiting" THEN cancelled \cup {v} ELSE cancelled
  /\ UNCHANGED <<paneVars, known, mounted, callVars, screenVars>>

-----------------------------------------------------------------------------
Next ==
  \/ \E l \in Launch, n \in 1..MaxBytes : Write(l, n)
  \/ \E l \in Launch : ShellEnds(l)
  \/ RemovePane
  \/ StopAgent
  \/ RestartPane
  \/ DropOutput
  \/ Refresh
  \/ Show
  \/ Hide
  \/ \E v \in View :
       \/ CallReadOutput(v) \/ FindOutput(v) \/ OutputNotFound(v)
       \/ ReturnOutput(v) \/ ReadTimesOut(v) \/ ReadDetached(v)
       \/ HandleOutput(v) \/ Detach(v)

Spec == Init /\ [][Next]_vars

(***************************************************************************)
(* Fairness: goroutines and the event loop of the window run, and the      *)
(* window asks for the state every 1.5 seconds.  Shells need not write or  *)
(* end, clients need not do anything, and reads need not time out.         *)
(***************************************************************************)
Fairness ==
  /\ WF_vars(Refresh)
  /\ \A v \in View :
       /\ WF_vars(CallReadOutput(v))
       /\ WF_vars(FindOutput(v) \/ OutputNotFound(v))
       /\ WF_vars(ReturnOutput(v) \/ ReadDetached(v))
       /\ WF_vars(HandleOutput(v))
       /\ WF_vars(Detach(v))

FairSpec == Spec /\ Fairness

-----------------------------------------------------------------------------
(***************************************************************************)
(* doc/protocol.md:60, "output is neither lost nor duplicated across       *)
(* attachment", and not afterwards either, however far the view falls      *)
(* behind: the screen of a view that has attached to the current launch    *)
(* reflects the bytes of that launch up to its sequence, each once and in  *)
(* order, from the oldest one that its last snapshot redrew.  (A view that *)
(* attached to a launch which has been replaced may show a mixture until   *)
(* it is mounted anew, see ViewCatchesUp.)                                 *)
(***************************************************************************)
\* v is on the screen and has attached to the launch the pane has now.
Follows(v) == mounted = v /\ of # 0 /\ of = cur

Screen(l, from, to) == [k \in 1..(to - from) |-> <<l, from + k - 1>>]

ViewShowsOutput ==
  \A v \in View : Follows(v) =>
    /\ sequence[v] <= out[cur].end
    /\ \E oldest \in 0..sequence[v] : shown = Screen(cur, oldest, sequence[v])

(***************************************************************************)
(* "[Process exited ...]" is printed after everything the shell of a pane  *)
(* that is still there has written, never before its last bytes.           *)
(***************************************************************************)
ExitIsShownLast ==
  \A v \in View : Follows(v) /\ finished =>
    cur \notin alive /\ sequence[v] = out[cur].end

(***************************************************************************)
(* A view that follows the pane goes on from where it is, and what it      *)
(* shows is taken back only when the ring has overtaken it: as long as the *)
(* ring holds what it has not read, the screen gains bytes at its end and  *)
(* loses none (a snapshot would cost it what lies further back than one    *)
(* redraws).                                                               *)
(***************************************************************************)
Overtaken(v) == sequence[v] < out[cur].start

ScreenMovesOn ==
  [][\A v \in View :
       Follows(v) /\ mounted' = v =>
         /\ of' = of
         /\ sequence'[v] >= sequence[v]
         /\ \/ Overtaken(v)
            \/ Len(shown') >= Len(shown) /\ SubSeq(shown', 1, Len(shown)) = shown]_vars

(***************************************************************************)
(* A view that stays on the screen shows, sooner or later, all the output  *)
(* of the launch the pane then has, and its exit; in particular, one that  *)
(* read on across a restart is replaced.  One case is excepted: a pane     *)
(* that is restarted and stopped again between two refreshes has process   *)
(* id 0 before and after, so its view is not mounted anew.                 *)
(***************************************************************************)
StoppedAgain == status = "stopped" /\ known = 0 /\ of \notin {0, cur}

CaughtUp(v) ==
  /\ cur # 0
  /\ of = cur
  /\ sequence[v] = out[cur].end
  /\ out[cur].exited => finished

ViewCatchesUp ==
  \A v \in View : mounted = v ~> (mounted # v \/ CaughtUp(v) \/ StoppedAgain)

(***************************************************************************)
(* app.go:14, "cancelling it ends a pending read": the call a disposed     *)
(* view leaves behind ends, even if the shell never writes again and no    *)
(* timeout fires.                                                          *)
(***************************************************************************)
DisposedViewsEnd ==
  \A v \in View : (mounted # v /\ pc[v] # "idle") ~> pc[v] = "idle"

-----------------------------------------------------------------------------
(***************************************************************************)
(* The inductive invariant.                                                *)
(***************************************************************************)
BuffersHold == \A l \in Launch : RingHolds(out[l])

\* The current buffer is the newest launch's, and is marked as exited only
\* when its shell has ended.
CurrentIsNewest ==
  /\ cur # 0 => cur = launches
  /\ status # "gone" => cur # 0
  /\ cur # 0 /\ cur \in alive => ~out[cur].exited

\* A call holds the buffer of a launch no older than the one its view shows.
HeldIsNewer ==
  \A v \in View :
    mounted = v /\ pc[v] \in {"waiting", "answered"} => of <= held[v]

HeldExists ==
  \A v \in View : pc[v] \in {"waiting", "answered"} => held[v] # 0

\* Only disposed views are detached, and only a waiting call is cancelled.
DetachedAreDisposed ==
  /\ mounted \notin detaching \cup cancelled
  /\ \A v \in cancelled : pc[v] = "waiting"

\* The mounted view is in App.streams from its first call on, and does not
\* attach again once it shows a launch.
Registered ==
  \A v \in View : mounted = v =>
    /\ pc[v] \in {"waiting", "answered"} \/ (of # 0 /\ pc[v] # "idle") => v \in streams
    /\ of # 0 /\ pc[v] = "waiting" => method[v] = "read"

\* a, if it comes from the current buffer and can follow what v shows of it,
\* continues the screen of v or, when that has been overtaken, redraws it.
Continues(v, a) ==
  held[v] = cur /\ cur # 0 /\ (a.snapshot \/ of = cur) =>
    /\ a.sequence <= out[cur].end
    /\ a.exited => out[cur].exited /\ a.sequence = out[cur].end
    /\ of = cur => sequence[v] <= a.sequence
    /\ a.snapshot => \E oldest \in 0..a.sequence : a.data = Piece(oldest, a.sequence)
    /\ a.snapshot /\ of = cur => Overtaken(v)
    /\ ~a.snapshot => a.data = Piece(sequence[v], a.sequence)

AnswerContinues ==
  \A v \in View : mounted = v /\ pc[v] = "answered" => Continues(v, answer[v])

ScreenInv ==
  /\ TypeOK
  /\ BuffersHold
  /\ CurrentIsNewest
  /\ HeldExists
  /\ HeldIsNewer
  /\ DetachedAreDisposed
  /\ AnswerContinues
  /\ ViewShowsOutput
  /\ ExitIsShownLast

IInv == Registered /\ ScreenInv
=============================================================================
