------------------------------ MODULE Runtime ------------------------------
(***************************************************************************)
(* The pane lifecycle of the terminal runtime                              *)
(* (src/internal/daemon/runtime.go) together with the parts of             *)
(* terminal.Session and desktop.host that start and end shells.            *)
(*                                                                         *)
(* Everything the code does while it holds r.mu is one action, because no  *)
(* other goroutine sees the runtime in between; each place where it lets   *)
(* the lock go, or never takes it (Session.Close, the exit of a process,   *)
(* the wait for r.mu in OnExit), is a boundary between two actions.  The   *)
(* process may end between any two of them.                                *)
(*                                                                         *)
(* A pane is its id and status; layout, titles, agents and history are     *)
(* left to other modules.  A shell stands for one launch: its Session, its *)
(* outputBuffer and its process.                                           *)
(***************************************************************************)
EXTENDS Naturals

CONSTANTS
  Pane,      \* pane ids, as model.ID() hands them out
  Shell,     \* launches that may be referred to at the same time
  None,      \* a nil *terminal.Session or *outputBuffer
  MaxStops   \* bound: calls of agent.stop that find an agent to stop

ASSUME NoneAssumption == None \notin Shell
ASSUME MaxStopsAssumption == MaxStops \in Nat

VARIABLES
  app,          \* what the process is doing
  state,        \* r.state.Panes in memory: the status, or "absent"
  disk,         \* the same in the last successful store.Save
  session,      \* r.sessions
  output,       \* r.outputs
  shell,        \* per launch: the process, and whether OnExit has run
  toClose,      \* sessions some goroutine is about to call Close on
  closing,      \* sessions on which Close has been called (closeOnce)
  stopping,     \* r.stoppingAgents
  sysShutdown,  \* what systemShuttingDown() reports
  issued,       \* ids already drawn from model.ID(): never drawn again
  closed,       \* history: panes a client has closed successfully
  stops,        \* history: how many agent.stop calls found an agent
  early         \* history: panes restarted while the mark of agent.stop was set

vars == <<app, state, disk, session, output, shell, toClose, closing,
          stopping, sysShutdown, issued, closed, stops, early>>

Status == {"absent", "running", "agent-stopped", "error"}

(***************************************************************************)
(* "serving": New has returned.  "closing": Runtime.Close has set          *)
(* shutting.  "draining": it has collected the sessions and closes them.   *)
(* "failing": the Save in New failed and New is closing the sessions it    *)
(* launched.  "failed": host.start has closed the store after that.        *)
(***************************************************************************)
App == {"down", "serving", "closing", "draining", "failing", "failed"}

TypeOK ==
  /\ app \in App
  /\ state \in [Pane -> Status]
  /\ disk \in [Pane -> Status]
  /\ session \in [Pane -> Shell \cup {None}]
  /\ output \in [Pane -> Shell \cup {None}]
  /\ shell \in [Shell -> {"gone", "alive", "exited"}]
  /\ toClose \in SUBSET Shell
  /\ closing \in SUBSET Shell
  /\ stopping \in SUBSET Pane
  /\ sysShutdown \in BOOLEAN
  /\ issued \in SUBSET Pane
  /\ closed \in SUBSET Pane
  /\ stops \in 0..MaxStops
  /\ early \in SUBSET Pane

-----------------------------------------------------------------------------
Present(panes) == {p \in Pane : panes[p] # "absent"}

SessionsOf(S) == {session[p] : p \in S} \ {None}

shutting == app \in {"closing", "draining"}

(***************************************************************************)
(* Call checks neither shutting nor the host: requests on a connection     *)
(* that serveConnection already reads, and GUI calls already past          *)
(* host.wait, are executed while the runtime closes.                       *)
(***************************************************************************)
Accepting == app \in {"serving", "closing", "draining"}

\* The store is open: a Save may succeed (it may always fail).
StoreOpen == app \in {"serving", "closing", "draining", "failing"}

(***************************************************************************)
(* A launch value nothing refers to any more stands for a new launch.      *)
(***************************************************************************)
Unused(s) ==
  /\ shell[s] = "gone"
  /\ s \notin toClose
  /\ \A p \in Pane : session[p] # s /\ output[p] # s

\* terminal.NewSession succeeds: a process runs, nobody has asked it to close.
Launch(s) ==
  /\ Unused(s)
  /\ shell' = [shell EXCEPT ![s] = "alive"]
  /\ closing' = closing \ {s}

(***************************************************************************)
(* The end of a successful mutation in Call: the new state is saved, and   *)
(* outputs whose pane is gone from it are dropped, which includes the ones *)
(* removePane left behind.                                                 *)
(***************************************************************************)
Commit(panes, sessions, outputs) ==
  /\ state' = panes
  /\ disk' = panes
  /\ session' = sessions
  /\ output' = [p \in Pane |-> IF panes[p] = "absent" THEN None ELSE outputs[p]]

\* Mutant: rollback restores the maps and forgets the new session.
RollbackWithoutClose(s) == UNCHANGED <<toClose, state, disk, session, output>>

(***************************************************************************)
(* Call's rollback after a Save that failed: the session launched by the   *)
(* mutation is closed, and the maps and the state are the old ones.        *)
(***************************************************************************)
Rollback(s) ==
  /\ toClose' = toClose \cup {s}
  /\ UNCHANGED <<state, disk, session, output>>

-----------------------------------------------------------------------------
Init ==
  /\ app = "down"
  /\ state = [p \in Pane |-> "absent"]
  /\ disk = [p \in Pane |-> "absent"]
  /\ session = [p \in Pane |-> None]
  /\ output = [p \in Pane |-> None]
  /\ shell = [s \in Shell |-> "gone"]
  /\ toClose = {}
  /\ closing = {}
  /\ stopping = {}
  /\ sysShutdown = FALSE
  /\ issued = {}
  /\ closed = {}
  /\ stops = 0
  /\ early = {}

(***************************************************************************)
(* daemon.New: every saved pane is launched (launched[p] = None: launch    *)
(* returned an error), then the state is saved.  If that Save fails, New   *)
(* closes the sessions it started and the host has no runtime.             *)
(***************************************************************************)
Start ==
  /\ app = "down"
  /\ \E launched \in [Pane -> Shell \cup {None}] :
       /\ \A p \in Pane : launched[p] # None => disk[p] # "absent"
       /\ \A p, q \in Pane :
            launched[p] = launched[q] /\ launched[p] # None => p = q
       /\ state' = [p \in Pane |->
                      IF disk[p] = "absent" THEN "absent"
                      ELSE IF launched[p] = None THEN "error" ELSE "running"]
       /\ session' = launched
       /\ output' = launched
       /\ shell' = [s \in Shell |->
                      IF \E p \in Pane : launched[p] = s THEN "alive" ELSE "gone"]
       /\ \/ /\ app' = "serving"
             /\ disk' = state'
             /\ UNCHANGED toClose
          \/ /\ app' = "failing"
             /\ toClose' = {launched[p] : p \in Pane} \ {None}
             /\ UNCHANGED disk
  /\ UNCHANGED <<closing, stopping, sysShutdown, issued, closed, stops, early>>

(***************************************************************************)
(* tab.create and pane.split.  An id is drawn before the launch, so an     *)
(* attempt that fails uses it up.                                          *)
(***************************************************************************)
NewPane(p) ==
  /\ Accepting
  /\ p \notin issued
  /\ issued' = issued \cup {p}
  /\ \/ UNCHANGED <<state, disk, session, output, shell, toClose, closing>>
     \/ \E s \in Shell :
          /\ Launch(s)
          /\ \/ /\ Commit([state EXCEPT ![p] = "running"],
                          [session EXCEPT ![p] = s], [output EXCEPT ![p] = s])
                /\ UNCHANGED toClose
             \/ Rollback(s)
  /\ UNCHANGED <<app, stopping, sysShutdown, closed, stops, early>>

(***************************************************************************)
(* pane.restart: refused while the pane is running.  A failed launch is    *)
(* rolled back to the state before and is a stuttering step.  The mark in  *)
(* stoppingAgents is not touched.                                          *)
(***************************************************************************)
RestartPane(p) ==
  /\ Accepting
  /\ state[p] \in {"agent-stopped", "error"}
  /\ \E s \in Shell :
       /\ Launch(s)
       /\ \/ /\ Commit([state EXCEPT ![p] = "running"],
                       [session EXCEPT ![p] = s], [output EXCEPT ![p] = s])
             /\ toClose' = toClose \cup SessionsOf({p})
             /\ early' = IF p \in stopping THEN early \cup {p} ELSE early \ {p}
          \/ Rollback(s) /\ UNCHANGED early
  /\ UNCHANGED <<app, stopping, sysShutdown, issued, closed, stops>>

\* Mutant: the Save of a close fails and the client is told it succeeded.
ClosePanesUnsaved(S) ==
  /\ Accepting
  /\ S # {}
  /\ S \subseteq Present(state)
  /\ state' = [p \in Pane |-> IF p \in S THEN "absent" ELSE state[p]]
  /\ session' = [p \in Pane |-> IF p \in S THEN None ELSE session[p]]
  /\ output' = [p \in Pane |-> IF p \in S THEN None ELSE output[p]]
  /\ toClose' = toClose \cup SessionsOf(S)
  /\ closed' = closed \cup S
  /\ UNCHANGED <<app, disk, shell, closing, stopping, sysShutdown, issued, stops, early>>

(***************************************************************************)
(* pane.close, tab.close and workspace.close: S are the panes of the       *)
(* subtree.  Their sessions are closed by goroutines of their own.  A Save *)
(* that fails is rolled back and is a stuttering step.                     *)
(***************************************************************************)
ClosePanes(S) ==
  /\ Accepting
  /\ S # {}
  /\ S \subseteq Present(state)
  /\ Commit([p \in Pane |-> IF p \in S THEN "absent" ELSE state[p]],
            [p \in Pane |-> IF p \in S THEN None ELSE session[p]], output)
  /\ toClose' = toClose \cup SessionsOf(S)
  /\ closed' = closed \cup S
  /\ UNCHANGED <<app, shell, closing, stopping, sysShutdown, issued, stops, early>>

(***************************************************************************)
(* Every other mutation: renames, focus, moves, ratios, settings.  What it *)
(* changes is not in this module, but it saves the whole state and drops   *)
(* the outputs of panes that are gone.                                     *)
(***************************************************************************)
MutateOther ==
  /\ Accepting
  /\ Commit(state, session, output)
  /\ UNCHANGED <<app, shell, toClose, closing, stopping, sysShutdown, issued,
                 closed, stops, early>>

(***************************************************************************)
(* The other writers of the state: the process monitor, OSC metadata, the  *)
(* busy flag, terminal.resize and the history warnings.  Each saves the    *)
(* whole state in memory; an error is logged or kept in a field.           *)
(***************************************************************************)
SaveState ==
  /\ StoreOpen
  /\ disk' = state
  /\ UNCHANGED <<app, state, session, output, shell, toClose, closing,
                 stopping, sysShutdown, issued, closed, stops, early>>

\* What agent.stop looks for; if it finds nothing it changes nothing.
FindAgents(S) ==
  /\ Accepting
  /\ stops < MaxStops
  /\ S # {}
  /\ \A p \in S : state[p] = "running" /\ session[p] # None
  /\ stops' = stops + 1

\* Mutant: a Save that fails leaves the state changed.
StopAgentsWithoutRollback(S) ==
  /\ FindAgents(S)
  /\ state' = [p \in Pane |-> IF p \in S THEN "agent-stopped" ELSE state[p]]
  /\ \/ /\ disk' = state'
        /\ stopping' = stopping \cup S
        /\ toClose' = toClose \cup SessionsOf(S)
     \/ /\ stopping' = stopping \ S
        /\ UNCHANGED <<disk, toClose>>
  /\ UNCHANGED <<app, session, output, shell, closing, sysShutdown, issued, closed, early>>

(***************************************************************************)
(* agent.stop: S are the running panes with a live agent (which panes have *)
(* one is up to the programs in them).  They are marked and saved under    *)
(* the lock; the sessions are closed after it is released.                 *)
(***************************************************************************)
StopAgents(S) ==
  /\ FindAgents(S)
  /\ \/ /\ state' = [p \in Pane |-> IF p \in S THEN "agent-stopped" ELSE state[p]]
        /\ disk' = state'
        /\ stopping' = stopping \cup S
        /\ toClose' = toClose \cup SessionsOf(S)
     \/ /\ stopping' = stopping \ S
        /\ UNCHANGED <<state, disk, toClose>>
  /\ UNCHANGED <<app, session, output, shell, closing, sysShutdown, issued, closed, early>>

\* Mutant: closeOnce does not reach the backend.
CloseSessionWithoutKill(s) ==
  /\ s \in toClose
  /\ toClose' = toClose \ {s}
  /\ UNCHANGED <<app, state, disk, session, output, shell, closing, stopping,
                 sysShutdown, issued, closed, stops, early>>

\* The first half of Session.Close: closeOnce kills the process.
CloseSession(s) ==
  /\ s \in toClose
  /\ toClose' = toClose \ {s}
  /\ closing' = closing \cup {s}
  /\ UNCHANGED <<app, state, disk, session, output, shell, stopping,
                 sysShutdown, issued, closed, stops, early>>

(***************************************************************************)
(* The process ends, of its own accord or because it was killed, its       *)
(* output is drained and s.done is closed.  Session.Close may return from  *)
(* here on, and OnExit waits for r.mu.                                     *)
(***************************************************************************)
ShellExits(s) ==
  /\ shell[s] = "alive"
  /\ shell' = [shell EXCEPT ![s] = "exited"]
  /\ UNCHANGED <<app, state, disk, session, output, toClose, closing,
                 stopping, sysShutdown, issued, closed, stops, early>>

\* Mutant: OnExit does not look at shutting.
ExitConcernsWhileShutting(s, p) == ~sysShutdown /\ output[p] = s

\* The pane OnExit acts on, if its early return is not taken.
ExitConcerns(s, p) == ~shutting /\ ~sysShutdown /\ output[p] = s

\* Mutant: the early return is taken for every exit.
OnExitAlwaysIgnored(s) == UNCHANGED <<state, disk, session, stopping>>

OnExitIgnored(s) ==
  /\ \A p \in Pane : ExitConcerns(s, p) => p \notin stopping /\ state[p] = "absent"
  /\ UNCHANGED <<state, disk, session, stopping>>

\* Mutant: the pane of a stopped agent is removed as well.
OnExitForgetsStoppedAgent(s) ==
  \E p \in stopping :
    /\ ExitConcerns(s, p)
    /\ stopping' = stopping \ {p}
    /\ state' = [state EXCEPT ![p] = "absent"]
    /\ session' = [session EXCEPT ![p] = None]
    /\ disk' = state'

OnExitOfStoppedAgent(s) ==
  \E p \in stopping :
    /\ ExitConcerns(s, p)
    /\ stopping' = stopping \ {p}
    /\ UNCHANGED <<state, disk, session>>

\* Mutant: removePane leaves the session in r.sessions.
OnExitKeepsSession(s) ==
  \E p \in Present(state) \ stopping :
    /\ ExitConcerns(s, p)
    /\ state' = [state EXCEPT ![p] = "absent"]
    /\ \/ StoreOpen /\ disk' = state'
       \/ UNCHANGED disk
    /\ UNCHANGED <<session, stopping>>

\* Mutant: the removal is rolled back when it cannot be saved.
OnExitRollsBack(s) ==
  \E p \in Present(state) \ stopping :
    /\ ExitConcerns(s, p)
    /\ \/ /\ state' = [state EXCEPT ![p] = "absent"]
          /\ session' = [session EXCEPT ![p] = None]
          /\ StoreOpen /\ disk' = state'
       \/ UNCHANGED <<state, session, disk>>
    /\ UNCHANGED stopping

\* removePane and the Save after it, whose failure is only logged.
OnExitRemovesPane(s) ==
  \E p \in Present(state) \ stopping :
    /\ ExitConcerns(s, p)
    /\ state' = [state EXCEPT ![p] = "absent"]
    /\ session' = [session EXCEPT ![p] = None]
    /\ \/ StoreOpen /\ disk' = state'
       \/ UNCHANGED disk
    /\ UNCHANGED stopping

OnExit(s) ==
  /\ shell[s] = "exited"
  /\ shell' = [shell EXCEPT ![s] = "gone"]
  /\ OnExitIgnored(s) \/ OnExitOfStoppedAgent(s) \/ OnExitRemovesPane(s)
  /\ UNCHANGED <<app, output, toClose, closing, sysShutdown, issued, closed, stops, early>>

\* Runtime.Close sets shutting ...
BeginClose ==
  /\ app = "serving"
  /\ app' = "closing"
  /\ UNCHANGED <<state, disk, session, output, shell, toClose, closing,
                 stopping, sysShutdown, issued, closed, stops, early>>

\* ... and, once the monitor and the checkpoint loop are done, closes what is
\* in r.sessions at that moment.
CloseSessions ==
  /\ app = "closing"
  /\ app' = "draining"
  /\ toClose' = toClose \cup SessionsOf(Pane)
  /\ UNCHANGED <<state, disk, session, output, shell, closing, stopping,
                 sysShutdown, issued, closed, stops, early>>

\* host.start, after daemon.New returned an error.
CloseStoreAfterFailedStart ==
  /\ app = "failing"
  /\ toClose = {}
  /\ app' = "failed"
  /\ UNCHANGED <<state, disk, session, output, shell, toClose, closing,
                 stopping, sysShutdown, issued, closed, stops, early>>

\* Windows begins to shut down; the report stays until the process is gone.
WindowsShutdown ==
  /\ app # "down"
  /\ ~sysShutdown
  /\ sysShutdown' = TRUE
  /\ UNCHANGED <<app, state, disk, session, output, shell, toClose, closing,
                 stopping, issued, closed, stops, early>>

(***************************************************************************)
(* The process ends: after Runtime.Close, with Windows, or by a crash at   *)
(* any point.  Memory is lost, and the job objects (KILL_ON_JOB_CLOSE)     *)
(* take the shells with it.                                                *)
(***************************************************************************)
ProcessEnds ==
  /\ app # "down"
  /\ app' = "down"
  /\ state' = [p \in Pane |-> "absent"]
  /\ session' = [p \in Pane |-> None]
  /\ output' = [p \in Pane |-> None]
  /\ shell' = [s \in Shell |-> "gone"]
  /\ toClose' = {}
  /\ closing' = {}
  /\ stopping' = {}
  /\ sysShutdown' = FALSE
  /\ early' = {}
  /\ UNCHANGED <<disk, issued, closed, stops>>

Next ==
  \/ Start
  \/ \E p \in Pane : NewPane(p) \/ RestartPane(p)
  \/ \E S \in SUBSET Pane : ClosePanes(S) \/ StopAgents(S)
  \/ MutateOther
  \/ SaveState
  \/ \E s \in Shell : CloseSession(s) \/ ShellExits(s) \/ OnExit(s)
  \/ BeginClose
  \/ CloseSessions
  \/ CloseStoreAfterFailedStart
  \/ WindowsShutdown
  \/ ProcessEnds

Spec == Init /\ [][Next]_vars

(***************************************************************************)
(* Fairness: goroutines blocked on r.mu get it (sync.Mutex does not        *)
(* starve), goroutines that were started run, and a process that was       *)
(* killed ends.  Nothing is assumed of clients, of programs in the panes   *)
(* or of the end of the process.                                           *)
(***************************************************************************)
Fairness ==
  \A s \in Shell :
    /\ WF_vars(CloseSession(s))
    /\ WF_vars(s \in closing /\ ShellExits(s))
    /\ WF_vars(OnExit(s))

FairSpec == Spec /\ Fairness

-----------------------------------------------------------------------------
(***************************************************************************)
(* No shell is lost: a live process is the session of a pane or is being   *)
(* closed.  Every launch (New, Call with its rollback, pane.restart over a *)
(* session that still runs) has to hand over the old and the new session   *)
(* correctly for this.                                                     *)
(***************************************************************************)
NoShellLost ==
  \A s \in Shell :
    shell[s] # "gone" =>
      \/ \E p \in Pane : session[p] = s /\ state[p] # "absent"
      \/ s \in toClose \cup closing

(***************************************************************************)
(* OnExit recognises its own launch by the output buffer, every other      *)
(* reader goes through r.sessions: a pane's session and output are of the  *)
(* same launch, and no launch serves two panes.                            *)
(***************************************************************************)
SessionIsCurrentLaunch ==
  /\ \A p \in Pane : session[p] # None => output[p] = session[p]
  /\ \A p, q \in Pane : output[p] = output[q] /\ output[p] # None => p = q

(***************************************************************************)
(* What clients see is what a restart would load: once New has returned,   *)
(* a pane in memory is on disk with the same status.  Only the other       *)
(* direction may lag, after a failed Save in OnExit.                       *)
(***************************************************************************)
PanesAreSaved ==
  Accepting => \A p \in Present(state) : disk[p] = state[p]

(***************************************************************************)
(* A session that the runtime itself is closing, under a pane that stays,  *)
(* is never mistaken for a shell that exited: the pane is marked, or the   *)
(* runtime is closing, or OnExit has already run.  (A failed start is the  *)
(* exception, see RestoredPanesKept.)                                      *)
(***************************************************************************)
ClosedByRuntime(s) == s \in toClose \cup closing

OwnCloseIsMarked ==
  \A p \in Pane, s \in Shell :
    output[p] = s /\ ClosedByRuntime(s) /\ shell[s] # "gone" =>
      p \in stopping \/ shutting \/ app \in {"failing", "failed"}

(***************************************************************************)
(* A saved pane is forgotten only if a client closed it, or its shell      *)
(* ended without the runtime having asked for it (a failed start is the    *)
(* exception again).  Crashes, restarts, rollbacks, agent.stop, closing    *)
(* the window and a Windows shutdown never cost a pane.                    *)
(***************************************************************************)
EndedByItself(p) ==
  /\ output[p] # None
  /\ shell[output[p]] # "alive"
  /\ ClosedByRuntime(output[p]) => app \in {"failing", "failed"}

PanesForgottenOnlyOnExit ==
  [][\A p \in Present(disk) :
       disk'[p] = "absent" => p \in closed' \/ EndedByItself(p)]_vars

(***************************************************************************)
(* A pane that a client has closed stays closed: no rollback, late save or *)
(* restart brings its record back, and no launch runs for it.              *)
(***************************************************************************)
ClosedPanesStayClosed ==
  \A p \in closed : disk[p] = "absent" /\ state[p] = "absent" /\ output[p] = None

(***************************************************************************)
(* The runtime implements the abstract view of its database.               *)
(***************************************************************************)
Ended == {p \in Pane : EndedByItself(p)}

Saved == INSTANCE SavedPanes WITH saved <- Present(disk), ended <- Ended

ImplementsSavedPanes == Saved!Spec

(***************************************************************************)
(* The inductive invariant: what the properties above need besides each    *)
(* other.                                                                  *)
(***************************************************************************)
NothingRunsWhenDown ==
  app = "down" =>
    /\ \A p \in Pane : state[p] = "absent" /\ session[p] = None /\ output[p] = None
    /\ \A s \in Shell : shell[s] = "gone"
    /\ toClose = {} /\ closing = {} /\ stopping = {} /\ ~sysShutdown

OnlyIssuedIds ==
  \A p \in Pane \ issued :
    disk[p] = "absent" /\ state[p] = "absent" /\ output[p] = None /\ p \notin closed

\* removePane and closeTab take the session with the pane.
SessionsHavePanes == \A p \in Pane : session[p] # None => state[p] # "absent"

\* agent.stop marks a pane in the step that takes its session to be closed.
RunningNotClosed ==
  app = "serving" =>
    \A p \in Pane : state[p] = "running" => ~ClosedByRuntime(session[p])

\* Memory and disk differ only by panes whose OnExit could not save.
DiskLagIsExit ==
  app # "down" =>
    /\ Present(state) \subseteq Present(disk)
    /\ Present(disk) \ Present(state) \subseteq Ended

IInv ==
  /\ TypeOK
  /\ NothingRunsWhenDown
  /\ OnlyIssuedIds
  /\ SessionsHavePanes
  /\ SessionIsCurrentLaunch
  /\ NoShellLost
  /\ RunningNotClosed
  /\ OwnCloseIsMarked
  /\ PanesAreSaved
  /\ DiskLagIsExit
  /\ ClosedPanesStayClosed

(***************************************************************************)
(* README.md:163, "A normal shell exit closes its pane": a pane that is    *)
(* shown as running has a process, or an OnExit that is still to run.  The *)
(* exception are panes restarted before the exit of the shell agent.stop   *)
(* has closed was handled: the mark it would have cleared is taken by the  *)
(* exit of the new shell.                                                  *)
(***************************************************************************)
RunningPaneHasShell ==
  app = "serving" /\ ~sysShutdown =>
    \A p \in Pane \ early : state[p] = "running" =>
      session[p] # None /\ shell[session[p]] # "gone"

(***************************************************************************)
(* The pane of a shell that exited by itself does go away, unless the      *)
(* process or Windows is going down, agent.stop comes between, or the pane *)
(* is restarted (the same panes excepted).                                 *)
(***************************************************************************)
ExitedPaneGoes ==
  \A p \in Pane, s \in Shell :
    (app = "serving" /\ session[p] = s /\ shell[s] = "exited" /\ ~ClosedByRuntime(s) /\ p \notin early)
      ~> (state[p] \in {"absent", "agent-stopped"} \/ app # "serving" \/ sysShutdown \/ output[p] # s)

(***************************************************************************)
(* A session somebody set out to close ends, whatever happened to its pane.*)
(***************************************************************************)
ClosedSessionEnds ==
  \A s \in Shell : s \in toClose ~> shell[s] = "gone"

(***************************************************************************)
(* README.md:152, "Reopening Paneacea relaunches the saved panes": a       *)
(* start that fails leaves the saved panes for the next start.             *)
(***************************************************************************)
RestoredPanesKept ==
  [][\A p \in Present(disk) :
       app \in {"failing", "failed"} /\ ClosedByRuntime(output[p])
         => disk'[p] # "absent"]_vars
=============================================================================
