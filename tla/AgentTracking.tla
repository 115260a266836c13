--------------------------- MODULE AgentTracking ---------------------------
(***************************************************************************)
(* Which agent a pane shows (src/internal/daemon/runtime.go): the monitor  *)
(* finds agents in a process table it takes before r.mu, agents register   *)
(* themselves through the pipe, agent.stop clears the identity of running  *)
(* ones, and the prompts of the shell, with the number of the command they *)
(* wait for, drop an agent that has ended once another command has run.    *)
(*                                                                         *)
(* One pane.  Every process has an identity of its own (pid and creation   *)
(* time, process.Generation): what is recorded of a process that has ended *)
(* is not mistaken for a later one.  The shell numbers its commands.       *)
(*                                                                         *)
(* An agent may be cut off from the process tree of its shell, when those  *)
(* between them end: forked, as Git Bash (MSYS) does, or detached.  It     *)
(* still has the id of the pane in its environment, not that of the        *)
(* launch, and it stays in the job of its shell, which ends all of them.   *)
(***************************************************************************)
EXTENDS Naturals, Sequences

CONSTANTS
  Agent,        \* processes that are agents, each started at most once
  None,
  MaxCommands,  \* bound: commands of all launches
  MaxLaunches,  \* bound: launches of the pane
  MaxPrompts    \* bound: prompts not read yet

States == {"unknown", "working", "idle", "done"}

ASSUME AgentTrackingAssumption ==
  /\ None \notin Agent \cup {"command"} \cup Nat
  /\ None \notin [process : Agent \cup {None}, state : States]
  /\ None \notin [process : Agent, exited : BOOLEAN, command : Nat]
  /\ "command" \notin Agent
  /\ {MaxCommands, MaxLaunches, MaxPrompts} \subseteq Nat \ {0}

VARIABLES
  status,       \* pane.Status: "running", "agent-stopped"; "down" without the app
  launch,       \* the launch the pane has
  foreground,   \* what the shell runs: None (prompt), "command" or an agent
  number,       \* the number of its next command
  prompts,      \* numbers of the prompts printed and not read
  started,      \* agents that have been started
  alive,        \* agents that run: agent -> launch, or None
  place,        \* where they run: in the tree of the "shell", "forked", "detached"
  agent,        \* pane.Agent: [process, state], or None
  seen,         \* agentPrompts of the pane: [process, exited, command], or None
  table,        \* the monitor's process table: agents with their launches, or None
  stopping,     \* the launch agent.stop is about to close, or None
  since,        \* history: a command has ended since the recorded agent did, or
                \* in the shell that replaced the one it was in
  registered    \* history: an agent has registered since the last agent.stop

vars == <<status, launch, foreground, number, prompts, started, alive, place, agent, seen,
          table, stopping, since, registered>>
shellVars == <<launch, foreground, number, prompts, started>>
pipeVars == <<agent, seen, table, stopping, registered>>

Launch == 1..MaxLaunches
Number == 1..(MaxCommands + 1)

TypeOK ==
  /\ status \in {"running", "agent-stopped", "down"}
  /\ launch \in Launch
  /\ foreground \in Agent \cup {"command", None}
  /\ number \in Number
  /\ prompts \in Seq(Number) /\ Len(prompts) <= MaxPrompts
  /\ started \subseteq Agent
  /\ alive \in [Agent -> Launch \cup {None}]
  /\ \A a \in Agent : alive[a] # None => a \in started
  /\ place \in [Agent -> {"shell", "forked", "detached"}]
  /\ agent \in [process : Agent \cup {None}, state : States] \cup {None}
  /\ seen \in [process : Agent, exited : BOOLEAN, command : Number \cup {0}] \cup {None}
  /\ table \in [Agent -> Launch \cup {0, None}] \cup {None}
  /\ stopping \in Launch \cup {None}
  /\ since \in BOOLEAN /\ registered \in BOOLEAN

-----------------------------------------------------------------------------
Alive == {a \in Agent : alive[a] # None}

\* agentIsRunning, and process.Generation as register and the monitor use it.
Live == agent # None /\ agent.process \in Alive

Prompt(n) == Len(prompts) < MaxPrompts /\ prompts' = Append(prompts, n)

NewShell == foreground' = None /\ number' = 1 /\ prompts' = <<1>>

Init ==
  /\ status = "running" /\ launch = 1
  /\ foreground = None /\ number = 1 /\ prompts = <<1>>
  /\ started = {} /\ alive = [a \in Agent |-> None]
  /\ place = [a \in Agent |-> "shell"]
  /\ agent = None /\ seen = None /\ table = None /\ stopping = None
  /\ since = FALSE /\ registered = FALSE

-----------------------------------------------------------------------------
(* The shell and its processes. *)

ShellRuns == status = "running" /\ stopping # launch
AtPrompt == ShellRuns /\ foreground = None /\ number <= MaxCommands

\* The number of the prompt the shell has printed last.
Last == IF foreground = None THEN number ELSE number - 1

CommandRan == since' = (since \/ (agent # None /\ ~Live))

\* A command is started, an agent in the foreground or the background, or none.
RunCommand ==
  /\ AtPrompt
  /\ foreground' = "command" /\ number' = number + 1
  /\ UNCHANGED <<status, launch, prompts, started, alive, place, since, pipeVars>>

RunAgent(a, background) ==
  /\ AtPrompt /\ a \notin started
  /\ started' = started \cup {a} /\ alive' = [alive EXCEPT ![a] = launch]
  /\ number' = number + 1
  /\ IF background THEN Prompt(number') /\ CommandRan /\ UNCHANGED foreground
     ELSE foreground' = a /\ UNCHANGED <<prompts, since>>
  /\ UNCHANGED <<status, launch, place, pipeVars>>

EmptyEnter ==
  /\ ShellRuns /\ foreground = None
  /\ Prompt(number)
  /\ UNCHANGED <<status, launch, foreground, number, started, alive, place, since, pipeVars>>

\* An agent starts another one, next to it.
Nest(a, b) ==
  /\ a \in Alive /\ b \notin started
  /\ started' = started \cup {b} /\ alive' = [alive EXCEPT ![b] = alive[a]]
  /\ place' = [place EXCEPT ![b] = place[a]]
  /\ UNCHANGED <<status, launch, foreground, number, prompts, since, pipeVars>>

\* What was between agents and their shell ends; one that the shell waits for
\* was forked.
CutOff(agents, p) ==
  /\ agents # {} /\ \A a \in agents : a \in Alive /\ place[a] = "shell"
  /\ p = "detached" => foreground \notin agents
  /\ place' = [a \in Agent |-> IF a \in agents THEN p ELSE place[a]]
  /\ UNCHANGED <<status, shellVars, alive, since, pipeVars>>

CommandEnds ==
  /\ ShellRuns /\ foreground = "command"
  /\ foreground' = None
  /\ Prompt(number)
  /\ CommandRan
  /\ UNCHANGED <<status, launch, number, started, alive, place, pipeVars>>

\* An agent runs for longer than it takes to read a prompt.
AgentEnds(a) ==
  /\ a \in Alive /\ prompts = <<>>
  /\ alive' = [alive EXCEPT ![a] = None] /\ place' = [place EXCEPT ![a] = "shell"]
  /\ IF foreground = a
     THEN Prompt(number) /\ foreground' = None /\ CommandRan
     ELSE UNCHANGED <<foreground, prompts, since>>
  /\ UNCHANGED <<status, launch, number, started, pipeVars>>

-----------------------------------------------------------------------------
(* The monitor. *)

\* The trees of the shells and, with paneOrphans, what was forked off them: of
\* that the pane is known, not the launch (0).
InTable(a) ==
  CASE place[a] = "shell" -> alive[a]
    [] place[a] = "forked" -> IF alive[a] = None THEN None ELSE 0
    [] place[a] = "detached" -> None

TakeTable ==
  /\ status # "down" /\ table = None
  /\ table' = [a \in Agent |-> InTable(a)]
  /\ UNCHANGED <<status, shellVars, alive, place, agent, seen, stopping, since, registered>>

\* Mutant: any agent of the process table will do.
CandidatesByTable == {a \in Alive : table[a] # None}

(***************************************************************************)
(* What still runs of the descendants of the shell the pane has by now, or *)
(* else of those the table has as forked off a shell of the pane.          *)
(***************************************************************************)
Candidates ==
  LET found(l) == {a \in Alive : table[a] = l}
  IN  IF found(launch) # {} THEN found(launch) ELSE found(0)

Record(p, s) == agent' = [process |-> p, state |-> s]

\* Mutant: the root identity follows the process table.
KeepNone == FALSE

\* Mutant: the monitor looks at panes without an agent only.
KeepRecorded == agent # None

\* A recorded agent that runs is left as it is.
Keep == Live

Monitor ==
  /\ table # None /\ table' = None
  /\ IF status # "running" \/ Keep THEN UNCHANGED <<agent, since>>
     ELSE \/ \E a \in Candidates : Record(a, "unknown") /\ since' = FALSE
          \/ /\ Candidates = {}
             /\ agent' = IF agent = None THEN None ELSE [agent EXCEPT !.state = "done"]
             /\ UNCHANGED since
  /\ UNCHANGED <<status, shellVars, alive, place, seen, stopping, registered>>

-----------------------------------------------------------------------------
\* agent.register: the process runs, belongs to the pane (by the tree of its
\* shell or by the pane id it has inherited), and is not nested in another
\* that has registered or been found.  What the status of the pane is does
\* not matter.
Register(a, s) ==
  /\ status # "down" /\ a \in Alive
  /\ Live => a = agent.process
  /\ Record(a, s)
  /\ since' = FALSE /\ registered' = TRUE
  /\ UNCHANGED <<status, shellVars, alive, place, seen, table, stopping>>

Tracked == agent # None /\ agent.process # None

\* agentPrompts of the process that is recorded.
Seen ==
  IF seen # None /\ seen.process = agent.process THEN seen
  ELSE [process |-> agent.process, exited |-> FALSE, command |-> 0]

\* countAgentPrompt: another command has run since the prompt of the agent.
OtherCommand(n) == Seen.exited /\ n # Seen.command

\* agentPromptLocked, with the next prompt read from the output.
ReadPrompt ==
  /\ status # "down" /\ prompts # <<>>
  /\ prompts' = Tail(prompts)
  /\ LET n == Head(prompts)
     IN  IF ~Tracked THEN UNCHANGED <<agent, seen>>
         ELSE IF Live THEN seen' = Seen /\ UNCHANGED agent
         ELSE IF OtherCommand(n) THEN agent' = None /\ seen' = None
         ELSE /\ seen' = IF Seen.exited THEN Seen ELSE [Seen EXCEPT !.exited = TRUE, !.command = n]
              /\ UNCHANGED agent
  /\ since' = (since /\ agent' # None)
  /\ UNCHANGED <<status, launch, foreground, number, started, alive, place, table, stopping, registered>>

-----------------------------------------------------------------------------
\* Mutant: the agent of a stopped pane keeps its process.
StopAgentsOnly ==
  /\ status = "running" /\ stopping = None /\ Live
  /\ status' = "agent-stopped" /\ stopping' = launch
  /\ registered' = FALSE
  /\ UNCHANGED <<shellVars, alive, place, agent, seen, table, since>>

\* agent.stop: a pane whose agent runs loses its identity (prepareAgentStop),
StopAgents ==
  /\ status = "running" /\ stopping = None /\ Live
  /\ status' = "agent-stopped"
  /\ Record(None, "idle")
  /\ stopping' = launch
  /\ since' = FALSE /\ registered' = FALSE
  /\ UNCHANGED <<shellVars, alive, place, seen, table>>

\* ... and its shell is closed with all its processes; the call returns.
CloseStopped ==
  /\ stopping # None
  /\ alive' = [a \in Agent |-> IF alive[a] = stopping THEN None ELSE alive[a]]
  /\ place' = [a \in Agent |-> IF alive[a] = stopping THEN "shell" ELSE place[a]]
  /\ stopping' = None
  /\ foreground' = IF stopping = launch THEN None ELSE foreground
  /\ prompts' = IF stopping = launch THEN <<>> ELSE prompts
  /\ since' = (since \/ (stopping # launch /\ Live /\ alive[agent.process] = stopping /\ Last > 1))
  /\ UNCHANGED <<status, launch, number, started, agent, seen, table, registered>>

\* pane.restart
RestartPane ==
  /\ status = "agent-stopped" /\ launch < MaxLaunches
  /\ status' = "running" /\ launch' = launch + 1
  /\ agent' = None
  /\ NewShell
  /\ since' = FALSE
  /\ UNCHANGED <<started, alive, place, seen, table, stopping, registered>>

\* The app ends, with all shells, and starts again with the saved agent.
End ==
  /\ status # "down" /\ stopping = None /\ launch < MaxLaunches
  /\ status' = "down"
  /\ alive' = [a \in Agent |-> None] /\ place' = [a \in Agent |-> "shell"]
  /\ seen' = None /\ table' = None
  /\ foreground' = None /\ prompts' = <<>>
  /\ UNCHANGED <<launch, number, started, agent, stopping, since, registered>>

Start ==
  /\ status = "down"
  /\ status' = "running" /\ launch' = launch + 1
  /\ NewShell
  /\ since' = FALSE
  /\ UNCHANGED <<started, alive, place, agent, seen, table, stopping, registered>>

-----------------------------------------------------------------------------
Next ==
  \/ RunCommand \/ EmptyEnter \/ CommandEnds
  \/ \E a \in Agent : AgentEnds(a) \/ \E background \in BOOLEAN : RunAgent(a, background)
  \/ \E a, b \in Agent : Nest(a, b)
  \/ \E agents \in SUBSET Agent, p \in {"forked", "detached"} : CutOff(agents, p)
  \/ TakeTable \/ Monitor
  \/ \E a \in Agent, s \in {"working", "done"} : Register(a, s)
  \/ ReadPrompt
  \/ StopAgents \/ CloseStopped \/ RestartPane
  \/ End \/ Start

\* The monitor ticks, agent.stop returns, and output is read.
Fairness == WF_vars(TakeTable) /\ WF_vars(Monitor) /\ WF_vars(CloseStopped) /\ WF_vars(ReadPrompt)

Spec == Init /\ [][Next]_vars /\ Fairness

-----------------------------------------------------------------------------
(***************************************************************************)
(* "nested agent cannot replace root identity": as long as the recorded    *)
(* process runs, no step records another one, whoever finds or registers   *)
(* it; it is let go only by agent.stop and by pane.restart.                *)
(***************************************************************************)
RootIsKept ==
  [][Live /\ agent.process \in Alive' =>
       \/ agent' # None /\ agent'.process \in {agent.process, None}
       \/ agent' = None /\ status = "agent-stopped" /\ launch' > launch]_vars

(***************************************************************************)
(* "Prompt events drop the agent indicator once a command other than the   *)
(* agent has run": never earlier, and empty lines do not count, nor do     *)
(* the prompts of the shells that follow a restart of the app.             *)
(***************************************************************************)
DroppedAfterCommand ==
  [][ReadPrompt /\ agent # None /\ agent' = None => since]_vars

\* The record of an agent that runs, or whose command was the last, stays.
RecordIsKept == RootIsKept /\ DroppedAfterCommand

(***************************************************************************)
(* The process the monitor records runs in the shell the pane has, however *)
(* old its table is.  One case is excepted: an agent that was forked off   *)
(* the former shell, while agent.stop has not ended that yet; of such a    *)
(* process the monitor sees the pane, not the launch.                      *)
(***************************************************************************)
RunsHere(a) == alive[a] = launch \/ (place[a] = "forked" /\ alive[a] = stopping)

FoundInThisShell ==
  [][Monitor => \/ agent' = agent \/ agent' = None \/ agent'.state = "done"
                \/ RunsHere(agent'.process)]_vars

(***************************************************************************)
(* An agent that keeps running is shown in the end, or another that runs,  *)
(* also one that was forked off its shell; "detached daemons" do not count.*)
(***************************************************************************)
AgentsAreFound ==
  \A a \in Agent :
    <>[](status = "running" /\ alive[a] = launch /\ place[a] # "detached") => []<>Live

(***************************************************************************)
(* The pane does not show for ever an agent as working that has ended.     *)
(***************************************************************************)
EndIsTold == []<>(status # "running" \/ agent = None \/ Live \/ agent.state = "done")

\* The monitor brings the record into line with what runs.
ShowsWhatRuns == AgentsAreFound /\ EndIsTold

(***************************************************************************)
(* When agent.stop has returned, the stopped pane shows an idle agent      *)
(* without a process (the assertions of agent_lifecycle_test.go), unless   *)
(* an agent has registered once more before its shell was closed: it then  *)
(* shows that one, which has ended.                                        *)
(***************************************************************************)
StoppedIsIdle ==
  status = "agent-stopped" /\ stopping = None =>
    \/ agent = [process |-> None, state |-> "idle"]
    \/ registered /\ agent # None /\ ~Live

\* The types, and what agent.stop leaves behind.
AgentInv == TypeOK /\ StoppedIsIdle
=============================================================================
