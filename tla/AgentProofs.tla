---------------------------- MODULE AgentProofs ----------------------------
(***************************************************************************)
(* Proofs about AgentTracking, for any agents, commands and launches.      *)
(***************************************************************************)
EXTENDS AgentTracking, SequenceTheorems, TLAPS

\* A process runs once: what is known of one that has ended stays true.
Once ==
  /\ Tracked => agent.process \in started
  /\ seen # None => seen.process \in started
  /\ seen # None /\ seen.exited => alive[seen.process] = None
  /\ table # None => \A a \in Agent :
       table[a] # None =>
         /\ a \in started
         /\ table[a] = 0 => alive[a] = None \/ place[a] = "forked"
         /\ table[a] # 0 => alive[a] \in {None, table[a]}

\* Agents run in the shell the pane has, or in the one agent.stop closes.
Shells ==
  /\ stopping # None => stopping <= launch /\ (stopping = launch => status = "agent-stopped")
  /\ \A a \in Agent : alive[a] # None =>
       (status = "running" /\ alive[a] = launch) \/ (stopping # None /\ alive[a] = stopping)
  /\ status = "agent-stopped" /\ stopping # None => stopping = launch
  /\ status = "down" => launch < MaxLaunches /\ stopping = None /\ seen = None

\* agent.stop leaves no process recorded, unless one registers again.
Stopped ==
  status = "agent-stopped" =>
    \/ agent = [process |-> None, state |-> "idle"]
    \/ registered /\ agent # None /\ (stopping = None => ~Live)

\* One that registers again and ends is not dropped: it has ended after all
\* prompts but one, that of the command its shell was in.
Remembered ==
  status = "agent-stopped" /\ Tracked /\ ~Live =>
    /\ prompts # <<>> => Len(prompts) = 1 /\ foreground = None /\ ~Seen.exited
    /\ foreground # None => ~Seen.exited

\* The shell has printed no later prompt than its last.
Printed == \A i \in DOMAIN prompts : prompts[i] <= Last

\* As long as no command has ended since the recorded agent has, all prompts
\* are those of the last command before.
Waiting ==
  Tracked /\ ~Live /\ ~since =>
    /\ \A i \in DOMAIN prompts : prompts[i] = Last
    /\ Seen.exited => Seen.command = Last

IInv == TypeOK /\ Once /\ Shells /\ Stopped /\ Remembered /\ Printed /\ Waiting

-----------------------------------------------------------------------------
LEMMA Appended ==
  ASSUME NEW s \in Seq(Number), NEW n \in Number
  PROVE  /\ Append(s, n) \in Seq(Number)
         /\ Len(Append(s, n)) = Len(s) + 1
         /\ Len(s) \in Nat
         /\ (\A i \in DOMAIN s : s[i] = n) => \A i \in DOMAIN Append(s, n) : Append(s, n)[i] = n
         /\ \A i \in DOMAIN Append(s, n) :
              Append(s, n)[i] = n \/ (i \in DOMAIN s /\ Append(s, n)[i] = s[i])
  OBVIOUS

LEMMA Shortened ==
  ASSUME NEW s \in Seq(Number), s # <<>>
  PROVE  /\ Tail(s) \in Seq(Number) /\ Len(Tail(s)) < Len(s)
         /\ Len(s) \in Nat /\ Len(Tail(s)) \in Nat
         /\ Head(s) \in Number /\ Head(s) = s[1] /\ 1 \in DOMAIN s
         /\ \A i \in DOMAIN Tail(s) : i + 1 \in DOMAIN s /\ Tail(s)[i] = s[i + 1]
<1>1. Len(s) \in Nat \ {0}
  BY EmptySeq
<1>2. Tail(s) \in Seq(Number) /\ Len(Tail(s)) = Len(s) - 1 /\ Head(s) \in Number
  BY HeadTailProperties
<1>3. \A i \in 1..Len(Tail(s)) : Tail(s)[i] = s[i + 1]
  BY HeadTailProperties
<1>4. DOMAIN s = 1..Len(s) /\ DOMAIN Tail(s) = 1..Len(Tail(s))
  BY <1>2, LenProperties
<1>5. Head(s) = s[1]
  BY <1>1
<1> QED
  BY <1>1, <1>2, <1>3, <1>4, <1>5

LEMMA Noted ==
  ASSUME NEW s \in [process : Agent, exited : BOOLEAN, command : Nat], NEW n \in Nat
  PROVE  LET t == [s EXCEPT !.exited = TRUE, !.command = n]
         IN  /\ t \in [process : Agent, exited : BOOLEAN, command : Nat]
             /\ t.process = s.process /\ t.exited /\ t.command = n
  OBVIOUS

\* What the monitor may record: it runs, and the table has it.
LEMMA Found == \A a \in Candidates : a \in Alive /\ table[a] \in {launch, 0}
  BY DEF Candidates

LEMMA InitInvariant == Init => IInv
<1> SUFFICES ASSUME Init PROVE IInv
  OBVIOUS
<1> USE AgentTrackingAssumption DEF Init
<1>1. /\ 1 \in Launch /\ 1 \in Number
      /\ <<1>> \in Seq(Number) /\ Len(<<1>>) <= MaxPrompts
  <2>1. 1 \in Launch /\ 1 \in Number
    BY DEF Launch, Number
  <2> QED
    BY <2>1
<1>2. TypeOK
  BY <1>1 DEF TypeOK
<1>3. Once /\ Shells /\ Stopped /\ Remembered /\ Printed /\ Waiting
  BY DEF Once, Shells, Stopped, Remembered, Printed, Waiting, Tracked, Last
<1> QED
  BY <1>2, <1>3 DEF IInv

-----------------------------------------------------------------------------
LEMMA TypeStep ==
  ASSUME IInv, [Next]_vars
  PROVE  TypeOK'
<1> USE AgentTrackingAssumption DEF IInv, TypeOK, Launch, Number, States, shellVars, pipeVars
<1>1. CASE RunCommand
  BY <1>1, Appended, Shortened DEF RunCommand, AtPrompt, ShellRuns
<1>2. CASE EmptyEnter
  BY <1>2, Appended, Shortened DEF EmptyEnter, ShellRuns, Prompt
<1>3. CASE CommandEnds
  BY <1>3, Appended, Shortened DEF CommandEnds, ShellRuns, Prompt, CommandRan, Live
<1>4. ASSUME NEW a \in Agent, AgentEnds(a) PROVE TypeOK'
  <2> USE <1>4 DEF AgentEnds
  <2>1. /\ alive' \in [Agent -> Launch \cup {None}] /\ \A b \in Agent : alive'[b] # None => b \in started'
        /\ UNCHANGED <<status, launch, number, started, agent, seen, table, stopping>>
    OBVIOUS
  <2>2. since' \in BOOLEAN
    BY Zenon DEF CommandRan
  <2>3. /\ prompts' \in Seq(Number) /\ Len(prompts') <= MaxPrompts
        /\ foreground' \in Agent \cup {"command", None}
    <3>1. CASE foreground = a
      <4>1. prompts' = Append(prompts, number) /\ foreground' = None /\ Len(prompts) < MaxPrompts
        BY <3>1 DEF Prompt
      <4> QED
        BY <4>1, Appended
    <3>2. CASE foreground # a
      BY <3>2
    <3> QED
      BY <3>1, <3>2
  <2> QED
    BY <2>1, <2>2, <2>3
<1>5. ASSUME NEW a \in Agent, NEW background \in BOOLEAN, RunAgent(a, background) PROVE TypeOK'
  <2> USE <1>5 DEF RunAgent, AtPrompt, ShellRuns
  <2>1. /\ alive' \in [Agent -> Launch \cup {None}] /\ \A b \in Agent : alive'[b] # None => b \in started'
        /\ started' \subseteq Agent /\ number' \in Number
        /\ UNCHANGED <<status, launch, agent, seen, table, stopping>>
    OBVIOUS
  <2>2. since' \in BOOLEAN
    BY Zenon DEF CommandRan
  <2>3. /\ prompts' \in Seq(Number) /\ Len(prompts') <= MaxPrompts
        /\ foreground' \in Agent \cup {"command", None}
    <3>1. CASE background
      <4>1. prompts' = Append(prompts, number') /\ foreground' = foreground /\ Len(prompts) < MaxPrompts
        BY <3>1 DEF Prompt
      <4> QED
        BY <4>1, <2>1, Appended
    <3>2. CASE ~background
      BY <3>2
    <3> QED
      BY <3>1, <3>2
  <2> QED
    BY <2>1, <2>2, <2>3
<1>6. ASSUME NEW a \in Agent, NEW b \in Agent, Nest(a, b) PROVE TypeOK'
  BY <1>6, Appended, Shortened DEF Nest, Alive
<1>17. ASSUME NEW agents \in SUBSET Agent, NEW p \in {"forked", "detached"}, CutOff(agents, p) PROVE TypeOK'
  BY <1>17, Appended, Shortened DEF CutOff, Alive
<1>7. CASE TakeTable
  BY <1>7, Appended, Shortened DEF TakeTable, InTable
<1>8. CASE Monitor
  <2> USE <1>8 DEF Monitor
  <2>1. agent' \in [process : Agent \cup {None}, state : States] \cup {None}
    BY Found DEF Record, Alive
  <2>2. since' \in BOOLEAN
    BY Zenon
  <2> QED
    BY <2>1, <2>2
<1>9. ASSUME NEW a \in Agent, NEW s \in {"working", "done"}, Register(a, s) PROVE TypeOK'
  BY <1>9, Appended, Shortened DEF Register, Record, Alive, Live
<1>10. CASE ReadPrompt
  <2> USE <1>10 DEF ReadPrompt
  <2>1. prompts' \in Seq(Number) /\ Len(prompts') <= MaxPrompts /\ Head(prompts) \in Number
    BY Shortened
  <2>2. /\ agent' \in [process : Agent \cup {None}, state : States] \cup {None}
        /\ seen' \in [process : Agent, exited : BOOLEAN, command : Number \cup {0}] \cup {None}
    <3>1. CASE ~Tracked
      BY <3>1
    <3>2. CASE Tracked
      <4>1. Seen \in [process : Agent, exited : BOOLEAN, command : Number \cup {0}]
        BY <3>2 DEF Seen, Tracked
      <4>2. [Seen EXCEPT !.exited = TRUE, !.command = Head(prompts)] \in [process : Agent, exited : BOOLEAN, command : Number \cup {0}]
        BY <4>1, <2>1
      <4> QED
        BY <3>2, <4>1, <4>2
    <3> QED
      BY <3>1, <3>2
  <2>3. since' \in BOOLEAN
    BY Zenon
  <2> QED
    BY <2>1, <2>2, <2>3
<1>11. CASE StopAgents
  BY <1>11, Appended, Shortened DEF StopAgents, Record, Live, Alive
<1>12. CASE CloseStopped
  <2> USE <1>12 DEF CloseStopped
  <2>1. <<>> \in Seq(Number) /\ Len(<<>>) <= MaxPrompts
    BY EmptySeq
  <2>2. prompts' \in Seq(Number) /\ Len(prompts') <= MaxPrompts
    <3>1. CASE stopping = launch
      BY <2>1, <3>1
    <3>2. CASE stopping # launch
      BY <3>2
    <3> QED
      BY <3>1, <3>2
  <2>3. alive' \in [Agent -> Launch \cup {None}] /\ \A b \in Agent : alive'[b] # None => b \in started'
    OBVIOUS
  <2> QED
    BY <2>2, <2>3
<1>13. CASE RestartPane
  <2>1. <<1>> \in Seq(Number) /\ Len(<<1>>) <= MaxPrompts /\ 1 \in Number
    BY <1>13
  <2>2. launch' \in Launch /\ status' = "running" /\ number' = 1 /\ prompts' = <<1>> /\ foreground' = None /\ since' = FALSE
    BY <1>13 DEF RestartPane, NewShell
  <2> QED
    BY <1>13, <2>1, <2>2 DEF RestartPane
<1>14. CASE End
  BY <1>14, Appended, Shortened DEF End
<1>15. CASE Start
  <2>1. <<1>> \in Seq(Number) /\ Len(<<1>>) <= MaxPrompts /\ 1 \in Number
    BY <1>15
  <2>2. launch' \in Launch /\ status' = "running" /\ number' = 1 /\ prompts' = <<1>> /\ foreground' = None /\ since' = FALSE
    BY <1>15 DEF Start, NewShell, Shells
  <2> QED
    BY <1>15, <2>1, <2>2 DEF Start
<1>16. CASE UNCHANGED vars
  BY <1>16, Appended, Shortened DEF vars
<1> HIDE DEF IInv, TypeOK, Launch, Number, States, shellVars, pipeVars
<1> QED
  BY <1>1, <1>2, <1>3, <1>4, <1>5, <1>6, <1>7, <1>8, <1>9, <1>10, <1>11, <1>12, <1>13, <1>14, <1>15, <1>16, <1>17, Zenon DEF Next

LEMMA OnceStep ==
  ASSUME IInv, [Next]_vars
  PROVE  Once'
<1> USE AgentTrackingAssumption DEF IInv, TypeOK, Once, Tracked, shellVars, pipeVars
<1>1. CASE RunCommand
  BY <1>1 DEF RunCommand, AtPrompt, ShellRuns
<1>2. CASE EmptyEnter
  BY <1>2 DEF EmptyEnter, ShellRuns, Prompt
<1>3. CASE CommandEnds
  BY <1>3 DEF CommandEnds, ShellRuns, Prompt, CommandRan, Live
<1>4. ASSUME NEW a \in Agent, AgentEnds(a) PROVE Once'
  BY <1>4 DEF AgentEnds, Alive, Prompt, CommandRan, Live
<1>5. ASSUME NEW a \in Agent, NEW background \in BOOLEAN, RunAgent(a, background) PROVE Once'
  BY <1>5 DEF RunAgent, AtPrompt, ShellRuns, Prompt, CommandRan, Live
<1>6. ASSUME NEW a \in Agent, NEW b \in Agent, Nest(a, b) PROVE Once'
  BY <1>6 DEF Nest, Alive
<1>17. ASSUME NEW agents \in SUBSET Agent, NEW p \in {"forked", "detached"}, CutOff(agents, p) PROVE Once'
  BY <1>17 DEF CutOff, Alive
<1>7. CASE TakeTable
  <2>1. ASSUME NEW a \in Agent, table'[a] # None
        PROVE  /\ alive[a] # None
               /\ table'[a] = 0 => place[a] = "forked"
               /\ table'[a] # 0 => table'[a] = alive[a]
    BY <1>7, <2>1 DEF TakeTable, InTable, Launch
  <2> QED
    BY <1>7, <2>1 DEF TakeTable
<1>8. CASE Monitor
  BY <1>8, Found DEF Monitor, Keep, Record, Alive, Live
<1>9. ASSUME NEW a \in Agent, NEW s \in {"working", "done"}, Register(a, s) PROVE Once'
  BY <1>9 DEF Register, Record, Alive, Live
<1>10. CASE ReadPrompt
  <2> USE <1>10 DEF ReadPrompt
  <2>1. CASE ~Tracked
    BY <2>1
  <2>2. CASE Tracked /\ Live
    BY <2>2 DEF Seen
  <2>3. CASE Tracked /\ ~Live /\ OtherCommand(Head(prompts))
    BY <2>3
  <2>4. CASE Tracked /\ ~Live /\ ~OtherCommand(Head(prompts))
    <3>1. agent' = agent /\ UNCHANGED <<started, alive, table>> /\ alive[agent.process] = None
      BY <2>4 DEF Live, Alive
    <3>2. Seen \in [process : Agent, exited : BOOLEAN, command : Number \cup {0}] /\ Seen.process = agent.process
      BY <2>4 DEF Seen
    <3>3. seen' = IF Seen.exited THEN Seen ELSE [Seen EXCEPT !.exited = TRUE, !.command = Head(prompts)]
      BY <2>4
    <3>4. Head(prompts) \in Number
      BY Shortened
    <3>5. seen' \in [process : Agent, exited : BOOLEAN, command : Nat] /\ seen'.process = agent.process
      <4>1. Seen \in [process : Agent, exited : BOOLEAN, command : Nat] /\ Head(prompts) \in Nat
        BY <3>2, <3>4 DEF Number
      <4> HIDE DEF Seen, ReadPrompt, IInv, TypeOK, Once
      <4> QED
        BY <3>2, <3>3, <4>1, Noted
    <3>6. seen'.process \in started' /\ alive'[seen'.process] = None
      BY <3>1, <3>5, <2>4
    <3> QED
      BY <3>1, <3>6, <2>4
  <2> QED
    BY <2>1, <2>2, <2>3, <2>4
<1>11. CASE StopAgents
  BY <1>11 DEF StopAgents, Record, Live, Alive
<1>12. CASE CloseStopped
  BY <1>12 DEF CloseStopped
<1>13. CASE RestartPane
  BY <1>13 DEF RestartPane, NewShell
<1>14. CASE End
  BY <1>14 DEF End
<1>15. CASE Start
  BY <1>15 DEF Start, NewShell
<1>16. CASE UNCHANGED vars
  BY <1>16 DEF vars
<1> HIDE DEF IInv, TypeOK, Once, Tracked, shellVars, pipeVars
<1> QED
  BY <1>1, <1>2, <1>3, <1>4, <1>5, <1>6, <1>7, <1>8, <1>9, <1>10, <1>11, <1>12, <1>13, <1>14, <1>15, <1>16, <1>17, Zenon DEF Next

LEMMA ShellsStep ==
  ASSUME IInv, [Next]_vars
  PROVE  Shells'
<1> USE AgentTrackingAssumption DEF IInv, TypeOK, Shells, Launch, shellVars, pipeVars
<1>1. CASE RunCommand
  BY <1>1 DEF RunCommand, AtPrompt, ShellRuns
<1>2. CASE EmptyEnter
  BY <1>2 DEF EmptyEnter, ShellRuns, Prompt
<1>3. CASE CommandEnds
  BY <1>3 DEF CommandEnds, ShellRuns, Prompt, CommandRan, Live
<1>4. ASSUME NEW a \in Agent, AgentEnds(a) PROVE Shells'
  BY <1>4 DEF AgentEnds, Alive, Prompt, CommandRan, Live
<1>5. ASSUME NEW a \in Agent, NEW background \in BOOLEAN, RunAgent(a, background) PROVE Shells'
  BY <1>5 DEF RunAgent, AtPrompt, ShellRuns, Prompt, CommandRan, Live
<1>6. ASSUME NEW a \in Agent, NEW b \in Agent, Nest(a, b) PROVE Shells'
  BY <1>6 DEF Nest, Alive
<1>17. ASSUME NEW agents \in SUBSET Agent, NEW p \in {"forked", "detached"}, CutOff(agents, p) PROVE Shells'
  BY <1>17 DEF CutOff, Alive
<1>7. CASE TakeTable
  BY <1>7 DEF TakeTable
<1>8. CASE Monitor
  BY <1>8 DEF Monitor, Keep, Candidates, Record, Alive, Live
<1>9. ASSUME NEW a \in Agent, NEW s \in {"working", "done"}, Register(a, s) PROVE Shells'
  BY <1>9 DEF Register, Record, Alive, Live
<1>10. CASE ReadPrompt
  BY <1>10 DEF ReadPrompt, Tracked, Live, OtherCommand, Seen
<1>11. CASE StopAgents
  BY <1>11 DEF StopAgents, Record, Live, Alive
<1>12. CASE CloseStopped
  BY <1>12 DEF CloseStopped
<1>13. CASE RestartPane
  BY <1>13 DEF RestartPane, NewShell
<1>14. CASE End
  BY <1>14 DEF End
<1>15. CASE Start
  BY <1>15 DEF Start, NewShell
<1>16. CASE UNCHANGED vars
  BY <1>16 DEF vars
<1> HIDE DEF IInv, TypeOK, Shells, Launch, shellVars, pipeVars
<1> QED
  BY <1>1, <1>2, <1>3, <1>4, <1>5, <1>6, <1>7, <1>8, <1>9, <1>10, <1>11, <1>12, <1>13, <1>14, <1>15, <1>16, <1>17, Zenon DEF Next

LEMMA StoppedStep ==
  ASSUME IInv, [Next]_vars
  PROVE  Stopped'
<1> USE AgentTrackingAssumption DEF IInv, TypeOK, Once, Shells, Stopped, Tracked, Live, Alive, Launch, shellVars, pipeVars
<1>1. CASE RunCommand
  BY <1>1 DEF RunCommand, AtPrompt, ShellRuns
<1>2. CASE EmptyEnter
  BY <1>2 DEF EmptyEnter, ShellRuns, Prompt
<1>3. CASE CommandEnds
  BY <1>3 DEF CommandEnds, ShellRuns, Prompt, CommandRan, Live
<1>4. ASSUME NEW a \in Agent, AgentEnds(a) PROVE Stopped'
  BY <1>4 DEF AgentEnds, Alive, Prompt, CommandRan, Live
<1>5. ASSUME NEW a \in Agent, NEW background \in BOOLEAN, RunAgent(a, background) PROVE Stopped'
  BY <1>5 DEF RunAgent, AtPrompt, ShellRuns, Prompt, CommandRan, Live
<1>6. ASSUME NEW a \in Agent, NEW b \in Agent, Nest(a, b) PROVE Stopped'
  BY <1>6 DEF Nest, Alive
<1>17. ASSUME NEW agents \in SUBSET Agent, NEW p \in {"forked", "detached"}, CutOff(agents, p) PROVE Stopped'
  BY <1>17 DEF CutOff, Alive
<1>7. CASE TakeTable
  BY <1>7 DEF TakeTable
<1>8. CASE Monitor
  BY <1>8 DEF Monitor
<1>9. ASSUME NEW a \in Agent, NEW s \in {"working", "done"}, Register(a, s) PROVE Stopped'
  <2>1. /\ agent' = [process |-> a, state |-> s] /\ registered' /\ UNCHANGED <<status, alive, stopping>>
        /\ alive[a] # None
    BY <1>9 DEF Register, Record
  <2>2. agent' # None
    <3>1. agent' \in [process : Agent \cup {None}, state : States]
      BY <2>1 DEF States
    <3> QED
      BY <3>1
  <2>3. status = "agent-stopped" => stopping # None
    BY <2>1
  <2> QED
    BY <2>1, <2>2, <2>3
<1>10. CASE ReadPrompt
  <2> USE <1>10 DEF ReadPrompt
  <2>1. UNCHANGED <<status, alive, stopping, registered>>
    OBVIOUS
  <2>2. CASE status = "agent-stopped" /\ Tracked /\ ~Live
    <3>1. ~Seen.exited
      BY <2>2 DEF Remembered
    <3>2. agent' = agent
      BY <2>2, <3>1 DEF OtherCommand
    <3> QED
      BY <2>1, <3>2
  <2>3. CASE status = "agent-stopped" /\ ~(Tracked /\ ~Live)
    <3>1. agent' = agent
      BY <2>3
    <3> QED
      BY <2>1, <3>1
  <2> QED
    BY <2>1, <2>2, <2>3
<1>11. CASE StopAgents
  BY <1>11 DEF StopAgents, Record, Live, Alive
<1>12. CASE CloseStopped
  <2>1. UNCHANGED <<status, agent, registered>>
    BY <1>12 DEF CloseStopped
  <2>2. status = "agent-stopped" => \A a \in Agent : alive'[a] = None
    BY <1>12 DEF CloseStopped
  <2>3. Live' => alive'[agent.process] # None /\ agent.process \in Agent
    BY <2>1
  <2> QED
    BY <2>1, <2>2, <2>3
<1>13. CASE RestartPane
  BY <1>13 DEF RestartPane, NewShell
<1>14. CASE End
  BY <1>14 DEF End
<1>15. CASE Start
  BY <1>15 DEF Start, NewShell
<1>16. CASE UNCHANGED vars
  BY <1>16 DEF vars
<1> HIDE DEF IInv, TypeOK, Once, Shells, Stopped, Tracked, Live, Alive, Launch, shellVars, pipeVars
<1> QED
  BY <1>1, <1>2, <1>3, <1>4, <1>5, <1>6, <1>7, <1>8, <1>9, <1>10, <1>11, <1>12, <1>13, <1>14, <1>15, <1>16, <1>17, Zenon DEF Next

LEMMA RememberedStep ==
  ASSUME IInv, [Next]_vars
  PROVE  Remembered'
<1> USE AgentTrackingAssumption DEF IInv, TypeOK, Once, Shells, Remembered, Tracked, Live, Alive, Seen, Launch, shellVars, pipeVars
<1>1. CASE RunCommand
  BY <1>1 DEF RunCommand, AtPrompt, ShellRuns
<1>2. CASE EmptyEnter
  BY <1>2 DEF EmptyEnter, ShellRuns, Prompt
<1>3. CASE CommandEnds
  BY <1>3 DEF CommandEnds, ShellRuns, Prompt, CommandRan, Live
<1>4. ASSUME NEW a \in Agent, AgentEnds(a) PROVE Remembered'
  BY <1>4 DEF AgentEnds, Alive, Prompt, CommandRan, Live
<1>5. ASSUME NEW a \in Agent, NEW background \in BOOLEAN, RunAgent(a, background) PROVE Remembered'
  BY <1>5 DEF RunAgent, AtPrompt, ShellRuns, Prompt, CommandRan, Live
<1>6. ASSUME NEW a \in Agent, NEW b \in Agent, Nest(a, b) PROVE Remembered'
  BY <1>6 DEF Nest, Alive
<1>17. ASSUME NEW agents \in SUBSET Agent, NEW p \in {"forked", "detached"}, CutOff(agents, p) PROVE Remembered'
  BY <1>17 DEF CutOff, Alive
<1>7. CASE TakeTable
  BY <1>7 DEF TakeTable
<1>8. CASE Monitor
  BY <1>8 DEF Monitor, Keep, Candidates, Record, Alive, Live
<1>9. ASSUME NEW a \in Agent, NEW s \in {"working", "done"}, Register(a, s) PROVE Remembered'
  BY <1>9 DEF Register, Record, Alive, Live
<1>10. CASE ReadPrompt
  BY <1>10 DEF ReadPrompt, Tracked, Live, OtherCommand, Seen
<1>11. CASE StopAgents
  BY <1>11 DEF StopAgents, Record, Live, Alive
<1>12. CASE CloseStopped
  BY <1>12 DEF CloseStopped
<1>13. CASE RestartPane
  BY <1>13 DEF RestartPane, NewShell
<1>14. CASE End
  BY <1>14 DEF End
<1>15. CASE Start
  BY <1>15 DEF Start, NewShell
<1>16. CASE UNCHANGED vars
  BY <1>16 DEF vars
<1> HIDE DEF IInv, TypeOK, Once, Shells, Remembered, Tracked, Live, Alive, Seen, Launch, shellVars, pipeVars
<1> QED
  BY <1>1, <1>2, <1>3, <1>4, <1>5, <1>6, <1>7, <1>8, <1>9, <1>10, <1>11, <1>12, <1>13, <1>14, <1>15, <1>16, <1>17, Zenon DEF Next

LEMMA PrintedStep ==
  ASSUME IInv, [Next]_vars
  PROVE  Printed'
<1> USE AgentTrackingAssumption DEF IInv, TypeOK, Printed, Last, Number, shellVars, pipeVars
<1>1. CASE RunCommand
  BY <1>1 DEF RunCommand, AtPrompt, ShellRuns
<1>2. CASE EmptyEnter
  BY <1>2 DEF EmptyEnter, ShellRuns, Prompt
<1>3. CASE CommandEnds
  BY <1>3 DEF CommandEnds, ShellRuns, Prompt, CommandRan, Live
<1>4. ASSUME NEW a \in Agent, AgentEnds(a) PROVE Printed'
  BY <1>4 DEF AgentEnds, Alive, Prompt, CommandRan, Live
<1>5. ASSUME NEW a \in Agent, NEW background \in BOOLEAN, RunAgent(a, background) PROVE Printed'
  <2>1. foreground = None /\ number' = number + 1 /\ number \in Nat
    BY <1>5 DEF RunAgent, AtPrompt
  <2>2. CASE background
    <3>1. prompts' = Append(prompts, number + 1) /\ Last = number /\ Last' = number + 1
      BY <1>5, <2>1, <2>2 DEF RunAgent, Prompt
    <3>2. \A i \in DOMAIN prompts : prompts[i] \in Nat /\ prompts[i] <= number
      BY <3>1
    <3>3. \A i \in DOMAIN prompts' : prompts'[i] = number + 1 \/ (i \in DOMAIN prompts /\ prompts'[i] = prompts[i])
      <4>1. number + 1 \in Number /\ prompts \in Seq(Number)
        BY <1>5, <2>1 DEF RunAgent, AtPrompt
      <4> QED
        BY <3>1, <4>1, Appended
    <3> QED
      BY <2>1, <3>1, <3>2, <3>3
  <2>3. CASE ~background
    <3>1. foreground' = a /\ a # None /\ prompts' = prompts
      BY <1>5, <2>3 DEF RunAgent
    <3>2. Last' = number /\ Last = number
      BY <2>1, <3>1
    <3> QED
      BY <3>1, <3>2
  <2> QED
    BY <2>2, <2>3
<1>6. ASSUME NEW a \in Agent, NEW b \in Agent, Nest(a, b) PROVE Printed'
  BY <1>6 DEF Nest, Alive
<1>17. ASSUME NEW agents \in SUBSET Agent, NEW p \in {"forked", "detached"}, CutOff(agents, p) PROVE Printed'
  BY <1>17 DEF CutOff, Alive
<1>7. CASE TakeTable
  BY <1>7 DEF TakeTable
<1>8. CASE Monitor
  BY <1>8 DEF Monitor, Keep, Candidates, Record, Alive, Live
<1>9. ASSUME NEW a \in Agent, NEW s \in {"working", "done"}, Register(a, s) PROVE Printed'
  BY <1>9 DEF Register, Record, Alive, Live
<1>10. CASE ReadPrompt
  BY <1>10 DEF ReadPrompt, Tracked, Live, OtherCommand, Seen
<1>11. CASE StopAgents
  BY <1>11 DEF StopAgents, Record, Live, Alive
<1>12. CASE CloseStopped
  BY <1>12 DEF CloseStopped
<1>13. CASE RestartPane
  BY <1>13 DEF RestartPane, NewShell
<1>14. CASE End
  BY <1>14 DEF End
<1>15. CASE Start
  BY <1>15 DEF Start, NewShell
<1>16. CASE UNCHANGED vars
  BY <1>16 DEF vars
<1> HIDE DEF IInv, TypeOK, Printed, Last, Number, shellVars, pipeVars
<1> QED
  BY <1>1, <1>2, <1>3, <1>4, <1>5, <1>6, <1>7, <1>8, <1>9, <1>10, <1>11, <1>12, <1>13, <1>14, <1>15, <1>16, <1>17, Zenon DEF Next

LEMMA WaitingStep ==
  ASSUME IInv, [Next]_vars
  PROVE  Waiting'
<1> USE AgentTrackingAssumption DEF IInv, TypeOK, Once, Shells, Stopped, Waiting, Last, Tracked, Seen, Live, Alive, shellVars, pipeVars
<1>1. CASE RunCommand
  <2>1. Last' = Last /\ UNCHANGED <<agent, alive, since, seen, prompts>>
    BY <1>1 DEF RunCommand, AtPrompt, ShellRuns, Number
  <2> QED
    BY <2>1 DEF Waiting
<1>2. CASE EmptyEnter
  BY <1>2, Appended, Shortened DEF EmptyEnter, ShellRuns, Prompt
<1>3. CASE CommandEnds
  BY <1>3, Appended, Shortened DEF CommandEnds, ShellRuns, Prompt, CommandRan, Live
<1>4. ASSUME NEW a \in Agent, AgentEnds(a) PROVE Waiting'
  BY <1>4, Appended, Shortened DEF AgentEnds, Alive, Prompt, CommandRan, Live
<1>5. ASSUME NEW a \in Agent, NEW background \in BOOLEAN, RunAgent(a, background) PROVE Waiting'
  <2> USE <1>5 DEF RunAgent
  <2>1. UNCHANGED <<agent, seen>> /\ (Tracked => agent.process # a /\ (Live' <=> Live))
    BY DEF Once
  <2>2. CASE ~background
    <3>1. foreground = None /\ foreground' = a /\ a # None /\ number' = number + 1 /\ number \in Nat
      BY <2>2 DEF AtPrompt, Number
    <3>2. Last' = Last /\ UNCHANGED <<since, prompts>>
      BY <2>2, <3>1
    <3> QED
      BY <2>1, <3>2 DEF Waiting
  <2>3. CASE background
    <3>1. Tracked /\ ~Live => since'
      BY <2>3 DEF CommandRan
    <3> QED
      BY <2>1, <3>1 DEF Waiting
  <2> QED
    BY <2>2, <2>3
<1>6. ASSUME NEW a \in Agent, NEW b \in Agent, Nest(a, b) PROVE Waiting'
  BY <1>6, Appended, Shortened DEF Nest, Alive
<1>17. ASSUME NEW agents \in SUBSET Agent, NEW p \in {"forked", "detached"}, CutOff(agents, p) PROVE Waiting'
  BY <1>17, Appended, Shortened DEF CutOff, Alive
<1>7. CASE TakeTable
  BY <1>7, Appended, Shortened DEF TakeTable, InTable
<1>8. CASE Monitor
  BY <1>8, Appended, Shortened DEF Monitor, Keep, Candidates, Record, Alive, Live
<1>9. ASSUME NEW a \in Agent, NEW s \in {"working", "done"}, Register(a, s) PROVE Waiting'
  BY <1>9, Appended, Shortened DEF Register, Record, Alive, Live
<1>10. CASE ReadPrompt
  <2> SUFFICES ASSUME Tracked', ~Live', ~since' PROVE (/\ \A i \in DOMAIN prompts : prompts[i] = Last
                                                       /\ Seen.exited => Seen.command = Last)'
    BY DEF Waiting
  <2>1. UNCHANGED <<alive, foreground, number>> /\ Last' = Last /\ agent' = agent /\ Tracked /\ ~Live /\ ~since
    BY <1>10 DEF ReadPrompt
  <2>2. prompts # <<>> /\ prompts' = Tail(prompts) /\ prompts \in Seq(Number)
    BY <1>10 DEF ReadPrompt
  <2>3. \A i \in DOMAIN prompts : prompts[i] = Last
    BY <2>1 DEF Waiting
  <2>4. Head(prompts) = Last /\ \A i \in DOMAIN prompts' : prompts'[i] = Last
    BY <2>2, <2>3, Shortened
  <2>5. Seen.exited => Seen.command = Last
    BY <2>1 DEF Waiting
  <2>6. /\ ~OtherCommand(Head(prompts))
        /\ seen' = IF Seen.exited THEN Seen ELSE [Seen EXCEPT !.exited = TRUE, !.command = Head(prompts)]
    BY <1>10, <2>1 DEF ReadPrompt
  <2>7. Seen \in [process : Agent, exited : BOOLEAN, command : Number \cup {0}] /\ Seen.process = agent.process
    BY <2>1 DEF Seen
  <2>8. seen' \in [process : Agent, exited : BOOLEAN, command : Nat] /\ seen'.process = agent.process /\ seen'.exited /\ seen'.command = Last
    <3>1. Last \in Number
      BY <2>2, <2>4, Shortened
    <3>2. CASE Seen.exited
      BY <3>1, <3>2, <2>5, <2>6, <2>7 DEF Number
    <3>3. CASE ~Seen.exited
      <4>1. Seen \in [process : Agent, exited : BOOLEAN, command : Nat] /\ Last \in Nat
        BY <3>1, <2>7 DEF Number
      <4>2. seen' = [Seen EXCEPT !.exited = TRUE, !.command = Last]
        BY <3>3, <2>4, <2>6
      <4> HIDE DEF Seen, Last, IInv, TypeOK, Once, Waiting
      <4> QED
        BY <2>7, <4>1, <4>2, Noted
    <3> QED
      BY <3>2, <3>3
  <2>9. Seen' = seen'
    BY <2>1, <2>8 DEF Seen
  <2> QED
    BY <2>1, <2>4, <2>8, <2>9
<1>11. CASE StopAgents
  BY <1>11, Appended, Shortened DEF StopAgents, Record, Live, Alive
<1>12. CASE CloseStopped
  <2>1. CASE stopping = launch
    <3>1. /\ prompts' = <<>> /\ UNCHANGED <<agent, seen, number>> /\ foreground' = None /\ Seen' = Seen
          /\ since' = since
          /\ alive' = [a \in Agent |-> IF alive[a] = stopping THEN None ELSE alive[a]]
          /\ status = "agent-stopped"
      BY <1>12, <2>1 DEF CloseStopped
    <3> SUFFICES ASSUME Tracked, ~Live', ~since, Seen.exited PROVE Seen.command = Last'
      BY <3>1 DEF Waiting
    <3>2. CASE Live
      <4>1. seen # None /\ seen.exited /\ seen.process = agent.process
        BY DEF Seen
      <4> QED
        BY <3>2, <4>1
    <3>3. CASE ~Live
      <4>1. foreground = None
        BY <3>1, <3>3 DEF Remembered
      <4>2. Last' = Last
        BY <3>1, <4>1
      <4> QED
        BY <3>3, <4>2
    <3> QED
      BY <3>2, <3>3
  <2>2. CASE stopping # launch
    <3>1. /\ UNCHANGED <<agent, seen, prompts, foreground, number>> /\ Last' = Last
          /\ Seen' = Seen /\ (Tracked' <=> Tracked)
          /\ since' = (since \/ (Live /\ alive[agent.process] = stopping /\ Last > 1))
          /\ alive' = [a \in Agent |-> IF alive[a] = stopping THEN None ELSE alive[a]]
      <4>1. /\ UNCHANGED <<agent, seen, prompts, foreground, number>>
            /\ since' = (since \/ (Live /\ alive[agent.process] = stopping /\ Last > 1))
            /\ alive' = [a \in Agent |-> IF alive[a] = stopping THEN None ELSE alive[a]]
        <5> HIDE DEF Last, Live, IInv
        <5> QED
          BY <1>12, <2>2, Zenon DEF CloseStopped
      <4>2. Last' = Last /\ Seen' = Seen /\ (Tracked' <=> Tracked)
        BY <4>1
      <4> QED
        BY <4>1, <4>2
    <3>2. Tracked /\ ~Live' /\ ~since' =>
            /\ \A i \in DOMAIN prompts : prompts[i] = Last
            /\ Seen.exited => Seen.command = Last
      <4> SUFFICES ASSUME Tracked, ~Live', ~since'
                   PROVE  /\ \A i \in DOMAIN prompts : prompts[i] = Last
                          /\ Seen.exited => Seen.command = Last
        OBVIOUS
      <4>1. CASE ~Live
        BY <3>1, <4>1 DEF Waiting
      <4>2. CASE Live
        <5>1. alive[agent.process] = stopping
          BY <3>1, <4>2
        <5>2. ~(Last > 1)
          BY <3>1, <4>2, <5>1, Zenon
        <5>3. \A i \in DOMAIN prompts : prompts[i] \in Nat \ {0} /\ prompts[i] <= Last
          BY DEF Printed, Number
        <5>4. Last \in Nat
          BY DEF Number
        <5>5. ~Seen.exited
          BY <4>2
        <5> QED
          BY <5>2, <5>3, <5>4, <5>5
      <4> QED
        BY <4>1, <4>2
    <3> HIDE DEF Last, Live, Seen, Tracked, IInv, TypeOK, Once, Shells, Stopped
    <3>3. prompts' = prompts /\ Last' = Last /\ Seen' = Seen /\ (Tracked' => Tracked)
      BY <3>1
    <3>4. Waiting' <=>
            (Tracked' /\ ~Live' /\ ~since' =>
               /\ \A i \in DOMAIN prompts' : prompts'[i] = Last'
               /\ Seen'.exited => Seen'.command = Last')
      BY ONLY Zenon DEF Waiting
    <3>5. (\A i \in DOMAIN prompts : prompts[i] = Last) => \A i \in DOMAIN prompts' : prompts'[i] = Last'
      BY ONLY <3>3
    <3>6. (Seen.exited => Seen.command = Last) => (Seen'.exited => Seen'.command = Last')
      BY ONLY <3>3, Zenon
    <3> HIDE DEF Waiting
    <3> QED
      BY <3>2, <3>3, <3>4, <3>5, <3>6, Zenon
  <2> QED
    BY <2>1, <2>2
<1>13. CASE RestartPane
  BY <1>13, Appended, Shortened DEF RestartPane, NewShell
<1>14. CASE End
  BY <1>14, Appended, Shortened DEF End
<1>15. CASE Start
  <2>1. /\ seen' = None /\ foreground' = None /\ number' = 1 /\ prompts' = <<1>>
    BY <1>15 DEF Start, NewShell
  <2>2. Last' = 1 /\ \A i \in DOMAIN prompts' : prompts'[i] = 1
    BY <2>1
  <2>3. Tracked' => ~Seen'.exited
    BY <2>1
  <2> QED
    BY <2>2, <2>3
<1>16. CASE UNCHANGED vars
  BY <1>16, Appended, Shortened DEF vars
<1> HIDE DEF IInv, TypeOK, Once, Shells, Stopped, Waiting, Last, Tracked, Seen, Live, Alive, shellVars, pipeVars
<1> QED
  BY <1>1, <1>2, <1>3, <1>4, <1>5, <1>6, <1>7, <1>8, <1>9, <1>10, <1>11, <1>12, <1>13, <1>14, <1>15, <1>16, <1>17, Zenon DEF Next

LEMMA InvariantStep ==
  ASSUME IInv, [Next]_vars
  PROVE  IInv'
  BY TypeStep, OnceStep, ShellsStep, StoppedStep, RememberedStep, PrintedStep, WaitingStep DEF IInv

LEMMA Invariant == Spec => []IInv
<1>1. Init => IInv
  BY InitInvariant
<1>2. IInv /\ [Next]_vars => IInv'
  BY InvariantStep
<1> QED
  BY <1>1, <1>2, PTL DEF Spec

-----------------------------------------------------------------------------
(***************************************************************************)
(* When agent.stop has returned, the stopped pane shows an idle agent      *)
(* without a process, or, if one has registered again before its shell was *)
(* closed, that one, which has ended: whatever is found or printed.        *)
(***************************************************************************)
THEOREM AgentInvCorrect == Spec => []AgentInv
<1>1. IInv => AgentInv
  BY DEF IInv, Stopped, AgentInv, StoppedIsIdle
<1> QED
  BY <1>1, Invariant, PTL

\* What the monitor finds runs, and in the shell the table saw it in.
LEMMA FoundHere == ASSUME IInv, Next PROVE
  Monitor => agent' = agent \/ agent' = None \/ agent'.state = "done" \/ RunsHere(agent'.process)
<1> SUFFICES ASSUME Monitor, agent' # agent, agent' # None
             PROVE  agent'.state = "done" \/ RunsHere(agent'.process)
  OBVIOUS
<1>1. CASE \E a \in Candidates : Record(a, "unknown")
  <2>1. PICK a \in Candidates : agent' = [process |-> a, state |-> "unknown"]
    BY <1>1 DEF Record
  <2>2. a \in Agent /\ alive[a] # None /\ table[a] \in {launch, 0} /\ table # None
    BY <2>1, Found DEF Alive, Monitor
  <2>3. launch # None /\ launch # 0 /\ None # 0
    <3>1. launch \in Nat \ {0} /\ None \notin Nat
      BY AgentTrackingAssumption DEF IInv, TypeOK, Launch
    <3> QED
      BY <3>1
  <2>4. CASE table[a] = launch
    <3>1. alive[a] = launch
      BY <2>2, <2>3, <2>4 DEF IInv, Once
    <3> QED
      BY <2>1, <3>1 DEF RunsHere
  <2>5. CASE table[a] = 0
    <3>1. place[a] = "forked" /\ alive[a] # None
      BY <2>2, <2>3, <2>5 DEF IInv, Once
    <3>2. alive[a] = launch \/ alive[a] = stopping
      BY <2>2, <3>1 DEF IInv, Shells
    <3> QED
      BY <2>1, <3>1, <3>2 DEF RunsHere
  <2> QED
    BY <2>1, <2>2, <2>4, <2>5
<1>2. CASE agent # None /\ agent' = [agent EXCEPT !.state = "done"]
  BY <1>2 DEF IInv, TypeOK
<1> QED
  BY <1>1, <1>2 DEF Monitor

(***************************************************************************)
(* An agent the monitor records runs in the shell the pane has, however    *)
(* old the process table it was found in, or was forked off the one that   *)
(* agent.stop is about to close.                                           *)
(***************************************************************************)
THEOREM FoundInThisShellCorrect == Spec => FoundInThisShell
<1>1. IInv /\ [Next]_vars =>
        [Monitor => agent' = agent \/ agent' = None \/ agent'.state = "done" \/ RunsHere(agent'.process)]_vars
  BY FoundHere
<1> QED
  BY <1>1, Invariant, PTL DEF Spec, FoundInThisShell

\* As long as the recorded process runs no step records another.
LEMMA RootStays == ASSUME IInv, Next PROVE
  Live /\ agent.process \in Alive' =>
    \/ agent' # None /\ agent'.process \in {agent.process, None}
    \/ agent' = None /\ status = "agent-stopped" /\ launch' > launch
<1> DEFINE Kept == \/ agent' # None /\ agent'.process \in {agent.process, None}
                   \/ agent' = None /\ status = "agent-stopped" /\ launch' > launch
<1> SUFFICES ASSUME Live, agent.process \in Alive'
             PROVE  Kept
  OBVIOUS
<1>1. agent # None /\ agent.process \in Agent /\ alive[agent.process] # None
  BY DEF Live, Alive
<1>2. agent' = agent => Kept
  BY <1>1
<1>3. CASE Monitor
  BY <1>2, <1>3 DEF Monitor, Keep
<1>4. ASSUME NEW a \in Agent, NEW s \in {"working", "done"}, Register(a, s) PROVE Kept
  <2>1. agent' = [process |-> agent.process, state |-> s]
    BY <1>4 DEF Register, Record
  <2>2. agent' \in [process : Agent \cup {None}, state : States]
    BY <1>1, <2>1 DEF States
  <2> QED
    BY <2>1, <2>2, AgentTrackingAssumption
<1>5. CASE ReadPrompt
  <2>1. Tracked
    BY <1>1, AgentTrackingAssumption DEF Tracked, IInv, TypeOK, Live, Alive
  <2> QED
    BY <1>2, <1>5, <2>1 DEF ReadPrompt
<1>6. CASE StopAgents
  <2>1. agent' = [process |-> None, state |-> "idle"]
    BY <1>6 DEF StopAgents, Record
  <2>2. agent' \in [process : Agent \cup {None}, state : States]
    BY <2>1 DEF States
  <2> QED
    BY <2>1, <2>2, AgentTrackingAssumption
<1>7. CASE RestartPane
  BY <1>7 DEF RestartPane, IInv, TypeOK, Launch
<1>8. CASE Next /\ ~Monitor /\ ~ReadPrompt /\ ~StopAgents /\ ~RestartPane
             /\ ~\E a \in Agent, s \in {"working", "done"} : Register(a, s)
  <2>1. agent' = agent
    BY <1>8 DEF Next, RunCommand, EmptyEnter, CommandEnds, AgentEnds, RunAgent, Nest, CutOff, TakeTable,
                CloseStopped, End, Start, pipeVars
  <2> QED
    BY <1>2, <2>1
<1> QED
  BY <1>3, <1>4, <1>5, <1>6, <1>7, <1>8

\* An agent is dropped only by a prompt of a later command than the last before.
LEMMA DroppedLate == ASSUME IInv, ReadPrompt, agent # None, agent' = None PROVE since
<1> SUFFICES ASSUME ~since PROVE FALSE
  BY DEF IInv, TypeOK
<1>1. Tracked /\ ~Live /\ OtherCommand(Head(prompts))
  BY DEF ReadPrompt
<1>2. Head(prompts) = prompts[1] /\ 1 \in DOMAIN prompts
  BY Shortened DEF ReadPrompt, IInv, TypeOK
<1>3. prompts[1] = Last /\ (Seen.exited => Seen.command = Last)
  BY <1>1, <1>2 DEF IInv, Waiting
<1> QED
  BY <1>1, <1>2, <1>3 DEF OtherCommand

(***************************************************************************)
(* As long as the recorded process runs no step records another; and a     *)
(* prompt drops an agent that has ended only when a later command has run. *)
(***************************************************************************)
THEOREM RecordIsKeptCorrect == Spec => RecordIsKept
<1>1. IInv /\ [Next]_vars =>
        [Live /\ agent.process \in Alive' =>
           \/ agent' # None /\ agent'.process \in {agent.process, None}
           \/ agent' = None /\ status = "agent-stopped" /\ launch' > launch]_vars
  BY RootStays
<1>2. IInv /\ [Next]_vars => [ReadPrompt /\ agent # None /\ agent' = None => since]_vars
  BY DroppedLate
<1>3. Spec => RootIsKept
  BY <1>1, Invariant, PTL DEF Spec, RootIsKept
<1>4. Spec => DroppedAfterCommand
  BY <1>2, Invariant, PTL DEF Spec, DroppedAfterCommand
<1> QED
  BY <1>3, <1>4 DEF RecordIsKept
=============================================================================
