-------------------------------- MODULE Busy --------------------------------
(***************************************************************************)
(* When a pane counts as busy, and agent.resume, which types a command     *)
(* into an idle shell (src/internal/daemon/runtime.go): pane.sendInput and *)
(* agent.resume write to the shell without r.mu and record the command     *)
(* afterwards; the shell's prompts, found in its output, are recorded by   *)
(* the launch that reads them; the monitor takes the process table first   *)
(* and r.mu later.  One pane; a shell that reports its prompts, and does   *)
(* so one by one, in order.                                                *)
(*                                                                         *)
(* A history variable keeps the races that have been lost since the pane   *)
(* was last quiet: the code guards against none of the three.              *)
(***************************************************************************)
EXTENDS Naturals, Sequences, FiniteSets

CONSTANTS
  Client,       \* who calls pane.sendInput
  Call,         \* calls of agent.resume
  None,
  MaxLines,     \* bound: lines sent by clients
  MaxLaunches,  \* bound: launches of the pane
  MaxQueue,     \* bound: lines, and prompts of a launch, not read yet
  MaxRaces      \* bound: kinds of races lost before the pane is quiet again

ASSUME BusyAssumption ==
  /\ None \notin Client \cup Call
  /\ MaxLines \in Nat /\ MaxLaunches \in Nat \ {0} /\ MaxQueue \in Nat \ {0} /\ MaxRaces \in Nat

VARIABLES
  launch,          \* the launch the pane has now
  shell,           \* what its shell does
  input,           \* lines it has not read
  prompts,         \* per launch: prompts printed and not yet recorded
  promptAware, commandPending, busy,  \* the pane in r.promptAware, ..., pane.Busy
  agentKnown,      \* pane.Agent # nil
  detected,        \* pane.Agent is the process that runs now
  reservation,     \* r.resuming: the call that made it; None if none or expired
  client,          \* per client: "idle", or "sent" and not recorded
  call,            \* per call of agent.resume: where it is
  session,         \* per call: the launch whose session it has, 1 if it has none
  table,           \* the monitor's process table, or None
  lines,           \* lines sent by clients so far
  raced            \* history: the races lost since the pane was last quiet

shellVars == <<launch, shell, input, prompts>>
recordVars == <<promptAware, commandPending, busy>>
agentVars == <<agentKnown, detected>>
callVars == <<reservation, call, session>>
vars == <<shellVars, recordVars, agentVars, callVars, client, table, lines, raced>>

Launch == 1..MaxLaunches
Race == {"quickShell", "typeAhead", "slowCall"}
Line == {"command", "agent", "resume"}
Table == [busy : BOOLEAN, agent : BOOLEAN, launch : Launch]

TypeOK ==
  /\ launch \in Launch
  /\ shell \in {"starting", "prompt", "command", "agent", "stopped"}
  /\ input \in Seq(Line) /\ Len(input) <= MaxQueue
  /\ prompts \in [Launch -> 0..MaxQueue]
  /\ promptAware \in BOOLEAN /\ commandPending \in BOOLEAN /\ busy \in BOOLEAN
  /\ commandPending => promptAware
  /\ agentKnown \in BOOLEAN /\ detected \in BOOLEAN
  /\ detected => agentKnown /\ shell = "agent"
  /\ reservation \in Call \cup {None}
  /\ client \in [Client -> {"idle", "sent"}]
  /\ call \in [Call -> {"idle", "reserved", "identified", "checked", "typed", "failed"}]
  /\ session \in [Call -> Launch]
  /\ table \in Table \cup {None}
  /\ lines \in 0..MaxLines
  /\ raced \subseteq Race

-----------------------------------------------------------------------------
Running == shell # "stopped"
Unrecorded == (\E c \in Client : client[c] = "sent") \/ (\E c \in Call : call[c] = "typed")

PromptsRecorded == \A l \in Launch : prompts[l] = 0

\* A client that waits does so for the others, for calls of agent.resume and
\* for the prompt, or for the program that asks it, which reads the answer.
NobodyElse == (\A c \in Client : client[c] = "idle") /\ (\A c \in Call : call[c] = "idle")
Awaited(line) ==
  /\ NobodyElse /\ PromptsRecorded /\ input = <<>>
  /\ shell = "prompt" \/ (shell \in {"command", "agent"} /\ line = "command")

\* One who clicks on resume with nothing under way: what was sent before is
\* recorded, and the monitor has found the agent that runs.
AgentAtLarge == (shell = "agent" /\ ~detected) \/ (\E i \in DOMAIN input : input[i] = "agent")
Settled == ~Unrecorded /\ PromptsRecorded /\ shell # "starting" /\ ~AgentAtLarge

\* The reservation is still needed: its call has not returned, the shell has
\* not read the command, or the monitor has not found the agent.
InUse ==
  \/ call[reservation] # "idle"
  \/ \E i \in DOMAIN input : input[i] = "resume"
  \/ shell = "agent" /\ ~detected

\* At the last prompt, with nothing under way, what is recorded is right.
Quiet(left) ==
  NobodyElse /\ shell = "prompt" /\ input = <<>> /\ (\A l \in Launch : left[l] = 0)

Lost(race, fair) ==
  /\ raced' = IF fair THEN raced ELSE raced \cup {race}
  /\ Cardinality(raced') <= MaxRaces

Prompt == prompts' = [prompts EXCEPT ![launch] = @ + 1]

Init ==
  /\ launch = 1 /\ shell = "starting" /\ input = <<>>
  /\ prompts = [l \in Launch |-> 0]
  /\ promptAware = FALSE /\ commandPending = FALSE /\ busy = FALSE
  /\ agentKnown \in BOOLEAN /\ detected = FALSE
  /\ reservation = None
  /\ client = [c \in Client |-> "idle"]
  /\ call = [c \in Call |-> "idle"]
  /\ session = [c \in Call |-> 1]
  /\ table = None
  /\ lines = 0
  /\ raced = {}

-----------------------------------------------------------------------------
(* The shell. *)

ShellStarts ==
  /\ shell = "starting"
  /\ shell' = "prompt"
  /\ Prompt
  /\ UNCHANGED <<launch, input, recordVars, agentVars, callVars, client, table, lines, raced>>

ShellReads ==
  /\ shell = "prompt" /\ input # <<>>
  /\ shell' = IF Head(input) = "command" THEN "command" ELSE "agent"
  /\ input' = Tail(input)
  /\ UNCHANGED <<launch, prompts, recordVars, agentVars, callVars, client, table, lines, raced>>

\* A program reads what it asked for, or what was meant for the shell.
ProgramReads ==
  /\ shell \in {"command", "agent"} /\ input # <<>>
  /\ input' = Tail(input)
  /\ UNCHANGED <<launch, shell, prompts, recordVars, agentVars, callVars, client, table, lines, raced>>

CommandEnds ==
  /\ shell \in {"command", "agent"} /\ prompts[launch] < MaxQueue
  /\ shell' = "prompt"
  /\ Prompt
  /\ detected' = FALSE
  /\ Lost("typeAhead", input = <<>>)
  /\ UNCHANGED <<launch, input, recordVars, agentKnown, callVars, client, table, lines>>

\* agent.stop closes the shell of a pane whose agent runs ...
StopAgent ==
  /\ detected
  /\ shell' = "stopped" /\ input' = <<>>
  /\ detected' = FALSE
  /\ UNCHANGED <<launch, prompts, recordVars, agentKnown, callVars, client, table, lines, raced>>

\* ... and pane.restart launches another; what is known of prompts and
\* commands of the pane is kept.
RestartPane ==
  /\ shell = "stopped" /\ launch < MaxLaunches
  /\ launch' = launch + 1
  /\ shell' = "starting"
  /\ agentKnown' = FALSE
  /\ UNCHANGED <<input, prompts, recordVars, detected, callVars, client, table, lines, raced>>

-----------------------------------------------------------------------------
(* What is recorded. *)

\* Mutant: a prompt makes the pane idle, but leaves the command pending.
promptLockedKeepingCommand ==
  /\ promptAware' = TRUE
  /\ busy' = FALSE
  /\ UNCHANGED commandPending

promptLocked ==
  /\ promptAware' = TRUE
  /\ commandPending' = FALSE
  /\ busy' = FALSE

\* Runtime.metadata.  The prompt may be that of a command that is still to be
\* recorded.
Metadata(l) ==
  /\ prompts[l] > 0
  /\ prompts' = [prompts EXCEPT ![l] = @ - 1]
  /\ promptLocked
  /\ IF Quiet(prompts') THEN raced' = {} ELSE Lost("quickShell", ~Unrecorded)
  /\ UNCHANGED <<launch, shell, input, agentVars, callVars, client, table, lines>>

\* Mutant: the monitor will show that the pane is busy.
commandSubmittedSilently ==
  /\ commandPending' = promptAware
  /\ UNCHANGED <<promptAware, busy>>

commandSubmitted ==
  /\ commandPending' = promptAware
  /\ busy' = (busy \/ (promptAware /\ ~commandPending))
  /\ UNCHANGED promptAware

\* pane.sendInput of a line: it is written,
SendInput(c, line) ==
  /\ client[c] = "idle" /\ Running /\ lines < MaxLines
  /\ Len(input) < MaxQueue
  /\ input' = Append(input, line)
  /\ lines' = lines + 1
  /\ client' = [client EXCEPT ![c] = "sent"]
  /\ Lost("typeAhead", Awaited(line))
  /\ UNCHANGED <<launch, shell, prompts, recordVars, agentVars, callVars, table>>

\* ... and then recorded.
RecordInput(c) ==
  /\ client[c] = "sent"
  /\ client' = [client EXCEPT ![c] = "idle"]
  /\ commandSubmitted
  /\ UNCHANGED <<shellVars, agentVars, callVars, table, lines, raced>>

-----------------------------------------------------------------------------
(* The monitor. *)

TakeTable ==
  /\ table = None
  /\ table' = [busy |-> shell \in {"command", "agent"}, agent |-> shell = "agent", launch |-> launch]
  /\ UNCHANGED <<shellVars, recordVars, agentVars, callVars, client, lines, raced>>

\* Mutant: the monitor believes the process table only.
BusyByTable == table.busy

BusyNow == IF promptAware THEN commandPending ELSE table.busy

\* The agent in the table counts if it still runs.
Monitor ==
  LET finds == table.agent /\ table.launch = launch /\ shell = "agent" /\ ~detected
  IN  /\ table # None
      /\ table' = None
      /\ busy' = IF Running THEN BusyNow ELSE busy
      /\ agentKnown' = (agentKnown \/ finds)
      /\ detected' = (detected \/ finds)
      /\ reservation' = IF finds THEN None ELSE reservation
      /\ UNCHANGED <<shellVars, promptAware, commandPending, call, session, client, lines, raced>>

-----------------------------------------------------------------------------
(* agent.resume. *)

At(c, here, there) == call[c] = here /\ call' = [call EXCEPT ![c] = there]

\* Mutant: the reservation is looked at and not made.
ReserveNothing(c) ==
  /\ reservation = None
  /\ At(c, "idle", "reserved")
  /\ Lost("typeAhead", Settled)
  /\ UNCHANGED <<shellVars, recordVars, agentVars, reservation, session, client, table, lines>>

Reserve(c) ==
  /\ reservation = None
  /\ At(c, "idle", "reserved")
  /\ reservation' = c
  /\ Lost("typeAhead", Settled)
  /\ UNCHANGED <<shellVars, recordVars, agentVars, session, client, table, lines>>

\* The session, and that the last agent of the pane has ended.
Identify(c) ==
  /\ IF Running /\ agentKnown /\ ~detected THEN At(c, "reserved", "identified") ELSE At(c, "reserved", "failed")
  /\ session' = [session EXCEPT ![c] = launch]
  /\ UNCHANGED <<shellVars, recordVars, agentVars, reservation, client, table, lines, raced>>

\* Mutant: the check is left to the reservation.
CheckNothing(c) ==
  /\ At(c, "identified", "checked")
  /\ UNCHANGED <<shellVars, recordVars, agentVars, reservation, session, client, table, lines, raced>>

\* Prompts tell whether the shell is idle; without any, the processes do.
CheckIdle(c) ==
  /\ IF (promptAware /\ commandPending) \/ (~promptAware /\ shell \in {"command", "agent"})
     THEN At(c, "identified", "failed") ELSE At(c, "identified", "checked")
  /\ UNCHANGED <<shellVars, recordVars, agentVars, reservation, session, client, table, lines, raced>>

\* The command is typed; a session that is closed refuses.
TypeCommand(c) ==
  /\ Len(input) < MaxQueue
  /\ IF Running /\ session[c] = launch
     THEN At(c, "checked", "typed") /\ input' = Append(input, "resume")
     ELSE At(c, "checked", "failed") /\ UNCHANGED input
  /\ UNCHANGED <<launch, shell, prompts, recordVars, agentVars, reservation, session, client, table, lines, raced>>

RecordCommand(c) ==
  /\ At(c, "typed", "idle")
  /\ session' = [session EXCEPT ![c] = 1]
  /\ commandSubmitted
  /\ UNCHANGED <<shellVars, agentVars, reservation, client, table, lines, raced>>

\* A call that fails deletes the reservation of the pane.
Fail(c) ==
  /\ At(c, "failed", "idle")
  /\ session' = [session EXCEPT ![c] = 1]
  /\ reservation' = None
  /\ UNCHANGED <<shellVars, recordVars, agentVars, client, table, lines, raced>>

\* resumeLockDuration has passed.
Expire ==
  /\ reservation # None
  /\ reservation' = None
  /\ Lost("slowCall", ~InUse)
  /\ UNCHANGED <<shellVars, recordVars, agentVars, call, session, client, table, lines>>

-----------------------------------------------------------------------------
ShellStep == ShellStarts \/ ShellReads \/ ProgramReads \/ CommandEnds
ResumeStep(c) ==
  Identify(c) \/ CheckIdle(c) \/ TypeCommand(c) \/ RecordCommand(c) \/ Fail(c)

Next ==
  \/ ShellStep \/ StopAgent \/ RestartPane
  \/ \E l \in Launch : Metadata(l)
  \/ \E c \in Client, line \in Line \ {"resume"} : SendInput(c, line)
  \/ \E c \in Client : RecordInput(c)
  \/ TakeTable \/ Monitor
  \/ \E c \in Call : Reserve(c) \/ ResumeStep(c)
  \/ Expire

(***************************************************************************)
(* Output is read and calls return; the monitor ticks every two seconds,   *)
(* and time passes.  Shells read and run what they like.                   *)
(***************************************************************************)
Fairness ==
  /\ \A l \in Launch : WF_vars(Metadata(l))
  /\ \A c \in Client : WF_vars(RecordInput(c))
  /\ \A c \in Call : WF_vars(ResumeStep(c))
  /\ WF_vars(TakeTable) /\ WF_vars(Monitor)
  /\ WF_vars(Expire)

Spec == Init /\ [][Next]_vars /\ Fairness

-----------------------------------------------------------------------------
(***************************************************************************)
(* Of a pane whose shell reports prompts, Busy is what is shown of         *)
(* commandPending: clients, prompts and the monitor never leave one        *)
(* without the other, also over restarts of the shell.                     *)
(***************************************************************************)
BusyIsPending == promptAware => busy = commandPending

(***************************************************************************)
(* "busy means a command was submitted and its prompt has not returned     *)
(* yet": while the shell runs a command that has been recorded, the pane   *)
(* is busy, if clients have waited and no reservation expired in use; and  *)
(* a shell that waits at its prompt, which has been read, is not, if each  *)
(* prompt was also read after its command had been recorded.               *)
(***************************************************************************)
BusyWhileRunning ==
  /\ raced \subseteq {"quickShell"} =>
       (promptAware /\ ~Unrecorded /\ shell \in {"command", "agent"} => busy)
  /\ raced = {} => (shell = "prompt" /\ input = <<>> /\ PromptsRecorded => ~busy)

(***************************************************************************)
(* "... until the shell prints its next prompt": a pane whose shell stays  *)
(* at its prompt is idle in the end, unless a prompt was read before its   *)
(* command was recorded; then it is until it has read the next prompt.     *)
(***************************************************************************)
BusyEnds ==
  <>[](shell = "prompt" /\ input = <<>>) => []<>(~busy \/ "quickShell" \in raced)

(***************************************************************************)
(* agent.resume "refuses while the agent or any other command is running": *)
(* it is typed at an idle prompt, if clients have waited and no            *)
(* reservation expired in use, however quick the shell is.                 *)
(***************************************************************************)
TypesAtPrompt ==
  [][\A c \in Call : raced \subseteq {"quickShell"} /\ call[c] = "checked" /\ call'[c] = "typed" =>
       shell = "prompt" /\ input = <<>>]_vars

(***************************************************************************)
(* "repeated clicks cannot type the command twice": no second one is typed *)
(* before the shell has run the first, if clients have waited and no       *)
(* reservation expired in use.                                             *)
(***************************************************************************)
TypedOnce ==
  raced \subseteq {"quickShell"} =>
    \A i, j \in DOMAIN input : input[i] = "resume" /\ input[j] = "resume" => i = j
=============================================================================
