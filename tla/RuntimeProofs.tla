--------------------------- MODULE RuntimeProofs ---------------------------
(* Proofs about Runtime, for any sets of panes and launches. *)
EXTENDS Runtime, TLAPS

-----------------------------------------------------------------------------
LEMMA TypeStart == TypeOK /\ Start => TypeOK'
<1> USE NoneAssumption DEF TypeOK, App, Status
<1> SUFFICES ASSUME TypeOK, Start PROVE TypeOK'
  OBVIOUS
<1>1. PICK launched \in [Pane -> Shell \cup {None}] :
        /\ state' = [p \in Pane |->
                       IF disk[p] = "absent" THEN "absent"
                       ELSE IF launched[p] = None THEN "error" ELSE "running"]
        /\ session' = launched
        /\ output' = launched
        /\ shell' = [s \in Shell |->
                       IF \E p \in Pane : launched[p] = s THEN "alive" ELSE "gone"]
        /\ \/ app' = "serving" /\ disk' = state' /\ UNCHANGED toClose
           \/ /\ app' = "failing"
              /\ toClose' = {launched[p] : p \in Pane} \ {None}
              /\ UNCHANGED disk
  BY DEF Start
<1>2. state' \in [Pane -> Status] /\ disk' \in [Pane -> Status]
  BY <1>1
<1>3. shell' \in [Shell -> {"gone", "alive", "exited"}]
  BY <1>1
<1>4. toClose' \in SUBSET Shell /\ app' \in App
  BY <1>1
<1>5. UNCHANGED <<closing, stopping, sysShutdown, issued, closed, stops, early>>
  BY DEF Start
<1> QED
  BY <1>1, <1>2, <1>3, <1>4, <1>5

LEMMA SessionsOfType ==
  ASSUME TypeOK, NEW S \in SUBSET Pane
  PROVE  SessionsOf(S) \in SUBSET Shell
BY DEF TypeOK, SessionsOf

(***************************************************************************)
(* Every variable keeps its type: in particular the maps of the runtime    *)
(* hold sessions or nil, and every pane has one of the four statuses.      *)
(***************************************************************************)
THEOREM TypeCorrect == Spec => []TypeOK
<1>1. Init => TypeOK
  <2>1. 0 \in 0..MaxStops
    BY MaxStopsAssumption
  <2> QED
    BY <2>1 DEF Init, TypeOK, App, Status
<1>2. TypeOK /\ [Next]_vars => TypeOK'
  <2> SUFFICES ASSUME TypeOK, [Next]_vars PROVE TypeOK'
    OBVIOUS
  <2> USE NoneAssumption, MaxStopsAssumption DEF TypeOK, Status, App
  <2>1. CASE Start
    BY <2>1, TypeStart
  <2>2. ASSUME NEW p \in Pane, NewPane(p) PROVE TypeOK'
    BY <2>2 DEF NewPane, Launch, Commit, Rollback
  <2>3. ASSUME NEW p \in Pane, RestartPane(p) PROVE TypeOK'
    BY <2>3, SessionsOfType DEF RestartPane, Launch, Commit, Rollback
  <2>4. ASSUME NEW S \in SUBSET Pane, ClosePanes(S) PROVE TypeOK'
    BY <2>4, SessionsOfType DEF ClosePanes, Commit
  <2>5. ASSUME NEW S \in SUBSET Pane, StopAgents(S) PROVE TypeOK'
    BY <2>5, SessionsOfType DEF StopAgents, FindAgents
  <2>6. CASE MutateOther
    BY <2>6 DEF MutateOther, Commit
  <2>7. CASE SaveState
    BY <2>7 DEF SaveState
  <2>8. ASSUME NEW s \in Shell, CloseSession(s) PROVE TypeOK'
    BY <2>8 DEF CloseSession
  <2>9. ASSUME NEW s \in Shell, ShellExits(s) PROVE TypeOK'
    BY <2>9 DEF ShellExits
  <2>10. ASSUME NEW s \in Shell, OnExit(s) PROVE TypeOK'
    BY <2>10 DEF OnExit, OnExitIgnored, OnExitOfStoppedAgent, OnExitRemovesPane
  <2>11. CASE BeginClose \/ CloseStoreAfterFailedStart \/ WindowsShutdown
    BY <2>11 DEF BeginClose, CloseStoreAfterFailedStart, WindowsShutdown
  <2>12. CASE CloseSessions
    BY <2>12, SessionsOfType DEF CloseSessions
  <2>13. CASE ProcessEnds
    BY <2>13 DEF ProcessEnds
  <2>14. CASE UNCHANGED vars
    BY <2>14 DEF vars
  <2> QED
    BY <2>1, <2>2, <2>3, <2>4, <2>5, <2>6, <2>7, <2>8, <2>9, <2>10, <2>11,
       <2>12, <2>13, <2>14 DEF Next
<1> QED
  BY <1>1, <1>2, PTL DEF Spec

-----------------------------------------------------------------------------
(***************************************************************************)
(* The inductive invariant, one lemma per action.                          *)
(***************************************************************************)

(* tab.create and pane.split: the new launch is owned by the new pane, or handed to a goroutine that closes it. *)
LEMMA NewPaneKeepsIInv ==
  ASSUME IInv, TypeOK', NEW p \in Pane, NewPane(p)
  PROVE  IInv'
<1> USE NoneAssumption DEF IInv, TypeOK, Status, App, NewPane, Launch, Unused,
      Commit, Rollback, Present, Accepting, shutting, ClosedByRuntime,
      EndedByItself, Ended
<1>1. NothingRunsWhenDown'
  BY DEF NothingRunsWhenDown
<1>2. OnlyIssuedIds'
  BY DEF OnlyIssuedIds
<1>3. SessionsHavePanes'
  BY DEF SessionsHavePanes
<1>4. SessionIsCurrentLaunch'
  BY DEF SessionIsCurrentLaunch, SessionsHavePanes
<1>5. NoShellLost'
  BY DEF NoShellLost, OnlyIssuedIds
<1>6. RunningNotClosed'
  BY DEF RunningNotClosed
<1>7. OwnCloseIsMarked'
  BY DEF OwnCloseIsMarked
<1>8. PanesAreSaved'
  BY DEF PanesAreSaved
<1>9. DiskLagIsExit'
  BY DEF DiskLagIsExit
<1>10. ClosedPanesStayClosed'
  BY DEF ClosedPanesStayClosed, OnlyIssuedIds
<1> QED
  BY <1>1, <1>2, <1>3, <1>4, <1>5, <1>6, <1>7, <1>8, <1>9, <1>10

(* pane.restart: the session that is replaced goes to toClose in the same step. *)
LEMMA RestartPaneKeepsIInv ==
  ASSUME IInv, TypeOK', NEW p \in Pane, RestartPane(p)
  PROVE  IInv'
<1> USE NoneAssumption DEF IInv, TypeOK, Status, App, RestartPane, Launch,
      Unused, Commit, Rollback, SessionsOf, Present, Accepting, shutting,
      ClosedByRuntime, EndedByItself, Ended
<1>1. NothingRunsWhenDown'
  BY DEF NothingRunsWhenDown
<1>2. OnlyIssuedIds'
  BY DEF OnlyIssuedIds
<1>3. SessionsHavePanes'
  BY DEF SessionsHavePanes
<1>4. SessionIsCurrentLaunch'
  BY DEF SessionIsCurrentLaunch, SessionsHavePanes
<1>5. NoShellLost'
  BY DEF NoShellLost
<1>6. RunningNotClosed'
  BY DEF RunningNotClosed, SessionIsCurrentLaunch
<1>7. OwnCloseIsMarked'
  BY DEF OwnCloseIsMarked, SessionIsCurrentLaunch
<1>8. PanesAreSaved'
  BY DEF PanesAreSaved
<1>9. DiskLagIsExit'
  BY DEF DiskLagIsExit
<1>10. ClosedPanesStayClosed'
  BY DEF ClosedPanesStayClosed
<1> QED
  BY <1>1, <1>2, <1>3, <1>4, <1>5, <1>6, <1>7, <1>8, <1>9, <1>10

(* pane.close, tab.close, workspace.close. *)
LEMMA ClosePanesKeepsIInv ==
  ASSUME IInv, TypeOK', NEW S \in SUBSET Pane, ClosePanes(S)
  PROVE  IInv'
<1> USE NoneAssumption DEF IInv, TypeOK, Status, App, ClosePanes, Commit,
      SessionsOf, Present, Accepting, shutting, ClosedByRuntime,
      EndedByItself, Ended
<1>1. NothingRunsWhenDown'
  BY DEF NothingRunsWhenDown
<1>2. OnlyIssuedIds'
  BY DEF OnlyIssuedIds
<1>3. SessionsHavePanes'
  BY DEF SessionsHavePanes
<1>4. SessionIsCurrentLaunch'
  BY DEF SessionIsCurrentLaunch, SessionsHavePanes
<1>5. NoShellLost'
  BY DEF NoShellLost
<1>6. RunningNotClosed'
  BY DEF RunningNotClosed, SessionIsCurrentLaunch
<1>7. OwnCloseIsMarked'
  BY DEF OwnCloseIsMarked, SessionIsCurrentLaunch
<1>8. PanesAreSaved'
  BY DEF PanesAreSaved
<1>9. DiskLagIsExit'
  BY DEF DiskLagIsExit
<1>10. ClosedPanesStayClosed'
  BY DEF ClosedPanesStayClosed
<1> QED
  BY <1>1, <1>2, <1>3, <1>4, <1>5, <1>6, <1>7, <1>8, <1>9, <1>10

(* agent.stop: the marks and the sessions to close change together. *)
LEMMA StopAgentsKeepsIInv ==
  ASSUME IInv, TypeOK', NEW S \in SUBSET Pane, StopAgents(S)
  PROVE  IInv'
<1> USE NoneAssumption DEF IInv, TypeOK, Status, App, StopAgents, FindAgents,
      SessionsOf, Present, Accepting, shutting, ClosedByRuntime,
      EndedByItself, Ended
<1>1. NothingRunsWhenDown'
  BY DEF NothingRunsWhenDown
<1>2. OnlyIssuedIds'
  BY DEF OnlyIssuedIds
<1>3. SessionsHavePanes'
  BY DEF SessionsHavePanes
<1>4. SessionIsCurrentLaunch'
  BY DEF SessionIsCurrentLaunch
<1>5. NoShellLost'
  BY DEF NoShellLost
<1>6. RunningNotClosed'
  BY DEF RunningNotClosed, SessionIsCurrentLaunch
<1>7. OwnCloseIsMarked'
  BY DEF OwnCloseIsMarked, SessionIsCurrentLaunch, RunningNotClosed
<1>8. PanesAreSaved'
  BY DEF PanesAreSaved
<1>9. DiskLagIsExit'
  BY DEF DiskLagIsExit
<1>10. ClosedPanesStayClosed'
  BY DEF ClosedPanesStayClosed
<1> QED
  BY <1>1, <1>2, <1>3, <1>4, <1>5, <1>6, <1>7, <1>8, <1>9, <1>10

(* Every other mutation: only outputs without a pane are dropped. *)
LEMMA MutateOtherKeepsIInv ==
  ASSUME IInv, TypeOK', MutateOther
  PROVE  IInv'
<1> USE NoneAssumption DEF IInv, TypeOK, Status, App, MutateOther, Commit,
      Present, Accepting, shutting, ClosedByRuntime, EndedByItself, Ended
<1>1. NothingRunsWhenDown'
  BY DEF NothingRunsWhenDown
<1>2. OnlyIssuedIds'
  BY DEF OnlyIssuedIds
<1>3. SessionsHavePanes'
  BY DEF SessionsHavePanes
<1>4. SessionIsCurrentLaunch'
  BY DEF SessionIsCurrentLaunch, SessionsHavePanes
<1>5. NoShellLost'
  BY DEF NoShellLost
<1>6. RunningNotClosed'
  BY DEF RunningNotClosed
<1>7. OwnCloseIsMarked'
  BY DEF OwnCloseIsMarked
<1>8. PanesAreSaved'
  BY DEF PanesAreSaved
<1>9. DiskLagIsExit'
  BY DEF DiskLagIsExit
<1>10. ClosedPanesStayClosed'
  BY DEF ClosedPanesStayClosed
<1> QED
  BY <1>1, <1>2, <1>3, <1>4, <1>5, <1>6, <1>7, <1>8, <1>9, <1>10

(* Background saves: the disk catches up with memory. *)
LEMMA SaveStateKeepsIInv ==
  ASSUME IInv, TypeOK', SaveState
  PROVE  IInv'
<1> USE NoneAssumption DEF IInv, TypeOK, Status, App, SaveState, StoreOpen,
      Present, Accepting, shutting, ClosedByRuntime, EndedByItself, Ended
<1>1. NothingRunsWhenDown'
  BY DEF NothingRunsWhenDown
<1>2. OnlyIssuedIds'
  BY DEF OnlyIssuedIds
<1>3. SessionsHavePanes'
  BY DEF SessionsHavePanes
<1>4. SessionIsCurrentLaunch'
  BY DEF SessionIsCurrentLaunch
<1>5. NoShellLost'
  BY DEF NoShellLost
<1>6. RunningNotClosed'
  BY DEF RunningNotClosed
<1>7. OwnCloseIsMarked'
  BY DEF OwnCloseIsMarked
<1>8. PanesAreSaved'
  BY DEF PanesAreSaved
<1>9. DiskLagIsExit'
  BY DEF DiskLagIsExit
<1>10. ClosedPanesStayClosed'
  BY DEF ClosedPanesStayClosed
<1> QED
  BY <1>1, <1>2, <1>3, <1>4, <1>5, <1>6, <1>7, <1>8, <1>9, <1>10

(* Session.Close: a session moves from toClose to closing. *)
LEMMA CloseSessionKeepsIInv ==
  ASSUME IInv, TypeOK', NEW s \in Shell, CloseSession(s)
  PROVE  IInv'
<1> USE NoneAssumption DEF IInv, TypeOK, Status, App, CloseSession, Present,
      Accepting, shutting, ClosedByRuntime, EndedByItself, Ended
<1>1. NothingRunsWhenDown'
  BY DEF NothingRunsWhenDown
<1>2. OnlyIssuedIds'
  BY DEF OnlyIssuedIds
<1>3. SessionsHavePanes'
  BY DEF SessionsHavePanes
<1>4. SessionIsCurrentLaunch'
  BY DEF SessionIsCurrentLaunch
<1>5. NoShellLost'
  BY DEF NoShellLost
<1>6. RunningNotClosed'
  BY DEF RunningNotClosed
<1>7. OwnCloseIsMarked'
  BY DEF OwnCloseIsMarked
<1>8. PanesAreSaved'
  BY DEF PanesAreSaved
<1>9. DiskLagIsExit'
  BY DEF DiskLagIsExit
<1>10. ClosedPanesStayClosed'
  BY DEF ClosedPanesStayClosed
<1> QED
  BY <1>1, <1>2, <1>3, <1>4, <1>5, <1>6, <1>7, <1>8, <1>9, <1>10

(* A process ends. *)
LEMMA ShellExitsKeepsIInv ==
  ASSUME IInv, TypeOK', NEW s \in Shell, ShellExits(s)
  PROVE  IInv'
<1> USE NoneAssumption DEF IInv, TypeOK, Status, App, ShellExits, Present,
      Accepting, shutting, ClosedByRuntime, EndedByItself, Ended
<1>1. NothingRunsWhenDown'
  BY DEF NothingRunsWhenDown
<1>2. OnlyIssuedIds'
  BY DEF OnlyIssuedIds
<1>3. SessionsHavePanes'
  BY DEF SessionsHavePanes
<1>4. SessionIsCurrentLaunch'
  BY DEF SessionIsCurrentLaunch
<1>5. NoShellLost'
  BY DEF NoShellLost
<1>6. RunningNotClosed'
  BY DEF RunningNotClosed
<1>7. OwnCloseIsMarked'
  BY DEF OwnCloseIsMarked
<1>8. PanesAreSaved'
  BY DEF PanesAreSaved
<1>9. DiskLagIsExit'
  BY DEF DiskLagIsExit
<1>10. ClosedPanesStayClosed'
  BY DEF ClosedPanesStayClosed
<1> QED
  BY <1>1, <1>2, <1>3, <1>4, <1>5, <1>6, <1>7, <1>8, <1>9, <1>10

(* OnExit: the pane it removes is not marked, so the runtime had not closed its session. *)
LEMMA OnExitKeepsIInv ==
  ASSUME IInv, TypeOK', NEW s \in Shell, OnExit(s)
  PROVE  IInv'
<1> USE NoneAssumption DEF IInv, TypeOK, Status, App, OnExit, OnExitIgnored,
      OnExitOfStoppedAgent, OnExitRemovesPane, ExitConcerns, StoreOpen,
      Present, Accepting, shutting, ClosedByRuntime, EndedByItself, Ended
<1>1. NothingRunsWhenDown'
  BY DEF NothingRunsWhenDown
<1>2. OnlyIssuedIds'
  BY DEF OnlyIssuedIds
<1>3. SessionsHavePanes'
  BY DEF SessionsHavePanes
<1>4. SessionIsCurrentLaunch'
  BY DEF SessionIsCurrentLaunch
<1>5. NoShellLost'
  BY DEF NoShellLost, SessionIsCurrentLaunch
<1>6. RunningNotClosed'
  BY DEF RunningNotClosed
<1>7. OwnCloseIsMarked'
  BY DEF OwnCloseIsMarked
<1>8. PanesAreSaved'
  BY DEF PanesAreSaved
<1>9. DiskLagIsExit'
  BY DEF DiskLagIsExit, OwnCloseIsMarked
<1>10. ClosedPanesStayClosed'
  BY DEF ClosedPanesStayClosed
<1> QED
  BY <1>1, <1>2, <1>3, <1>4, <1>5, <1>6, <1>7, <1>8, <1>9, <1>10

(* Runtime.Close takes every session to be closed, under shutting. *)
LEMMA CloseSessionsKeepsIInv ==
  ASSUME IInv, TypeOK', CloseSessions
  PROVE  IInv'
<1> USE NoneAssumption DEF IInv, TypeOK, Status, App, CloseSessions,
      SessionsOf, Present, Accepting, shutting, ClosedByRuntime,
      EndedByItself, Ended
<1>1. NothingRunsWhenDown'
  BY DEF NothingRunsWhenDown
<1>2. OnlyIssuedIds'
  BY DEF OnlyIssuedIds
<1>3. SessionsHavePanes'
  BY DEF SessionsHavePanes
<1>4. SessionIsCurrentLaunch'
  BY DEF SessionIsCurrentLaunch
<1>5. NoShellLost'
  BY DEF NoShellLost
<1>6. RunningNotClosed'
  BY DEF RunningNotClosed
<1>7. OwnCloseIsMarked'
  BY DEF OwnCloseIsMarked
<1>8. PanesAreSaved'
  BY DEF PanesAreSaved
<1>9. DiskLagIsExit'
  BY DEF DiskLagIsExit, SessionsHavePanes, SessionIsCurrentLaunch
<1>10. ClosedPanesStayClosed'
  BY DEF ClosedPanesStayClosed
<1> QED
  BY <1>1, <1>2, <1>3, <1>4, <1>5, <1>6, <1>7, <1>8, <1>9, <1>10

(* The end of the process clears everything but the disk. *)
LEMMA ProcessEndsKeepsIInv ==
  ASSUME IInv, TypeOK', ProcessEnds
  PROVE  IInv'
<1> USE NoneAssumption DEF IInv, TypeOK, Status, App, ProcessEnds, Present,
      Accepting, shutting, ClosedByRuntime, EndedByItself, Ended
<1>1. NothingRunsWhenDown'
  BY DEF NothingRunsWhenDown
<1>2. OnlyIssuedIds'
  BY DEF OnlyIssuedIds
<1>3. SessionsHavePanes'
  BY DEF SessionsHavePanes
<1>4. SessionIsCurrentLaunch'
  BY DEF SessionIsCurrentLaunch
<1>5. NoShellLost'
  BY DEF NoShellLost
<1>6. RunningNotClosed'
  BY DEF RunningNotClosed
<1>7. OwnCloseIsMarked'
  BY DEF OwnCloseIsMarked
<1>8. PanesAreSaved'
  BY DEF PanesAreSaved
<1>9. DiskLagIsExit'
  BY DEF DiskLagIsExit
<1>10. ClosedPanesStayClosed'
  BY DEF ClosedPanesStayClosed
<1> QED
  BY <1>1, <1>2, <1>3, <1>4, <1>5, <1>6, <1>7, <1>8, <1>9, <1>10

(* Steps that only move the process on. *)
LEMMA OthersKeepsIInv ==
  ASSUME IInv, TypeOK', BeginClose \/ CloseStoreAfterFailedStart \/ WindowsShutdown
  PROVE  IInv'
<1> USE NoneAssumption DEF IInv, TypeOK, Status, App, BeginClose,
      CloseStoreAfterFailedStart, WindowsShutdown, Present, Accepting,
      shutting, ClosedByRuntime, EndedByItself, Ended
<1>1. NothingRunsWhenDown'
  BY DEF NothingRunsWhenDown
<1>2. OnlyIssuedIds'
  BY DEF OnlyIssuedIds
<1>3. SessionsHavePanes'
  BY DEF SessionsHavePanes
<1>4. SessionIsCurrentLaunch'
  BY DEF SessionIsCurrentLaunch
<1>5. NoShellLost'
  BY DEF NoShellLost
<1>6. RunningNotClosed'
  BY DEF RunningNotClosed
<1>7. OwnCloseIsMarked'
  BY DEF OwnCloseIsMarked
<1>8. PanesAreSaved'
  BY DEF PanesAreSaved
<1>9. DiskLagIsExit'
  BY DEF DiskLagIsExit
<1>10. ClosedPanesStayClosed'
  BY DEF ClosedPanesStayClosed
<1> QED
  BY <1>1, <1>2, <1>3, <1>4, <1>5, <1>6, <1>7, <1>8, <1>9, <1>10

(* daemon.New: every saved pane gets a launch of its own, or the status error. *)
LEMMA StartKeepsIInv ==
  ASSUME IInv, TypeOK', Start
  PROVE  IInv'
<1> USE NoneAssumption DEF IInv, TypeOK, Status, App, Present, Accepting,
      shutting, ClosedByRuntime, EndedByItself, Ended
<1>1. /\ \A p \in Pane : state'[p] = "absent" <=> disk[p] = "absent"
      /\ \A p \in Pane : session'[p] # None => disk[p] # "absent"
      /\ output' = session'
      /\ \A p, q \in Pane : output'[p] = output'[q] /\ output'[p] # None => p = q
      /\ \A s \in Shell : shell'[s] # "gone" => \E p \in Pane : session'[p] = s
      /\ \A p \in Pane : output'[p] # None => shell'[output'[p]] = "alive"
  BY DEF Start
<1>2. /\ app = "down"
      /\ \/ app' = "serving" /\ disk' = state' /\ UNCHANGED toClose
         \/ app' = "failing" /\ UNCHANGED disk
      /\ UNCHANGED <<closing, stopping, sysShutdown, issued, closed>>
  BY DEF Start
<1>3. toClose = {} /\ closing = {}
  BY <1>2 DEF NothingRunsWhenDown
<1>4. NothingRunsWhenDown'
  BY <1>2 DEF NothingRunsWhenDown
<1>5. OnlyIssuedIds'
  BY <1>1, <1>2 DEF OnlyIssuedIds
<1>6. SessionsHavePanes'
  BY <1>1, <1>2 DEF SessionsHavePanes
<1>7. SessionIsCurrentLaunch'
  BY <1>1 DEF SessionIsCurrentLaunch
<1>8. NoShellLost'
  BY <1>1 DEF NoShellLost
<1>9. RunningNotClosed'
  BY <1>2, <1>3 DEF RunningNotClosed
<1>10. OwnCloseIsMarked'
  BY <1>2, <1>3 DEF OwnCloseIsMarked
<1>11. PanesAreSaved'
  BY <1>2 DEF PanesAreSaved
<1>12. DiskLagIsExit'
  BY <1>1, <1>2 DEF DiskLagIsExit
<1>13. ClosedPanesStayClosed'
  BY <1>1, <1>2 DEF ClosedPanesStayClosed
<1> QED
  BY <1>4, <1>5, <1>6, <1>7, <1>8, <1>9, <1>10, <1>11, <1>12, <1>13

(***************************************************************************)
(* Between them the lifecycle facts are inductive: the marks, the sets of  *)
(* sessions to close, memory and disk always fit together.                 *)
(***************************************************************************)
THEOREM LifecycleInvariant == Spec => []IInv
<1>1. Init => IInv
  <2> SUFFICES ASSUME Init PROVE IInv
    OBVIOUS
  <2>1. TypeOK
    <3>1. 0 \in 0..MaxStops
      BY MaxStopsAssumption
    <3> QED
      BY <3>1 DEF Init, TypeOK, App, Status
  <2> QED
    BY <2>1, NoneAssumption
    DEF Init, IInv, NothingRunsWhenDown, OnlyIssuedIds, SessionsHavePanes,
        SessionIsCurrentLaunch, NoShellLost, RunningNotClosed, OwnCloseIsMarked,
        PanesAreSaved, DiskLagIsExit, ClosedPanesStayClosed, Present, Accepting
<1>2. IInv /\ TypeOK' /\ [Next]_vars => IInv'
  <2> SUFFICES ASSUME IInv, TypeOK', [Next]_vars PROVE IInv'
    OBVIOUS
  <2>1. CASE UNCHANGED vars
    BY <2>1
    DEF vars, IInv, TypeOK, NothingRunsWhenDown, OnlyIssuedIds, SessionsHavePanes,
        SessionIsCurrentLaunch, NoShellLost, RunningNotClosed, OwnCloseIsMarked,
        PanesAreSaved, DiskLagIsExit, ClosedPanesStayClosed, Present, Accepting,
        shutting, ClosedByRuntime, Ended, EndedByItself
  <2>2. CASE Next
    BY <2>2, StartKeepsIInv, NewPaneKeepsIInv, RestartPaneKeepsIInv,
       ClosePanesKeepsIInv, StopAgentsKeepsIInv, MutateOtherKeepsIInv,
       SaveStateKeepsIInv, CloseSessionKeepsIInv, ShellExitsKeepsIInv,
       OnExitKeepsIInv, CloseSessionsKeepsIInv, ProcessEndsKeepsIInv,
       OthersKeepsIInv
    DEF Next
  <2> QED
    BY <2>1, <2>2
<1> QED
  BY <1>1, <1>2, TypeCorrect, PTL DEF Spec

(* No live shell is ever lost, whatever fails or is rolled back. *)
THEOREM ShellsNeverLost == Spec => []NoShellLost
<1>1. IInv => NoShellLost
  BY DEF IInv
<1> QED
  BY <1>1, LifecycleInvariant, PTL

(* A shell the runtime stops itself is never taken for one that exited. *)
THEOREM OwnClosesMarked == Spec => []OwnCloseIsMarked
<1>1. IInv => OwnCloseIsMarked
  BY DEF IInv
<1> QED
  BY <1>1, LifecycleInvariant, PTL

(* What clients see while the runtime serves is what a restart would load. *)
THEOREM VisiblePanesSaved == Spec => []PanesAreSaved
<1>1. IInv => PanesAreSaved
  BY DEF IInv
<1> QED
  BY <1>1, LifecycleInvariant, PTL

(* A pane a client has closed never comes back, across crashes and restarts. *)
THEOREM ClosedForGood == Spec => []ClosedPanesStayClosed
<1>1. IInv => ClosedPanesStayClosed
  BY DEF IInv
<1> QED
  BY <1>1, LifecycleInvariant, PTL

-----------------------------------------------------------------------------
(***************************************************************************)
(* The refinement of SavedPanes.  A step that neither draws an id nor      *)
(* closes a pane is, for the database, a save that may forget panes whose  *)
(* shell has ended: QuietStep states what has to be shown of it.           *)
(***************************************************************************)

LEMMA QuietStep ==
  ASSUME UNCHANGED <<issued, closed>>,
         \A p \in Pane : disk'[p] # "absent" => disk[p] # "absent",
         \A p \in Pane : disk[p] # "absent" /\ disk'[p] = "absent" => EndedByItself(p),
         \A p \in Pane : EndedByItself(p)' => EndedByItself(p)
  PROVE  Saved!Next
<1>1. Saved!Saving({}, {})
  BY DEF Saved!Saving, Present, Ended
<1> QED
  BY <1>1 DEF Saved!Next, Saved!Save

LEMMA NewPaneRefines ==
  ASSUME IInv, NEW p \in Pane, NewPane(p)
  PROVE  Saved!Next
<1> DEFINE created == {q \in {p} : disk'[q] # "absent"}
<1> USE DEF IInv, TypeOK, Status, App, NewPane, Launch, Unused, Commit, Rollback,
      Accepting, ClosedByRuntime, EndedByItself
<1>1. \A q \in Pane : EndedByItself(q)' => EndedByItself(q)
  BY NoneAssumption
<1>2. \A q \in Pane : disk'[q] # "absent" => disk[q] # "absent" \/ q \in created
  BY DEF PanesAreSaved, Present
<1>3. \A q \in Pane : disk[q] # "absent" /\ disk'[q] = "absent" => EndedByItself(q)
  BY DEF DiskLagIsExit, OnlyIssuedIds, Present, Ended
<1>4. Saved!Saving(created, {})
  BY <1>1, <1>2, <1>3 DEF Saved!Saving, Present, Ended
<1> QED
  BY <1>4 DEF Saved!Next, Saved!Create

LEMMA ClosePanesRefines ==
  ASSUME IInv, NEW S \in SUBSET Pane, ClosePanes(S)
  PROVE  Saved!Next
<1> USE DEF IInv, TypeOK, Status, App, ClosePanes, Commit, Accepting,
      ClosedByRuntime, EndedByItself
<1>1. \A q \in Pane : EndedByItself(q)' => EndedByItself(q)
  BY NoneAssumption
<1>2. \A q \in Pane : disk'[q] # "absent" => disk[q] # "absent" /\ q \notin S
  BY DEF PanesAreSaved, Present
<1>3. \A q \in Pane :
        disk[q] # "absent" /\ disk'[q] = "absent" => q \in S \/ EndedByItself(q)
  BY DEF DiskLagIsExit, Present, Ended
<1>4. Saved!Saving({}, S) /\ S \subseteq Present(disk)
  BY <1>1, <1>2, <1>3 DEF Saved!Saving, Present, Ended, PanesAreSaved
<1> QED
  BY <1>4 DEF Saved!Next, Saved!Close

LEMMA RestartPaneRefines ==
  ASSUME IInv, NEW p \in Pane, RestartPane(p)
  PROVE  Saved!Next
<1> USE DEF IInv, TypeOK, Status, App, RestartPane, Launch, Unused, Commit, Rollback,
      Accepting, ClosedByRuntime, EndedByItself
<1>1. \A q \in Pane : EndedByItself(q)' => EndedByItself(q)
  BY NoneAssumption
<1>2. \A q \in Pane : disk'[q] # "absent" => disk[q] # "absent"
  BY DEF PanesAreSaved, Present
<1>3. \A q \in Pane : disk[q] # "absent" /\ disk'[q] = "absent" => EndedByItself(q)
  BY DEF DiskLagIsExit, Present, Ended
<1> QED
  BY <1>1, <1>2, <1>3, QuietStep

LEMMA StopAgentsRefines ==
  ASSUME IInv, NEW S \in SUBSET Pane, StopAgents(S)
  PROVE  Saved!Next
<1> USE DEF IInv, TypeOK, Status, App, StopAgents, FindAgents, Accepting,
      ClosedByRuntime, EndedByItself
<1>1. \A q \in Pane : EndedByItself(q)' => EndedByItself(q)
  BY NoneAssumption
<1>2. \A q \in Pane : disk'[q] # "absent" => disk[q] # "absent"
  BY DEF PanesAreSaved, Present
<1>3. \A q \in Pane : disk[q] # "absent" /\ disk'[q] = "absent" => EndedByItself(q)
  BY DEF DiskLagIsExit, Present, Ended
<1> QED
  BY <1>1, <1>2, <1>3, QuietStep

(* The Save of OnExit, and of everything that only writes memory out. *)
LEMMA SavesRefine ==
  ASSUME IInv, MutateOther \/ SaveState
  PROVE  Saved!Next
<1> USE DEF IInv, TypeOK, Status, App, MutateOther, SaveState, Commit, Accepting,
      StoreOpen, ClosedByRuntime, EndedByItself
<1>1. \A q \in Pane : EndedByItself(q)' => EndedByItself(q)
  BY NoneAssumption
<1>2. \A q \in Pane : disk'[q] # "absent" => disk[q] # "absent"
  BY DEF DiskLagIsExit, Present
<1>3. \A q \in Pane : disk[q] # "absent" /\ disk'[q] = "absent" => EndedByItself(q)
  BY DEF DiskLagIsExit, Present, Ended
<1> QED
  BY <1>1, <1>2, <1>3, QuietStep DEF MutateOther, SaveState

LEMMA OnExitRefines ==
  ASSUME IInv, NEW s \in Shell, OnExit(s)
  PROVE  Saved!Next
<1> USE DEF IInv, TypeOK, Status, App, OnExit, OnExitIgnored, OnExitOfStoppedAgent,
      OnExitRemovesPane, ExitConcerns, shutting, StoreOpen, ClosedByRuntime,
      EndedByItself, Present
<1>1. \A q \in Pane : EndedByItself(q)' => EndedByItself(q)
  BY NoneAssumption
<1>2. \A q \in Pane : disk'[q] # "absent" => disk[q] # "absent"
  BY DEF DiskLagIsExit, Present
<1>3. \A q \in Pane : disk[q] # "absent" /\ disk'[q] = "absent" => EndedByItself(q)
  BY NoneAssumption DEF DiskLagIsExit, Present, Ended, OwnCloseIsMarked
<1> QED
  BY <1>1, <1>2, <1>3, QuietStep

(* The disk is as it was, and no pane is newly ended. *)
LEMMA UnsavedStepsRefine ==
  ASSUME IInv,
         \/ Start \/ CloseSessions \/ BeginClose \/ WindowsShutdown
         \/ CloseStoreAfterFailedStart \/ ProcessEnds
         \/ \E s \in Shell : CloseSession(s)
  PROVE  Saved!Next
<1> USE DEF IInv, TypeOK, Status, App
<1>1. \A q \in Pane : disk'[q] # "absent" <=> disk[q] # "absent"
  BY DEF Start, CloseSessions, BeginClose, WindowsShutdown,
     CloseStoreAfterFailedStart, ProcessEnds, CloseSession
<1>2. ASSUME NEW q \in Pane, EndedByItself(q)' PROVE EndedByItself(q)
  <2>1. CASE Start
    BY <2>1, <1>2 DEF Start, EndedByItself
  <2>2. CASE ProcessEnds
    BY <2>2, <1>2 DEF ProcessEnds, EndedByItself
  <2>3. CASE CloseSessions \/ BeginClose \/ WindowsShutdown
             \/ CloseStoreAfterFailedStart \/ \E s \in Shell : CloseSession(s)
    BY <2>3, <1>2 DEF CloseSessions, BeginClose, WindowsShutdown, CloseSession,
       CloseStoreAfterFailedStart, EndedByItself, ClosedByRuntime
  <2> QED
    BY <2>1, <2>2, <2>3
<1>3. UNCHANGED <<issued, closed>>
  BY DEF Start, CloseSessions, BeginClose, WindowsShutdown,
     CloseStoreAfterFailedStart, ProcessEnds, CloseSession
<1> QED
  BY <1>1, <1>2, <1>3, QuietStep

(* A process that ends by itself makes its pane an ended one. *)
LEMMA ShellExitsRefines ==
  ASSUME IInv, NEW s \in Shell, ShellExits(s)
  PROVE  Saved!Next \/ UNCHANGED Saved!vars
<1> USE DEF IInv, TypeOK, ShellExits, EndedByItself, ClosedByRuntime
<1>1. UNCHANGED <<disk, issued, closed>>
  OBVIOUS
<1>2. CASE \E p \in Pane : EndedByItself(p)' /\ ~EndedByItself(p)
  <2>1. PICK p \in Pane : EndedByItself(p)' /\ ~EndedByItself(p)
    BY <1>2
  <2>2. output[p] = s
    BY <2>1
  <2>3. \A q \in Pane : q # p => (EndedByItself(q)' <=> EndedByItself(q))
    BY <2>2, NoneAssumption DEF SessionIsCurrentLaunch
  <2>4. Ended' = Ended \cup {p}
    BY <2>1, <2>3 DEF Ended
  <2> QED
    BY <1>1, <2>4 DEF Saved!Next, Saved!ShellEnds, Present
<1>3. CASE \A p \in Pane : EndedByItself(p)' => EndedByItself(p)
  <2>1. Ended' = Ended
    BY <1>3 DEF Ended
  <2> QED
    BY <1>1, <2>1 DEF Saved!vars, Present
<1> QED
  BY <1>2, <1>3

(***************************************************************************)
(* The runtime keeps the promise SavedPanes makes about the database: over *)
(* any run, with crashes, failing saves and restarts, a saved pane is      *)
(* dropped only after a client closed it or its shell ended by itself.     *)
(***************************************************************************)
THEOREM RuntimeImplementsSavedPanes == Spec => ImplementsSavedPanes
<1>1. Init => Saved!Init
  BY DEF Init, Saved!Init, Present, Ended, EndedByItself
<1>2. IInv /\ [Next]_vars => [Saved!Next]_(Saved!vars)
  <2> SUFFICES ASSUME IInv, [Next]_vars PROVE [Saved!Next]_(Saved!vars)
    OBVIOUS
  <2>1. CASE Next
    BY <2>1, NewPaneRefines, ClosePanesRefines, RestartPaneRefines,
       StopAgentsRefines, SavesRefine, OnExitRefines, UnsavedStepsRefine,
       ShellExitsRefines
    DEF Next
  <2>2. CASE UNCHANGED vars
    BY <2>2 DEF vars, Saved!vars, Present, Ended, EndedByItself, ClosedByRuntime
  <2> QED
    BY <2>1, <2>2
<1> QED
  BY <1>1, <1>2, LifecycleInvariant, PTL DEF Spec, Saved!Spec, ImplementsSavedPanes

(***************************************************************************)
(* The same promise as an action property of the runtime's own variables.  *)
(***************************************************************************)
THEOREM ForgottenOnlyOnExit == Spec => PanesForgottenOnlyOnExit
<1> DEFINE Kept == \A p \in Present(disk) :
                     disk'[p] = "absent" => p \in closed' \/ EndedByItself(p)
<1>1. Saved!Next => Kept
  BY DEF Saved!Next, Saved!Create, Saved!Close, Saved!ShellEnds, Saved!Save,
     Saved!Saving, Present, Ended
<1>2. UNCHANGED Saved!vars => Kept
  BY DEF Saved!vars, Present
<1>3. [Saved!Next]_(Saved!vars) => [Kept]_vars
  BY <1>1, <1>2
<1> QED
  BY <1>3, RuntimeImplementsSavedPanes, PTL
  DEF ImplementsSavedPanes, Saved!Spec, PanesForgottenOnlyOnExit

(***************************************************************************)
(* The maps of the runtime agree: a pane's session and output buffer are   *)
(* of one launch, and no launch serves two panes, after any interleaving   *)
(* of launches, rollbacks and exits.                                       *)
(***************************************************************************)
THEOREM OneLaunchPerPane == Spec => []SessionIsCurrentLaunch
<1>1. IInv => SessionIsCurrentLaunch
  BY DEF IInv
<1> QED
  BY <1>1, LifecycleInvariant, PTL

\* Only a pane that was restarted early is running with a mark.
MarksAreEarly ==
  /\ stopping \subseteq issued
  /\ \A p \in stopping : state[p] = "running" => p \in early

\* No other exit is swallowed: what makes a pane running or ends its shell also
\* tells the other.
LEMMA RunningStep ==
  ASSUME IInv, MarksAreEarly, RunningPaneHasShell, [Next]_vars
  PROVE  MarksAreEarly' /\ RunningPaneHasShell'
<1> USE NoneAssumption DEF IInv, TypeOK, RunningPaneHasShell, MarksAreEarly
<1>1. CASE Start
  BY <1>1 DEF Start, Status, NothingRunsWhenDown
<1>2. ASSUME NEW p \in Pane, NewPane(p)
      PROVE  MarksAreEarly' /\ RunningPaneHasShell'
  BY <1>2 DEF NewPane, Launch, Unused, Commit, Rollback
<1>3. ASSUME NEW p \in Pane, RestartPane(p)
      PROVE  MarksAreEarly' /\ RunningPaneHasShell'
  BY <1>3 DEF RestartPane, Launch, Unused, Commit, Rollback
<1>4. ASSUME NEW S \in SUBSET Pane, ClosePanes(S)
      PROVE  MarksAreEarly' /\ RunningPaneHasShell'
  BY <1>4 DEF ClosePanes, Commit
<1>5. ASSUME NEW S \in SUBSET Pane, StopAgents(S)
      PROVE  MarksAreEarly' /\ RunningPaneHasShell'
  <2>1. S \subseteq issued
    BY <1>5 DEF StopAgents, FindAgents, OnlyIssuedIds
  <2>2. UNCHANGED <<app, sysShutdown, session, shell, issued, early>>
    BY <1>5 DEF StopAgents, FindAgents
  <2>3. CASE /\ state' = [p \in Pane |-> IF p \in S THEN "agent-stopped" ELSE state[p]]
             /\ stopping' = stopping \cup S
    BY <2>1, <2>2, <2>3
  <2>4. CASE state' = state /\ stopping' = stopping \ S
    BY <2>2, <2>4
  <2> QED
    BY <1>5, <2>3, <2>4 DEF StopAgents
<1>6. CASE MutateOther
  BY <1>6 DEF MutateOther, Commit
<1>7. CASE SaveState
  BY <1>7 DEF SaveState
<1>8. ASSUME NEW s \in Shell, CloseSession(s)
      PROVE  MarksAreEarly' /\ RunningPaneHasShell'
  BY <1>8 DEF CloseSession
<1>9. ASSUME NEW s \in Shell, ShellExits(s)
      PROVE  MarksAreEarly' /\ RunningPaneHasShell'
  BY <1>9 DEF ShellExits
<1>10. ASSUME NEW s \in Shell, OnExit(s)
       PROVE  MarksAreEarly' /\ RunningPaneHasShell'
  <2>1. MarksAreEarly'
    BY <1>10 DEF OnExit, OnExitIgnored, OnExitOfStoppedAgent, OnExitRemovesPane, Present
  <2>2. SUFFICES ASSUME app' = "serving", ~sysShutdown', NEW p \in Pane \ early', state'[p] = "running"
                 PROVE  session'[p] # None /\ shell'[session'[p]] # "gone"
    BY <2>1
  <2>3. app = "serving" /\ ~sysShutdown /\ ~shutting
    BY <1>10, <2>2 DEF OnExit, shutting
  <2>4. state[p] = "running" /\ p \notin early /\ p \notin stopping
    BY <1>10, <2>2 DEF OnExit, OnExitIgnored, OnExitOfStoppedAgent, OnExitRemovesPane, Present
  <2>5. session[p] \in Shell /\ shell[session[p]] # "gone" /\ output[p] = session[p]
    BY <2>3, <2>4 DEF SessionIsCurrentLaunch
  <2>6. session[p] # s
    <3>1. CASE OnExitIgnored(s)
      BY <2>3, <2>4, <2>5, <3>1 DEF OnExitIgnored, ExitConcerns
    <3>2. CASE OnExitRemovesPane(s)
      <4>1. PICK q \in Pane : output[q] = s /\ state' = [state EXCEPT ![q] = "absent"]
        BY <3>2 DEF OnExitRemovesPane, ExitConcerns, Present
      <4>2. q # p
        BY <2>2, <4>1
      <4> QED
        BY <2>5, <4>1, <4>2 DEF SessionIsCurrentLaunch
    <3>3. CASE OnExitOfStoppedAgent(s)
      BY <2>4, <2>5, <3>3 DEF OnExitOfStoppedAgent, ExitConcerns, SessionIsCurrentLaunch
    <3> QED
      BY <1>10, <3>1, <3>2, <3>3 DEF OnExit
  <2>7. session'[p] = session[p]
    BY <1>10, <2>5, <2>6
    DEF OnExit, OnExitIgnored, OnExitOfStoppedAgent, OnExitRemovesPane, ExitConcerns
  <2> QED
    BY <1>10, <2>5, <2>6, <2>7 DEF OnExit
<1>11. CASE BeginClose \/ CloseSessions \/ CloseStoreAfterFailedStart \/ WindowsShutdown
  BY <1>11 DEF BeginClose, CloseSessions, CloseStoreAfterFailedStart, WindowsShutdown
<1>12. CASE ProcessEnds
  BY <1>12 DEF ProcessEnds
<1>13. CASE UNCHANGED vars
  BY <1>13 DEF vars
<1> QED
  BY <1>1, <1>2, <1>3, <1>4, <1>5, <1>6, <1>7, <1>8, <1>9, <1>10, <1>11, <1>12, <1>13 DEF Next

(***************************************************************************)
(* A pane shown as running has a shell or an exit that is still to be      *)
(* handled, unless it was restarted before the exit of the shell that      *)
(* agent.stop had closed was.                                              *)
(***************************************************************************)
THEOREM RunningMeansAlive == Spec => []RunningPaneHasShell
<1>1. Init => MarksAreEarly /\ RunningPaneHasShell
  BY DEF Init, MarksAreEarly, RunningPaneHasShell
<1>2. IInv /\ MarksAreEarly /\ RunningPaneHasShell /\ [Next]_vars
        => (MarksAreEarly /\ RunningPaneHasShell)'
  BY RunningStep
<1> QED
  BY <1>1, <1>2, LifecycleInvariant, PTL DEF Spec
=============================================================================
