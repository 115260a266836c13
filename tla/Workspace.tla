----------------------------- MODULE Workspace -----------------------------
(***************************************************************************)
(* The workspaces, tabs and panes of model.State and the mutations of      *)
(* daemon.Runtime that change how they hang together: mutate, closeTab,    *)
(* newPane and removePane in src/internal/daemon/runtime.go.               *)
(*                                                                         *)
(* Every mutation runs under r.mu, on a state that Call restores whenever  *)
(* mutate, the launch of a shell or the Save fails; those calls change     *)
(* nothing here.  Names, titles, root directories and times are left out,  *)
(* and so are the calls that only change them.                             *)
(*                                                                         *)
(* An id nothing refers to stands for the next one model.ID() draws.       *)
(***************************************************************************)
EXTENDS Naturals, Sequences, Layout

CONSTANTS
  Ws,           \* ids of workspaces
  Tab,          \* ids of tabs
  Pane,         \* ids of panes
  Orientation,  \* "vertical" and "horizontal"
  Ratio,        \* ratios that ValidRatio accepts
  Half,         \* the ratio of a new split
  NoID          \* the empty id

ASSUME IdAssumption ==
  /\ NoID \notin Ws \cup Tab \cup Pane
  /\ Half \in Ratio
  /\ Pane \cap [orientation : Orientation, ratio : Ratio] = {}

VARIABLES
  workspaces,         \* r.state.Workspaces: their ids
  tabs,               \* per workspace: w.Tabs, their ids
  activeWorkspaceID,  \* r.state.ActiveWorkspaceID
  activeTabID,        \* per workspace: w.ActiveTabID
  activePaneID,       \* per tab: t.ActivePaneID
  layout,             \* per tab: t.RootLayoutNode
  home,               \* per tab: t.WorkspaceID, NoID if there is no tab
  pane                \* per pane: its TabID in r.state.Panes, NoID if absent

workspaceVars == <<workspaces, tabs, activeWorkspaceID, activeTabID, activePaneID,
          layout, home, pane>>

Look == [orientation : Orientation, ratio : Ratio]

WorkspaceTypeOK ==
  /\ workspaces \in Seq(Ws)
  /\ tabs \in [Ws -> Seq(Tab)]
  /\ activeWorkspaceID \in Ws \cup {NoID}
  /\ activeTabID \in [Ws -> Tab \cup {NoID}]
  /\ activePaneID \in [Tab -> Pane \cup {NoID}]
  /\ home \in [Tab -> Ws \cup {NoID}]
  /\ pane \in [Pane -> Tab \cup {NoID}]
  /\ \A t \in Tab : WellFormed(layout[t], Pane, Look)

-----------------------------------------------------------------------------
Workspaces == S!ToSet(workspaces)
Tabs(w) == S!ToSet(tabs[w])
Present == {p \in Pane : pane[p] # NoID}
Open == {t \in Tab : home[t] # NoID}

\* State.Tab: the tab a pane names as its own.
TabOf(p) == pane[p]

\* append(s[:i], s[i+1:]...) for the index of an id.
Index(s, id) == CHOOSE i \in DOMAIN s : s[i] = id
Without(s, id) == S!RemoveAt(s, Index(s, id))

\* One id is listed ahead of another.
Ahead(s, u, v) == \E i, j \in DOMAIN s : i < j /\ s[i] = u /\ s[j] = v

\* The first of the ids that are left, or the empty id.
FirstOf(s) == IF s = <<>> THEN NoID ELSE s[1]

\* The records of tabs and panes that are gone are empty.
Forget(f, ids, empty) == [x \in DOMAIN f |-> IF x \in ids THEN empty ELSE f[x]]

\* Mutant: the panes of the tab stay in the state.
CloseTabKeepingPanes(t, gone) ==
  LET w == home[t]
      left == Without(tabs[w], t)
  IN  /\ tabs' = [tabs EXCEPT ![w] = left]
      /\ activeTabID' = [activeTabID EXCEPT ![w] = IF @ = t THEN FirstOf(left) ELSE @]
      /\ layout' = [layout EXCEPT ![t] = nil]
      /\ activePaneID' = [activePaneID EXCEPT ![t] = NoID]
      /\ home' = [home EXCEPT ![t] = NoID]
      /\ UNCHANGED <<workspaces, activeWorkspaceID, pane>>

\* closeTab, where the panes in gone leave the state with the tab.
CloseTab(t, gone) ==
  LET w == home[t]
      left == Without(tabs[w], t)
  IN  /\ tabs' = [tabs EXCEPT ![w] = left]
      /\ activeTabID' = [activeTabID EXCEPT ![w] = IF @ = t THEN FirstOf(left) ELSE @]
      /\ pane' = Forget(pane, gone, NoID)
      /\ layout' = [layout EXCEPT ![t] = nil]
      /\ activePaneID' = [activePaneID EXCEPT ![t] = NoID]
      /\ home' = [home EXCEPT ![t] = NoID]
      /\ UNCHANGED <<workspaces, activeWorkspaceID>>

-----------------------------------------------------------------------------
WorkspaceInit ==
  /\ workspaces = <<>>
  /\ tabs = [w \in Ws |-> <<>>]
  /\ activeWorkspaceID = NoID
  /\ activeTabID = [w \in Ws |-> NoID]
  /\ activePaneID = [t \in Tab |-> NoID]
  /\ layout = [t \in Tab |-> nil]
  /\ home = [t \in Tab |-> NoID]
  /\ pane = [p \in Pane |-> NoID]

\* workspace.create
CreateWorkspace(w) ==
  /\ w \notin Workspaces
  /\ workspaces' = Append(workspaces, w)
  /\ activeWorkspaceID' = w
  /\ UNCHANGED <<tabs, activeTabID, activePaneID, layout, home, pane>>

\* workspace.switch
SwitchWorkspace(w) ==
  /\ w \in Workspaces
  /\ activeWorkspaceID' = w
  /\ UNCHANGED <<workspaces, tabs, activeTabID, activePaneID, layout, home, pane>>

\* workspace.close: the workspace, its tabs and their panes.
CloseWorkspace(w) ==
  LET left == Without(workspaces, w)
      closed == Tabs(w)
      gone == UNION {Panes(layout[t]) : t \in closed}
  IN  /\ w \in Workspaces
      /\ workspaces' = left
      /\ activeWorkspaceID' = IF activeWorkspaceID = w THEN FirstOf(left) ELSE activeWorkspaceID
      /\ tabs' = [tabs EXCEPT ![w] = <<>>]
      /\ activeTabID' = [activeTabID EXCEPT ![w] = NoID]
      /\ layout' = Forget(layout, closed, nil)
      /\ activePaneID' = Forget(activePaneID, closed, NoID)
      /\ home' = Forget(home, closed, NoID)
      /\ pane' = Forget(pane, gone, NoID)

\* tab.create: the tab becomes active in its workspace.
CreateTab(w, t, created) ==
  /\ w \in Workspaces
  /\ t \notin Open /\ created \notin Present
  /\ pane' = [pane EXCEPT ![created] = t]
  /\ layout' = [layout EXCEPT ![t] = Leaf(created)]
  /\ activePaneID' = [activePaneID EXCEPT ![t] = created]
  /\ home' = [home EXCEPT ![t] = w]
  /\ tabs' = [tabs EXCEPT ![w] = Append(@, t)]
  /\ activeTabID' = [activeTabID EXCEPT ![w] = t]
  /\ UNCHANGED <<workspaces, activeWorkspaceID>>

\* tab.focus
FocusTab(t) ==
  /\ t \in Open
  /\ activeTabID' = [activeTabID EXCEPT ![home[t]] = t]
  /\ activeWorkspaceID' = home[t]
  /\ UNCHANGED <<workspaces, tabs, activePaneID, layout, home, pane>>

\* Mutant: the tab changes places with the one at the index.
MovedBySwapping(s, t, index) == [s EXCEPT ![Index(s, t)] = s[index], ![index] = t]

\* tab.move: the tab is taken out of the sequence and put back at an index.
Moved(s, t, index) == S!InsertAt(Without(s, t), index, t)

MoveTab(t, index) ==
  /\ t \in Open
  /\ index \in DOMAIN tabs[home[t]]
  /\ tabs' = [tabs EXCEPT ![home[t]] = Moved(@, t, index)]
  /\ UNCHANGED <<workspaces, activeWorkspaceID, activeTabID, activePaneID, layout, home, pane>>

\* tab.close
CloseTabOfClient(t) ==
  /\ t \in Open
  /\ CloseTab(t, Panes(layout[t]))

\* pane.split and pane.create: the new pane becomes the active one of its tab.
SplitPane(p, orientation, created) ==
  LET t == TabOf(p)
  IN  /\ p \in Present /\ created \notin Present
      /\ layout' = [layout EXCEPT ![t] =
                      Split(@, p, [orientation |-> orientation, ratio |-> Half], created)]
      /\ pane' = [pane EXCEPT ![created] = t]
      /\ activePaneID' = [activePaneID EXCEPT ![t] = created]
      /\ UNCHANGED <<workspaces, tabs, activeWorkspaceID, activeTabID, home>>

\* pane.focus
FocusPane(p) ==
  LET t == TabOf(p)
  IN  /\ p \in Present
      /\ activePaneID' = [activePaneID EXCEPT ![t] = p]
      /\ activeTabID' = [activeTabID EXCEPT ![home[t]] = t]
      /\ activeWorkspaceID' = home[t]
      /\ UNCHANGED <<workspaces, tabs, layout, home, pane>>

\* pane.resize
ResizeSplit(t, path, ratio) ==
  /\ t \in Open
  /\ path \in Splits(layout[t])
  /\ layout' = [layout EXCEPT ![t][path].ratio = ratio]
  /\ UNCHANGED <<workspaces, tabs, activeWorkspaceID, activeTabID, activePaneID, home, pane>>

\* Mutant: the first pane of the tab becomes active whichever pane goes.
ActivateFirst(t, p, left) == FirstPane(left)

\* The active pane of a tab after one of its panes is gone.
ActivePaneAfter(t, p, left) == IF activePaneID[t] = p THEN FirstPane(left) ELSE activePaneID[t]

(***************************************************************************)
(* pane.close and, when its shell ends, removePane: the tab goes with its  *)
(* last pane.                                                              *)
(***************************************************************************)
RemovePane(p) ==
  LET t == TabOf(p)
      left == Remove(layout[t], p)
  IN  /\ p \in Present
      /\ IF left = nil
         THEN CloseTab(t, {p})
         ELSE /\ pane' = [pane EXCEPT ![p] = NoID]
              /\ layout' = [layout EXCEPT ![t] = left]
              /\ activePaneID' = [activePaneID EXCEPT ![t] = ActivePaneAfter(t, p, left)]
              /\ UNCHANGED <<workspaces, tabs, activeWorkspaceID, activeTabID, home>>

WorkspaceNext ==
  \/ \E w \in Ws : CreateWorkspace(w) \/ SwitchWorkspace(w) \/ CloseWorkspace(w)
  \/ \E w \in Ws, t \in Tab, created \in Pane : CreateTab(w, t, created)
  \/ \E t \in Tab : FocusTab(t) \/ CloseTabOfClient(t)
  \/ \E t \in Open : \E index \in DOMAIN tabs[home[t]] : MoveTab(t, index)
  \/ \E p, created \in Pane, orientation \in Orientation : SplitPane(p, orientation, created)
  \/ \E p \in Pane : FocusPane(p) \/ RemovePane(p)
  \/ \E t \in Tab, ratio \in Ratio : \E path \in Paths(layout[t]) : ResizeSplit(t, path, ratio)

WorkspaceSpec == WorkspaceInit /\ [][WorkspaceNext]_workspaceVars

-----------------------------------------------------------------------------
(***************************************************************************)
(* The panes of the state are exactly the leaves of the layouts of the     *)
(* open tabs, each of one tab, the tab it names; every open tab shows a    *)
(* pane and is listed once, in the workspace it names.  mutate follows     *)
(* these links without checking them: a pane whose tab is gone is a nil    *)
(* dereference in pane.focus and pane.split.                               *)
(***************************************************************************)
LinksAgree ==
  /\ \A t \in Tab : Panes(layout[t]) = {p \in Pane : pane[p] = t}
  /\ \A t \in Open : layout[t] # nil /\ home[t] \in Workspaces
  /\ \A p \in Present : pane[p] \in Open
  /\ \A w \in Ws : Tabs(w) = {t \in Tab : home[t] = w} /\ S!IsInjective(tabs[w])

(***************************************************************************)
(* What the window shows exists: there is an active workspace unless there *)
(* is none at all, an active tab in every workspace with tabs and an       *)
(* active pane in every tab, one of its own.                               *)
(***************************************************************************)
ActiveExists ==
  /\ (activeWorkspaceID = NoID) <=> (workspaces = <<>>)
  /\ activeWorkspaceID # NoID => activeWorkspaceID \in Workspaces
  /\ \A w \in Workspaces :
       IF tabs[w] = <<>> THEN activeTabID[w] = NoID ELSE activeTabID[w] \in Tabs(w)
  /\ \A t \in Open : activePaneID[t] \in Panes(layout[t])

(***************************************************************************)
(* The aggregate mutate, the window and the command line rely on: whatever *)
(* was opened, moved and closed before, in whichever order, its parts      *)
(* refer to each other and to what exists.                                 *)
(***************************************************************************)
WorkspaceInv == WorkspaceTypeOK /\ LinksAgree /\ ActiveExists

(***************************************************************************)
(* No operation on panes rearranges those it is not about: panes that stay *)
(* keep their tab and their order on the screen.                           *)
(***************************************************************************)
PanesKeepPlace ==
  [][\A t \in Tab :
       LET stay == Panes(layout[t]) \cap Panes(layout'[t])
       IN  /\ stay # {} => \A p \in Panes(layout[t]) : pane'[p] \in {t, NoID}
           /\ PaneOrder(layout[t]) \cap (stay \X stay) =
              PaneOrder(layout'[t]) \cap (stay \X stay)]_workspaceVars

(***************************************************************************)
(* Closing, by a client or because a shell ends, moves the focus only off  *)
(* what is closed.                                                         *)
(***************************************************************************)
FocusSurvivesClosing ==
  [][(\E p \in Pane : pane[p] # NoID /\ pane'[p] = NoID) =>
       /\ \A t \in Open : activePaneID'[t] \in {activePaneID[t]} \/ pane'[activePaneID[t]] = NoID
       /\ \A w \in Workspaces : activeTabID'[w] = activeTabID[w] \/ home'[activeTabID[w]] = NoID
       /\ activeWorkspaceID' = activeWorkspaceID
          \/ activeWorkspaceID \notin S!ToSet(workspaces')]_workspaceVars

(***************************************************************************)
(* A step changes the place of one tab of a workspace at most: the others  *)
(* that stay are in the order they were in.                                *)
(***************************************************************************)
OneTabMoves ==
  [][\A w \in Ws : \E t \in Tab \cup {NoID} :
       \A u, v \in (S!ToSet(tabs[w]) \cap S!ToSet(tabs'[w])) \ {t} :
         Ahead(tabs[w], u, v) <=> Ahead(tabs'[w], u, v)]_workspaceVars

(***************************************************************************)
(* What an operation is not about keeps its place: panes on the screen and *)
(* tabs in their workspace, whatever is split, closed, moved or resized.   *)
(***************************************************************************)
RestKeepsPlace == PanesKeepPlace /\ OneTabMoves
=============================================================================
