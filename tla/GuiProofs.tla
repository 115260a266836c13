----------------------------- MODULE GuiProofs -----------------------------
(***************************************************************************)
(* Proofs about GuiSync, for any panes, calls and bounds: what revisions   *)
(* and the count of focuses promise the window, however calls are served   *)
(* and answered.                                                           *)
(***************************************************************************)
EXTENDS GuiSync, TLAPS

\* An answer is of an older revision, or is what the runtime has.
AnswersCurrent ==
  \A c \in Call : calls[c] # None /\ calls[c].status = "answered" =>
    /\ calls[c].answer.revision <= state.revision
    /\ calls[c].answer.revision = state.revision => calls[c].answer = state

\* A focus has made its pane the active one: it is not served yet, or has failed.
Focused ==
  /\ view.panes = state.panes /\ view.active \in view.panes
  /\ focusLost \/ \E c \in Call : /\ calls[c] # None /\ calls[c].method = "pane.focus"
                                  /\ calls[c].status = "sent" /\ calls[c].pane = view.active

\* The window shows an older revision, what the runtime has, or a focus.
ViewCurrent ==
  view # None =>
    /\ view.revision <= state.revision
    /\ view.revision = state.revision => view = state \/ Focused

CurrentInv == TypeOK /\ AnswersCurrent /\ ViewCurrent

IsMutation(c) == calls[c] # None /\ calls[c].method \in Mutation
-----------------------------------------------------------------------------
LEMMA MutatingIs == \A c : c \in Mutating <=> c \in Call /\ IsMutation(c)
BY DEF Mutating, InFlight, IsMutation

LEMMA MethodsDiffer ==
  /\ Mutation = {"pane.focus", "tab.focus", "pane.close"}
  /\ "state.get" \notin Mutation
BY DEF Mutation

\* What a mutation makes of the state.
LEMMA EffectsAre ==
  ASSUME TypeOK, NEW method, NEW p \in state.panes, NEW next \in Effects(method, p)
  PROVE  /\ next \in View /\ next.revision = state.revision
         /\ next.active \in IF next.panes = {} THEN {None} ELSE next.panes
<1> USE DEF TypeOK, View
<1>1. CASE method # "pane.close"
  BY <1>1 DEF Effects
<1>2. CASE method = "pane.close"
  <2>1. PICK q \in IF state.active # p THEN {state.active}
                   ELSE IF state.panes = {p} THEN {None} ELSE state.panes \ {p} :
              next = [state EXCEPT !.panes = @ \ {p}, !.active = q]
    BY <1>2 DEF Effects
  <2>2. q \in IF state.panes \ {p} = {} THEN {None} ELSE state.panes \ {p}
    OBVIOUS
  <2> QED
    BY <2>1, <2>2
<1> QED
  BY <1>1, <1>2

LEMMA ChangedIs ==
  ASSUME TypeOK, NEW method, NEW p \in state.panes, NEW next \in Effects(method, p) \cup {state},
         Changed(next)
  PROVE  /\ state' \in View /\ state'.revision = state.revision + 1
         /\ state'.active \in IF state'.panes = {} THEN {None} ELSE state'.panes
<1>1. /\ next \in View /\ next.revision = state.revision
      /\ next.active \in IF next.panes = {} THEN {None} ELSE next.panes
  BY EffectsAre DEF TypeOK
<1> QED
  BY <1>1 DEF Changed, View

\* The state changes by a new revision, or stays.
LEMMA StateStep ==
  ASSUME TypeOK, [Next]_vars
  PROVE  /\ state' \in View
         /\ state'.active \in IF state'.panes = {} THEN {None} ELSE state'.panes
         /\ state' = state \/ state'.revision = state.revision + 1
<1> DEFINE StateGoal ==
      /\ state' \in View
      /\ state'.active \in IF state'.panes = {} THEN {None} ELSE state'.panes
      /\ state' = state \/ state'.revision = state.revision + 1
<1>. SUFFICES StateGoal
  OBVIOUS
<1>0. ASSUME UNCHANGED state PROVE StateGoal
  BY <1>0 DEF TypeOK
<1>1. ASSUME NEW c \in Call, Poll(c) PROVE StateGoal
  BY <1>1, <1>0 DEF Poll
<1>2. ASSUME NEW c \in Call, Reconnect(c) PROVE StateGoal
  BY <1>2, <1>0 DEF Reconnect
<1>3. ASSUME NEW c \in Call, ServeGet(c) PROVE StateGoal
  BY <1>3, <1>0 DEF ServeGet
<1>4. ASSUME NEW c \in Call, ServeMutation(c) PROVE StateGoal
  BY <1>4, ChangedIs DEF ServeMutation
<1>5. ASSUME NEW c \in Call, Refuse(c) PROVE StateGoal
  BY <1>5, <1>0 DEF Refuse
<1>6. ASSUME NEW c \in Call, SaveFails(c) PROVE StateGoal
  BY <1>6, <1>0 DEF SaveFails
<1>7. ASSUME NEW c \in Call, Lose(c) PROVE StateGoal
  BY <1>7, <1>0 DEF Lose
<1>8. ASSUME NEW c \in Call, Refreshed(c) PROVE StateGoal
  BY <1>8, <1>0 DEF Refreshed
<1>9. ASSUME NEW c \in Call, Mutated(c) PROVE StateGoal
  BY <1>9, <1>0 DEF Mutated
<1>10. ASSUME NEW c \in Call, NEW p \in Pane, Focus(c, p) PROVE StateGoal
  BY <1>10, <1>0 DEF Focus
<1>11. ASSUME NEW c \in Call, NEW p \in Pane, NEW m \in {"tab.focus", "pane.close"}, Mutate(c, m, p) PROVE StateGoal
  BY <1>11, <1>0 DEF Mutate
<1>12. CASE OtherChange
  <2>1. CASE Changed(state)
    BY <2>1 DEF Changed, View, TypeOK
  <2>2. ASSUME NEW m, NEW p \in state.panes, NEW next \in Effects(m, p), Changed(next) PROVE StateGoal
    BY <2>2, ChangedIs
  <2> QED
    BY <1>12, <2>1, <2>2 DEF OtherChange
<1>13. CASE UNCHANGED vars
  BY <1>0, <1>13 DEF vars
<1> QED
  BY <1>1, <1>2, <1>3, <1>4, <1>5, <1>6, <1>7, <1>8, <1>9, <1>10, <1>11, <1>12, <1>13 DEF Next, Serve, Arrive

LEMMA TypeStep ==
  ASSUME TypeOK, [Next]_vars
  PROVE  TypeOK'
<1> DEFINE Rest ==
      /\ view' \in View \cup {None}
      /\ busy' \in BOOLEAN /\ connected' \in BOOLEAN
      /\ focusGeneration' \in 0..clicks'
      /\ calls' \in [Call -> CallRecord \cup {None}]
      /\ clicks' \in 0..MaxClicks /\ faults' \in 0..MaxFaults
<1>0. focusLost \in BOOLEAN /\ focusLost' \in BOOLEAN
  <2>1. focusLost \in BOOLEAN
    BY DEF TypeOK
  <2>2. UNCHANGED focusLost \/ (\E c \in Call : Fault(c)) \/ focusLost' = (focusLost /\ view' = view)
    BY DEF Next, Poll, Reconnect, Serve, ServeGet, ServeMutation, Refuse, SaveFails, Lose, Arrive,
           Refreshed, Mutated, Focus, Mutate, OtherChange, vars, windowVars
  <2> QED
    BY <2>1, <2>2, Zenon DEF Fault
<1>. SUFFICES Rest
  BY <1>0, StateStep DEF TypeOK
<1>a. ASSUME NEW c \in Call, NEW r \in CallRecord \cup {None}, calls' = [calls EXCEPT ![c] = r]
      PROVE  calls' \in [Call -> CallRecord \cup {None}]
  BY <1>a DEF TypeOK
<1>b. ASSUME NEW c \in Call, calls[c] # None, NEW status \in {"answered", "refused", "lost"},
             NEW answer \in View, Answer(c, status, answer)
      PROVE  calls' \in [Call -> CallRecord \cup {None}]
  <2>1. calls[c] \in CallRecord
    BY <1>b DEF TypeOK
  <2>2. [calls[c] EXCEPT !.status = status, !.answer = answer] \in CallRecord
    BY <2>1 DEF CallRecord
  <2>3. calls' = [calls EXCEPT ![c] = [calls[c] EXCEPT !.status = status, !.answer = answer]]
    BY <2>1, <1>b DEF Answer, CallRecord, TypeOK
  <2> QED
    BY <2>2, <2>3, <1>a
<1>c. NoView \in View
  BY DEF NoView, View
<1>d. ASSUME NEW c \in Call, NEW m \in Mutation \cup {"state.get"}, NEW p \in Pane \cup {None},
             NEW polling \in BOOLEAN, NEW g \in 0..MaxClicks, Send(c, m, p, polling, g)
      PROVE  calls' \in [Call -> CallRecord \cup {None}]
  <2>1. [method |-> m, pane |-> p, polling |-> polling, generation |-> g,
         status |-> "sent", answer |-> NoView] \in CallRecord
    BY <1>c DEF CallRecord
  <2> QED
    BY <1>a, <1>d, <2>1 DEF Send
<1>e. ASSUME NEW c \in Call, End(c) PROVE calls' \in [Call -> CallRecord \cup {None}]
  BY <1>a, <1>e DEF End
<1>f. ASSUME NEW c \in Call, calls[c] # None
      PROVE  Apply(calls[c].answer) \in View \cup {None}
  BY <1>f DEF Apply, TypeOK, CallRecord
<1>g. /\ view \in View \cup {None} /\ busy \in BOOLEAN /\ connected \in BOOLEAN
      /\ focusGeneration \in 0..clicks /\ calls \in [Call -> CallRecord \cup {None}]
      /\ clicks \in 0..MaxClicks /\ faults \in 0..MaxFaults /\ MaxClicks \in Nat /\ MaxFaults \in Nat
      /\ focusGeneration \in 0..MaxClicks /\ 0 \in 0..MaxClicks
  BY GuiSyncAssumption DEF TypeOK
<1> USE <1>g, MethodsDiffer
<1> HIDE DEF View, CallRecord
<1>1. ASSUME NEW c \in Call, Poll(c) PROVE Rest
  BY <1>1, <1>d DEF Poll, Refresh, windowVars
<1>2. ASSUME NEW c \in Call, Reconnect(c) PROVE Rest
  <2>1. calls' \in [Call -> CallRecord \cup {None}]
    BY <1>2, <1>d DEF Reconnect, Refresh
  <2> QED
    BY <1>2, <2>1 DEF Reconnect, Click, windowVars
<1>3. ASSUME NEW c \in Call, ServeGet(c) PROVE Rest
  <2>1. calls[c] # None /\ Answer(c, "answered", state) /\ state \in View
    BY <1>3 DEF ServeGet, InFlight, TypeOK
  <2> QED
    BY <1>3, <1>b, <2>1 DEF ServeGet, windowVars
<1>4. ASSUME NEW c \in Call, ServeMutation(c) PROVE Rest
  <2>1. calls[c] # None /\ Answer(c, "answered", state') /\ state' \in View
    BY <1>4, MutatingIs, StateStep DEF ServeMutation, IsMutation
  <2> QED
    BY <1>4, <1>b, <2>1 DEF ServeMutation, windowVars
<1>5. ASSUME NEW c \in Call, Refuse(c) PROVE Rest
  <2>1. calls[c] # None /\ Answer(c, "refused", NoView)
    BY <1>5, MutatingIs DEF Refuse, IsMutation
  <2> QED
    BY <1>5, <1>b, <1>c, <2>1 DEF Refuse, windowVars
<1>6. ASSUME NEW c \in Call, SaveFails(c) PROVE Rest
  <2>1. calls[c] # None /\ Answer(c, "refused", NoView)
    BY <1>6, MutatingIs DEF SaveFails, IsMutation
  <2> QED
    BY <1>6, <1>b, <1>c, <2>1 DEF SaveFails, Fault, windowVars
<1>7. ASSUME NEW c \in Call, Lose(c) PROVE Rest
  BY <1>7, <1>b, <1>c DEF Lose, Fault, windowVars
<1>8. ASSUME NEW c \in Call, Refreshed(c) PROVE Rest
  <2>1. calls[c] # None
    BY <1>8 DEF Refreshed, InFlight
  <2> QED
    BY <1>8, <1>e, <1>f, <2>1 DEF Refreshed
<1>9. ASSUME NEW c \in Call, Mutated(c) PROVE Rest
  <2>1. calls[c] # None
    BY <1>9, MutatingIs DEF Mutated, IsMutation
  <2> QED
    BY <1>9, <1>e, <1>f, <2>1 DEF Mutated
<1>10. ASSUME NEW c \in Call, NEW p \in Pane, Focus(c, p) PROVE Rest
  <2>1. view' \in View
    BY <1>10 DEF Focus, View
  <2>2. calls' \in [Call -> CallRecord \cup {None}]
    BY <1>10, <1>d DEF Focus
  <2> QED
    BY <1>10, <2>1, <2>2 DEF Focus, Click
<1>11. ASSUME NEW c \in Call, NEW p \in Pane, NEW m \in {"tab.focus", "pane.close"}, Mutate(c, m, p) PROVE Rest
  <2>1. calls' \in [Call -> CallRecord \cup {None}]
    BY <1>11, <1>d DEF Mutate
  <2> QED
    BY <1>11, <2>1 DEF Mutate, Click
<1>12. CASE OtherChange
  BY <1>12 DEF OtherChange, windowVars
<1>13. CASE UNCHANGED vars
  BY <1>13 DEF vars, windowVars
<1> QED
  BY <1>1, <1>2, <1>3, <1>4, <1>5, <1>6, <1>7, <1>8, <1>9, <1>10, <1>11, <1>12, <1>13 DEF Next, Serve, Arrive

-----------------------------------------------------------------------------
(* What is on its way, and what is shown. *)

\* The calls of a step: one is answered, sent or ended, the others stay.
LEMMA AnswerIs ==
  ASSUME TypeOK, NEW c \in Call, calls[c] # None, NEW status \in {"answered", "refused", "lost"},
         NEW answer \in View, Answer(c, status, answer)
  PROVE  /\ calls'[c] # None
         /\ calls'[c].method = calls[c].method /\ calls'[c].pane = calls[c].pane
         /\ calls'[c].generation = calls[c].generation
         /\ calls'[c].status = status /\ calls'[c].answer = answer
         /\ \A d \in Call \ {c} : calls'[d] = calls[d]
<1>1. calls[c] \in CallRecord
  BY DEF TypeOK
<1>2. calls'[c] = [calls[c] EXCEPT !.status = status, !.answer = answer]
  BY <1>1 DEF Answer, TypeOK, CallRecord
<1>3. [calls[c] EXCEPT !.status = status, !.answer = answer] \in CallRecord
  BY <1>1 DEF CallRecord
<1>4. calls'[c] # None
  BY <1>2, <1>3, GuiSyncAssumption
<1> QED
  BY <1>1, <1>2, <1>4 DEF Answer, TypeOK, CallRecord

LEMMA SendIs ==
  ASSUME TypeOK, NEW c \in Call, NEW m \in Mutation \cup {"state.get"}, NEW p \in Pane \cup {None},
         NEW polling \in BOOLEAN, NEW g \in 0..MaxClicks, Send(c, m, p, polling, g)
  PROVE  /\ calls[c] = None
         /\ calls'[c].method = m /\ calls'[c].pane = p /\ calls'[c].generation = g
         /\ calls'[c].status = "sent"
         /\ calls'[c] # None
         /\ \A d \in Call \ {c} : calls'[d] = calls[d]
<1>1. calls'[c] = [method |-> m, pane |-> p, polling |-> polling, generation |-> g,
                   status |-> "sent", answer |-> NoView]
  BY DEF Send, TypeOK
<1>2. calls'[c] \in CallRecord
  BY <1>1 DEF CallRecord, NoView, View
<1> QED
  BY <1>1, <1>2, GuiSyncAssumption DEF Send, TypeOK

LEMMA SendsMutation ==
  ASSUME TypeOK, NEW c \in Call, NEW m \in Mutation, NEW p \in Pane, Send(c, m, p, FALSE, 0)
  PROVE  /\ calls[c] = None /\ calls'[c] # None
         /\ calls'[c].method = m /\ calls'[c].pane = p /\ calls'[c].status = "sent"
         /\ \A d \in Call \ {c} : calls'[d] = calls[d]
<1>1. 0 \in 0..MaxClicks
  BY GuiSyncAssumption
<1> QED
  BY <1>1, SendIs

LEMMA SendsFocus ==
  ASSUME TypeOK, NEW c \in Call, NEW p \in Pane, Send(c, "pane.focus", p, FALSE, 0)
  PROVE  /\ calls[c] = None /\ calls'[c] # None
         /\ calls'[c].method = "pane.focus" /\ calls'[c].pane = p /\ calls'[c].status = "sent"
         /\ \A d \in Call \ {c} : calls'[d] = calls[d]
BY SendsMutation, MethodsDiffer

LEMMA SendsGet ==
  ASSUME TypeOK, NEW c \in Call, NEW polling \in BOOLEAN, Refresh(c, polling)
  PROVE  /\ calls[c] = None /\ calls'[c] # None
         /\ calls'[c].method = "state.get" /\ calls'[c].status = "sent"
         /\ calls'[c].generation = focusGeneration
         /\ \A d \in Call \ {c} : calls'[d] = calls[d]
<1>1. focusGeneration \in 0..MaxClicks
  BY GuiSyncAssumption DEF TypeOK
<1> QED
  BY <1>1, SendIs DEF Refresh

LEMMA EndIs ==
  ASSUME TypeOK, NEW c \in Call, End(c)
  PROVE  calls'[c] = None /\ \A d \in Call \ {c} : calls'[d] = calls[d]
BY DEF End, TypeOK

LEMMA AnswersStep ==
  ASSUME TypeOK, AnswersCurrent, [Next]_vars
  PROVE  AnswersCurrent'
<1> USE DEF AnswersCurrent
<1>a. /\ state \in View /\ state' \in View
      /\ state' = state \/ state'.revision = state.revision + 1
  BY StateStep DEF TypeOK
<1>b. state.revision \in Nat /\ state'.revision \in Nat
  BY <1>a DEF View
<1>c. \A c \in Call : calls[c] # None => calls[c].answer.revision \in Nat
  BY DEF TypeOK, CallRecord, View
<1>d. ASSUME NEW c \in Call, \A d \in Call \ {c} : calls'[d] = calls[d],
             calls'[c] # None /\ calls'[c].status = "answered" => calls'[c].answer = state'
      PROVE  AnswersCurrent'
  BY <1>a, <1>b, <1>c, <1>d
<1>e. ASSUME UNCHANGED calls PROVE AnswersCurrent'
  BY <1>a, <1>b, <1>c, <1>e
<1>1. ASSUME NEW c \in Call, Poll(c) PROVE AnswersCurrent'
  BY <1>1, <1>d, SendsGet DEF Poll
<1>2. ASSUME NEW c \in Call, Reconnect(c) PROVE AnswersCurrent'
  BY <1>2, <1>d, SendsGet DEF Reconnect
<1>3. ASSUME NEW c \in Call, ServeGet(c) PROVE AnswersCurrent'
  <2>1. calls[c] # None /\ Answer(c, "answered", state) /\ state' = state
    BY <1>3 DEF ServeGet, InFlight
  <2> QED
    BY <1>a, <1>d, <2>1, AnswerIs
<1>4. ASSUME NEW c \in Call, ServeMutation(c) PROVE AnswersCurrent'
  <2>1. calls[c] # None /\ Answer(c, "answered", state')
    BY <1>4, MutatingIs DEF ServeMutation, IsMutation
  <2> QED
    BY <1>a, <1>d, <2>1, AnswerIs
<1>5. ASSUME NEW c \in Call, Refuse(c) PROVE AnswersCurrent'
  <2>1. calls[c] # None /\ Answer(c, "refused", NoView)
    BY <1>5, MutatingIs DEF Refuse, IsMutation
  <2>2. NoView \in View
    BY DEF NoView, View
  <2> QED
    BY <1>d, <2>1, <2>2, AnswerIs
<1>6. ASSUME NEW c \in Call, SaveFails(c) PROVE AnswersCurrent'
  <2>1. calls[c] # None /\ Answer(c, "refused", NoView)
    BY <1>6, MutatingIs DEF SaveFails, IsMutation
  <2>2. NoView \in View
    BY DEF NoView, View
  <2> QED
    BY <1>d, <2>1, <2>2, AnswerIs
<1>7. ASSUME NEW c \in Call, Lose(c) PROVE AnswersCurrent'
  <2>1. NoView \in View
    BY DEF NoView, View
  <2> QED
    BY <1>7, <1>d, <2>1, AnswerIs DEF Lose
<1>8. ASSUME NEW c \in Call, Refreshed(c) PROVE AnswersCurrent'
  BY <1>8, <1>d, EndIs DEF Refreshed
<1>9. ASSUME NEW c \in Call, Mutated(c) PROVE AnswersCurrent'
  BY <1>9, <1>d, EndIs DEF Mutated
<1>10. ASSUME NEW c \in Call, NEW p \in Pane, Focus(c, p) PROVE AnswersCurrent'
  BY <1>10, <1>d, SendsFocus DEF Focus
<1>11. ASSUME NEW c \in Call, NEW p \in Pane, NEW m \in {"tab.focus", "pane.close"}, Mutate(c, m, p) PROVE AnswersCurrent'
  BY <1>11, <1>d, SendsMutation, MethodsDiffer DEF Mutate
<1>12. CASE OtherChange
  BY <1>12, <1>e DEF OtherChange
<1>13. CASE UNCHANGED vars
  BY <1>13, <1>e DEF vars
<1> QED
  BY <1>1, <1>2, <1>3, <1>4, <1>5, <1>6, <1>7, <1>8, <1>9, <1>10, <1>11, <1>12, <1>13 DEF Next, Serve, Arrive

LEMMA ViewStep ==
  ASSUME CurrentInv, [Next]_vars
  PROVE  ViewCurrent'
<1> USE DEF CurrentInv, ViewCurrent
<1>a. /\ state \in View /\ state' \in View /\ view \in View \cup {None} /\ view' \in View \cup {None}
      /\ state' = state \/ state'.revision = state.revision + 1
      /\ None \notin View
  BY StateStep, TypeStep, GuiSyncAssumption DEF TypeOK
<1>b. state.revision \in Nat /\ state'.revision \in Nat
  BY <1>a DEF View
<1>c. /\ view # None => view.revision \in Nat
      /\ \A c \in Call : calls[c] # None => calls[c].answer.revision \in Nat
  BY <1>a DEF View, TypeOK, CallRecord
<1>d. ASSUME UNCHANGED view, state' # state PROVE ViewCurrent'
  BY <1>a, <1>b, <1>c, <1>d
<1>e. ASSUME UNCHANGED <<state, view>>, focusLost => focusLost',
             \A c \in Call : calls[c] # None /\ calls[c].method = "pane.focus"
                             /\ calls[c].status = "sent" /\ calls[c].pane \in state.panes
                             => calls'[c] = calls[c]
      PROVE  ViewCurrent'
  BY <1>a, <1>e DEF Focused
<1>i. ASSUME UNCHANGED <<state, view>>, focusLost'
      PROVE  ViewCurrent'
  BY <1>a, <1>i DEF Focused
<1>h. NoView \in View
  BY DEF NoView, View
<1>f. ASSUME NEW c \in Call, calls[c] # None, calls[c].status = "answered",
             view' = Apply(calls[c].answer), UNCHANGED state, view' # view
      PROVE  ViewCurrent'
  BY <1>a, <1>b, <1>c, <1>f DEF Apply, AnswersCurrent
<1>g. \A c \in Call : calls[c] # None /\ calls[c].method = "pane.focus" => c \in Mutating
  BY MutatingIs, MethodsDiffer DEF IsMutation
<1>1. ASSUME NEW c \in Call, Poll(c) PROVE ViewCurrent'
  BY <1>1, <1>e, SendsGet DEF Poll, windowVars
<1>2. ASSUME NEW c \in Call, Reconnect(c) PROVE ViewCurrent'
  BY <1>2, <1>e, SendsGet DEF Reconnect, windowVars
<1>3. ASSUME NEW c \in Call, ServeGet(c) PROVE ViewCurrent'
  <2>1. calls[c] # None /\ calls[c].method # "pane.focus" /\ Answer(c, "answered", state)
    BY <1>3 DEF ServeGet, InFlight
  <2> QED
    BY <1>3, <1>a, <1>e, <1>h, <2>1, AnswerIs DEF ServeGet, windowVars
<1>4. ASSUME NEW c \in Call, ServeMutation(c) PROVE ViewCurrent'
  <2>1. PICK next \in Effects(calls[c].method, calls[c].pane) : Changed(next)
    BY <1>4 DEF ServeMutation
  <2>2. state'.revision = state.revision + 1
    BY <1>4, <2>1, ChangedIs DEF ServeMutation
  <2> QED
    BY <1>4, <1>b, <1>d, <2>2 DEF ServeMutation, windowVars
<1>5. ASSUME NEW c \in Call, Refuse(c) PROVE ViewCurrent'
  <2>1. calls[c] # None /\ Answer(c, "refused", NoView) /\ calls[c].pane \notin state.panes
    BY <1>5, MutatingIs DEF Refuse, IsMutation
  <2> QED
    BY <1>5, <1>a, <1>e, <1>h, <2>1, AnswerIs DEF Refuse, windowVars
<1>j. ASSUME NEW c \in Call, calls[c] # None, UNCHANGED <<state, view>>, Fault(c),
             \E status \in {"refused", "lost"} : Answer(c, status, NoView)
      PROVE  ViewCurrent'
  <2>1. \A d \in Call \ {c} : calls'[d] = calls[d]
    BY <1>j, <1>h, AnswerIs
  <2>2. CASE calls[c].method = "pane.focus" /\ calls[c].status = "sent"
    BY <1>i, <1>j, <2>2 DEF Fault
  <2>3. CASE ~(calls[c].method = "pane.focus" /\ calls[c].status = "sent")
    BY <1>e, <1>j, <2>1, <2>3 DEF Fault
  <2> QED
    BY <2>2, <2>3
<1>6. ASSUME NEW c \in Call, SaveFails(c) PROVE ViewCurrent'
  BY <1>6, <1>j, MutatingIs DEF SaveFails, IsMutation, windowVars
<1>7. ASSUME NEW c \in Call, Lose(c) PROVE ViewCurrent'
  BY <1>7, <1>j DEF Lose, windowVars
<1>8. ASSUME NEW c \in Call, Refreshed(c) PROVE ViewCurrent'
  <2>1. calls[c] # None /\ calls[c].status # "sent" /\ End(c) /\ UNCHANGED state /\ focusLost' = (focusLost /\ view' = view)
    BY <1>8, MutatingIs DEF Refreshed, IsMutation, InFlight
  <2>2. CASE view' = view
    BY <1>e, <2>1, <2>2, EndIs
  <2>3. CASE view' # view
    BY <1>8, <1>f, <2>1, <2>3 DEF Refreshed
  <2> QED
    BY <2>2, <2>3
<1>9. ASSUME NEW c \in Call, Mutated(c) PROVE ViewCurrent'
  <2>1. calls[c] # None /\ calls[c].status # "sent" /\ End(c) /\ UNCHANGED state /\ focusLost' = (focusLost /\ view' = view)
    BY <1>9, MutatingIs DEF Mutated, IsMutation, InFlight
  <2>2. CASE view' = view
    BY <1>e, <2>1, <2>2, EndIs
  <2>3. CASE view' # view
    BY <1>9, <1>f, <2>1, <2>3 DEF Mutated
  <2> QED
    BY <2>2, <2>3
<1>10. ASSUME NEW c \in Call, NEW p \in Pane, Focus(c, p) PROVE ViewCurrent'
  <2>1. /\ view # None /\ p \in view.panes /\ view' = [view EXCEPT !.active = p]
        /\ Send(c, "pane.focus", p, FALSE, 0) /\ UNCHANGED state
    BY <1>10 DEF Focus
  <2>2. /\ calls'[c].method = "pane.focus" /\ calls'[c].status = "sent" /\ calls'[c].pane = p
        /\ calls'[c] # None
    BY <2>1, SendsFocus
  <2>4. /\ view'.panes = view.panes /\ view'.active = p /\ view'.revision = view.revision
    BY <1>a, <2>1 DEF View
  <2>5. view.revision = state.revision => view.panes = state.panes
    BY <2>1 DEF Focused
  <2>6. view.revision = state.revision => Focused'
    BY <2>1, <2>2, <2>4, <2>5 DEF Focused
  <2> QED
    BY <2>1, <2>4, <2>6
<1>11. ASSUME NEW c \in Call, NEW p \in Pane, NEW m \in {"tab.focus", "pane.close"}, Mutate(c, m, p) PROVE ViewCurrent'
  BY <1>11, <1>e, SendsMutation, MethodsDiffer DEF Mutate
<1>12. CASE OtherChange
  <2>1. state'.revision = state.revision + 1
    <3>1. CASE Changed(state)
      BY <1>a, <3>1 DEF Changed, View
    <3>2. ASSUME NEW m, NEW p \in state.panes, NEW next \in Effects(m, p), Changed(next)
          PROVE  state'.revision = state.revision + 1
      BY <3>2, ChangedIs
    <3> QED
      BY <1>12, <3>1, <3>2 DEF OtherChange
  <2> QED
    BY <1>12, <1>b, <1>d, <2>1 DEF OtherChange, windowVars
<1>13. CASE UNCHANGED vars
  BY <1>13, <1>e DEF vars, windowVars
<1> QED
  BY <1>1, <1>2, <1>3, <1>4, <1>5, <1>6, <1>7, <1>8, <1>9, <1>10, <1>11, <1>12, <1>13 DEF Next, Serve, Arrive

-----------------------------------------------------------------------------
LEMMA InitInvariant == Init => CurrentInv
<1> SUFFICES ASSUME Init PROVE CurrentInv
  OBVIOUS
<1>1. TypeOK
  <2>1. state \in View /\ state.panes = Pane /\ state.active \in Pane
    BY DEF Init, View
  <2>2. state.active \in IF state.panes = {} THEN {None} ELSE state.panes
    BY <2>1, GuiSyncAssumption
  <2>3. calls \in [Call -> CallRecord \cup {None}] /\ view \in View \cup {None}
    BY DEF Init
  <2>4. focusGeneration \in 0..clicks /\ clicks \in 0..MaxClicks /\ faults \in 0..MaxFaults
    <3>1. MaxClicks \in Nat /\ MaxFaults \in Nat
      BY GuiSyncAssumption
    <3> QED
      BY <3>1 DEF Init
  <2>5. busy \in BOOLEAN /\ connected \in BOOLEAN /\ focusLost \in BOOLEAN
    BY Zenon DEF Init
  <2> QED
    BY <2>1, <2>2, <2>3, <2>4, <2>5, Zenon DEF TypeOK
<1> QED
  BY <1>1 DEF Init, CurrentInv, AnswersCurrent, ViewCurrent

(***************************************************************************)
(* Every variable keeps its type: the active pane of the runtime's state   *)
(* is one of its panes, as long as there is one.                           *)
(***************************************************************************)
THEOREM TypeCorrect == Spec => []TypeOK
<1>1. Init => TypeOK
  BY InitInvariant DEF CurrentInv
<1>2. TypeOK /\ [Next]_vars => TypeOK'
  BY TypeStep
<1> QED
  BY <1>1, <1>2, PTL DEF Spec

(***************************************************************************)
(* However answers overtake each other, what is shown never goes back.     *)
(***************************************************************************)
THEOREM NeverBackCorrect == Spec => NeverBack
<1>1. TypeOK /\ [Next]_vars =>
        [view # None => view' # None /\ view'.revision >= view.revision]_view
  <2> SUFFICES ASSUME TypeOK, [Next]_vars, view # None
               PROVE  view' # None /\ view'.revision >= view.revision
    OBVIOUS
  <2>1. view \in View /\ None \notin View /\ view.revision \in Nat
    BY GuiSyncAssumption DEF TypeOK, View
  <2>2. CASE UNCHANGED view
    BY <2>1, <2>2
  <2>3. ASSUME NEW c \in Call, calls[c] # None, view' = Apply(calls[c].answer)
        PROVE  view' # None /\ view'.revision >= view.revision
    BY <2>1, <2>3 DEF Apply, TypeOK, CallRecord, View
  <2>4. ASSUME NEW c \in Call, NEW p \in Pane, Focus(c, p)
        PROVE  view' # None /\ view'.revision >= view.revision
    <3>1. view' = [view EXCEPT !.active = p]
      BY <2>4 DEF Focus
    <3>2. view' \in View /\ view'.revision = view.revision
      BY <2>1, <3>1 DEF View
    <3> QED
      BY <2>1, <3>2
  <2>5. ASSUME NEW c \in Call, Refreshed(c)
        PROVE  view' # None /\ view'.revision >= view.revision
    BY <2>2, <2>3, <2>5 DEF Refreshed, InFlight
  <2>6. ASSUME NEW c \in Call, Mutated(c)
        PROVE  view' # None /\ view'.revision >= view.revision
    BY <2>2, <2>3, <2>6, MutatingIs DEF Mutated, IsMutation
  <2>7. ASSUME NEW c \in Call, Poll(c) \/ Reconnect(c) \/ Serve(c) \/ SaveFails(c) \/ Lose(c)
        PROVE  UNCHANGED view
    BY <2>7 DEF Poll, Reconnect, Serve, ServeGet, ServeMutation, Refuse, SaveFails, Lose, windowVars
  <2>8. ASSUME NEW c \in Call, NEW p \in Pane, NEW m \in {"tab.focus", "pane.close"}, Mutate(c, m, p)
        PROVE  UNCHANGED view
    BY <2>8 DEF Mutate
  <2>9. OtherChange \/ UNCHANGED vars => UNCHANGED view
    BY DEF OtherChange, vars, windowVars
  <2> QED
    BY <2>2, <2>4, <2>5, <2>6, <2>7, <2>8, <2>9 DEF Next, Arrive
<1> QED
  BY <1>1, TypeCorrect, PTL DEF Spec, NeverBack

(***************************************************************************)
(* Once the window's focuses have ended, well or not, it shows an older    *)
(* revision or what the runtime has, and no more than the active pane      *)
(* differs if a focus has failed.                                          *)
(***************************************************************************)
THEOREM CoherentCorrect == Spec => []Coherent
<1>1. Init => CurrentInv
  BY InitInvariant
<1>2. CurrentInv /\ [Next]_vars => CurrentInv'
  BY TypeStep, AnswersStep, ViewStep DEF CurrentInv
<1>3. CurrentInv => Coherent
  <2> SUFFICES ASSUME CurrentInv, view # None, InFlight("pane.focus") = {}, view.revision = state.revision,
                      view # state
               PROVE  focusLost /\ view = [state EXCEPT !.active = view.active]
    BY DEF CurrentInv, ViewCurrent, Coherent, Shown
  <2>1. Focused /\ \A c \in Call : calls[c] = None \/ calls[c].method # "pane.focus"
    BY DEF CurrentInv, ViewCurrent, InFlight
  <2>2. focusLost /\ view.panes = state.panes
    BY <2>1 DEF Focused
  <2>3. view \in View /\ state \in View
    BY DEF CurrentInv, TypeOK
  <2> QED
    BY <2>2, <2>3 DEF View
<1> QED
  BY <1>1, <1>2, <1>3, PTL DEF Spec
=============================================================================
