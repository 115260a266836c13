---------------------------- MODULE OutputProofs ----------------------------
(***************************************************************************)
(* Proofs about OutputBuffer and OutputStream, for every ring size, read   *)
(* size, set of views, and any number of launches and bytes.               *)
(***************************************************************************)
EXTENDS OutputStream, SequenceTheorems, TLAPS

-----------------------------------------------------------------------------
(* The buffer *)

\* The index output.go computes for a byte is an index of the ring.
LEMMA ModRange ==
  ASSUME NEW i \in Nat
  PROVE  i % Limit \in 0..(Limit - 1)
BY LimitAssumption, SMT

\* Two bytes less than a ring apart share a slot only if they are the same.
LEMMA SameSlot ==
  ASSUME NEW i \in Nat, NEW j \in Nat, i <= j, j - i < Limit, i % Limit = j % Limit
  PROVE  i = j
<1>1. i = Limit * (i \div Limit) + (i % Limit) /\ i \div Limit \in Int
  BY LimitAssumption, SMT
<1>2. j = Limit * (j \div Limit) + (j % Limit) /\ j \div Limit \in Int
  BY LimitAssumption, SMT
<1>3. \A L \in Nat \ {0}, a \in Int, b \in Int :
        L * b - L * a < L /\ 0 <= L * b - L * a => a = b
  BY SMT
<1> DEFINE a == i \div Limit
           b == j \div Limit
<1>4. a \in Int /\ b \in Int /\ Limit \in Nat \ {0}
  BY <1>1, <1>2, LimitAssumption
<1>5. Limit * b - Limit * a = j - i
  <2>1. Limit * a \in Int /\ Limit * b \in Int /\ i % Limit \in Int
    BY <1>4, ModRange, LimitAssumption
  <2> QED
    BY <1>1, <1>2, <2>1
<1>6. a = b
  BY <1>3, <1>4, <1>5
<1> QED
  BY <1>1, <1>2, <1>6

\* append, however much it is given, keeps the last Limit bytes in place.
LEMMA AppendHolds ==
  ASSUME NEW o \in Output, RingHolds(o), NEW n \in Nat
  PROVE  /\ append(o, n) \in Output
         /\ RingHolds(append(o, n))
         /\ append(o, n).end = o.end + n
         /\ append(o, n).start >= o.start
         /\ append(o, n).exited = o.exited
<1> USE LimitAssumption
<1> DEFINE end == o.end + n
           newest(k) == {j \in o.end..(end - 1) : j % Limit = k /\ j >= end - Limit}
           ring == [k \in 0..(Limit - 1) |->
                      IF newest(k) = {} THEN o.ring[k] ELSE CHOOSE j \in newest(k) : TRUE]
           start == IF end > Limit THEN end - Limit ELSE o.start
           a == append(o, n)
<1>1. /\ o.end \in Nat /\ o.start \in Nat /\ o.exited \in BOOLEAN
      /\ o.ring \in [0..(Limit - 1) -> Int]
  BY DEF Output
<1>2. end \in Nat /\ start \in Nat /\ o.end <= end
  BY <1>1
<1>3. ASSUME NEW k \in 0..(Limit - 1) PROVE ring[k] \in Int
  <2>1. CASE newest(k) = {}
    BY <2>1, <1>1
  <2>2. CASE newest(k) # {}
    <3>1. (CHOOSE j \in newest(k) : TRUE) \in newest(k)
      BY <2>2
    <3> QED
      BY <2>2, <3>1, <1>1, <1>2
  <2> QED
    BY <2>1, <2>2
<1>4. a = [ring |-> ring, start |-> start, end |-> end, exited |-> o.exited]
  <2>1. ring \in [0..(Limit - 1) -> Int]
    BY <1>3
  <2>2. a = [o EXCEPT !.ring = ring, !.end = end, !.start = start]
    BY Zenon DEF append
  <2> HIDE DEF a, ring, start, end
  <2> QED
    BY <1>2, <2>1, <2>2 DEF Output
<1>5. start = IF end > Limit THEN end - Limit ELSE 0
  <2>1. o.start = IF o.end > Limit THEN o.end - Limit ELSE 0
    BY DEF RingHolds
  <2> QED
    BY <1>1, <1>2, <2>1
<1>6. ASSUME NEW i \in start..(end - 1) PROVE ring[i % Limit] = i
  <2>1. i \in Nat /\ i >= end - Limit /\ i < end /\ i % Limit \in 0..(Limit - 1)
    BY <1>2, <1>5, ModRange
  <2>2. ASSUME NEW j \in newest(i % Limit) PROVE j = i
    <3>1. j \in o.end..(end - 1) /\ j >= end - Limit /\ j % Limit = i % Limit
      OBVIOUS
    <3>2. j \in Nat /\ j - i < Limit /\ i - j < Limit
      <4> HIDE DEF end
      <4> QED
        BY <1>1, <1>2, <2>1, <3>1
    <3> QED
      <4>1. i \in Nat /\ j \in Nat /\ (i <= j \/ j <= i)
        BY <2>1, <3>2
      <4> QED
        BY <3>1, <3>2, <4>1, SameSlot
  <2>3. CASE i >= o.end
    <3>1. i \in newest(i % Limit)
      BY <1>1, <1>2, <2>1, <2>3
    <3>2. (CHOOSE j \in newest(i % Limit) : TRUE) \in newest(i % Limit)
      BY <3>1
    <3> QED
      BY <2>1, <2>2, <3>1, <3>2
  <2>4. CASE ~(i >= o.end)
    <3> HIDE DEF ring, a
    <3>0. i < o.end
      <4> HIDE DEF start, end, newest
      <4> QED
        BY <1>1, <2>1, <2>4
    <3>1. newest(i % Limit) = {}
      BY <1>1, <2>2, <3>0
    <3>2. o.start <= i
      <4>1. o.start = IF o.end > Limit THEN o.end - Limit ELSE 0
        BY DEF RingHolds
      <4>2. i >= end - Limit /\ o.end <= end /\ i \in Nat /\ end \in Nat
        BY <1>2, <2>1
      <4> HIDE DEF newest, start, end
      <4> QED
        BY <1>1, <4>1, <4>2
    <3> QED
      <4>1. i \in o.start..(o.end - 1)
        <5> HIDE DEF newest, start, end
        <5> QED
          BY <1>1, <2>1, <3>0, <3>2
      <4>2. o.ring[i % Limit] = i
        BY <4>1 DEF RingHolds
      <4>3. ring[i % Limit] = o.ring[i % Limit]
        <5> HIDE DEF newest
        <5> QED
          BY <2>1, <3>1 DEF ring
      <4> QED
        BY <4>2, <4>3
  <2> QED
    BY <2>3, <2>4
<1>7. a \in Output
  <2>1. ring \in [0..(Limit - 1) -> Int]
    BY <1>3
  <2> HIDE DEF a, ring, start, end
  <2> QED
    BY <1>1, <1>2, <1>4, <2>1 DEF Output
<1>8. RingHolds(a)
  <2> HIDE DEF a, ring, start, end
  <2> QED
    BY <1>4, <1>5, <1>6 DEF RingHolds
<1>9. a.end = end /\ a.start = start /\ a.exited = o.exited
  <2> HIDE DEF a, ring, start, end
  <2> QED
    BY <1>4
<1>10. start >= o.start
  <2>1. o.start = IF o.end > Limit THEN o.end - Limit ELSE 0
    BY DEF RingHolds
  <2> HIDE DEF start
  <2> QED
    BY <1>1, <1>2, <1>5, <2>1
<1> QED
  BY <1>7, <1>8, <1>9, <1>10

\* What is copied out of the ring is the output between the two positions.
LEMMA RangeIsOutput ==
  ASSUME NEW o \in Output, RingHolds(o), NEW from \in Nat, NEW to \in Nat,
         o.start <= from, to <= o.end
  PROVE  rangeBytes(o, from, to) = [k \in 1..(to - from) |-> from + k - 1]
<1>1. ASSUME NEW k \in 1..(to - from)
      PROVE  o.ring[(from + k - 1) % Limit] = from + k - 1
  BY DEF RingHolds, Output
<1> QED
  BY <1>1 DEF rangeBytes

\* A snapshot has the newest bytes of the output, and exited tells of all of it.
LEMMA SnapshotIsNewest ==
  ASSUME NEW o \in Output, NEW oldest \in 0..o.end, NEW a, a = snapshot(o, oldest)
  PROVE  /\ a \in Answer
         /\ a.snapshot
         /\ a.sequence = o.end
         /\ a.data = Piece(oldest, o.end)
         /\ a.exited = o.exited
<1>1. o.end \in Nat /\ o.exited \in BOOLEAN
  BY DEF Output
<1>2. Piece(oldest, o.end) \in Seq(Nat)
  <2>1. o.end - oldest \in Nat /\ \A k \in 1..(o.end - oldest) : oldest + k - 1 \in Nat
    BY <1>1
  <2> QED
    BY <2>1 DEF Piece
<1> QED
  BY <1>1, <1>2 DEF snapshot, Answer

\* read goes on from where the reader is, or starts afresh with a snapshot.
LEMMA ReadContinues ==
  ASSUME NEW o \in Output, RingHolds(o), NEW s \in Nat, NEW oldest \in 0..o.end,
         NEW a, a = read(o, s, oldest)
  PROVE  /\ a \in Answer
         /\ a.sequence <= o.end
         /\ a.exited => o.exited /\ a.sequence = o.end
         /\ s <= o.end => s <= a.sequence
         /\ a.snapshot => s < o.start /\ a.sequence = o.end /\ a.data = Piece(oldest, o.end)
         /\ ~a.snapshot /\ s <= o.end => a.data = Piece(s, a.sequence)
<1>1. o.end \in Nat /\ o.start \in Nat /\ o.start <= o.end /\ o.exited \in BOOLEAN
  BY LimitAssumption DEF Output, RingHolds
<1>2. CASE s < o.start
  <2>1. a = snapshot(o, oldest)
    BY <1>2 DEF read
  <2> QED
    BY <1>1, <1>2, <2>1, SnapshotIsNewest
<1>3. CASE s >= o.start
  <2> DEFINE from == IF s > o.end THEN o.end ELSE s
             to == IF from + Chunk > o.end THEN o.end ELSE from + Chunk
  <2>1. from \in Nat /\ to \in Nat /\ o.start <= from /\ from <= to /\ to <= o.end
    BY <1>1, <1>3, ChunkAssumption
  <2>2. a = [snapshot |-> FALSE, data |-> rangeBytes(o, from, to),
             sequence |-> to, exited |-> o.exited /\ to = o.end]
    BY <1>1, <1>3 DEF read
  <2>3. rangeBytes(o, from, to) = [k \in 1..(to - from) |-> from + k - 1]
    BY <2>1, RangeIsOutput
  <2>4. rangeBytes(o, from, to) \in Seq(Nat)
    <3>1. \A k \in 1..(to - from) : from + k - 1 \in Nat
      BY <2>1
    <3> HIDE DEF from, to
    <3> QED
      BY <2>1, <2>3, <3>1
  <2> HIDE DEF to
  <2>5. a \in Answer
    BY <1>1, <2>1, <2>2, <2>4 DEF Answer
  <2>6. s <= o.end => from = s
    BY <1>1
  <2> HIDE DEF from
  <2>7. a.sequence = to /\ ~a.snapshot /\ a.exited = (o.exited /\ to = o.end)
    BY <2>2
  <2>8. s <= o.end => a.data = Piece(s, to)
    BY <2>2, <2>3, <2>6 DEF Piece
  <2>9. s <= o.end => s <= to
    BY <2>1, <2>6
  <2> QED
    BY <1>1, <2>1, <2>5, <2>7, <2>8, <2>9
<1>4. s < o.start \/ s >= o.start
  BY <1>1
<1> QED
  BY <1>2, <1>3, <1>4

-----------------------------------------------------------------------------
(* The invariant, action by action *)

\* A new launch and an exit leave the ring as a reader expects it.
LEMMA OtherBuffersHold ==
  /\ newOutput \in Output /\ RingHolds(newOutput)
  /\ \A o \in Output :
       /\ exit(o) \in Output
       /\ exit(o).end = o.end /\ exit(o).start = o.start
       /\ exit(o).exited
       /\ RingHolds(o) => RingHolds(exit(o))
<1>1. newOutput \in Output
  <2>1. [k \in 0..(Limit - 1) |-> -1] \in [0..(Limit - 1) -> Int]
    OBVIOUS
  <2> QED
    BY <2>1 DEF newOutput, Output
<1>2. RingHolds(newOutput)
  BY LimitAssumption DEF newOutput, RingHolds
<1>3. ASSUME NEW o \in Output
      PROVE  /\ exit(o) \in Output
             /\ exit(o).end = o.end /\ exit(o).start = o.start
             /\ exit(o).exited
             /\ RingHolds(o) => RingHolds(exit(o))
  BY DEF exit, Output, RingHolds
<1> QED
  BY <1>1, <1>2, <1>3

\* Nothing but a snapshot and a read of the buffer is ever answered.
LEMMA NothingIsAnswer ==
  ASSUME NEW s \in Nat
  PROVE  Nothing(s) \in Answer
BY DEF Nothing, Answer

\* The invariant about views survives a step of the pane that adds to the
\* current buffer, ends its shell, or puts another launch or none in its place.
LEMMA PaneStepKeepsViews ==
  ASSUME IInv, TypeOK', UNCHANGED <<mounted, callVars, screenVars, appVars>>,
         \/ cur' \notin 1..launches
         \/ /\ cur' = cur
            /\ cur # 0 =>
                 /\ out'[cur].end >= out[cur].end /\ out'[cur].start >= out[cur].start
                 /\ out[cur].exited => out'[cur].exited
                 /\ cur \notin alive => cur \notin alive' /\ out'[cur].end = out[cur].end
  PROVE  /\ HeldExists' /\ HeldIsNewer' /\ DetachedAreDisposed'
         /\ AnswerContinues' /\ ViewShowsOutput' /\ ExitIsShownLast'
<1> USE DEF IInv, ScreenInv, callVars, screenVars, appVars
<1>1. HeldExists' /\ HeldIsNewer' /\ DetachedAreDisposed'
  BY DEF HeldExists, HeldIsNewer, DetachedAreDisposed
<1>2. CASE cur' \notin 1..launches
  <2>1. \A v \in View : ~Follows(v)'
    BY <1>2 DEF Follows, TypeOK
  <2>2. \A v \in View : held'[v] # cur' \/ cur' = 0
    BY <1>2 DEF TypeOK
  <2> QED
    BY <1>1, <2>1, <2>2 DEF AnswerContinues, Continues, Overtaken, ViewShowsOutput, ExitIsShownLast
<1>3. CASE /\ cur' = cur
           /\ cur # 0 =>
                /\ out'[cur].end >= out[cur].end /\ out'[cur].start >= out[cur].start
                /\ out[cur].exited => out'[cur].exited
                /\ cur \notin alive => cur \notin alive' /\ out'[cur].end = out[cur].end
  <2>1. \A v \in View : Follows(v)' = Follows(v) /\ (Follows(v) => cur # 0)
    BY <1>3 DEF Follows
  <2>2. cur # 0 => /\ out[cur].end \in Nat /\ out'[cur].end \in Nat
                   /\ out[cur].start \in Nat /\ out'[cur].start \in Nat
                   /\ out[cur].exited \in BOOLEAN
                   /\ out[cur].exited => cur \notin alive
    BY <1>3 DEF TypeOK, Launch, Output, CurrentIsNewest
  <2>3. ViewShowsOutput'
    <3> SUFFICES ASSUME NEW v \in View, Follows(v)'
                 PROVE  /\ sequence[v] <= out'[cur].end
                        /\ \E oldest \in 0..sequence[v] : shown = Screen(cur, oldest, sequence[v])
      BY <1>3 DEF ViewShowsOutput
    <3>1. sequence[v] \in Nat /\ cur # 0
      BY <2>1 DEF TypeOK
    <3>2. /\ sequence[v] <= out[cur].end
          /\ \E oldest \in 0..sequence[v] : shown = Screen(cur, oldest, sequence[v])
      BY <2>1 DEF ViewShowsOutput
    <3> QED
      BY <1>3, <2>2, <3>1, <3>2
  <2>4. ExitIsShownLast'
    BY <1>3, <2>1, <2>2 DEF ExitIsShownLast
  <2>5. AnswerContinues'
    <3> SUFFICES ASSUME NEW v \in View, mounted = v, pc[v] = "answered",
                        held[v] = cur, cur # 0, answer[v].snapshot \/ of = cur
                 PROVE  Continues(v, answer[v])'
      BY <1>3 DEF AnswerContinues, Continues, Overtaken
    <3>1. Continues(v, answer[v])
      BY DEF AnswerContinues
    <3>2. answer[v].sequence \in Nat /\ sequence[v] \in Nat
      BY DEF TypeOK, Answer
    <3> QED
      BY <1>3, <2>2, <3>1, <3>2 DEF Continues, Overtaken
  <2> QED
    BY <1>1, <2>3, <2>4, <2>5
<1> QED
  BY <1>2, <1>3

\* Output is added to a launch that has not ended, so exited stays unset.
LEMMA WriteKeepsScreen ==
  ASSUME IInv, NEW l \in Launch, NEW n \in 1..MaxBytes, Write(l, n)
  PROVE  ScreenInv'
<1> USE DEF IInv, ScreenInv, Launch
<1>1. /\ out[l] \in Output /\ RingHolds(out[l]) /\ n \in Nat
      /\ \A m \in Launch : out[m] \in Output /\ out[m].end \in Nat /\ out[m].start \in Nat
  BY BoundsAssumption DEF TypeOK, BuffersHold, Output
<1>2. /\ append(out[l], n) \in Output
      /\ RingHolds(append(out[l], n))
      /\ append(out[l], n).end = out[l].end + n
      /\ append(out[l], n).start >= out[l].start
      /\ append(out[l], n).exited = out[l].exited
  BY <1>1, AppendHolds
<1>3. /\ out' = [out EXCEPT ![l] = append(out[l], n)]
      /\ l \in alive
      /\ UNCHANGED <<launches, cur, alive, status, known, mounted, callVars, screenVars, appVars>>
  BY DEF Write
<1> USE DEF callVars, screenVars, appVars
<1>4. TypeOK'
  BY <1>2, <1>3 DEF TypeOK
<1>5. BuffersHold'
  BY <1>2, <1>3 DEF BuffersHold, TypeOK
<1>6. CurrentIsNewest'
  BY <1>1, <1>2, <1>3 DEF CurrentIsNewest, TypeOK
<1>7. cur # 0 => /\ out'[cur].end >= out[cur].end
                 /\ out'[cur].start >= out[cur].start
                 /\ out'[cur].exited = out[cur].exited
                 /\ cur \notin alive => out'[cur].end = out[cur].end
  <2>1. CASE cur = l
    BY <1>1, <1>2, <1>3, <2>1 DEF TypeOK
  <2>2. CASE cur # l /\ cur # 0
    <3>1. cur \in Launch /\ out'[cur] = out[cur]
      BY <1>1, <1>3, <2>2, BoundsAssumption DEF TypeOK
    <3> QED
      BY <1>1, <2>2, <3>1
  <2> QED
    BY <2>1, <2>2
<1> QED
  BY <1>3, <1>4, <1>5, <1>6, <1>7, PaneStepKeepsViews

\* A launch that ends is marked as exited and writes nothing any more.
LEMMA ShellEndsKeepsScreen ==
  ASSUME IInv, NEW l \in Launch, ShellEnds(l)
  PROVE  ScreenInv'
<1> USE DEF IInv, ScreenInv, Launch
<1>1. /\ out[l] \in Output /\ RingHolds(out[l])
      /\ \A m \in Launch : out[m].end \in Nat /\ out[m].start \in Nat
  BY DEF TypeOK, BuffersHold, Output
<1>2. /\ exit(out[l]) \in Output /\ RingHolds(exit(out[l]))
      /\ exit(out[l]).end = out[l].end /\ exit(out[l]).start = out[l].start
      /\ exit(out[l]).exited
  BY <1>1, OtherBuffersHold
<1>3. /\ out' = [out EXCEPT ![l] = exit(out[l])]
      /\ alive' = alive \ {l}
      /\ UNCHANGED <<launches, cur, status, known, mounted, callVars, screenVars, appVars>>
  BY DEF ShellEnds
<1> USE DEF callVars, screenVars, appVars
<1>4. TypeOK'
  BY <1>2, <1>3 DEF TypeOK
<1>5. BuffersHold'
  BY <1>2, <1>3 DEF BuffersHold, TypeOK
<1>6. CurrentIsNewest'
  BY <1>2, <1>3 DEF CurrentIsNewest, TypeOK
<1>7. cur # 0 => /\ out'[cur].end = out[cur].end /\ out'[cur].start = out[cur].start
                 /\ out[cur].exited => out'[cur].exited
  <2>1. CASE cur = l
    BY <1>2, <1>3, <2>1 DEF TypeOK
  <2>2. CASE cur # l /\ cur # 0
    BY <1>3, <2>2, BoundsAssumption DEF TypeOK
  <2> QED
    BY <2>1, <2>2
<1>8. cur # 0 => out[cur].end \in Nat /\ out[cur].start \in Nat
  BY <1>1, BoundsAssumption DEF TypeOK
<1> QED
  BY <1>3, <1>4, <1>5, <1>6, <1>7, <1>8, PaneStepKeepsViews

\* OnExit and agent.stop touch only the status of the pane.
LEMMA StatusKeepsScreen ==
  ASSUME IInv, RemovePane \/ StopAgent
  PROVE  ScreenInv'
<1> USE DEF IInv, ScreenInv, Launch, callVars, screenVars, appVars
<1>1. /\ status' \in {"gone", "stopped"} /\ status = "running"
      /\ UNCHANGED <<out, launches, cur, alive, known, mounted, callVars, screenVars, appVars>>
  BY DEF RemovePane, StopAgent
<1>2. TypeOK'
  BY <1>1 DEF TypeOK
<1>3. BuffersHold' /\ CurrentIsNewest'
  BY <1>1 DEF BuffersHold, CurrentIsNewest
<1>4. cur # 0 => out[cur].end \in Nat /\ out[cur].start \in Nat
  BY BoundsAssumption DEF TypeOK, Output
<1> QED
  BY <1>1, <1>2, <1>3, <1>4, PaneStepKeepsViews

\* No view has attached to a new launch, and no call holds its buffer.
LEMMA RestartPaneKeepsScreen ==
  ASSUME IInv, RestartPane
  PROVE  ScreenInv'
<1> USE DEF IInv, ScreenInv, Launch, callVars, screenVars, appVars
<1>1. /\ launches < MaxLaunch
      /\ launches' = launches + 1
      /\ cur' = launches + 1
      /\ alive' = alive \cup {launches + 1}
      /\ out' = [out EXCEPT ![launches + 1] = newOutput]
      /\ status' = "running"
      /\ UNCHANGED <<known, mounted, callVars, screenVars, appVars>>
  BY DEF RestartPane
<1>2. /\ launches \in 1..MaxLaunch /\ launches + 1 \in 1..MaxLaunch
      /\ newOutput \in Output /\ RingHolds(newOutput) /\ ~newOutput.exited
  BY <1>1, BoundsAssumption, OtherBuffersHold DEF TypeOK, newOutput
<1>3. TypeOK'
  <2>1. 1..launches \subseteq 1..launches' /\ 0..launches \subseteq 0..launches'
    BY <1>1, <1>2
  <2>2. out' \in [Launch -> Output] /\ alive' \in SUBSET (1..launches')
    BY <1>1, <1>2, <2>1 DEF TypeOK
  <2> QED
    BY <1>1, <1>2, <2>1, <2>2 DEF TypeOK
<1>4. BuffersHold'
  BY <1>1, <1>2 DEF BuffersHold, TypeOK
<1>5. CurrentIsNewest'
  BY <1>1, <1>2 DEF CurrentIsNewest, TypeOK
<1>6. cur' \notin 1..launches
  BY <1>1, <1>2
<1> QED
  BY <1>1, <1>3, <1>4, <1>5, <1>6, PaneStepKeepsViews

\* Without a current buffer no view follows the pane.
LEMMA DropOutputKeepsScreen ==
  ASSUME IInv, DropOutput
  PROVE  ScreenInv'
<1> USE DEF IInv, ScreenInv, Launch, callVars, screenVars, appVars
<1>1. /\ cur # 0 /\ cur' = 0 /\ status' = "gone"
      /\ out' = [out EXCEPT ![cur] = exit(out[cur])]
      /\ UNCHANGED <<launches, alive, known, mounted, callVars, screenVars, appVars>>
  BY DEF DropOutput
<1>2. cur \in Launch /\ out[cur] \in Output /\ RingHolds(out[cur])
  BY <1>1, BoundsAssumption DEF TypeOK, BuffersHold
<1>3. exit(out[cur]) \in Output /\ RingHolds(exit(out[cur]))
  BY <1>2, OtherBuffersHold
<1>4. TypeOK'
  <2>1. 0 \in 0..launches
    BY BoundsAssumption DEF TypeOK
  <2> QED
    BY <1>1, <1>3, <2>1 DEF TypeOK
<1>5. BuffersHold' /\ CurrentIsNewest'
  BY <1>1, <1>2, <1>3 DEF BuffersHold, CurrentIsNewest, TypeOK
<1> QED
  BY <1>1, <1>4, <1>5, PaneStepKeepsViews

\* A new view has an empty screen and no call; the old one is detached.
LEMMA MountKeepsScreen ==
  ASSUME IInv, NEW v \in View, Free(v), Mount(v), UNCHANGED paneVars,
         known' \in -1..MaxLaunch,
         detaching' \in SUBSET View, detaching' \subseteq detaching \cup {mounted}
  PROVE  ScreenInv'
<1> USE DEF IInv, ScreenInv, Launch, paneVars
<1>1. /\ mounted' = v /\ shown' = <<>> /\ of' = 0 /\ finished' = FALSE
      /\ pc' = [pc EXCEPT ![v] = "loop"]
      /\ sequence' = [sequence EXCEPT ![v] = 0]
      /\ UNCHANGED <<method, held, answer, streams, cancelled>>
  BY DEF Mount, EmptyScreen
<1>2. v # mounted /\ pc[v] = "idle" /\ v \notin detaching
  BY DEF Free
<1>3. TypeOK'
  <2>1. 0 \in 0..launches /\ <<>> \in Seq(Launch \X Nat)
    BY BoundsAssumption DEF TypeOK
  <2> QED
    BY <1>1, <2>1 DEF TypeOK
<1>4. BuffersHold' /\ CurrentIsNewest'
  BY DEF BuffersHold, CurrentIsNewest
<1>5. pc'[v] = "loop" /\ \A w \in View : w # v => pc'[w] = pc[w]
  BY <1>1 DEF TypeOK
<1>6. HeldExists' /\ HeldIsNewer' /\ AnswerContinues'
  BY <1>1, <1>5 DEF HeldExists, HeldIsNewer, AnswerContinues, Continues, Overtaken
<1>7. DetachedAreDisposed'
  BY <1>1, <1>2, <1>5 DEF DetachedAreDisposed, TypeOK
<1>8. ViewShowsOutput' /\ ExitIsShownLast'
  BY <1>1 DEF ViewShowsOutput, ExitIsShownLast, Follows
<1> QED
  BY <1>3, <1>4, <1>6, <1>7, <1>8

\* Without a view on the screen there is nothing to keep.
LEMMA NoMountKeepsScreen ==
  ASSUME IInv, NoMount, UNCHANGED paneVars,
         known' \in -1..MaxLaunch,
         detaching' \in SUBSET View, detaching' \subseteq detaching \cup {mounted}
  PROVE  ScreenInv'
<1> USE DEF IInv, ScreenInv, Launch, paneVars, callVars
<1>1. /\ mounted' = None /\ shown' = <<>> /\ of' = 0 /\ finished' = FALSE
      /\ UNCHANGED <<callVars, streams, cancelled>>
  BY DEF NoMount, EmptyScreen
<1>2. \A v \in View : mounted' # v
  BY <1>1, ViewAssumption
<1>3. TypeOK'
  <2>1. 0 \in 0..launches /\ <<>> \in Seq(Launch \X Nat)
    BY BoundsAssumption DEF TypeOK
  <2> QED
    BY <1>1, <2>1 DEF TypeOK
<1>4. BuffersHold' /\ CurrentIsNewest'
  BY DEF BuffersHold, CurrentIsNewest
<1>5. HeldExists' /\ HeldIsNewer' /\ AnswerContinues'
  BY <1>1, <1>2 DEF HeldExists, HeldIsNewer, AnswerContinues, Continues, Overtaken
<1>6. DetachedAreDisposed'
  BY <1>1, <1>2 DEF DetachedAreDisposed, TypeOK
<1>7. ViewShowsOutput' /\ ExitIsShownLast'
  BY <1>2 DEF ViewShowsOutput, ExitIsShownLast, Follows
<1> QED
  BY <1>3, <1>4, <1>5, <1>6, <1>7

\* Refresh, Show and Hide mount a free view, or none.
LEMMA WindowKeepsScreen ==
  ASSUME IInv, Refresh \/ Show \/ Hide
  PROVE  ScreenInv'
<1>1. known \in -1..MaxLaunch /\ Key \in -1..MaxLaunch
  <2>1. status \in {"running", "stopped", "gone"} /\ cur \in 0..launches
    BY DEF IInv, ScreenInv, TypeOK
  <2>2. launches \in 1..MaxLaunch
    BY DEF IInv, ScreenInv, TypeOK, Launch
  <2> QED
    BY <2>1, <2>2, BoundsAssumption DEF Key, IInv, ScreenInv, TypeOK
<1>2. detaching \in SUBSET View /\ mounted \in View \cup {None}
  BY DEF IInv, ScreenInv, TypeOK
<1>3. CASE Refresh
  <2>1. /\ known' = Key /\ UNCHANGED paneVars
        /\ detaching' = detaching \cup ({mounted} \ {None})
        /\ \/ \E v \in View : Free(v) /\ Mount(v)
           \/ NoMount
    BY <1>3 DEF Refresh
  <2> QED
    BY <1>1, <1>2, <2>1, MountKeepsScreen, NoMountKeepsScreen
<1>4. CASE Show
  <2>1. /\ UNCHANGED <<paneVars, known, detaching>>
        /\ \E v \in View : Free(v) /\ Mount(v)
    BY <1>4 DEF Show
  <2> QED
    BY <1>1, <1>2, <2>1, MountKeepsScreen
<1>5. CASE Hide
  <2>1. /\ UNCHANGED <<paneVars, known>>
        /\ mounted # None /\ detaching' = detaching \cup {mounted}
        /\ NoMount
    BY <1>5 DEF Hide
  <2> QED
    BY <1>1, <1>2, <2>1, NoMountKeepsScreen
<1> QED
  BY <1>3, <1>4, <1>5

\* A call that ends without writing belongs to a view that is not on the
\* screen, or to a pane that has no output any more.
LEMMA QuietEndKeepsScreen ==
  ASSUME IInv, NEW v \in View, EndCall(v, "idle"),
         sequence' = [sequence EXCEPT ![v] = 0],
         v # mounted \/ cur = 0,
         streams' \in SUBSET View, cancelled' \in SUBSET cancelled, v \notin cancelled',
         UNCHANGED <<paneVars, known, mounted, screenVars, detaching>>
  PROVE  ScreenInv'
<1> USE DEF IInv, ScreenInv, Launch, paneVars, screenVars
<1>1. /\ pc' = [pc EXCEPT ![v] = "idle"]
      /\ method' = [method EXCEPT ![v] = "attach"]
      /\ held' = [held EXCEPT ![v] = 0]
      /\ answer' = [answer EXCEPT ![v] = Nothing(0)]
  BY DEF EndCall
<1>2. TypeOK'
  <2>1. 0 \in 0..launches /\ Nothing(0) \in Answer
    BY BoundsAssumption, NothingIsAnswer DEF TypeOK
  <2> QED
    BY <1>1, <2>1 DEF TypeOK
<1>3. BuffersHold' /\ CurrentIsNewest'
  BY DEF BuffersHold, CurrentIsNewest
<1>4. /\ pc'[v] = "idle"
      /\ \A w \in View : w # v => /\ pc'[w] = pc[w] /\ held'[w] = held[w]
                                /\ answer'[w] = answer[w] /\ sequence'[w] = sequence[w]
  BY <1>1 DEF TypeOK
<1>5. HeldExists' /\ HeldIsNewer'
  BY <1>4 DEF HeldExists, HeldIsNewer
<1>6. AnswerContinues'
  BY <1>4 DEF AnswerContinues, Continues, Overtaken
<1>7. DetachedAreDisposed'
  BY <1>4 DEF DetachedAreDisposed, TypeOK
<1>8. ViewShowsOutput' /\ ExitIsShownLast'
  BY <1>4 DEF ViewShowsOutput, ExitIsShownLast, Follows
<1> QED
  BY <1>2, <1>3, <1>5, <1>6, <1>7, <1>8

\* The loop of a disposed view ends.
LEMMA LeaveLoopKeepsScreen ==
  ASSUME IInv, NEW v \in View, LeaveLoop(v), v # mounted,
         cancelled' \in SUBSET cancelled, v \notin cancelled',
         UNCHANGED <<paneVars, known, mounted, detaching>>
  PROVE  ScreenInv'
<1>1. streams' \in SUBSET View
  BY DEF LeaveLoop, IInv, ScreenInv, TypeOK
<1> QED
  BY <1>1, QuietEndKeepsScreen DEF LeaveLoop

\* A call that has not been answered leaves the screen and what it continues.
LEMMA CallKeepsScreen ==
  ASSUME IInv, NEW v \in View, NEW p \in {"called", "waiting"},
         v \notin cancelled,
         pc' = [pc EXCEPT ![v] = p],
         \/ p = "called" /\ held' = held
         \/ p = "waiting" /\ cur # 0 /\ held' = [held EXCEPT ![v] = cur],
         method' \in [View -> {"attach", "read"}], streams' \in SUBSET View,
         UNCHANGED <<paneVars, known, mounted, answer, sequence, screenVars,
                     cancelled, detaching>>
  PROVE  ScreenInv'
<1> USE DEF IInv, ScreenInv, Launch, paneVars, screenVars
<1>1. TypeOK'
  <2>1. held' \in [View -> 0..launches]
    BY DEF TypeOK
  <2>2. pc' \in [View -> {"idle", "loop", "called", "waiting", "answered"}]
    BY DEF TypeOK
  <2> QED
    BY <2>1, <2>2 DEF TypeOK
<1>2. BuffersHold' /\ CurrentIsNewest'
  BY DEF BuffersHold, CurrentIsNewest
<1>3. pc'[v] = p /\ \A w \in View : w # v => pc'[w] = pc[w] /\ held'[w] = held[w]
  BY DEF TypeOK
<1>4. HeldExists'
  BY <1>3 DEF HeldExists, TypeOK
<1>5. HeldIsNewer'
  <2>1. cur # 0 => of <= cur
    BY BoundsAssumption DEF CurrentIsNewest, TypeOK
  <2> QED
    BY <1>3, <2>1 DEF HeldIsNewer, TypeOK
<1>6. AnswerContinues'
  BY <1>3 DEF AnswerContinues, Continues, Overtaken
<1>7. DetachedAreDisposed'
  BY <1>3 DEF DetachedAreDisposed, TypeOK
<1>8. ViewShowsOutput' /\ ExitIsShownLast'
  BY DEF ViewShowsOutput, ExitIsShownLast, Follows
<1> QED
  BY <1>1, <1>2, <1>4, <1>5, <1>6, <1>7, <1>8

\* An answer that continues the screen may be given.
LEMMA AnswerKeepsScreen ==
  ASSUME IInv, NEW v \in View, NEW a \in Answer,
         pc[v] = "waiting", v \notin cancelled,
         pc' = [pc EXCEPT ![v] = "answered"],
         answer' = [answer EXCEPT ![v] = a],
         mounted = v => Continues(v, a),
         UNCHANGED <<paneVars, known, mounted, method, held, sequence, screenVars, appVars>>
  PROVE  ScreenInv'
<1> USE DEF IInv, ScreenInv, Launch, paneVars, screenVars, appVars
<1>1. TypeOK'
  BY DEF TypeOK
<1>2. BuffersHold' /\ CurrentIsNewest'
  BY DEF BuffersHold, CurrentIsNewest
<1>3. /\ pc'[v] = "answered" /\ answer'[v] = a
      /\ \A w \in View : w # v => pc'[w] = pc[w] /\ answer'[w] = answer[w]
  BY DEF TypeOK
<1>4. HeldExists' /\ HeldIsNewer'
  BY <1>3 DEF HeldExists, HeldIsNewer
<1>5. AnswerContinues'
  <2>1. ASSUME NEW w \in View, mounted = w, pc'[w] = "answered"
        PROVE  Continues(w, answer'[w])
    BY <1>3, <2>1 DEF AnswerContinues
  <2> QED
    BY <2>1 DEF AnswerContinues, Continues, Overtaken
<1>6. DetachedAreDisposed'
  BY <1>3 DEF DetachedAreDisposed, TypeOK
<1>7. ViewShowsOutput' /\ ExitIsShownLast'
  BY DEF ViewShowsOutput, ExitIsShownLast, Follows
<1> QED
  BY <1>1, <1>2, <1>4, <1>5, <1>6, <1>7

\* What a call finds in the buffer it holds continues the screen.
LEMMA ReturnOutputKeepsScreen ==
  ASSUME IInv, NEW v \in View, ReturnOutput(v)
  PROVE  ScreenInv'
<1> DEFINE o == out[held[v]]
<1>0. PICK oldest \in 0..o.end :
        \/ method[v] = "attach" /\ answer' = [answer EXCEPT ![v] = snapshot(o, oldest)]
        \/ answer' = [answer EXCEPT ![v] = read(o, sequence[v], oldest)]
  BY DEF ReturnOutput
<1>1. /\ pc[v] = "waiting" /\ v \notin cancelled
      /\ pc' = [pc EXCEPT ![v] = "answered"]
      /\ UNCHANGED <<paneVars, known, mounted, method, held, sequence, screenVars, appVars>>
  BY DEF ReturnOutput
<1>2. o \in Output /\ RingHolds(o) /\ o.end \in Nat /\ sequence[v] \in Nat
  <2>1. held[v] \in Launch
    BY <1>1, BoundsAssumption DEF IInv, ScreenInv, TypeOK, HeldExists, Launch
  <2> QED
    BY <2>1 DEF IInv, ScreenInv, TypeOK, BuffersHold, Output
<1>3. mounted = v /\ of = cur /\ cur # 0 => sequence[v] <= out[cur].end
  BY DEF IInv, ScreenInv, ViewShowsOutput, Follows
<1>4. CASE method[v] = "attach" /\ answer' = [answer EXCEPT ![v] = snapshot(o, oldest)]
  <2> DEFINE a == snapshot(o, oldest)
  <2> HIDE DEF o, a
  <2>1. /\ a \in Answer /\ a.snapshot
        /\ a.sequence = o.end
        /\ a.data = Piece(oldest, o.end)
        /\ a.exited = o.exited
    BY <1>0, <1>2, SnapshotIsNewest, Zenon DEF a
  <2>2. held[v] = cur => out[cur] = o
    BY DEF o
  <2>3. mounted = v => of = 0
    BY <1>1, <1>4 DEF IInv, Registered
  <2>4. answer' = [answer EXCEPT ![v] = a]
    BY <1>4 DEF a
  <2>5. mounted = v => Continues(v, a)
    BY <1>0, <1>2, <2>1, <2>2, <2>3 DEF Continues
  <2> QED
    BY <1>1, <2>1, <2>4, <2>5, AnswerKeepsScreen
<1>5. CASE answer' = [answer EXCEPT ![v] = read(o, sequence[v], oldest)]
  <2> DEFINE a == read(o, sequence[v], oldest)
  <2> HIDE DEF o, a
  <2>1. /\ a \in Answer
        /\ a.sequence <= o.end
        /\ a.exited => o.exited /\ a.sequence = o.end
        /\ sequence[v] <= o.end => sequence[v] <= a.sequence
        /\ a.snapshot => /\ sequence[v] < o.start
                         /\ a.sequence = o.end
                         /\ a.data = Piece(oldest, o.end)
        /\ ~a.snapshot /\ sequence[v] <= o.end => a.data = Piece(sequence[v], a.sequence)
    <3>1. a = read(o, sequence[v], oldest)
      BY DEF a
    <3> QED
      BY <1>0, <1>2, <3>1, ReadContinues
  <2>2. held[v] = cur => out[cur] = o
    BY DEF o
  <2>3. answer' = [answer EXCEPT ![v] = a]
    BY <1>5 DEF a
  <2>4. mounted = v => Continues(v, a)
    BY <1>0, <1>2, <1>3, <2>1, <2>2 DEF Continues, Overtaken
  <2> QED
    BY <1>1, <2>1, <2>3, <2>4, AnswerKeepsScreen
<1> QED
  BY <1>0, <1>4, <1>5

\* A read that times out repeats the sequence and adds nothing.
LEMMA ReadTimesOutKeepsScreen ==
  ASSUME IInv, NEW v \in View, ReadTimesOut(v)
  PROVE  ScreenInv'
<1> DEFINE a == Nothing(sequence[v])
<1>1. /\ pc[v] = "waiting" /\ v \notin cancelled
      /\ answer' = [answer EXCEPT ![v] = a]
      /\ pc' = [pc EXCEPT ![v] = "answered"]
      /\ UNCHANGED <<paneVars, known, mounted, method, held, sequence, screenVars, appVars>>
  BY DEF ReadTimesOut
<1>2. sequence[v] \in Nat
  BY DEF IInv, ScreenInv, TypeOK
<1>3. mounted = v /\ of = cur /\ cur # 0 => sequence[v] <= out[cur].end
  BY DEF IInv, ScreenInv, ViewShowsOutput, Follows
<1>4. /\ a \in Answer /\ ~a.snapshot /\ ~a.exited /\ a.sequence = sequence[v]
      /\ a.data = Piece(sequence[v], a.sequence)
  <2>1. 1..(sequence[v] - sequence[v]) = {}
    BY <1>2
  <2>2. <<>> = [k \in 1..(sequence[v] - sequence[v]) |-> sequence[v] + k - 1]
    BY <2>1
  <2> QED
    BY <1>2, <2>2, NothingIsAnswer DEF Nothing, Piece
<1> HIDE DEF a
<1>5. mounted = v => Continues(v, a)
  BY <1>2, <1>3, <1>4 DEF Continues, Overtaken
<1> QED
  BY <1>1, <1>4, <1>5, AnswerKeepsScreen

\* One lemma for the steps of a loop that neither return nor write anything.
LEMMA CallsKeepScreen ==
  ASSUME IInv, NEW v \in View,
         CallReadOutput(v) \/ FindOutput(v) \/ OutputNotFound(v) \/ ReadDetached(v)
  PROVE  ScreenInv'
<1> USE DEF IInv, ScreenInv
<1>1. /\ v \in cancelled => v # mounted /\ pc[v] = "waiting"
      /\ streams \in SUBSET View /\ method \in [View -> {"attach", "read"}]
  BY DEF TypeOK, DetachedAreDisposed
<1>2. CASE CallReadOutput(v) /\ v = mounted
  <2>1. /\ pc[v] = "loop" /\ pc' = [pc EXCEPT ![v] = "called"]
        /\ UNCHANGED <<paneVars, known, mounted, method, held, answer, sequence,
                       screenVars, streams, cancelled, detaching>>
    BY <1>2 DEF CallReadOutput
  <2> QED
    BY <1>1, <2>1, CallKeepsScreen
<1>3. CASE CallReadOutput(v) /\ v # mounted
  <2>1. /\ pc[v] = "loop" /\ LeaveLoop(v)
        /\ UNCHANGED <<paneVars, known, mounted, cancelled, detaching>>
    BY <1>3 DEF CallReadOutput
  <2> QED
    BY <1>1, <1>3, <2>1, LeaveLoopKeepsScreen
<1>4. CASE FindOutput(v)
  <2>1. /\ pc[v] = "called" /\ cur # 0
        /\ held' = [held EXCEPT ![v] = cur] /\ pc' = [pc EXCEPT ![v] = "waiting"]
        /\ UNCHANGED <<paneVars, known, mounted, answer, sequence, screenVars,
                       cancelled, detaching>>
    BY <1>4 DEF FindOutput
  <2>2. streams' \in SUBSET View /\ method' \in [View -> {"attach", "read"}]
    BY <1>1, <1>4 DEF FindOutput, FindStream
  <2> QED
    BY <1>1, <2>1, <2>2, CallKeepsScreen
<1>5. CASE OutputNotFound(v)
  <2>1. /\ pc[v] = "called" /\ cur = 0 /\ EndCall(v, "idle")
        /\ sequence' = [sequence EXCEPT ![v] = 0]
        /\ streams' = streams \ {v}
        /\ UNCHANGED <<paneVars, known, mounted, screenVars, cancelled, detaching>>
    BY <1>5 DEF OutputNotFound
  <2> QED
    BY <1>1, <2>1, QuietEndKeepsScreen
<1>6. CASE ReadDetached(v)
  <2>1. /\ v \in cancelled /\ LeaveLoop(v) /\ cancelled' = cancelled \ {v}
        /\ UNCHANGED <<paneVars, known, mounted, detaching>>
    BY <1>6 DEF ReadDetached
  <2> QED
    BY <1>1, <2>1, LeaveLoopKeepsScreen
<1> QED
  BY <1>2, <1>3, <1>4, <1>5, <1>6

\* Detach touches only streams of views that are disposed of.
LEMMA DetachKeepsScreen ==
  ASSUME IInv, NEW v \in View, Detach(v)
  PROVE  ScreenInv'
<1> USE DEF IInv, ScreenInv, paneVars, callVars, screenVars
<1>1. /\ v \in detaching
      /\ detaching' = detaching \ {v} /\ streams' = streams \ {v}
      /\ cancelled' = IF v \in streams /\ pc[v] = "waiting"
                      THEN cancelled \cup {v} ELSE cancelled
      /\ UNCHANGED <<paneVars, known, mounted, callVars, screenVars>>
  BY DEF Detach
<1>2. TypeOK'
  BY <1>1 DEF TypeOK
<1>3. BuffersHold' /\ CurrentIsNewest' /\ HeldExists' /\ HeldIsNewer'
  BY <1>1 DEF BuffersHold, CurrentIsNewest, HeldExists, HeldIsNewer
<1>4. DetachedAreDisposed'
  BY <1>1 DEF DetachedAreDisposed
<1>5. AnswerContinues'
  BY <1>1 DEF AnswerContinues, Continues, Overtaken
<1>6. ViewShowsOutput' /\ ExitIsShownLast'
  BY <1>1 DEF ViewShowsOutput, ExitIsShownLast, Follows
<1> QED
  BY <1>2, <1>3, <1>4, <1>5, <1>6

\* A function on 1..n is a sequence of length n.
LEMMA FunctionIsSeq ==
  ASSUME NEW S, NEW n \in Nat, NEW t \in [1..n -> S]
  PROVE  t \in Seq(S) /\ Len(t) = n
OBVIOUS

\* A screen that shows the bytes from p to m, followed by the next n.
LEMMA ScreenExtends ==
  ASSUME NEW l, NEW p \in Nat, NEW m \in Nat, NEW n \in Nat, p <= m
  PROVE  Screen(l, p, m) \o [k \in 1..n |-> <<l, m + k - 1>>] = Screen(l, p, m + n)
<1> DEFINE t == [k \in 1..n |-> <<l, m + k - 1>>]
           f == [j \in Nat |-> <<l, j>>]
           S == {l} \X Nat
<1>1. f \in [Nat -> S]
  OBVIOUS
<1>2. ASSUME NEW i \in Nat, p <= i
      PROVE  /\ Screen(l, p, i) \in Seq(S) /\ Len(Screen(l, p, i)) = i - p
             /\ \A k \in 1..(i - p) : Screen(l, p, i)[k] = f[p + k - 1]
  <2>1. i - p \in Nat /\ \A k \in 1..(i - p) : p + k - 1 \in Nat /\ <<l, p + k - 1>> \in S
    BY <1>2
  <2>2. \A k \in 1..(i - p) : Screen(l, p, i)[k] = f[p + k - 1]
    BY <2>1 DEF Screen
  <2>3. Screen(l, p, i) \in [1..(i - p) -> S]
    BY <2>1 DEF Screen
  <2> HIDE DEF f, S
  <2> QED
    BY <2>1, <2>2, <2>3, FunctionIsSeq, Zenon
<1>3. t \in Seq(S) /\ Len(t) = n /\ \A k \in 1..n : t[k] = f[m + k - 1]
  <2>1. \A k \in 1..n : <<l, m + k - 1>> \in S
    OBVIOUS
  <2>2. \A k \in 1..n : t[k] = f[m + k - 1]
    OBVIOUS
  <2>3. t \in [1..n -> S]
    BY <2>1
  <2> HIDE DEF f, S
  <2> QED
    BY <2>2, <2>3, FunctionIsSeq, Zenon
<1> DEFINE s == Screen(l, p, m)
           u == Screen(l, p, m + n)
           c == m - p
<1>4. m + n \in Nat /\ p <= m + n /\ c \in Nat /\ m - p = c
      /\ m + n - p = c + n /\ p + c = m
  OBVIOUS
<1> HIDE DEF c
<1>5. s \in Seq(S) /\ Len(s) = c /\ \A k \in 1..c : s[k] = f[p + k - 1]
  <2>1. /\ s \in Seq(S) /\ Len(s) = m - p
        /\ \A k \in 1..(m - p) : s[k] = f[p + k - 1]
    BY <1>2, Zenon
  <2>2. m - p = c
    BY <1>4
  <2> HIDE DEF f, S, s
  <2> QED
    BY <2>1, <2>2, Zenon
<1>6. u \in Seq(S) /\ Len(u) = c + n /\ \A k \in 1..(c + n) : u[k] = f[p + k - 1]
  <2>1. /\ u \in Seq(S) /\ Len(u) = m + n - p
        /\ \A k \in 1..(m + n - p) : u[k] = f[p + k - 1]
    <3> DEFINE i == m + n
    <3>1. i \in Nat /\ p <= i
      BY <1>4
    <3> HIDE DEF f, S, i
    <3>2. /\ Screen(l, p, i) \in Seq(S) /\ Len(Screen(l, p, i)) = i - p
          /\ \A k \in 1..(i - p) : Screen(l, p, i)[k] = f[p + k - 1]
      BY <1>2, <3>1, Zenon
    <3> QED
      BY <3>2 DEF i
  <2>2. m + n - p = c + n
    BY <1>4
  <2> HIDE DEF f, S, u
  <2> QED
    BY <2>1, <2>2, Zenon
<1> HIDE DEF f, S, s, t, u
<1>7. Len(s) + Len(t) = c + n
  BY <1>3, <1>5
<1>8. /\ s \o t \in Seq(S) /\ Len(s \o t) = c + n
      /\ \A k \in 1..(c + n) : (s \o t)[k] = IF k <= c THEN s[k] ELSE t[k - c]
  BY <1>3, <1>5, <1>7, ConcatProperties
<1>9. ASSUME NEW k \in 1..(c + n) PROVE (s \o t)[k] = u[k]
  <2>1. CASE k <= c
    <3>1. k \in 1..c
      BY <1>4, <2>1
    <3> QED
      BY <1>5, <1>6, <1>8, <2>1, <3>1, Zenon
  <2>2. CASE ~(k <= c)
    <3>1. k - c \in 1..n /\ m + (k - c) - 1 = p + k - 1
      BY <1>4, <2>2
    <3>2. t[k - c] = f[p + k - 1]
      BY <1>3, <3>1, Zenon
    <3> QED
      BY <1>6, <1>8, <2>2, <3>2, Zenon
  <2> QED
    BY <2>1, <2>2
<1>10. s \o t = u
  BY <1>4, <1>6, <1>8, <1>9, SeqEqual
<1> QED
  BY <1>10 DEF s, t, u

\* What the screen shows once an answer from the current buffer is written:
\* it starts where it did, or where a snapshot begins.
LEMMA DisplayShowsOutput ==
  ASSUME IInv, NEW v \in View, pc[v] = "answered", v = mounted, Display(v),
         of' = cur, cur # 0
  PROVE  /\ held[v] = cur
         /\ answer[v].snapshot \/ of = cur
         /\ \E oldest \in 0..answer[v].sequence :
              /\ shown' = Screen(cur, oldest, answer[v].sequence)
              /\ ~answer[v].snapshot => /\ oldest <= sequence[v]
                                        /\ shown = Screen(cur, oldest, sequence[v])
<1> USE DEF IInv, ScreenInv
<1> DEFINE a == answer[v]
           data == [k \in 1..Len(a.data) |-> <<held[v], a.data[k]>>]
<1>1. /\ shown' = IF a.snapshot THEN data ELSE shown \o data
      /\ of' = IF a.snapshot THEN held[v] ELSE of
  BY DEF Display
<1>2. /\ held[v] \in 0..launches /\ launches \in Nat /\ cur = launches /\ of \in Nat
      /\ a \in Answer /\ sequence[v] \in Nat /\ a.sequence \in Nat
      /\ a.snapshot \in BOOLEAN
  BY BoundsAssumption DEF TypeOK, Launch, CurrentIsNewest, Answer
<1>3. of <= held[v]
  BY DEF HeldIsNewer
<1>4. held[v] = cur /\ (a.snapshot \/ of = cur)
  <2>1. CASE a.snapshot
    BY <1>1, <2>1
  <2>2. CASE ~a.snapshot
    <3>1. of = cur
      BY <1>1, <2>2
    <3> QED
      BY <1>2, <1>3, <3>1
  <2> QED
    BY <2>1, <2>2
<1>5. Continues(v, a)
  BY DEF AnswerContinues
<1>6. CASE a.snapshot
  <2>1. PICK oldest \in 0..a.sequence : a.data = Piece(oldest, a.sequence)
    BY <1>4, <1>5, <1>6 DEF Continues
  <2> DEFINE n == a.sequence - oldest
  <2>2. n \in Nat /\ a.data = [k \in 1..n |-> oldest + k - 1]
    BY <1>2, <2>1 DEF Piece
  <2>3. data = [k \in 1..n |-> <<cur, oldest + k - 1>>]
    <3> HIDE DEF n
    <3> QED
      BY <1>4, <2>2
  <2>4. shown' = Screen(cur, oldest, a.sequence)
    BY <1>1, <1>6, <2>3 DEF Screen
  <2> QED
    BY <1>4, <1>6, <2>4
<1>7. CASE ~a.snapshot
  <2> DEFINE n == a.sequence - sequence[v]
  <2>1. n \in Nat /\ a.data = [k \in 1..n |-> sequence[v] + k - 1]
    BY <1>2, <1>4, <1>5, <1>7 DEF Continues, Piece
  <2>2. data = [k \in 1..n |-> <<cur, sequence[v] + k - 1>>]
    <3> HIDE DEF n
    <3> QED
      BY <1>4, <2>1
  <2>3. PICK oldest \in 0..sequence[v] : shown = Screen(cur, oldest, sequence[v])
    BY <1>4, <1>7 DEF ViewShowsOutput, Follows
  <2>4. oldest \in Nat /\ oldest <= sequence[v] /\ oldest \in 0..a.sequence
    BY <1>2, <2>1
  <2>5. shown \o data = Screen(cur, oldest, sequence[v] + n)
    <3> HIDE DEF n, data
    <3>0. sequence[v] \in Nat /\ n \in Nat
      BY <1>2, <2>1
    <3>1. Screen(cur, oldest, sequence[v]) \o [k \in 1..n |-> <<cur, sequence[v] + k - 1>>]
          = Screen(cur, oldest, sequence[v] + n)
      BY <3>0, <2>4, ScreenExtends, Zenon
    <3> QED
      BY <2>2, <2>3, <3>1
  <2>6. sequence[v] + n = a.sequence
    BY <1>2
  <2>7. shown' = Screen(cur, oldest, a.sequence)
    <3> HIDE DEF n, data
    <3> QED
      BY <1>1, <1>7, <2>5, <2>6
  <2> HIDE DEF n, data
  <2> QED
    BY <1>4, <2>3, <2>4, <2>7
<1> QED
  BY <1>2, <1>6, <1>7

\* Writing an answer extends or replaces the screen as DisplayShowsOutput says.
LEMMA HandleOutputKeepsScreen ==
  ASSUME IInv, NEW v \in View, HandleOutput(v)
  PROVE  ScreenInv'
<1> USE DEF IInv, ScreenInv
<1>1. /\ pc[v] = "answered" /\ v \notin cancelled
      /\ UNCHANGED <<paneVars, known, mounted, cancelled, detaching>>
  BY DEF HandleOutput, DetachedAreDisposed
<1>2. CASE v # mounted
  <2>1. LeaveLoop(v)
    BY <1>2 DEF HandleOutput
  <2> QED
    BY <1>1, <1>2, <2>1, LeaveLoopKeepsScreen
<1>3. CASE v = mounted
  <2> USE DEF paneVars
  <2> DEFINE a == answer[v]
             data == [k \in 1..Len(a.data) |-> <<held[v], a.data[k]>>]
  <2>1. Display(v)
    BY <1>3 DEF HandleOutput
  <2>2. /\ sequence' = [sequence EXCEPT ![v] = a.sequence]
        /\ shown' = IF a.snapshot THEN data ELSE shown \o data
        /\ of' = IF a.snapshot THEN held[v] ELSE of
        /\ finished' = a.exited
        /\ UNCHANGED streams
        /\ pc' = [pc EXCEPT ![v] = IF a.exited THEN "idle" ELSE "loop"]
        /\ method' = [method EXCEPT ![v] = "attach"]
        /\ held' = [held EXCEPT ![v] = 0]
        /\ answer' = [answer EXCEPT ![v] = Nothing(0)]
    BY <2>1 DEF Display, EndCall
  <2>3. /\ a \in Answer /\ a.sequence \in Nat /\ a.exited \in BOOLEAN
        /\ a.data \in Seq(Nat)
    BY DEF TypeOK, Answer
  <2>4. TypeOK'
    <3>1. held[v] \in Launch
      BY <1>1, BoundsAssumption DEF HeldExists, TypeOK, Launch
    <3>2. data \in Seq(Launch \X Nat)
      <4> HIDE DEF a
      <4> QED
        BY <2>3, <3>1
    <3>3. shown' \in Seq(Launch \X Nat)
      <4> HIDE DEF data
      <4> QED
        BY <2>2, <3>2 DEF TypeOK
    <3>4. Nothing(0) \in Answer /\ 0 \in 0..launches
      BY NothingIsAnswer, BoundsAssumption DEF TypeOK, Launch
    <3> HIDE DEF a, data
    <3> QED
      BY <1>1, <2>2, <2>3, <3>3, <3>4 DEF TypeOK
  <2>5. BuffersHold' /\ CurrentIsNewest'
    BY <1>1 DEF BuffersHold, CurrentIsNewest
  <2>6. /\ pc'[v] \in {"idle", "loop"}
        /\ sequence'[v] = a.sequence
        /\ \A w \in View : w # v => pc'[w] = pc[w] /\ held'[w] = held[w]
    BY <2>2 DEF TypeOK
  <2>7. HeldExists' /\ HeldIsNewer' /\ AnswerContinues'
    BY <1>1, <1>3, <2>6 DEF HeldExists, HeldIsNewer, AnswerContinues
  <2>8. DetachedAreDisposed'
    BY <1>1, <2>6 DEF DetachedAreDisposed, TypeOK
  <2>9. ASSUME NEW w \in View, Follows(w)'
        PROVE  /\ a.sequence <= out[cur].end
               /\ \E oldest \in 0..a.sequence : shown' = Screen(cur, oldest, a.sequence)
               /\ a.exited => cur \notin alive /\ a.sequence = out[cur].end
    <3>1. w = v /\ of' = cur /\ cur # 0
      BY <1>1, <1>3, <2>9 DEF Follows
    <3>2. /\ held[v] = cur /\ (a.snapshot \/ of = cur)
          /\ \E oldest \in 0..a.sequence : shown' = Screen(cur, oldest, a.sequence)
      BY <1>1, <1>3, <2>1, <3>1, DisplayShowsOutput
    <3>3. Continues(v, a)
      BY <1>1, <1>3 DEF AnswerContinues
    <3> QED
      BY <3>1, <3>2, <3>3 DEF Continues, Overtaken, CurrentIsNewest
  <2>10. ViewShowsOutput' /\ ExitIsShownLast'
    <3>1. ASSUME NEW w \in View, Follows(w)' PROVE w = v
      BY <1>1, <1>3, <3>1 DEF Follows
    <3> HIDE DEF a, data
    <3> QED
      BY <1>1, <2>2, <2>6, <2>9, <3>1 DEF ViewShowsOutput, ExitIsShownLast
  <2> QED
    BY <2>4, <2>5, <2>7, <2>8, <2>10
<1> QED
  BY <1>2, <1>3

\* At first one launch runs and no view is mounted.
LEMMA InitIInv == Init => IInv
<1> SUFFICES ASSUME Init PROVE IInv
  OBVIOUS
<1>1. 1 \in Launch /\ \A v \in View : v # None
  BY BoundsAssumption, ViewAssumption DEF Launch
<1>2. newOutput \in Output /\ RingHolds(newOutput) /\ ~newOutput.exited
  BY OtherBuffersHold DEF newOutput
<1>3. Nothing(0) \in Answer /\ <<>> \in Seq(Launch \X Nat)
  BY NothingIsAnswer
<1>4. TypeOK
  <2>1. /\ launches \in Launch /\ cur \in 0..launches /\ alive \in SUBSET (1..launches)
        /\ known \in -1..MaxLaunch /\ of \in 0..launches /\ 0 \in 0..launches
    BY <1>1, BoundsAssumption DEF Init
  <2>2. /\ out \in [Launch -> Output] /\ answer \in [View -> Answer]
        /\ shown \in Seq(Launch \X Nat)
    BY <1>2, <1>3 DEF Init
  <2>3. /\ status \in {"running", "stopped", "gone"} /\ mounted \in View \cup {None}
        /\ pc \in [View -> {"idle", "loop", "called", "waiting", "answered"}]
        /\ method \in [View -> {"attach", "read"}] /\ held \in [View -> 0..launches]
        /\ sequence \in [View -> Nat] /\ finished \in BOOLEAN
        /\ streams \in SUBSET View /\ cancelled \in SUBSET View
        /\ detaching \in SUBSET View
    BY <2>1 DEF Init
  <2> QED
    BY <2>1, <2>2, <2>3 DEF TypeOK
<1>5. BuffersHold /\ CurrentIsNewest
  BY <1>1, <1>2 DEF Init, BuffersHold, CurrentIsNewest
<1>6. HeldExists /\ HeldIsNewer /\ AnswerContinues
  BY <1>1 DEF Init, HeldExists, HeldIsNewer, AnswerContinues
<1>7. DetachedAreDisposed
  BY DEF Init, DetachedAreDisposed
<1>8. ViewShowsOutput /\ ExitIsShownLast /\ Registered
  BY <1>1 DEF Init, ViewShowsOutput, ExitIsShownLast, Follows, Registered
<1> QED
  BY <1>4, <1>5, <1>6, <1>7, <1>8 DEF IInv, ScreenInv

\* A view stays in App.streams while it is on the screen: only a view that is
\* disposed of is detached, and a view whose call failed has nothing to show.
LEMMA StaysRegistered ==
  ASSUME IInv, [Next]_vars
  PROVE  Registered'
<1> USE DEF IInv, ScreenInv, Registered
<1>1. /\ pc \in [View -> {"idle", "loop", "called", "waiting", "answered"}]
      /\ method \in [View -> {"attach", "read"}]
      /\ streams \in SUBSET View /\ mounted \notin detaching \cup cancelled
  BY DEF TypeOK, DetachedAreDisposed
<1>2. ASSUME UNCHANGED <<mounted, pc, method, of, streams>> PROVE Registered'
  BY <1>2
<1>3. CASE \/ \E l \in Launch, n \in 1..MaxBytes : Write(l, n)
           \/ \E l \in Launch : ShellEnds(l)
           \/ RemovePane \/ StopAgent \/ RestartPane \/ DropOutput \/ UNCHANGED vars
  BY <1>2, <1>3 DEF Write, ShellEnds, RemovePane, StopAgent, RestartPane, DropOutput,
                    vars, callVars, screenVars, appVars
<1>4. CASE Refresh \/ Show \/ Hide
  <2>1. of' = 0 /\ ((\E v \in View : Mount(v)) \/ NoMount)
    BY <1>4 DEF Refresh, Show, Hide, Mount, NoMount, EmptyScreen
  <2>2. ASSUME NEW v \in View, Mount(v) PROVE Registered'
    BY <1>1, <2>2, <2>1 DEF Mount
  <2>3. CASE NoMount
    BY <2>3, ViewAssumption DEF NoMount
  <2> QED
    BY <2>1, <2>2, <2>3
<1>5. ASSUME NEW v \in View, CallReadOutput(v) PROVE Registered'
  BY <1>1, <1>5 DEF CallReadOutput, LeaveLoop, EndCall, screenVars
<1>6. ASSUME NEW v \in View, FindOutput(v) PROVE Registered'
  <2>1. /\ streams' = streams \cup {v} /\ mounted' = mounted /\ of' = of
        /\ method' = [method EXCEPT ![v] = IF v \in streams THEN "read" ELSE "attach"]
        /\ pc' = [pc EXCEPT ![v] = "waiting"] /\ pc[v] = "called"
    BY <1>6 DEF FindOutput, FindStream, screenVars
  <2> QED
    BY <1>1, <2>1
<1>7. ASSUME NEW v \in View, OutputNotFound(v) PROVE Registered'
  BY <1>1, <1>7 DEF OutputNotFound, EndCall, screenVars
<1>8. ASSUME NEW v \in View, ReturnOutput(v) \/ ReadTimesOut(v) PROVE Registered'
  BY <1>1, <1>8 DEF ReturnOutput, ReadTimesOut, screenVars, appVars
<1>9. ASSUME NEW v \in View, ReadDetached(v) PROVE Registered'
  BY <1>1, <1>9 DEF ReadDetached, LeaveLoop, EndCall, screenVars
<1>10. ASSUME NEW v \in View, HandleOutput(v) PROVE Registered'
  BY <1>1, <1>10 DEF HandleOutput, Display, LeaveLoop, EndCall, screenVars
<1>11. ASSUME NEW v \in View, Detach(v) PROVE Registered'
  BY <1>1, <1>11 DEF Detach, callVars, screenVars
<1> QED
  BY <1>3, <1>4, <1>5, <1>6, <1>7, <1>8, <1>9, <1>10, <1>11 DEF Next

(***************************************************************************)
(* The ring holds the last bytes in place, a call holds a buffer at least  *)
(* as new as the one its view shows, and an answer on its way continues    *)
(* the screen it is for: kept by every step of the pane, the window and    *)
(* the calls.                                                              *)
(***************************************************************************)
THEOREM StreamInvariant == Spec => []IInv
<1>1. IInv /\ [Next]_vars => IInv'
  <2> SUFFICES ASSUME IInv, [Next]_vars PROVE IInv'
    OBVIOUS
  <2>0. Registered'
    BY StaysRegistered
  <2>1. ASSUME NEW l \in Launch, NEW n \in 1..MaxBytes, Write(l, n) PROVE ScreenInv'
    BY <2>1, WriteKeepsScreen
  <2>2. ASSUME NEW l \in Launch, ShellEnds(l) PROVE ScreenInv'
    BY <2>2, ShellEndsKeepsScreen
  <2>3. ASSUME RemovePane \/ StopAgent PROVE ScreenInv'
    BY <2>3, StatusKeepsScreen
  <2>4. ASSUME RestartPane PROVE ScreenInv'
    BY <2>4, RestartPaneKeepsScreen
  <2>5. ASSUME DropOutput PROVE ScreenInv'
    BY <2>5, DropOutputKeepsScreen
  <2>6. ASSUME Refresh \/ Show \/ Hide PROVE ScreenInv'
    BY <2>6, WindowKeepsScreen
  <2>7. ASSUME NEW v \in View,
               \/ CallReadOutput(v) \/ FindOutput(v)
               \/ OutputNotFound(v) \/ ReadDetached(v)
        PROVE  ScreenInv'
    BY <2>7, CallsKeepScreen
  <2>8. ASSUME NEW v \in View, ReturnOutput(v) PROVE ScreenInv'
    BY <2>8, ReturnOutputKeepsScreen
  <2>9. ASSUME NEW v \in View, ReadTimesOut(v) PROVE ScreenInv'
    BY <2>9, ReadTimesOutKeepsScreen
  <2>10. ASSUME NEW v \in View, HandleOutput(v) PROVE ScreenInv'
    BY <2>10, HandleOutputKeepsScreen
  <2>11. ASSUME NEW v \in View, Detach(v) PROVE ScreenInv'
    BY <2>11, DetachKeepsScreen
  <2>12. ASSUME UNCHANGED vars PROVE ScreenInv'
    <3> USE <2>12 DEF vars, paneVars, callVars, screenVars, appVars, ScreenInv
    <3>1. TypeOK'
      BY DEF IInv, TypeOK
    <3>2. BuffersHold' /\ CurrentIsNewest' /\ HeldExists' /\ HeldIsNewer'
      BY DEF IInv, BuffersHold, CurrentIsNewest, HeldExists, HeldIsNewer
    <3>3. DetachedAreDisposed' /\ AnswerContinues'
      BY DEF IInv, DetachedAreDisposed, AnswerContinues, Continues, Overtaken
    <3>4. ViewShowsOutput' /\ ExitIsShownLast'
      BY DEF IInv, ViewShowsOutput, ExitIsShownLast, Follows, Screen
    <3> QED
      BY <3>1, <3>2, <3>3, <3>4
  <2>13. ScreenInv'
    BY <2>1, <2>2, <2>3, <2>4, <2>5, <2>6, <2>7, <2>8, <2>9, <2>10, <2>11, <2>12
    DEF Next
  <2> QED
    BY <2>0, <2>13 DEF IInv
<1> QED
  BY InitIInv, <1>1, PTL DEF Spec

(***************************************************************************)
(* Every variable keeps its type; in particular no read copies out of the  *)
(* ring a position nothing was written to (output.go:263).                 *)
(***************************************************************************)
THEOREM StreamTypeCorrect == Spec => []TypeOK
<1>1. IInv => TypeOK
  BY DEF IInv, ScreenInv
<1> QED
  BY <1>1, StreamInvariant, PTL

(***************************************************************************)
(* Output is neither lost, repeated nor reordered on the way to the screen *)
(* of a view that follows the pane, whatever the sizes of the ring and of  *)
(* a read, and wherever restarts, stops and detachments fall.              *)
(***************************************************************************)
THEOREM OutputShownInOrder == Spec => []ViewShowsOutput
<1>1. IInv => ViewShowsOutput
  BY DEF IInv, ScreenInv
<1> QED
  BY <1>1, StreamInvariant, PTL

(***************************************************************************)
(* The end of a launch is printed after all it has written.                *)
(***************************************************************************)
THEOREM ExitPrintedLast == Spec => []ExitIsShownLast
<1>1. IInv => ExitIsShownLast
  BY DEF IInv, ScreenInv
<1> QED
  BY <1>1, StreamInvariant, PTL

\* A screen is the beginning of one that starts where it does and shows more.
LEMMA ScreenBegins ==
  ASSUME NEW l, NEW p \in Nat, NEW m \in Nat, NEW n \in Nat, p <= m, m <= n
  PROVE  /\ Len(Screen(l, p, n)) >= Len(Screen(l, p, m))
         /\ SubSeq(Screen(l, p, n), 1, Len(Screen(l, p, m))) = Screen(l, p, m)
<1>1. m - p \in Nat /\ n - p \in Nat /\ m - p <= n - p
  OBVIOUS
<1>2. Len(Screen(l, p, m)) = m - p /\ Len(Screen(l, p, n)) = n - p
  BY <1>1 DEF Screen
<1>3. SubSeq(Screen(l, p, n), 1, m - p) = [k \in 1..(m - p) |-> Screen(l, p, n)[k]]
  BY <1>1 DEF Screen
<1>4. \A k \in 1..(m - p) : Screen(l, p, n)[k] = <<l, p + k - 1>>
  BY <1>1 DEF Screen
<1>5. [k \in 1..(m - p) |-> Screen(l, p, n)[k]] = [k \in 1..(m - p) |-> <<l, p + k - 1>>]
  BY <1>4, Zenon
<1>6. SubSeq(Screen(l, p, n), 1, m - p) = Screen(l, p, m)
  BY <1>3, <1>5, Zenon DEF Screen
<1> QED
  BY <1>1, <1>2, <1>6

(***************************************************************************)
(* A view that follows the pane is only given a snapshot, which may cost   *)
(* it lines it showed, once the ring has overwritten bytes it has not      *)
(* read; otherwise its screen only gains bytes at its end.                 *)
(***************************************************************************)
THEOREM ShownIsKeptUnlessOvertaken == Spec => ScreenMovesOn
<1> DEFINE MovesOn(v) == Follows(v) /\ mounted' = v =>
                           /\ of' = of
                           /\ sequence'[v] >= sequence[v]
                           /\ \/ Overtaken(v)
                              \/ Len(shown') >= Len(shown) /\ SubSeq(shown', 1, Len(shown)) = shown
<1>1. ASSUME IInv, IInv', Next PROVE \A v \in View : MovesOn(v)
  <2> SUFFICES ASSUME NEW v \in View, Follows(v), mounted' = v
               PROVE  /\ of' = of
                      /\ sequence'[v] >= sequence[v]
                      /\ \/ Overtaken(v)
                         \/ /\ Len(shown') >= Len(shown)
                            /\ SubSeq(shown', 1, Len(shown)) = shown
    OBVIOUS
  <2>1. mounted = v /\ of = cur /\ cur # 0 /\ sequence[v] \in Nat
    BY <1>1 DEF Follows, IInv, ScreenInv, TypeOK
  <2>2. CASE UNCHANGED screenVars /\ sequence'[v] = sequence[v]
    <3>1. of' = of /\ shown' = shown
      BY <2>2 DEF screenVars
    <3>2. PICK p \in 0..sequence[v] : shown = Screen(cur, p, sequence[v])
      BY <1>1 DEF IInv, ScreenInv, ViewShowsOutput
    <3> QED
      BY <2>1, <2>2, <3>1, <3>2, ScreenBegins
  <2>3. CASE HandleOutput(v)
    <3> DEFINE a == answer[v]
    <3>1. pc[v] = "answered" /\ Display(v)
      BY <2>1, <2>3 DEF HandleOutput
    <3>2. /\ held[v] \in 0..launches /\ of <= held[v] /\ cur = launches
          /\ launches \in Nat /\ a.sequence \in Nat
      BY <1>1, <2>1, <3>1, BoundsAssumption
      DEF IInv, ScreenInv, TypeOK, HeldIsNewer, CurrentIsNewest, Answer, Launch
    <3>3. held[v] = cur
      BY <2>1, <3>2
    <3>4. of' = cur /\ sequence'[v] = a.sequence
      BY <1>1, <2>1, <3>1, <3>3 DEF Display, IInv, ScreenInv, TypeOK
    <3>5. PICK oldest \in 0..a.sequence :
            /\ shown' = Screen(cur, oldest, a.sequence)
            /\ ~a.snapshot => /\ oldest <= sequence[v]
                              /\ shown = Screen(cur, oldest, sequence[v])
      BY <1>1, <2>1, <3>1, <3>4, DisplayShowsOutput
    <3>6. Continues(v, a)
      BY <1>1, <2>1, <3>1 DEF IInv, ScreenInv, AnswerContinues
    <3>7. sequence[v] <= a.sequence /\ (a.snapshot => Overtaken(v))
      BY <2>1, <3>3, <3>6 DEF Continues
    <3> HIDE DEF a
    <3>8. CASE a.snapshot
      BY <2>1, <3>2, <3>4, <3>7, <3>8
    <3>9. CASE ~a.snapshot
      <4>1. /\ oldest \in Nat /\ oldest <= sequence[v]
            /\ shown = Screen(cur, oldest, sequence[v])
        BY <3>2, <3>5, <3>9
      <4>2. Len(shown') >= Len(shown) /\ SubSeq(shown', 1, Len(shown)) = shown
        BY <2>1, <3>2, <3>5, <3>7, <4>1, ScreenBegins, Zenon
      <4> QED
        BY <2>1, <3>2, <3>4, <3>7, <4>2
    <3> QED
      BY <3>8, <3>9
  <2>4. \/ UNCHANGED screenVars /\ sequence'[v] = sequence[v]
        \/ HandleOutput(v)
    <3>0. sequence \in [View -> Nat]
      BY <1>1 DEF IInv, ScreenInv, TypeOK
    <3>1. ASSUME NEW w \in View, Free(w) /\ Mount(w) PROVE FALSE
      BY <2>1, <3>1 DEF Free, Mount
    <3>2. ~NoMount
      BY ViewAssumption DEF NoMount
    <3>3. ~Refresh /\ ~Show /\ ~Hide
      BY <3>1, <3>2 DEF Refresh, Show, Hide
    <3>4. ASSUME NEW w \in View, HandleOutput(w), w # v
          PROVE  UNCHANGED screenVars /\ sequence'[v] = sequence[v]
      BY <2>1, <3>0, <3>4 DEF HandleOutput, LeaveLoop
    <3>5. ASSUME NEW l \in Launch, NEW k \in 1..MaxBytes, Write(l, k) \/ ShellEnds(l)
          PROVE  UNCHANGED screenVars /\ sequence'[v] = sequence[v]
      BY <3>5 DEF Write, ShellEnds, callVars
    <3>6. CASE RemovePane \/ StopAgent \/ RestartPane \/ DropOutput
      BY <3>6 DEF RemovePane, StopAgent, RestartPane, DropOutput, callVars
    <3>7. ASSUME NEW w \in View,
                 FindOutput(w) \/ ReturnOutput(w) \/ ReadTimesOut(w) \/ Detach(w)
          PROVE  UNCHANGED screenVars /\ sequence'[v] = sequence[v]
      BY <3>7 DEF FindOutput, ReturnOutput, ReadTimesOut, Detach, callVars
    <3>8. ASSUME NEW l \in Launch, ShellEnds(l)
          PROVE  UNCHANGED screenVars /\ sequence'[v] = sequence[v]
      BY <3>8 DEF ShellEnds, callVars
    <3>9. ASSUME NEW w \in View, CallReadOutput(w)
          PROVE  UNCHANGED screenVars /\ sequence'[v] = sequence[v]
      BY <2>1, <3>0, <3>9 DEF CallReadOutput, LeaveLoop
    <3>10. ASSUME NEW w \in View, OutputNotFound(w)
           PROVE  UNCHANGED screenVars /\ sequence'[v] = sequence[v]
      <4>1. w # v
        BY <1>1, <2>1, <3>10 DEF OutputNotFound
      <4> QED
        BY <3>0, <3>10, <4>1 DEF OutputNotFound
    <3>11. ASSUME NEW w \in View, ReadDetached(w)
           PROVE  UNCHANGED screenVars /\ sequence'[v] = sequence[v]
      <4>1. w # v
        BY <1>1, <2>1, <3>11 DEF ReadDetached, IInv, ScreenInv, DetachedAreDisposed
      <4> QED
        BY <3>0, <3>11, <4>1 DEF ReadDetached, LeaveLoop
    <3> QED
      BY <1>1, <3>3, <3>4, <3>5, <3>6, <3>7, <3>8, <3>9, <3>10, <3>11 DEF Next
  <2> QED
    BY <2>2, <2>3, <2>4
<1>2. IInv /\ IInv' /\ [Next]_vars => [\A v \in View : MovesOn(v)]_vars
  BY <1>1
<1> QED
  BY <1>2, StreamInvariant, PTL DEF Spec, ScreenMovesOn
=============================================================================
