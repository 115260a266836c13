--------------------------- MODULE BatcherProofs ---------------------------
(***************************************************************************)
(* Proofs about OutputBatcher, for batches, delays and chunks of any size. *)
(***************************************************************************)
EXTENDS OutputBatcher, SequenceTheorems, WellFoundedInduction, TLAPS

HoldTypeOK ==
  /\ syncDeadline \in Time \cup {None}
  /\ syncHeldSince \in Time \cup {None}
  /\ held \in 0..HoldLimit \cup {None}

(***************************************************************************)
(* A deadline and the frame it was set for are Delay apart, and a deadline *)
(* whose frame has left (syncHeldSince is reset on an empty buffer) runs   *)
(* out with what is left of one Delay.  The next frame adds one at most.   *)
(***************************************************************************)
Anchored ==
  /\ MustHold /\ syncHeldSince # None => syncDeadline + syncHeldSince = Delay
  /\ held # None /\ syncHeldSince # None => held <= Delay + syncHeldSince
  /\ held # None /\ syncHeldSince = None => held <= Delay
  /\ held # None /\ syncHeldSince = None /\ MustHold => held + syncDeadline <= Delay

HoldInv == HoldTypeOK /\ Anchored

\* What a chunk may do to the times, whatever it contains.
LEMMA TrackTimes ==
  ASSUME NEW bytes, trackSynchronizedOutput(bytes)
  PROVE  /\ syncHeldSince' = syncHeldSince \/ (syncHeldSince = None /\ syncHeldSince' = 0)
         /\ \/ syncDeadline' = None
            \/ syncHeldSince' # None /\ syncDeadline' = Delay - syncHeldSince'
            \/ syncDeadline' = syncDeadline /\ syncHeldSince' = syncHeldSince
<1> DEFINE end == SelectLastInSeq(bytes, LAMBDA b : b = "end")
           repaired == syncEndPending /\ Shown(bytes)
           holds == end # 0 /\ ~cursorHiddenAfter(Before(bytes, end), cursorHidden)
           over == end # 0 /\ Shown(After(bytes, end))
           since == IF holds /\ syncHeldSince = None THEN 0 ELSE syncHeldSince
<1>1. /\ syncHeldSince' = since
      /\ syncDeadline' = CASE over -> None
                           [] holds /\ ~over -> Delay - since
                           [] ~holds /\ ~over /\ repaired -> None
                           [] OTHER -> syncDeadline
  BY DEF trackSynchronizedOutput
<1> HIDE DEF end, repaired, holds, over
<1>2. None # 0
  BY BatcherAssumption
<1>3. CASE over
  BY <1>1, <1>3
<1>4. CASE holds /\ ~over
  BY <1>1, <1>2, <1>4
<1>5. CASE ~holds /\ ~over
  BY <1>1, <1>5
<1> QED
  BY <1>3, <1>4, <1>5

LEMMA HoldInit == Init => HoldInv
BY DEF Init, HoldInv, HoldTypeOK, Anchored, MustHold

LEMMA HoldStep == HoldInv /\ [Next]_vars => HoldInv'
<1> SUFFICES ASSUME HoldInv, [Next]_vars PROVE HoldInv'
  OBVIOUS
<1> USE BatcherAssumption DEF HoldInv, HoldTypeOK, Anchored, MustHold, Time, HoldLimit
<1>1. ASSUME NEW data \in Chunks, Add(data) PROVE HoldInv'
  <2>1. /\ syncHeldSince' = syncHeldSince \/ (syncHeldSince = None /\ syncHeldSince' = 0)
        /\ \/ syncDeadline' = None
           \/ syncHeldSince' # None /\ syncDeadline' = Delay - syncHeldSince'
           \/ syncDeadline' = syncDeadline /\ syncHeldSince' = syncHeldSince
    BY <1>1, TrackTimes DEF Add
  <2>2. held' \in {held, None}
    BY <1>1 DEF Add
  <2> QED
    BY <2>1, <2>2
<1>2. CASE TimerFindsNothing
  BY <1>2 DEF TimerFindsNothing
<1>3. CASE TimerHolds
  BY <1>3 DEF TimerHolds, sync
<1>4. CASE TimerFlushes
  BY <1>4 DEF TimerFlushes
<1>5. CASE Pass
  BY <1>5 DEF Pass
<1>6. CASE UNCHANGED <<syncDeadline, syncHeldSince, held>>
  BY <1>6
<1> QED
  BY <1>1, <1>2, <1>3, <1>4, <1>5, <1>6
     DEF Next, Runner, Emit, Finish, RunnerStops, Close, CloseStops, CloseReturns, sync, vars

(***************************************************************************)
(* However many frames end and whatever else is printed, no output that    *)
(* the timer has passed over is passed over again after two delays.        *)
(***************************************************************************)
THEOREM HeldForLimitCorrect == Spec => HeldForLimitAtMost
<1>1. HoldInv => (TimerHolds => held = None \/ held < HoldLimit)
  BY BatcherAssumption DEF HoldInv, HoldTypeOK, Anchored, TimerHolds, MustHold, Time, HoldLimit
<1> QED
  BY HoldInit, HoldStep, <1>1, PTL DEF Spec, HeldForLimitAtMost
-----------------------------------------------------------------------------
(* The last cursor sequence of some bytes. *)

LEMMA Greatest ==
  ASSUME NEW n \in Nat, NEW I \in SUBSET (1..n), I # {}
  PROVE  Max(I) \in I /\ \A k \in I : k <= Max(I)
<1> DEFINE T == {n - i : i \in I}
<1>1. T \subseteq Nat /\ T # {}
  <2>1. \A i \in I : n - i \in Nat
    OBVIOUS
  <2> QED
    BY <2>1
<1>2. PICK x \in T : \A y \in T : ~(<<y, x>> \in OpToRel(<, Nat))
  <2> HIDE DEF T
  <2> QED
    BY <1>1, NatLessThanWellFounded, WFMin
<1>3. \A y \in T : ~(y < x)
  BY <1>1, <1>2 DEF OpToRel
<1>4. PICK m \in I : x = n - m
  OBVIOUS
<1>5. \A k \in I : m >= k
  <2> TAKE k \in I
  <2>1. ~(n - k < n - m)
    BY <1>3, <1>4
  <2> QED
    BY <2>1
<1>6. Max(I) \in I /\ \A k \in I : Max(I) >= k
  BY <1>5 DEF Max
<1> QED
  BY <1>6

LastOf(s, Sel) == SelectLastInSeq(s, LAMBDA b : b \in Sel)
LastEnd(s) == SelectLastInSeq(s, LAMBDA b : b = "end")

LEMMA LastSelected ==
  ASSUME NEW s \in Seq(Byte), NEW Sel
  PROVE  /\ LastOf(s, Sel) \in 0..Len(s)
         /\ LastOf(s, Sel) # 0 => s[LastOf(s, Sel)] \in Sel
         /\ \A k \in 1..Len(s) : k > LastOf(s, Sel) => s[k] \notin Sel
<1> DEFINE I == {i \in 1..Len(s) : s[i] \in Sel}
<1>1. Len(s) \in Nat
  BY LenProperties
<1>2. LastOf(s, Sel) = IF I # {} THEN Max(I) ELSE 0
  BY DEF SelectLastInSeq, LastOf
<1>3. CASE I = {}
  BY <1>1, <1>2, <1>3
<1>4. CASE I # {}
  <2>1. I \in SUBSET (1..Len(s))
    OBVIOUS
  <2>2. Max(I) \in I /\ \A k \in I : k <= Max(I)
    <3> HIDE DEF I
    <3> QED
      BY <1>1, <1>4, <2>1, Greatest
  <2> QED
    <3>1. LastOf(s, Sel) = Max(I) /\ Max(I) \in 1..Len(s) /\ s[Max(I)] \in Sel
      BY <1>2, <1>4, <2>2
    <3>2. \A k \in 1..Len(s) : k > Max(I) => s[k] \notin Sel
      <4> TAKE k \in 1..Len(s)
      <4>1. s[k] \in Sel => k <= Max(I)
        BY <2>2
      <4> QED
        BY <1>1, <3>1, <4>1
    <3> QED
      BY <1>1, <3>1, <3>2
<1> QED
  BY <1>3, <1>4

\* The code looks for the end of a frame as it looks for the cursor.
LEMMA LastEndIsLast ==
  ASSUME NEW s
  PROVE  LastEnd(s) = LastOf(s, {"end"})
<1> DEFINE I == {i \in 1..Len(s) : s[i] = "end"}
           J == {i \in 1..Len(s) : s[i] \in {"end"}}
<1>1. LastEnd(s) = IF I # {} THEN Max(I) ELSE 0
  BY DEF SelectLastInSeq, LastEnd
<1>2. LastOf(s, {"end"}) = IF J # {} THEN Max(J) ELSE 0
  BY DEF SelectLastInSeq, LastOf
<1>3. I = J
  OBVIOUS
<1> QED
  BY <1>1, <1>2, <1>3

CursorKeys == {"show", "hide"}

LEMMA CursorAfter ==
  ASSUME NEW s, NEW h
  PROVE  cursorHiddenAfter(s, h) =
           IF LastOf(s, CursorKeys) = 0 THEN h ELSE s[LastOf(s, CursorKeys)] = "hide"
BY DEF cursorHiddenAfter, LastOf, CursorKeys

\* Output that is read in two pieces leaves the cursor as in one.
LEMMA CursorAfterBoth ==
  ASSUME NEW s \in Seq(Byte), NEW t \in Seq(Byte), NEW h
  PROVE  cursorHiddenAfter(s \o t, h) = cursorHiddenAfter(t, cursorHiddenAfter(s, h))
<1> DEFINE l == LastOf(s, CursorKeys)
           m == LastOf(t, CursorKeys)
           n == LastOf(s \o t, CursorKeys)
<1>1. /\ s \o t \in Seq(Byte) /\ Len(s \o t) = Len(s) + Len(t)
      /\ \A i \in 1..(Len(s) + Len(t)) : (s \o t)[i] = IF i <= Len(s) THEN s[i] ELSE t[i - Len(s)]
      /\ Len(s) \in Nat /\ Len(t) \in Nat
  BY ConcatProperties, LenProperties
<1>2. /\ l \in 0..Len(s) /\ (l # 0 => s[l] \in CursorKeys)
      /\ \A k \in 1..Len(s) : k > l => s[k] \notin CursorKeys
  BY LastSelected
<1>3. /\ m \in 0..Len(t) /\ (m # 0 => t[m] \in CursorKeys)
      /\ \A k \in 1..Len(t) : k > m => t[k] \notin CursorKeys
  BY LastSelected
<1>4. /\ n \in 0..(Len(s) + Len(t)) /\ (n # 0 => (s \o t)[n] \in CursorKeys)
      /\ \A k \in 1..(Len(s) + Len(t)) : k > n => (s \o t)[k] \notin CursorKeys
  BY <1>1, LastSelected
<1> HIDE DEF l, m, n
<1>5. ASSUME m # 0 PROVE n = Len(s) + m /\ (s \o t)[n] = t[m]
  <2>1. (s \o t)[Len(s) + m] = t[m]
    BY <1>1, <1>3, <1>5
  <2>2. ~(Len(s) + m > n)
    BY <1>1, <1>3, <1>4, <1>5, <2>1
  <2>3. ~(n > Len(s) + m)
    <3> SUFFICES ASSUME n > Len(s) + m PROVE FALSE
      OBVIOUS
    <3>1. (s \o t)[n] = t[n - Len(s)] /\ n - Len(s) \in 1..Len(t) /\ n - Len(s) > m
      BY <1>1, <1>3, <1>4
    <3>2. t[n - Len(s)] \notin CursorKeys
      BY <3>1, <1>3
    <3>3. (s \o t)[n] \in CursorKeys
      BY <1>1, <1>3, <1>4
    <3> QED
      BY <3>1, <3>2, <3>3
  <2> QED
    <3>1. n = Len(s) + m
      BY <1>1, <1>3, <1>4, <2>2, <2>3
    <3> QED
      BY <2>1, <3>1, Zenon
<1>6. ASSUME m = 0, l # 0 PROVE n = l /\ (s \o t)[n] = s[l]
  <2>1. (s \o t)[l] = s[l]
    BY <1>1, <1>2, <1>6
  <2>2. ~(l > n)
    BY <1>1, <1>2, <1>4, <1>6, <2>1
  <2>3. ~(n > Len(s))
    <3> SUFFICES ASSUME n > Len(s) PROVE FALSE
      OBVIOUS
    <3>1. (s \o t)[n] = t[n - Len(s)] /\ n - Len(s) \in 1..Len(t) /\ n - Len(s) > m
      BY <1>1, <1>4, <1>6
    <3>2. t[n - Len(s)] \notin CursorKeys
      BY <3>1, <1>3
    <3>3. (s \o t)[n] \in CursorKeys
      BY <1>1, <1>4
    <3> QED
      BY <3>1, <3>2, <3>3
  <2>4. ~(n > l)
    <3> SUFFICES ASSUME n > l PROVE FALSE
      OBVIOUS
    <3>1. n \in 1..Len(s) /\ (s \o t)[n] = s[n]
      BY <1>1, <1>2, <1>4, <2>3
    <3> QED
      BY <3>1, <1>1, <1>2, <1>4
  <2> QED
    <3>1. n = l
      BY <1>1, <1>2, <1>4, <2>2, <2>4
    <3> QED
      BY <2>1, <3>1, Zenon
<1>7. ASSUME m = 0, l = 0 PROVE n = 0
  <2> SUFFICES ASSUME n # 0 PROVE FALSE
    OBVIOUS
  <2>1. CASE n <= Len(s)
    BY <1>1, <1>2, <1>4, <1>7, <2>1
  <2>2. CASE n > Len(s)
    <3>1. (s \o t)[n] = t[n - Len(s)] /\ n - Len(s) \in 1..Len(t) /\ n - Len(s) > m
      BY <1>1, <1>4, <1>7, <2>2
    <3> QED
      BY <3>1, <1>1, <1>3, <1>4
  <2> QED
    BY <1>1, <1>4, <2>1, <2>2
<1>8. /\ cursorHiddenAfter(s \o t, h) = IF n = 0 THEN h ELSE (s \o t)[n] = "hide"
      /\ cursorHiddenAfter(s, h) = IF l = 0 THEN h ELSE s[l] = "hide"
      /\ cursorHiddenAfter(t, cursorHiddenAfter(s, h)) =
           IF m = 0 THEN cursorHiddenAfter(s, h) ELSE t[m] = "hide"
  BY CursorAfter DEF l, m, n
<1>9. m # 0 => Len(s) + m # 0
  BY <1>1, <1>3
<1>10. CASE m # 0
  BY <1>5, <1>8, <1>9, <1>10
<1>11. CASE m = 0 /\ l # 0
  BY <1>6, <1>8, <1>11
<1>12. CASE m = 0 /\ l = 0
  BY <1>7, <1>8, <1>12
<1> QED
  BY <1>10, <1>11, <1>12

\* A cursor is still to be put back: the output before the end of a frame
\* leaves it visible, and it has not been shown since.
Waiting(s) ==
  \E i \in DOMAIN s :
    /\ s[i] = "end"
    /\ ~cursorHiddenAfter(Before(s, i), FALSE)
    /\ ~Shown(After(s, i))

LEMMA BeforeIs ==
  ASSUME NEW s \in Seq(Byte), NEW i \in 1..Len(s)
  PROVE  /\ Before(s, i) \in Seq(Byte)
         /\ Len(Before(s, i)) = i - 1
         /\ \A k \in 1..(i - 1) : Before(s, i)[k] = s[k]
<1>1. Len(s) \in Nat
  BY LenProperties
<1>2. \A k \in 1..(i - 1) : s[k] \in Byte
  BY <1>1, ElementOfSeq
<1>3. 1 \in Int /\ i - 1 \in Int /\ (i - 1) - 1 + 1 = i - 1 /\ \A k \in Int : 1 + k - 1 = k
  BY <1>1
<1>4. /\ SubSeq(s, 1, i - 1) \in Seq(Byte)
      /\ Len(SubSeq(s, 1, i - 1)) = IF 1 <= i - 1 THEN (i - 1) - 1 + 1 ELSE 0
      /\ \A k \in 1..((i - 1) - 1 + 1) : SubSeq(s, 1, i - 1)[k] = s[1 + k - 1]
  BY <1>2, <1>3, SubSeqProperties
<1> QED
  BY <1>1, <1>3, <1>4 DEF Before

LEMMA ShownAfterIs ==
  ASSUME NEW s \in Seq(Byte), NEW i \in 1..Len(s)
  PROVE  Shown(After(s, i)) <=> \E k \in (i + 1)..Len(s) : s[k] = "show"
<1> DEFINE n == Len(s) - (i + 1) + 1
           rest == SubSeq(s, i + 1, Len(s))
<1>1. Len(s) \in Nat /\ n \in Nat /\ i + 1 \in Int /\ Len(s) \in Int
  BY LenProperties
<1>2. \A k \in (i + 1)..Len(s) : s[k] \in Byte
  BY <1>1, ElementOfSeq
<1>3. /\ Len(rest) = IF i + 1 <= Len(s) THEN n ELSE 0
      /\ \A k \in 1..n : rest[k] = s[i + 1 + k - 1]
  BY <1>1, <1>2, SubSeqProperties
<1>4. Len(rest) = n
  BY <1>1, <1>3
<1>5. Shown(After(s, i)) <=> \E k \in 1..n : rest[k] = "show"
  BY <1>4 DEF Shown, After, Contains
<1> HIDE DEF rest
<1>6. ASSUME NEW k \in 1..n, rest[k] = "show" PROVE \E j \in (i + 1)..Len(s) : s[j] = "show"
  <2>1. i + 1 + k - 1 \in (i + 1)..Len(s)
    BY <1>1
  <2> QED
    BY <1>3, <1>6, <2>1
<1>7. ASSUME NEW j \in (i + 1)..Len(s), s[j] = "show" PROVE \E k \in 1..n : rest[k] = "show"
  <2>1. j - i \in 1..n /\ i + 1 + (j - i) - 1 = j
    BY <1>1
  <2> QED
    BY <1>3, <1>7, <2>1
<1> QED
  BY <1>5, <1>6, <1>7

LEMMA ConcatIs ==
  ASSUME NEW s \in Seq(Byte), NEW t \in Seq(Byte)
  PROVE  /\ s \o t \in Seq(Byte) /\ Len(s \o t) = Len(s) + Len(t)
         /\ Len(s) \in Nat /\ Len(t) \in Nat
         /\ \A i \in 1..Len(s) : (s \o t)[i] = s[i]
         /\ \A i \in 1..Len(t) : (s \o t)[Len(s) + i] = t[i]
         /\ DOMAIN s = 1..Len(s) /\ DOMAIN t = 1..Len(t) /\ DOMAIN (s \o t) = 1..(Len(s) + Len(t))
<1>1. /\ s \o t \in Seq(Byte) /\ Len(s \o t) = Len(s) + Len(t)
      /\ \A i \in 1..(Len(s) + Len(t)) : (s \o t)[i] = IF i <= Len(s) THEN s[i] ELSE t[i - Len(s)]
      /\ Len(s) \in Nat /\ Len(t) \in Nat
  BY ConcatProperties, LenProperties
<1>2. \A i \in 1..Len(s) : (s \o t)[i] = s[i]
  BY <1>1
<1>3. ASSUME NEW i \in 1..Len(t) PROVE (s \o t)[Len(s) + i] = t[i]
  <2>1. Len(s) + i \in 1..(Len(s) + Len(t)) /\ ~(Len(s) + i <= Len(s)) /\ (Len(s) + i) - Len(s) = i
    BY <1>1
  <2> QED
    BY <1>1, <2>1
<1>4. DOMAIN s = 1..Len(s) /\ DOMAIN t = 1..Len(t) /\ DOMAIN (s \o t) = 1..(Len(s) + Len(t))
  BY <1>1, LenProperties
<1> QED
  BY <1>1, <1>2, <1>3, <1>4

\* More output in which the cursor is not shown leaves it to be put back.
LEMMA WaitGoesOn ==
  ASSUME NEW s \in Seq(Byte), NEW t \in Seq(Byte), Waiting(s), ~Shown(t)
  PROVE  Waiting(s \o t)
<1> DEFINE w == s \o t
<1>1. /\ w \in Seq(Byte) /\ Len(w) = Len(s) + Len(t)
      /\ Len(s) \in Nat /\ Len(t) \in Nat
      /\ \A i \in 1..Len(s) : w[i] = s[i]
      /\ \A i \in 1..Len(t) : w[Len(s) + i] = t[i]
      /\ DOMAIN s = 1..Len(s) /\ DOMAIN w = 1..(Len(s) + Len(t))
  BY ConcatIs
<1>2. PICK i \in 1..Len(s) :
        s[i] = "end" /\ ~cursorHiddenAfter(Before(s, i), FALSE) /\ ~Shown(After(s, i))
  BY <1>1 DEF Waiting
<1> HIDE DEF w
<1>3. i \in 1..Len(w)
  BY <1>1
<1>4. Before(w, i) = Before(s, i)
  <2>1. /\ Before(s, i) \in Seq(Byte) /\ Len(Before(s, i)) = i - 1
        /\ \A k \in 1..(i - 1) : Before(s, i)[k] = s[k]
    BY BeforeIs
  <2>2. /\ Before(w, i) \in Seq(Byte) /\ Len(Before(w, i)) = i - 1
        /\ \A k \in 1..(i - 1) : Before(w, i)[k] = w[k]
    BY <1>1, <1>3, BeforeIs
  <2>3. \A k \in 1..(i - 1) : w[k] = s[k]
    BY <1>1
  <2>4. \A k \in 1..Len(Before(w, i)) : Before(w, i)[k] = Before(s, i)[k]
    BY <2>1, <2>2, <2>3
  <2>5. Len(Before(w, i)) = Len(Before(s, i))
    BY <2>1, <2>2
  <2> QED
    BY <2>1, <2>2, <2>4, <2>5, SeqEqual
<1>5. ~Shown(After(w, i))
  <2>1. \A k \in (i + 1)..Len(s) : s[k] # "show"
    BY <1>2, ShownAfterIs
  <2>2. \A k \in 1..Len(t) : t[k] # "show"
    BY DEF Shown, Contains
  <2>3. ASSUME NEW k \in (i + 1)..Len(w) PROVE w[k] # "show"
    <3>1. CASE k <= Len(s)
      BY <1>1, <2>1, <3>1
    <3>2. CASE ~(k <= Len(s))
      <4>1. k - Len(s) \in 1..Len(t) /\ Len(s) + (k - Len(s)) = k
        BY <1>1, <3>2
      <4> QED
        BY <1>1, <2>2, <4>1
    <3> QED
      BY <3>1, <3>2
  <2> QED
    BY <1>1, <1>3, <2>3, ShownAfterIs
<1>6. w[i] = "end" /\ i \in DOMAIN w
  BY <1>1, <1>2
<1>7. Waiting(w)
  BY <1>2, <1>4, <1>5, <1>6 DEF Waiting
<1> QED
  BY <1>7 DEF w

\* A frame that ends with the cursor visible begins a wait.
LEMMA WaitBegins ==
  ASSUME NEW s \in Seq(Byte), NEW t \in Seq(Byte), NEW e \in 1..Len(t), t[e] = "end",
         ~cursorHiddenAfter(Before(t, e), cursorHiddenAfter(s, FALSE)), ~Shown(After(t, e))
  PROVE  Waiting(s \o t)
<1> DEFINE w == s \o t
<1>1. /\ w \in Seq(Byte) /\ Len(w) = Len(s) + Len(t)
      /\ Len(s) \in Nat /\ Len(t) \in Nat
      /\ \A k \in 1..Len(s) : w[k] = s[k]
      /\ \A k \in 1..Len(t) : w[Len(s) + k] = t[k]
      /\ DOMAIN w = 1..(Len(s) + Len(t))
  BY ConcatIs
<1> HIDE DEF w
<1>2. PICK i \in 1..Len(w) : i = Len(s) + e
  BY <1>1
<1>3. Before(w, i) = s \o Before(t, e)
  <2>1. /\ Before(t, e) \in Seq(Byte) /\ Len(Before(t, e)) = e - 1
        /\ \A k \in 1..(e - 1) : Before(t, e)[k] = t[k]
    BY BeforeIs
  <2>2. /\ Before(w, i) \in Seq(Byte) /\ Len(Before(w, i)) = i - 1
        /\ \A k \in 1..(i - 1) : Before(w, i)[k] = w[k]
    BY <1>1, BeforeIs
  <2>0. PICK b \in Seq(Byte) : b = Before(t, e)
    BY <2>1
  <2> DEFINE v == s \o b
  <2>3. /\ v \in Seq(Byte) /\ Len(v) = Len(s) + (e - 1)
        /\ \A k \in 1..Len(s) : v[k] = s[k]
        /\ \A k \in 1..(e - 1) : v[Len(s) + k] = Before(t, e)[k]
    <3>1. Len(b) = e - 1
      BY <2>0, <2>1
    <3>2. /\ v \in Seq(Byte) /\ Len(v) = Len(s) + Len(b)
          /\ \A k \in 1..Len(s) : v[k] = s[k]
          /\ \A k \in 1..Len(b) : v[Len(s) + k] = b[k]
      BY ConcatIs
    <3> QED
      BY <2>0, <3>1, <3>2, Zenon
  <2> HIDE DEF v
  <2>4. Len(v) = i - 1
    BY <1>1, <1>2, <2>3
  <2>5. ASSUME NEW k \in 1..(i - 1) PROVE v[k] = w[k]
    <3>1. CASE k <= Len(s)
      BY <1>1, <2>3, <3>1
    <3>2. CASE ~(k <= Len(s))
      <4>1. k - Len(s) \in 1..(e - 1) /\ k - Len(s) \in 1..Len(t) /\ Len(s) + (k - Len(s)) = k
        BY <1>1, <1>2, <3>2
      <4>2. v[k] = Before(t, e)[k - Len(s)] /\ Before(t, e)[k - Len(s)] = t[k - Len(s)]
        BY <2>1, <2>3, <4>1
      <4>3. w[k] = t[k - Len(s)]
        BY <1>1, <4>1
      <4> QED
        BY <4>2, <4>3
    <3> QED
      BY <3>1, <3>2
  <2>6. \A k \in 1..Len(v) : v[k] = Before(w, i)[k]
    BY <2>2, <2>4, <2>5
  <2>7. v = Before(w, i)
    BY <2>2, <2>3, <2>4, <2>6, SeqEqual
  <2> QED
    BY <2>0, <2>7 DEF v
<1>4. ~cursorHiddenAfter(Before(w, i), FALSE)
  <2>1. Before(t, e) \in Seq(Byte)
    BY BeforeIs
  <2>2. cursorHiddenAfter(s \o Before(t, e), FALSE) =
          cursorHiddenAfter(Before(t, e), cursorHiddenAfter(s, FALSE))
    BY <2>1, CursorAfterBoth, Zenon
  <2> QED
    BY <1>3, <2>2, Zenon
<1>5. ~Shown(After(w, i))
  <2>1. \A k \in (e + 1)..Len(t) : t[k] # "show"
    BY ShownAfterIs
  <2>2. ASSUME NEW k \in (i + 1)..Len(w) PROVE w[k] # "show"
    <3>1. k - Len(s) \in (e + 1)..Len(t) /\ k - Len(s) \in 1..Len(t) /\ Len(s) + (k - Len(s)) = k
      BY <1>1, <1>2
    <3> QED
      BY <1>1, <2>1, <3>1
  <2> QED
    BY <1>1, <2>2, ShownAfterIs
<1>6. w[i] = "end" /\ i \in DOMAIN w
  BY <1>1, <1>2
<1>7. Waiting(w)
  BY <1>4, <1>5, <1>6 DEF Waiting
<1> QED
  BY <1>7 DEF w

(***************************************************************************)
(* The bytes: what has been added is emitted, with the thread that emits,  *)
(* or in the buffer, in this order; and a thread emits under emitMu.       *)
(***************************************************************************)
Carried == IF emitMu = None THEN <<>> ELSE payload[emitMu]

Ordered == added = emitted \o (Carried \o buffer)

Owners ==
  /\ \A t \in Thread : t # emitMu => payload[t] = <<>>
  /\ \A t \in Thread : pc[t] \in {"emitting", "stopping"} <=> emitMu = t
  /\ closed <=> pc["closer"] # "idle"
  /\ closed => buffer = <<>> /\ emitMu # "reader"
  /\ pc["closer"] = "done" => pc["runner"] = "done"

ByteInv == TypeOK /\ Ordered /\ Owners

LEMMA Types ==
  ASSUME TypeOK
  PROVE  /\ Carried \in Seq(Byte) /\ buffer \in Seq(Byte) /\ emitted \in Seq(Byte)
         /\ added \in Seq(Byte) /\ Carried \o buffer \in Seq(Byte)
         /\ \A t \in Thread : payload[t] \in Seq(Byte)
<1>1. /\ buffer \in Seq(Byte) /\ emitted \in Seq(Byte) /\ added \in Seq(Byte)
      /\ \A t \in Thread : payload[t] \in Seq(Byte)
  BY DEF TypeOK
<1>2. <<>> \in Seq(Byte)
  BY EmptySeq
<1>3. Carried \in Seq(Byte)
  <2>1. emitMu \in Thread \cup {None}
    BY DEF TypeOK
  <2> QED
    BY <1>1, <1>2, <2>1 DEF Carried
<1>4. Carried \o buffer \in Seq(Byte)
  BY <1>1, <1>3, ConcatProperties
<1> QED
  BY <1>1, <1>3, <1>4

\* The order of bytes under concatenation, and a cut that loses none.
LEMMA Regroup == \A s, t, u \in Seq(Byte) : (s \o t) \o u = s \o (t \o u)
<1> TAKE s, t, u \in Seq(Byte)
<1> QED
  BY ConcatAssociative

LEMMA Cut ==
  ASSUME NEW s \in Seq(Byte), NEW n \in 0..Len(s)
  PROVE  /\ SubSeq(s, 1, n) \in Seq(Byte)
         /\ SubSeq(s, n + 1, Len(s)) \in Seq(Byte)
         /\ Len(SubSeq(s, n + 1, Len(s))) = Len(s) - n
         /\ s = SubSeq(s, 1, n) \o SubSeq(s, n + 1, Len(s))
<1>1. Len(s) \in Nat /\ n \in Int /\ n + 1 \in Int /\ Len(s) \in Int /\ 1 \in Int
  BY LenProperties
<1>2. /\ \A i \in 1..n : s[i] \in Byte
      /\ \A i \in (n + 1)..Len(s) : s[i] \in Byte
  BY <1>1, ElementOfSeq
<1>3. SubSeq(s, 1, n) \in Seq(Byte)
  BY <1>1, <1>2, SubSeqProperties
<1>4. /\ SubSeq(s, n + 1, Len(s)) \in Seq(Byte)
      /\ Len(SubSeq(s, n + 1, Len(s))) = IF n + 1 <= Len(s) THEN Len(s) - (n + 1) + 1 ELSE 0
  BY <1>1, <1>2, SubSeqProperties
<1>5. Len(SubSeq(s, n + 1, Len(s))) = Len(s) - n
  BY <1>1, <1>4
<1>6. SubSeq(s, 1, n) \o SubSeq(s, n + 1, Len(s)) = SubSeq(s, 1, Len(s))
  <2>1. 1 \in 1..(Len(s) + 1) /\ n \in (1 - 1)..Len(s) /\ Len(s) \in n..Len(s)
    BY <1>1
  <2> QED
    BY <2>1, ConcatAdjacentSubSeq
<1>7. SubSeq(s, 1, Len(s)) = s
  BY SubSeqFull
<1> QED
  BY <1>3, <1>4, <1>5, <1>6, <1>7

LEMMA ByteInit == Init => ByteInv
<1> SUFFICES ASSUME Init PROVE ByteInv
  OBVIOUS
<1>1. <<>> \in Seq(Byte) /\ Len(<<>>) = 0
  BY EmptySeq
<1>2. TypeOK
  <2>1. buffer \in Seq(Byte) /\ Len(buffer) < MaxBytes
    <3>1. 0 < MaxBytes
      BY BatcherAssumption
    <3> QED
      BY <1>1, <3>1 DEF Init
  <2>2. payload \in [Thread -> Seq(Byte)] /\ added \in Seq(Byte) /\ emitted \in Seq(Byte)
    BY <1>1 DEF Init
  <2> QED
    BY <2>1, <2>2 DEF Init, TypeOK
<1>3. Ordered
  BY <1>1, ConcatEmptySeq DEF Init, Ordered, Carried
<1>4. Owners
  BY BatcherAssumption DEF Init, Owners, Thread
<1> QED
  BY <1>2, <1>3, <1>4 DEF ByteInv

LEMMA AddBytes ==
  ASSUME ByteInv, HoldTypeOK', NEW data \in Chunks, Add(data)
  PROVE  ByteInv' /\ data \in Seq(Byte)
<1> DEFINE whole == buffer \o data
           full == FullBatches(Len(whole))
<1>1. /\ pc["reader"] = "idle" /\ ~closed /\ emitMu = None /\ emitMu' = "reader"
      /\ pc' = [pc EXCEPT !["reader"] = "emitting"]
      /\ payload' = [payload EXCEPT !["reader"] = SubSeq(whole, 1, full)]
      /\ buffer' = SubSeq(whole, full + 1, Len(whole))
      /\ added' = added \o data
      /\ UNCHANGED <<closed, tick, stop, emitted>>
  BY DEF Add, LockEmit, Goto
<1>2. trackSynchronizedOutput(data)
  BY DEF Add
<1>3. data \in Seq(Byte)
  BY BatcherAssumption, SeqDef DEF Chunks
<1>4. /\ Carried = <<>> /\ buffer \in Seq(Byte) /\ emitted \in Seq(Byte)
      /\ added \in Seq(Byte) /\ \A t \in Thread : payload[t] \in Seq(Byte)
  BY <1>1, Types DEF ByteInv, Carried
<1>5. whole \in Seq(Byte) /\ Len(whole) \in Nat
  BY <1>3, <1>4, ConcatProperties, LenProperties
<1>6. full \in 0..Len(whole) /\ Len(whole) - full < MaxBytes
  <2> HIDE DEF whole
  <2>1. Len(whole) % MaxBytes \in 0..(MaxBytes - 1) /\ Len(whole) % MaxBytes <= Len(whole)
    BY <1>5, BatcherAssumption
  <2> QED
    BY <1>5, <2>1, BatcherAssumption DEF FullBatches
<1>7. /\ SubSeq(whole, 1, full) \in Seq(Byte) /\ buffer' \in Seq(Byte)
      /\ Len(buffer') = Len(whole) - full
      /\ whole = SubSeq(whole, 1, full) \o buffer'
  <2> HIDE DEF whole, full
  <2> QED
    BY <1>1, <1>5, <1>6, Cut
<1>8. Ordered'
  <2>1. added = emitted \o buffer
    BY <1>4, ConcatEmptySeq DEF ByteInv, Ordered
  <2>2. added' = emitted \o whole
    BY <1>1, <1>3, <1>4, <2>1, Regroup, Zenon
  <2>3. Carried' = SubSeq(whole, 1, full)
    <3>1. payload'["reader"] = SubSeq(whole, 1, full)
      BY <1>1 DEF ByteInv, TypeOK, Thread
    <3>2. emitMu' # None
      BY <1>1, BatcherAssumption DEF ByteInv, Owners, Thread
    <3> QED
      BY <1>1, <3>1, <3>2 DEF Carried
  <2> QED
    BY <1>1, <1>7, <2>2, <2>3 DEF Ordered
<1>9. TypeOK'
  <2>1. syncEndPending' \in BOOLEAN
    BY <1>2 DEF trackSynchronizedOutput
  <2>2. cursorHidden' \in BOOLEAN
    <3>1. cursorHidden' = cursorHiddenAfter(data, cursorHidden)
      BY <1>2 DEF trackSynchronizedOutput
    <3> QED
      BY <3>1, CursorAfter DEF ByteInv, TypeOK
  <2>3. added' \in Seq(Byte)
    BY <1>1, <1>3, <1>4, ConcatProperties
  <2>4. buffer' \in Seq(Byte) /\ Len(buffer') < MaxBytes
    BY <1>6, <1>7
  <2>5. payload' \in [Thread -> Seq(Byte)]
    BY <1>1, <1>7 DEF ByteInv, TypeOK
  <2> QED
    BY <1>1, <2>1, <2>2, <2>3, <2>4, <2>5 DEF ByteInv, TypeOK, HoldTypeOK, Thread
<1>10. Owners'
  BY <1>1, BatcherAssumption DEF ByteInv, TypeOK, Owners, Thread
<1> QED
  BY <1>3, <1>8, <1>9, <1>10 DEF ByteInv

LEMMA EmitBytes ==
  ASSUME ByteInv, HoldTypeOK', NEW t \in Thread, Emit(t)
  PROVE  ByteInv'
<1> DEFINE n == IF Len(payload[t]) < MaxBytes THEN Len(payload[t]) ELSE MaxBytes
           batch == SubSeq(payload[t], 1, n)
           rest == SubSeq(payload[t], n + 1, Len(payload[t]))
<1>1. /\ payload[t] # <<>>
      /\ emitted' = emitted \o batch
      /\ payload' = [payload EXCEPT ![t] = rest]
      /\ UNCHANGED <<buffer, closed, sync, emitMu, pc, tick, stop, added, held>>
  BY DEF Emit
<1>2. emitMu = t /\ t # None
  BY <1>1, BatcherAssumption DEF ByteInv, Owners
<1>3. /\ buffer \in Seq(Byte) /\ emitted \in Seq(Byte) /\ payload[t] \in Seq(Byte)
  BY Types DEF ByteInv
<1>4. n \in 0..Len(payload[t])
  <2>1. Len(payload[t]) \in Nat
    BY <1>3, LenProperties
  <2> QED
    BY <2>1, BatcherAssumption
<1>5. /\ batch \in Seq(Byte) /\ rest \in Seq(Byte)
      /\ payload[t] = batch \o rest
  <2> HIDE DEF n
  <2> QED
    BY <1>3, <1>4, Cut
<1> HIDE DEF batch, rest
<1>6. Carried = payload[t] /\ Carried' = rest
  BY <1>1, <1>2 DEF Carried, ByteInv, TypeOK
<1>7. Ordered'
  <2>1. added = emitted \o ((batch \o rest) \o buffer)
    BY <1>5, <1>6, Zenon DEF ByteInv, Ordered
  <2>2. (batch \o rest) \o buffer = batch \o (rest \o buffer)
    BY <1>3, <1>5, Regroup, Zenon
  <2>3. rest \o buffer \in Seq(Byte)
    BY <1>3, <1>5, ConcatProperties
  <2>4. emitted \o (batch \o (rest \o buffer)) = (emitted \o batch) \o (rest \o buffer)
    BY <1>3, <1>5, <2>3, Regroup, Zenon
  <2>5. added' = added /\ buffer' = buffer
    BY <1>1
  <2> QED
    BY <1>1, <1>6, <2>1, <2>2, <2>4, <2>5, Zenon DEF Ordered
<1>8. emitted' \in Seq(Byte)
  BY <1>1, <1>3, <1>5, ConcatProperties
<1>9. TypeOK'
  BY <1>1, <1>5, <1>8 DEF ByteInv, TypeOK, HoldTypeOK, sync
<1>10. Owners'
  BY <1>1, <1>2 DEF ByteInv, TypeOK, Owners
<1> QED
  BY <1>7, <1>9, <1>10 DEF ByteInv

\* The buffer goes to the thread that takes emitMu.
LEMMA TakeBytes ==
  ASSUME ByteInv, NEW t \in Thread, LockEmit(t), TakeBuffer(t), UNCHANGED <<added, emitted>>
  PROVE  /\ Ordered' /\ buffer' = <<>> /\ emitMu = None /\ emitMu' = t
         /\ buffer' \in Seq(Byte) /\ Len(buffer') < MaxBytes
         /\ payload' \in [Thread -> Seq(Byte)]
         /\ \A u \in Thread : u # t => payload'[u] = <<>>
<1>1. /\ emitMu = None /\ emitMu' = t
      /\ payload' = [payload EXCEPT ![t] = buffer] /\ buffer' = <<>>
  BY DEF LockEmit, TakeBuffer
<1>2. /\ Carried = <<>> /\ Carried' = buffer
  BY <1>1, BatcherAssumption DEF Carried, ByteInv, TypeOK
<1>3. buffer \in Seq(Byte) /\ buffer' \in Seq(Byte) /\ Len(buffer') < MaxBytes
  <2>1. <<>> \in Seq(Byte) /\ Len(<<>>) = 0 /\ 0 < MaxBytes
    BY EmptySeq, BatcherAssumption
  <2> QED
    BY <1>1, <2>1, Types DEF ByteInv
<1>4. <<>> \o buffer = buffer \o <<>>
  BY <1>3, ConcatEmptySeq
<1>5. Ordered'
  BY <1>1, <1>2, <1>4 DEF ByteInv, Ordered
<1>6. payload' \in [Thread -> Seq(Byte)] /\ \A u \in Thread : u # t => payload'[u] = <<>>
  BY <1>1, <1>3, BatcherAssumption DEF ByteInv, TypeOK, Owners
<1> QED
  BY <1>1, <1>3, <1>5, <1>6

\* Who had emitMu has nothing left, and lets it go.
LEMMA FinishBytes ==
  ASSUME ByteInv, NEW t \in Thread, emitMu = t, payload[t] = <<>>, emitMu' = None,
         UNCHANGED <<added, emitted, buffer>>
  PROVE  Ordered'
<1>1. Carried = <<>> /\ Carried' = <<>>
  BY BatcherAssumption DEF Carried
<1> QED
  BY <1>1 DEF ByteInv, Ordered

LEMMA ByteStep ==
  ASSUME ByteInv, HoldTypeOK', [Next]_vars
  PROVE  ByteInv'
<1> USE DEF ByteInv
<1>1. ASSUME NEW data \in Chunks, Add(data) PROVE ByteInv'
  BY <1>1, AddBytes
<1>2. ASSUME NEW t \in Thread, Emit(t) PROVE ByteInv'
  BY <1>2, EmitBytes
<1>3. ASSUME NEW t \in Thread, Finish(t) PROVE ByteInv'
  <2>1. emitMu = t
    BY <1>3 DEF Finish, Owners
  <2>2. Ordered'
    BY <1>3, <2>1, FinishBytes DEF Finish
  <2>3. TypeOK'
    BY <1>3 DEF Finish, Goto, TypeOK, HoldTypeOK, sync
  <2>4. Owners'
    BY <1>3, <2>1, BatcherAssumption DEF Finish, Goto, TypeOK, Owners, Thread
  <2> QED
    BY <2>2, <2>3, <2>4
<1>4. CASE TimerFlushes
  <2>1. /\ LockEmit("runner") /\ TakeBuffer("runner") /\ UNCHANGED <<added, emitted>>
        /\ "runner" \in Thread
    BY <1>4 DEF TimerFlushes, Thread
  <2>2. /\ Ordered' /\ buffer' = <<>> /\ emitMu = None /\ emitMu' = "runner"
        /\ buffer' \in Seq(Byte) /\ Len(buffer') < MaxBytes
        /\ payload' \in [Thread -> Seq(Byte)]
        /\ \A u \in Thread : u # "runner" => payload'[u] = <<>>
    BY <2>1, TakeBytes
  <2>3. TypeOK'
    BY <1>4, <2>1, <2>2 DEF TimerFlushes, Goto, TypeOK, HoldTypeOK
  <2>4. Owners'
    BY <1>4, <2>1, <2>2, BatcherAssumption DEF TimerFlushes, Goto, TypeOK, Owners, Thread
  <2> QED
    BY <2>2, <2>3, <2>4
<1>5. CASE RunnerStops
  <2>1. /\ LockEmit("runner") /\ TakeBuffer("runner") /\ UNCHANGED <<added, emitted>>
        /\ "runner" \in Thread
    BY <1>5 DEF RunnerStops, Thread
  <2>2. /\ Ordered' /\ buffer' = <<>> /\ emitMu = None /\ emitMu' = "runner"
        /\ buffer' \in Seq(Byte) /\ Len(buffer') < MaxBytes
        /\ payload' \in [Thread -> Seq(Byte)]
        /\ \A u \in Thread : u # "runner" => payload'[u] = <<>>
    BY <2>1, TakeBytes
  <2>3. TypeOK'
    BY <1>5, <2>1, <2>2 DEF RunnerStops, Goto, TypeOK, HoldTypeOK, sync
  <2>4. Owners'
    BY <1>5, <2>1, <2>2, BatcherAssumption DEF RunnerStops, Goto, TypeOK, Owners, Thread
  <2> QED
    BY <2>2, <2>3, <2>4
<1>6. CASE Close
  <2>1. /\ LockEmit("closer") /\ TakeBuffer("closer") /\ UNCHANGED <<added, emitted>>
        /\ "closer" \in Thread
    BY <1>6 DEF Close, Thread
  <2>2. /\ Ordered' /\ buffer' = <<>> /\ emitMu = None /\ emitMu' = "closer"
        /\ buffer' \in Seq(Byte) /\ Len(buffer') < MaxBytes
        /\ payload' \in [Thread -> Seq(Byte)]
        /\ \A u \in Thread : u # "closer" => payload'[u] = <<>>
    BY <2>1, TakeBytes
  <2>3. TypeOK'
    BY <1>6, <2>1, <2>2 DEF Close, Goto, TypeOK, HoldTypeOK, sync
  <2>4. Owners'
    BY <1>6, <2>1, <2>2, BatcherAssumption DEF Close, Goto, TypeOK, Owners, Thread
  <2> QED
    BY <2>2, <2>3, <2>4
<1>7. CASE CloseStops
  <2>1. emitMu = "closer" /\ "closer" \in Thread
    BY <1>7 DEF CloseStops, Owners, Thread
  <2>2. Ordered'
    BY <1>7, <2>1, FinishBytes DEF CloseStops
  <2>3. TypeOK'
    BY <1>7 DEF CloseStops, Goto, TypeOK, HoldTypeOK, sync
  <2>4. Owners'
    BY <1>7, <2>1, BatcherAssumption DEF CloseStops, Goto, TypeOK, Owners, Thread
  <2> QED
    BY <2>2, <2>3, <2>4
<1>8. CASE CloseReturns
  BY <1>8 DEF CloseReturns, Goto, TypeOK, HoldTypeOK, Ordered, Carried, Owners, Thread, sync
<1>9. CASE TimerFindsNothing \/ TimerHolds \/ Pass
  <2>1. /\ UNCHANGED <<buffer, closed, syncEndPending, cursorHidden, emitMu, payload, pc, stop, added, emitted>>
        /\ tick' \in BOOLEAN
    BY <1>9 DEF TimerFindsNothing, TimerHolds, Pass, sync
  <2>2. TypeOK'
    BY <2>1 DEF TypeOK, HoldTypeOK
  <2>3. Ordered'
    BY <2>1 DEF Ordered, Carried
  <2>4. Owners'
    BY <2>1 DEF Owners
  <2> QED
    BY <2>2, <2>3, <2>4
<1>10. CASE UNCHANGED vars
  BY <1>10 DEF vars, TypeOK, Ordered, Carried, Owners
<1> QED
  BY <1>1, <1>2, <1>3, <1>4, <1>5, <1>6, <1>7, <1>8, <1>9, <1>10 DEF Next, Runner

(***************************************************************************)
(* The cursor: the flags agree with all that was printed.                  *)
(***************************************************************************)
CursorInv ==
  /\ cursorHidden = cursorHiddenAfter(added, FALSE)
  /\ syncDeadline # None => syncEndPending
  /\ syncEndPending => Waiting(added)

\* What a chunk does to the flags.
LEMMA TrackFlags ==
  ASSUME NEW bytes, trackSynchronizedOutput(bytes), syncDeadline # None => syncEndPending
  PROVE  /\ cursorHidden' = cursorHiddenAfter(bytes, cursorHidden)
         /\ syncDeadline' # None => syncEndPending'
         /\ syncEndPending' =>
              \/ /\ LastEnd(bytes) # 0
                 /\ ~cursorHiddenAfter(Before(bytes, LastEnd(bytes)), cursorHidden)
                 /\ ~Shown(After(bytes, LastEnd(bytes)))
              \/ syncEndPending /\ ~Shown(bytes)
<1> DEFINE end == LastEnd(bytes)
           repaired == syncEndPending /\ Shown(bytes)
           holds == end # 0 /\ ~cursorHiddenAfter(Before(bytes, end), cursorHidden)
           over == end # 0 /\ Shown(After(bytes, end))
           since == IF holds /\ syncHeldSince = None THEN 0 ELSE syncHeldSince
<1>1. /\ syncDeadline' = CASE over -> None
                           [] holds /\ ~over -> Delay - since
                           [] ~holds /\ ~over /\ repaired -> None
                           [] OTHER -> syncDeadline
      /\ syncEndPending' = (~over /\ (holds \/ (syncEndPending /\ ~repaired)))
      /\ cursorHidden' = cursorHiddenAfter(bytes, cursorHidden)
  BY DEF trackSynchronizedOutput, LastEnd
<1>2. syncEndPending' =>
        \/ end # 0 /\ ~cursorHiddenAfter(Before(bytes, end), cursorHidden) /\ ~Shown(After(bytes, end))
        \/ syncEndPending /\ ~Shown(bytes)
  BY <1>1
<1>3. syncDeadline' # None => syncEndPending'
  <2> HIDE DEF repaired, holds, over, since
  <2>1. CASE over
    BY <1>1, <2>1
  <2>2. CASE holds /\ ~over
    BY <1>1, <2>2
  <2>3. CASE ~holds /\ ~over /\ repaired
    BY <1>1, <2>3
  <2>4. CASE ~holds /\ ~over /\ ~repaired
    <3>1. syncDeadline' = syncDeadline
      BY <1>1, <2>4
    <3> QED
      BY <1>1, <2>4, <3>1
  <2> QED
    BY <2>1, <2>2, <2>3, <2>4
<1> QED
  BY <1>1, <1>2, <1>3

LEMMA CursorStep ==
  ASSUME CursorInv, ByteInv, HoldTypeOK', [Next]_vars
  PROVE  CursorInv'
<1>1. ASSUME NEW data \in Chunks, Add(data) PROVE CursorInv'
  <2>1. data \in Seq(Byte) /\ added \in Seq(Byte) /\ added' = added \o data
    BY <1>1, AddBytes, Types DEF Add, ByteInv
  <2>2. /\ cursorHidden' = cursorHiddenAfter(data, cursorHidden)
        /\ syncDeadline' # None => syncEndPending'
        /\ syncEndPending' =>
             \/ /\ LastEnd(data) # 0
                /\ ~cursorHiddenAfter(Before(data, LastEnd(data)), cursorHidden)
                /\ ~Shown(After(data, LastEnd(data)))
             \/ syncEndPending /\ ~Shown(data)
    BY <1>1, TrackFlags DEF Add, CursorInv
  <2>3. cursorHidden' = cursorHiddenAfter(added', FALSE)
    <3>1. cursorHiddenAfter(added \o data, FALSE) = cursorHiddenAfter(data, cursorHiddenAfter(added, FALSE))
      BY <2>1, CursorAfterBoth, Zenon
    <3> QED
      BY <2>1, <2>2, <3>1, Zenon DEF CursorInv
  <2>4. ASSUME LastEnd(data) # 0,
               ~cursorHiddenAfter(Before(data, LastEnd(data)), cursorHidden),
               ~Shown(After(data, LastEnd(data)))
        PROVE  Waiting(added')
    <3>1. LastEnd(data) \in 1..Len(data) /\ data[LastEnd(data)] = "end"
      <4>1. /\ LastOf(data, {"end"}) \in 0..Len(data)
            /\ LastOf(data, {"end"}) # 0 => data[LastOf(data, {"end"})] \in {"end"}
        BY <2>1, LastSelected
      <4> QED
        BY <2>1, <2>4, <4>1, LastEndIsLast, LenProperties
    <3>2. ~cursorHiddenAfter(Before(data, LastEnd(data)), cursorHiddenAfter(added, FALSE))
      BY <2>4, Zenon DEF CursorInv
    <3> QED
      BY <2>1, <2>4, <3>1, <3>2, WaitBegins, Zenon
  <2>5. ASSUME syncEndPending, ~Shown(data) PROVE Waiting(added')
    BY <2>1, <2>5, WaitGoesOn DEF CursorInv
  <2> QED
    BY <2>2, <2>3, <2>4, <2>5 DEF CursorInv
<1>2. ASSUME added' = added, syncEndPending' = syncEndPending, cursorHidden' = cursorHidden,
             syncDeadline' # None => syncDeadline # None
      PROVE  CursorInv'
  BY <1>2 DEF CursorInv
<1>3. CASE TimerFlushes
  BY <1>3 DEF TimerFlushes, CursorInv
<1>4. CASE Pass
  <2>1. syncDeadline' # None => syncDeadline # None
    BY <1>4, BatcherAssumption DEF Pass
  <2> QED
    BY <1>2, <1>4, <2>1 DEF Pass
<1>5. ASSUME NEW t \in Thread, Emit(t) PROVE CursorInv'
  BY <1>2, <1>5 DEF Emit, sync
<1>6. ASSUME NEW t \in Thread, Finish(t) PROVE CursorInv'
  BY <1>2, <1>6 DEF Finish, sync
<1>7. CASE TimerFindsNothing \/ TimerHolds \/ RunnerStops
  BY <1>2, <1>7 DEF TimerFindsNothing, TimerHolds, RunnerStops, sync
<1>8. CASE Close \/ CloseStops \/ CloseReturns
  BY <1>2, <1>8 DEF Close, CloseStops, CloseReturns, sync
<1>9. CASE UNCHANGED vars
  BY <1>2, <1>9 DEF vars
<1> QED
  BY <1>1, <1>3, <1>4, <1>5, <1>6, <1>7, <1>8, <1>9 DEF Next, Runner

-----------------------------------------------------------------------------
IInv == HoldInv /\ ByteInv /\ CursorInv

LEMMA Invariant == Spec => []IInv
<1>1. Init => IInv
  <2> SUFFICES ASSUME Init PROVE IInv
    OBVIOUS
  <2>1. CursorInv
    <3>1. added = <<>> /\ added \in Seq(Byte) /\ Len(added) = 0
      BY EmptySeq DEF Init
    <3>2. LastOf(added, CursorKeys) = 0
      <4>1. LastOf(added, CursorKeys) \in 0..Len(added)
        BY <3>1, LastSelected
      <4> QED
        BY <3>1, <4>1
    <3>3. cursorHiddenAfter(added, FALSE) = FALSE
      BY <3>2, CursorAfter, Zenon
    <3> QED
      BY <3>3 DEF Init, CursorInv
  <2> QED
    BY <2>1, HoldInit, ByteInit DEF IInv
<1>2. IInv /\ [Next]_vars => IInv'
  <2> SUFFICES ASSUME IInv, [Next]_vars PROVE IInv'
    OBVIOUS
  <2>1. HoldInv'
    BY HoldStep DEF IInv
  <2>2. ByteInv'
    BY <2>1, ByteStep DEF IInv, HoldInv
  <2>3. CursorInv'
    BY <2>1, CursorStep DEF IInv, HoldInv
  <2> QED
    BY <2>1, <2>2, <2>3 DEF IInv
<1> QED
  BY <1>1, <1>2, PTL DEF Spec

(***************************************************************************)
(* Whatever the sizes and the interleaving: when Close has returned all    *)
(* that was accepted has been emitted, and output is held only for a       *)
(* cursor that is still to be put back.                                    *)
(***************************************************************************)
THEOREM BatcherInvCorrect == Spec => []BatcherInv
<1>1. IInv => BatcherInv
  <2> SUFFICES ASSUME IInv PROVE BatcherInv
    OBVIOUS
  <2>1. ASSUME pc["closer"] = "done"
        PROVE  emitted = added /\ \A t \in Thread : payload[t] = <<>>
    <3>1. emitMu = None
      BY <2>1 DEF IInv, ByteInv, TypeOK, Owners, Thread
    <3>2. buffer = <<>> /\ \A t \in Thread : payload[t] = <<>>
      BY <2>1, <3>1, BatcherAssumption DEF IInv, ByteInv, Owners, Thread
    <3>3. added = emitted \o (<<>> \o <<>>) /\ emitted \in Seq(Byte) /\ <<>> \in Seq(Byte)
      BY <3>1, <3>2, EmptySeq DEF IInv, ByteInv, TypeOK, Ordered, Carried
    <3>4. <<>> \o <<>> = <<>>
      BY <3>3, ConcatEmptySeq
    <3>5. emitted \o <<>> = emitted
      BY <3>3, ConcatEmptySeq
    <3> QED
      BY <3>2, <3>3, <3>4, <3>5, Zenon
  <2>2. ClosedMeansDrained
    BY <2>1 DEF ClosedMeansDrained
  <2>3. MustHold => Waiting(added)
    BY DEF IInv, CursorInv, MustHold
  <2>4. HeldOnlyForCursor
    BY <2>3 DEF HeldOnlyForCursor, Waiting
  <2> QED
    BY <2>2, <2>4 DEF BatcherInv, IInv, ByteInv
<1> QED
  BY <1>1, Invariant, PTL
-----------------------------------------------------------------------------
(***************************************************************************)
(* The steps of the batcher are steps of a byte stream.                    *)
(***************************************************************************)

\* An Add accepts the bytes of its chunk, which is not empty.
LEMMA AddAccepts ==
  ASSUME ByteInv, NEW data \in Chunks, Add(data)
  PROVE  Abstract!Accept
<1>1. data \in Seq(Byte) /\ Len(data) \in Nat \ {0} /\ added \in Seq(Byte)
  <2>1. PICK n \in 1..MaxChunk : data \in [1..n -> Byte]
    BY DEF Chunks
  <2>2. n \in Nat \ {0} /\ 1..n = DOMAIN data
    BY <2>1, BatcherAssumption
  <2>3. data \in Seq(Byte) /\ Len(data) = n
    BY <2>1, <2>2
  <2> QED
    BY <2>2, <2>3 DEF ByteInv, TypeOK
<1>2. added' = added \o data /\ UNCHANGED emitted
  BY DEF Add
<1>3. /\ added' \in Seq(Byte)
      /\ Len(added') = Len(added) + Len(data)
      /\ \A i \in 1..Len(added) : added'[i] = added[i]
  BY <1>1, <1>2, ConcatProperties, LenProperties
<1>4. Len(added') > Len(added) /\ Len(added) \in Nat
  BY <1>1, <1>3, LenProperties
<1>5. SubSeq(added', 1, Len(added)) = added
  <2>1. \A i \in 1..Len(added) : added'[i] \in Byte
    BY <1>1, <1>3, ElementOfSeq
  <2>2. /\ SubSeq(added', 1, Len(added)) \in Seq(Byte)
        /\ Len(SubSeq(added', 1, Len(added))) = IF 1 <= Len(added) THEN Len(added) - 1 + 1 ELSE 0
        /\ \A i \in 1..(Len(added) - 1 + 1) : SubSeq(added', 1, Len(added))[i] = added'[1 + i - 1]
    BY <1>4, <2>1, SubSeqProperties
  <2>3. Len(SubSeq(added', 1, Len(added))) = Len(added)
    BY <1>4, <2>2
  <2>4. \A i \in 1..Len(added) : SubSeq(added', 1, Len(added))[i] = added[i]
    BY <1>3, <1>4, <2>2
  <2> QED
    BY <1>1, <2>2, <2>3, <2>4, SeqEqual
<1> QED
  BY <1>2, <1>3, <1>4, <1>5 DEF Abstract!Accept

\* A batch that is emitted holds the oldest bytes that wait.
LEMMA BatchEmits ==
  ASSUME ByteInv, ByteInv', NEW t \in Thread, Emit(t)
  PROVE  Abstract!Emit
<1> DEFINE n == IF Len(payload[t]) < MaxBytes THEN Len(payload[t]) ELSE MaxBytes
           batch == SubSeq(payload[t], 1, n)
<1>1. payload[t] # <<>> /\ emitted' = emitted \o batch /\ UNCHANGED added
  BY DEF Emit
<1>2. emitted \in Seq(Byte) /\ emitted' \in Seq(Byte) /\ added \in Seq(Byte) /\ payload[t] \in Seq(Byte)
  BY Types DEF ByteInv, TypeOK
<1>3. n \in 1..Len(payload[t]) /\ n \in Nat \ {0}
  <2>1. Len(payload[t]) \in Nat \ {0}
    BY <1>1, <1>2, EmptySeq
  <2> QED
    BY <2>1, BatcherAssumption
<1> HIDE DEF n
<1>4. batch \in Seq(Byte) /\ Len(batch) = n
  <2>1. \A i \in 1..n : payload[t][i] \in Byte
    BY <1>2, <1>3, ElementOfSeq
  <2>2. Len(SubSeq(payload[t], 1, n)) = IF 1 <= n THEN n - 1 + 1 ELSE 0
    BY <1>3, <2>1, SubSeqProperties
  <2> QED
    BY <1>3, <2>1, <2>2, SubSeqProperties
<1> HIDE DEF batch
<1>5. Len(emitted') = Len(emitted) + n /\ Len(emitted) \in Nat
  BY <1>1, <1>2, <1>4, ConcatProperties, LenProperties
<1>6. PICK rest \in Seq(Byte) : added = emitted' \o rest
  <2>1. added' = emitted' \o (Carried' \o buffer')
    BY DEF ByteInv, Ordered
  <2>2. Carried' \in Seq(Byte) /\ buffer' \in Seq(Byte)
    BY EmptySeq DEF ByteInv, TypeOK, Carried
  <2>3. Carried' \o buffer' \in Seq(Byte)
    BY <2>2, ConcatProperties
  <2> QED
    BY <1>1, <2>1, <2>3
<1>7. /\ Len(added) = Len(emitted') + Len(rest) /\ Len(rest) \in Nat
      /\ \A i \in 1..Len(emitted') : added[i] = emitted'[i]
  <2>1. Len(emitted') \in Nat /\ Len(rest) \in Nat
    BY <1>2, LenProperties
  <2>2. /\ Len(emitted' \o rest) = Len(emitted') + Len(rest)
        /\ \A i \in 1..(Len(emitted') + Len(rest)) :
             (emitted' \o rest)[i] = IF i <= Len(emitted') THEN emitted'[i] ELSE rest[i - Len(emitted')]
    BY <1>2, ConcatProperties
  <2> QED
    BY <1>6, <2>1, <2>2
<1>8. Len(emitted') \in (Len(emitted) + 1)..Len(added)
  BY <1>3, <1>5, <1>7
<1>9. emitted' = SubSeq(added, 1, Len(emitted'))
  <2> DEFINE shown == SubSeq(added, 1, Len(emitted'))
  <2>1. \A i \in 1..Len(emitted') : added[i] \in Byte
    BY <1>2, <1>7, ElementOfSeq
  <2>2. /\ shown \in Seq(Byte)
        /\ Len(shown) = IF 1 <= Len(emitted') THEN Len(emitted') - 1 + 1 ELSE 0
        /\ \A i \in 1..(Len(emitted') - 1 + 1) : shown[i] = added[1 + i - 1]
    BY <1>3, <1>5, <2>1, SubSeqProperties
  <2>3. Len(shown) = Len(emitted') /\ \A i \in 1..Len(emitted') : emitted'[i] = shown[i]
    BY <1>3, <1>5, <1>7, <2>2
  <2> HIDE DEF shown
  <2> QED
    BY <1>2, <2>2, <2>3, SeqEqual DEF shown
<1> QED
  BY <1>1, <1>8, <1>9 DEF Abstract!Emit

(***************************************************************************)
(* Whatever the sizes and the interleaving of Add, the timer and Close,    *)
(* the batcher does to the bytes only what a byte stream does: it accepts  *)
(* some, or hands out the oldest that wait.  (That all are handed out in   *)
(* the end, the rest of ImplementsByteStream, is left to TLC.)             *)
(***************************************************************************)
THEOREM BatcherStepsAreByteStream == Spec => Abstract!Init /\ [][Abstract!Next]_Abstract!vars
<1>1. Init => Abstract!Init
  BY DEF Init, Abstract!Init
<1>2. IInv /\ IInv' /\ [Next]_vars => [Abstract!Next]_Abstract!vars
  <2> SUFFICES ASSUME IInv, IInv', [Next]_vars PROVE Abstract!Next \/ UNCHANGED <<added, emitted>>
    BY DEF Abstract!vars
  <2>1. ASSUME NEW data \in Chunks, Add(data) PROVE Abstract!Next
    BY <2>1, AddAccepts DEF Abstract!Next, IInv
  <2>2. ASSUME NEW t \in Thread, Emit(t) PROVE Abstract!Next
    BY <2>2, BatchEmits DEF Abstract!Next, IInv
  <2>3. ASSUME NEW t \in Thread, Finish(t) PROVE UNCHANGED <<added, emitted>>
    BY <2>3 DEF Finish
  <2>4. CASE TimerFindsNothing \/ TimerHolds \/ TimerFlushes \/ RunnerStops
    BY <2>4 DEF TimerFindsNothing, TimerHolds, TimerFlushes, RunnerStops
  <2>5. CASE Close \/ CloseStops \/ CloseReturns \/ Pass
    BY <2>5 DEF Close, CloseStops, CloseReturns, Pass
  <2>6. CASE UNCHANGED vars
    BY <2>6 DEF vars
  <2> QED
    BY <2>1, <2>2, <2>3, <2>4, <2>5, <2>6 DEF Next, Runner
<1> QED
  BY <1>1, <1>2, Invariant, PTL DEF Spec
=============================================================================
