--------------------------- MODULE PipelineProofs ---------------------------
(***************************************************************************)
(* Proofs about TerminalPipeline, for batches and output of any size and   *)
(* any number of queries that are late.                                    *)
(***************************************************************************)
EXTENDS TerminalPipeline, SequenceTheorems, FiniteSetTheorems, TLAPS

\* What has been read is on the screen, in the batch that is being emitted,
\* in the batcher or about to be added to it, in this order.
Ordered == read = shown \o (batch \o (buffer \o chunk))

\* Who emits; and who has nothing left to emit.
Emitters ==
  /\ emitMu = None \/ emitting = "metadata" => batch = <<>>
  /\ (emitMu = "reader") <=> (reader = "emitting")
  /\ (emitMu = "closer") <=> (waiter = "batcher")
  /\ chunk # <<>> => reader = "adding"
  /\ waiter \in {"batcher", "exit", "remove", "done"} => reader = "done" /\ buffer = <<>>
  /\ waiter \in {"exit", "remove", "done"} => emitMu = None

IInv == TypeOK /\ Ordered /\ Emitters

\* The pump stops only when the input is closed, and then few queries, if
\* any, are left for it; who waits for it emits.
Late ==
  /\ input <=> pipe
  /\ reply => emitting = "write"
  /\ ~replyPipe => waiter \in {"remove", "done"}
  /\ waiter # "process" => ~input
  /\ ~input => Unanswered <= MaxLate
  /\ pump = "ended" => ~input /\ (Unanswered = 0 \/ Unanswered < MaxLate)

-----------------------------------------------------------------------------
LEMMA Cut ==
  ASSUME NEW S, NEW s \in Seq(S), NEW n \in 0..Len(s)
  PROVE  /\ SubSeq(s, 1, n) \in Seq(S)
         /\ SubSeq(s, n + 1, Len(s)) \in Seq(S)
         /\ s = SubSeq(s, 1, n) \o SubSeq(s, n + 1, Len(s))
<1>0. Len(s) \in Nat
  BY LenProperties
<1>1. \A i \in 1..Len(s) : s[i] \in S
  BY ElementOfSeq
<1>2. SubSeq(s, 1, n) \in Seq(S) /\ SubSeq(s, n + 1, Len(s)) \in Seq(S)
  <2>1. \A i \in 1..n : s[i] \in S
    BY <1>0, <1>1
  <2>2. \A i \in (n + 1)..Len(s) : s[i] \in S
    BY <1>0, <1>1
  <2>3. n \in Int /\ n + 1 \in Int /\ Len(s) \in Int /\ 1 \in Int
    BY <1>0
  <2>4. SubSeq(s, 1, n) \in Seq(S)
    BY <2>1, <2>3, SubSeqProperties
  <2>5. SubSeq(s, n + 1, Len(s)) \in Seq(S)
    BY <2>2, <2>3, SubSeqProperties
  <2> QED
    BY <2>4, <2>5
<1>3. SubSeq(s, 1, n) \o SubSeq(s, n + 1, Len(s)) = SubSeq(s, 1, Len(s))
  <2>1. /\ 1 \in 1..(Len(s) + 1) /\ n \in (1 - 1)..Len(s) /\ Len(s) \in n..Len(s)
    BY <1>0
  <2> QED
    BY <2>1, ConcatAdjacentSubSeq
<1>4. SubSeq(s, 1, Len(s)) = s
  BY SubSeqFull
<1> QED
  BY <1>2, <1>3, <1>4

\* What the order of bytes needs to know about concatenation.
LEMMA Regroup == \A s, t, u \in Seq(Byte) : (s \o t) \o u = s \o (t \o u)
<1> TAKE s, t, u \in Seq(Byte)
<1> QED
  BY ConcatAssociative

\* A sequence that is not empty is its head and the rest.
LEMMA HeadOfBatch ==
  ASSUME NEW s \in Seq(Byte), s # <<>>
  PROVE  /\ Head(s) \in Byte /\ Tail(s) \in Seq(Byte) /\ <<Head(s)>> \in Seq(Byte)
         /\ s = <<Head(s)>> \o Tail(s)
<1>1. Head(s) \in Byte /\ Tail(s) \in Seq(Byte)
  BY HeadTailProperties
<1>2. <<Head(s)>> \in Seq(Byte) /\ s = <<Head(s)>> \o Tail(s)
  <2>1. Len(s) \in Nat \ {0}
    BY EmptySeq
  <2>2. /\ SubSeq(s, 1, 1) \in Seq(Byte)
        /\ s = SubSeq(s, 1, 1) \o SubSeq(s, 2, Len(s))
    BY <2>1, Cut
  <2>3. Tail(s) = SubSeq(s, 2, Len(s))
    BY TailIsSubSeq
  <2>4. SubSeq(s, 1, 1) = <<s[1]>> /\ Head(s) = s[1]
    <3>1. 1 \in 1..Len(s) /\ 0 + 1 = 1 /\ \A i \in 1..1 : s[i] \in Byte
      BY <2>1, ElementOfSeq
    <3>2. Len(SubSeq(s, 1, 1)) = 1 /\ SubSeq(s, 1, 1)[1] = s[1]
      BY <3>1, SubSeqProperties
    <3>3. SubSeq(s, 1, 1) = <<s[1]>>
      <4>1. /\ <<s[1]>> \in Seq(Byte) /\ Len(<<s[1]>>) = 1 /\ <<s[1]>>[1] = s[1]
        BY <3>1
      <4>2. \A i \in 1..1 : SubSeq(s, 1, 1)[i] = <<s[1]>>[i]
        BY <3>2, <4>1
      <4> QED
        BY <2>2, <3>2, <4>1, <4>2, SeqEqual
    <3>4. Head(s) = s[1]
      BY <2>1
    <3> QED
      BY <3>3, <3>4
  <2> QED
    BY <2>2, <2>3, <2>4
<1> QED
  BY <1>1, <1>2

\* What the count of queries needs to know about sequences.
QueriesIn(s) == {i \in 1..Len(s) : s[i] = "query"}

LEMMA QueriesAreCounted ==
  ASSUME NEW s \in Seq(Byte)
  PROVE  /\ Queries(s) = Cardinality(QueriesIn(s))
         /\ IsFiniteSet(QueriesIn(s))
         /\ Queries(s) \in Nat
         /\ s = <<>> => Queries(s) = 0
<1>1. Len(s) \in Nat /\ DOMAIN s = 1..Len(s)
  BY LenProperties
<1>2. Queries(s) = Cardinality(QueriesIn(s))
  BY <1>1 DEF Queries, QueriesIn
<1>3. IsFiniteSet(QueriesIn(s))
  <2>1. IsFiniteSet(1..Len(s))
    <3>1. 1 \in Int /\ Len(s) \in Int
      BY <1>1
    <3> QED
      BY <3>1, FS_Interval
  <2>2. QueriesIn(s) \in SUBSET (1..Len(s))
    BY DEF QueriesIn
  <2> QED
    BY <2>1, <2>2, FS_Subset
<1>4. s = <<>> => QueriesIn(s) = {}
  BY <1>1 DEF QueriesIn
<1> QED
  BY <1>2, <1>3, <1>4, FS_CardinalityType, FS_EmptySet

LEMMA QueriesOfOne == Queries(<<"query">>) = 1 /\ Queries(<<"x">>) = 0
<1>1. <<"query">> \in Seq(Byte) /\ <<"x">> \in Seq(Byte)
  BY DEF Byte
<1>2. QueriesIn(<<"query">>) = {1} /\ QueriesIn(<<"x">>) = {}
  BY DEF QueriesIn
<1>3. /\ Queries(<<"query">>) = Cardinality(QueriesIn(<<"query">>))
      /\ Queries(<<"x">>) = Cardinality(QueriesIn(<<"x">>))
  BY <1>1, QueriesAreCounted
<1>4. Cardinality({1}) = 1 /\ Cardinality({}) = 0
  BY FS_Singleton, FS_EmptySet
<1> QED
  BY ONLY <1>2, <1>3, <1>4

LEMMA QueriesOfConcat ==
  ASSUME NEW s \in Seq(Byte), NEW t \in Seq(Byte)
  PROVE  Queries(s \o t) = Queries(s) + Queries(t)
<1> DEFINE S == QueriesIn(s)
           T == QueriesIn(t)
           U == {i \in (Len(s) + 1)..(Len(s) + Len(t)) : (s \o t)[i] = "query"}
           f == [i \in T |-> Len(s) + i]
<1>1. /\ s \o t \in Seq(Byte) /\ Len(s \o t) = Len(s) + Len(t)
      /\ Len(s) \in Nat /\ Len(t) \in Nat
      /\ \A i \in 1..(Len(s) + Len(t)) :
           (s \o t)[i] = IF i <= Len(s) THEN s[i] ELSE t[i - Len(s)]
  BY ConcatProperties, LenProperties
<1>2. QueriesIn(s \o t) = S \cup U
  BY <1>1 DEF QueriesIn
<1>3. S \cap U = {}
  BY <1>1 DEF QueriesIn
<1>4. f \in Bijection(T, U)
  <2>1. \A i \in T : Len(s) + i \in U
    BY <1>1 DEF QueriesIn
  <2>2. \A i \in T, j \in T : Len(s) + i = Len(s) + j => i = j
    BY <1>1 DEF QueriesIn
  <2>3. \A u \in U : u - Len(s) \in T /\ Len(s) + (u - Len(s)) = u
    BY <1>1 DEF QueriesIn
  <2> HIDE DEF S, T, U
  <2>4. f \in Injection(T, U)
    BY <2>1, <2>2 DEF Injection, IsInjective
  <2>5. f \in Surjection(T, U)
    BY <2>1, <2>3 DEF Surjection
  <2> QED
    BY <2>4, <2>5 DEF Bijection
<1>5. IsFiniteSet(S) /\ IsFiniteSet(T)
  BY QueriesAreCounted
<1> HIDE DEF S, T, U, f
<1>6. IsFiniteSet(U) /\ Cardinality(U) = Cardinality(T)
  BY <1>4, <1>5, FS_Bijection DEF ExistsBijection
<1>7. Cardinality(S \cup U) = Cardinality(S) + Cardinality(U)
  <2>1. Cardinality(S \cup U) = Cardinality(S) + Cardinality(U) - Cardinality(S \cap U)
    BY <1>5, <1>6, FS_Union
  <2>2. Cardinality(S \cap U) = 0
    BY <1>3, FS_EmptySet
  <2>3. Cardinality(S) \in Nat /\ Cardinality(U) \in Nat
    BY <1>5, <1>6, FS_CardinalityType
  <2> QED
    BY <2>1, <2>2, <2>3
<1> QED
  BY <1>1, <1>2, <1>6, <1>7, QueriesAreCounted DEF S, T

-----------------------------------------------------------------------------
LEMMA InitInvariant == Init => IInv
<1> SUFFICES ASSUME Init PROVE IInv
  OBVIOUS
<1>1. <<>> \in Seq(Byte)
  BY EmptySeq
<1>2. TypeOK
  BY <1>1, PipelineAssumption DEF Init, TypeOK
<1>3. Ordered
  BY <1>1, ConcatEmptySeq DEF Init, Ordered
<1>4. Emitters
  BY PipelineAssumption DEF Init, Emitters
<1> QED
  BY <1>2, <1>3, <1>4 DEF IInv

\* Steps that move no bytes and change nothing the invariant is about.
LEMMA TypesOfSequences ==
  ASSUME IInv
  PROVE  /\ unread \in Seq(Byte) /\ chunk \in Seq(Byte) /\ buffer \in Seq(Byte)
         /\ batch \in Seq(Byte) /\ read \in Seq(Byte) /\ shown \in Seq(Byte)
         /\ buffer \o chunk \in Seq(Byte)
         /\ batch \o (buffer \o chunk) \in Seq(Byte)
<1>1. /\ unread \in Seq(Byte) /\ chunk \in Seq(Byte) /\ buffer \in Seq(Byte)
      /\ batch \in Seq(Byte) /\ read \in Seq(Byte) /\ shown \in Seq(Byte)
  BY DEF IInv, TypeOK
<1>2. buffer \o chunk \in Seq(Byte)
  BY <1>1, ConcatProperties
<1>3. batch \o (buffer \o chunk) \in Seq(Byte)
  BY <1>1, <1>2, ConcatProperties
<1> QED
  BY <1>1, <1>2, <1>3

\* A chunk is read; it comes after all that was read before.
LEMMA ReadStep ==
  ASSUME IInv, NEW n \in 1..Len(unread), Read(n)
  PROVE  IInv'
<1>0. Len(unread) \in Nat
  BY TypesOfSequences, LenProperties
<1>1. chunk' \in Seq(Byte) /\ unread' \in Seq(Byte) /\ read' = read \o chunk'
  BY <1>0, TypesOfSequences, Cut DEF Read
<1>2. chunk = <<>>
  BY DEF IInv, Emitters, Read
<1>3. read = shown \o (batch \o buffer)
  BY <1>2, TypesOfSequences, ConcatEmptySeq DEF IInv, Ordered
<1>4. batch \o buffer \in Seq(Byte) /\ read' \in Seq(Byte)
  BY <1>1, TypesOfSequences, ConcatProperties
<1>5. read' = shown \o ((batch \o buffer) \o chunk')
  <2>1. (shown \o (batch \o buffer)) \o chunk' = shown \o ((batch \o buffer) \o chunk')
    <3>1. shown \in Seq(Byte)
      BY TypesOfSequences
    <3> QED
      BY <1>1, <1>4, <3>1, Regroup, Zenon
  <2> QED
    BY <2>1, <1>1, <1>3
<1>6. (batch \o buffer) \o chunk' = batch \o (buffer \o chunk')
  <2>1. batch \in Seq(Byte) /\ buffer \in Seq(Byte)
    BY TypesOfSequences
  <2> QED
    BY <1>1, <2>1, Regroup, Zenon
<1>7. Ordered'
  BY <1>5, <1>6 DEF Ordered, batcher, Read
<1>8. TypeOK'
  BY <1>1, <1>4 DEF IInv, TypeOK, Read, batcher, replies, locks, others
<1>9. Emitters'
  BY DEF IInv, Emitters, Read, batcher
<1> QED
  BY <1>7, <1>8, <1>9 DEF IInv

\* The full batches leave the batcher, the rest stays in it.
LEMMA AddStep ==
  ASSUME IInv, Add
  PROVE  IInv'
<1> DEFINE whole == buffer \o chunk
           full == Len(whole) - (Len(whole) % BatchBytes)
<1>0. /\ reader = "adding" /\ emitMu = None /\ chunk' = <<>>
      /\ buffer' = SubSeq(whole, full + 1, Len(whole))
      /\ IF full > 0
         THEN Emit("reader", SubSeq(whole, 1, full)) /\ reader' = "emitting"
         ELSE reader' = "reading" /\ UNCHANGED <<emitMu, batch, emitting>>
      /\ UNCHANGED <<console, waiter, replies, locks, others, history>>
  BY DEF Add
<1>1. whole \in Seq(Byte) /\ Len(whole) \in Nat
  BY TypesOfSequences, LenProperties
<1>2. full \in 0..Len(whole)
  BY <1>1, PipelineAssumption
<1>3. /\ SubSeq(whole, 1, full) \in Seq(Byte) /\ buffer' \in Seq(Byte)
      /\ whole = SubSeq(whole, 1, full) \o buffer'
  BY <1>0, <1>1, <1>2, Cut
<1>4. batch = <<>>
  BY <1>0 DEF IInv, Emitters
<1>5. read = shown \o whole
  BY <1>1, <1>4, ConcatEmptySeq DEF IInv, Ordered
<1>6. buffer' \o chunk' = buffer'
  BY <1>0, <1>3, ConcatEmptySeq
<1>7. batch' \in Seq(Byte) /\ read' = shown' \o (batch' \o (buffer' \o chunk'))
  <2>1. CASE full > 0
    BY <2>1, <1>0, <1>3, <1>5, <1>6 DEF Emit, history
  <2>2. CASE ~(full > 0)
    <3>1. full = 0
      BY <2>2, <1>1, <1>2
    <3>2. SubSeq(whole, 1, full) = <<>>
      BY <3>1, SubSeqEmpty
    <3> QED
      BY <2>2, <3>2, <1>0, <1>3, <1>4, <1>5, <1>6, TypesOfSequences DEF history
  <2> QED
    BY <2>1, <2>2
<1>8. <<>> \in Seq(Byte)
  BY EmptySeq
<1>9. TypeOK'
  <2>1. {unread, chunk, buffer, batch, read, shown}' \subseteq Seq(Byte)
    <3>1. UNCHANGED <<unread, read, shown>>
      BY <1>0 DEF console, history
    <3> QED
      BY <3>1, <1>0, <1>3, <1>7, <1>8, TypesOfSequences
  <2>2. /\ reader' \in {"reading", "emitting"} /\ oMu' = oMu
        /\ \/ full > 0 /\ emitMu' = "reader" /\ emitting' = "append" /\ emitting = None
           \/ UNCHANGED <<emitMu, emitting>>
    <3>1. emitting = None
      BY <1>0 DEF IInv, TypeOK
    <3> HIDE DEF whole, full
    <3> QED
      BY <3>1, <1>0 DEF Emit, locks, others
  <2>3. UNCHANGED <<console, waiter, replies, locks, others>>
    BY <1>0
  <2> HIDE DEF whole, full
  <2> QED
    BY <2>1, <2>2, <2>3, PipelineAssumption DEF IInv, TypeOK, console, replies, locks, others
<1>10. Emitters'
  <2>1. CASE full > 0
    BY <2>1, <1>0, PipelineAssumption DEF IInv, TypeOK, Emitters, Emit
  <2>2. CASE ~(full > 0)
    BY <2>2, <1>0, PipelineAssumption DEF IInv, TypeOK, Emitters
  <2> QED
    BY <2>1, <2>2
<1> QED
  BY <1>7, <1>9, <1>10 DEF IInv, Ordered

\* The buffer becomes the batch of the timer, or of Close.
LEMMA FlushStep ==
  ASSUME IInv, TimerFlushes \/ CloseBatcher
  PROVE  IInv'
<1>1. batch = <<>> /\ buffer' = <<>> /\ batch' = buffer /\ UNCHANGED <<chunk, read, shown>>
  BY DEF IInv, Emitters, TimerFlushes, CloseBatcher, Emit, session, history
<1>2. Ordered'
  <2>1. read = shown \o (buffer \o chunk)
    BY <1>1, TypesOfSequences, ConcatEmptySeq DEF IInv, Ordered
  <2>2. buffer' \o chunk' = chunk
    BY <1>1, TypesOfSequences, ConcatEmptySeq
  <2> QED
    BY <1>1, <2>1, <2>2 DEF Ordered
<1>3. <<>> \in Seq(Byte)
  BY EmptySeq
<1>4. CASE TimerFlushes
  <2>1. TypeOK'
    BY <1>1, <1>3, <1>4, PipelineAssumption DEF IInv, TypeOK, TimerFlushes, Emit, console, session, replies, locks, others, history
  <2>2. Emitters'
    BY <1>1, <1>4, PipelineAssumption DEF IInv, TypeOK, Emitters, TimerFlushes, Emit, session
  <2> QED
    BY <1>2, <2>1, <2>2 DEF IInv
<1>5. CASE CloseBatcher
  <2>1. TypeOK'
    BY <1>1, <1>3, <1>5, PipelineAssumption DEF IInv, TypeOK, CloseBatcher, Emit, console, replies, locks, others, history
  <2>2. Emitters'
    BY <1>1, <1>5, PipelineAssumption DEF IInv, TypeOK, Emitters, CloseBatcher, Emit
  <2> QED
    BY <1>2, <2>1, <2>2 DEF IInv
<1> QED
  BY <1>4, <1>5

\* The emulator takes one byte of the batch.
LEMMA EmulatorStep ==
  ASSUME IInv, EmulatorWrites
  PROVE  IInv'
<1> USE DEF EmulatorWrites
<1> DEFINE rest == buffer \o chunk
<1>1. /\ Head(batch) \in Byte /\ Tail(batch) \in Seq(Byte) /\ <<Head(batch)>> \in Seq(Byte)
      /\ batch = <<Head(batch)>> \o Tail(batch)
  BY TypesOfSequences, HeadOfBatch
<1>2. <<Head(batch)>> \in Seq(Byte) /\ batch = <<Head(batch)>> \o Tail(batch)
  BY <1>1
<1>3. shown' = shown \o <<Head(batch)>> /\ shown' \in Seq(Byte)
  BY <1>1, TypesOfSequences, AppendIsConcat, AppendProperties
<1>4. batch \o rest = <<Head(batch)>> \o (Tail(batch) \o rest)
  <2>1. (<<Head(batch)>> \o Tail(batch)) \o rest = <<Head(batch)>> \o (Tail(batch) \o rest)
    <3>1. rest \in Seq(Byte) /\ Tail(batch) \in Seq(Byte)
      BY <1>1, TypesOfSequences, ConcatProperties
    <3> HIDE DEF rest
    <3> QED
      BY <1>2, <3>1, Regroup, Zenon
  <2> QED
    BY <2>1, <1>2, Zenon
<1>5. Tail(batch) \o rest \in Seq(Byte)
  BY <1>1, TypesOfSequences, ConcatProperties
<1>6. shown \o (<<Head(batch)>> \o (Tail(batch) \o rest)) = shown' \o (Tail(batch) \o rest)
  <2>1. (shown \o <<Head(batch)>>) \o (Tail(batch) \o rest) = shown \o (<<Head(batch)>> \o (Tail(batch) \o rest))
    <3>1. shown \in Seq(Byte)
      BY TypesOfSequences
    <3> QED
      BY <1>2, <1>5, <3>1, Regroup, Zenon
  <2> QED
    BY <2>1, <1>3, Zenon
<1>7. Ordered'
  BY <1>4, <1>6 DEF IInv, Ordered, session
<1>8. TypeOK'
  BY <1>1, <1>3 DEF IInv, TypeOK, console, session, locks, others
<1>9. Emitters'
  BY PipelineAssumption DEF IInv, TypeOK, Emitters, session
<1> QED
  BY <1>7, <1>8, <1>9 DEF IInv

\* All other steps leave the bytes where they are.
LEMMA OtherSteps ==
  ASSUME IInv, [Next]_vars,
         ~(\E n \in 1..Len(unread) : Read(n)), ~Add, ~TimerFlushes, ~CloseBatcher, ~EmulatorWrites
  PROVE  IInv'
<1> USE PipelineAssumption DEF IInv, TypeOK, Ordered, Emitters, console, session, batcher, replies, locks, others, history
<1>1. ASSUME NEW b \in Byte, ShellPrints(b) PROVE IInv'
  <2>1. unread' \in Seq(Byte)
    BY <1>1, AppendProperties DEF ShellPrints
  <2> QED
    BY <1>1, <2>1 DEF ShellPrints
<1>2. CASE ShellEnds
  BY <1>2 DEF ShellEnds
<1>3. CASE CloseConsole
  <2>1. /\ process' \in {"alive", "ended"} /\ input' \in BOOLEAN /\ pipe' \in BOOLEAN
        /\ UNCHANGED <<unread, session, batcher, replies, locks, others, history>>
    BY <1>3 DEF CloseConsole
  <2> QED
    BY <2>1
<1>4. CASE Wait
  <2>1. TypeOK'
    <3> USE <1>4 DEF Wait
    <3>1. /\ {unread', chunk', buffer', batch', read', shown'} \subseteq Seq(Byte)
          /\ process' \in {"alive", "ended"}
          /\ input' \in BOOLEAN /\ pipe' \in BOOLEAN /\ reply' \in BOOLEAN
          /\ replyPipe' \in BOOLEAN /\ closing' \in BOOLEAN
      OBVIOUS
    <3>2. /\ reader' \in {"reading", "adding", "emitting", "done"}
          /\ emitMu' \in {None, "reader", "timer", "closer"}
          /\ emitting' \in {None, "append", "write", "metadata"}
          /\ emitting' = None <=> emitMu' = None
          /\ pump' \in {"reading", "writing", "ended"}
          /\ waiter' \in {"process", "reader", "batcher", "exit", "remove", "done"}
      OBVIOUS
    <3>3. /\ oMu' \in {None, "append"}
          /\ rMu' \in {None, "client"}
          /\ historyMu' \in {None, "checkpoint"}
          /\ checkpoint' \in {"idle", "saving", "ended"}
          /\ client' \in {"idle", "locked"}
          /\ oMu' = "append" <=> emitting' = "write"
          /\ rMu' = "client" <=> client' = "locked"
          /\ historyMu' = "checkpoint" <=> checkpoint' = "saving"
      OBVIOUS
    <3> QED
      BY <3>1, <3>2, <3>3
  <2>2. Ordered' /\ Emitters'
    BY <1>4 DEF Wait
  <2> QED
    BY <2>1, <2>2
<1>5. CASE ReadFails
  BY <1>5 DEF ReadFails
<1>6. CASE AppendStarts
  BY <1>6 DEF AppendStarts
<1>7. CASE AppendEnds
  BY <1>7 DEF AppendEnds
<1>8. CASE Metadata
  BY <1>8 DEF Metadata
<1>9. CASE Pump
  <2>1. TypeOK'
    <3> USE <1>9 DEF Pump, PumpReads, PumpWrites
    <3>1. /\ {unread', chunk', buffer', batch', read', shown'} \subseteq Seq(Byte)
          /\ process' \in {"alive", "ended"}
          /\ input' \in BOOLEAN /\ pipe' \in BOOLEAN
          /\ replyPipe' \in BOOLEAN /\ closing' \in BOOLEAN
      OBVIOUS
    <3>2. reply' \in BOOLEAN
      OBVIOUS
    <3>3. /\ reader' \in {"reading", "adding", "emitting", "done"}
          /\ emitMu' \in {None, "reader", "timer", "closer"}
          /\ emitting' \in {None, "append", "write", "metadata"}
          /\ emitting' = None <=> emitMu' = None
          /\ waiter' \in {"process", "reader", "batcher", "exit", "remove", "done"}
      OBVIOUS
    <3>4. pump' \in {"reading", "writing", "ended"}
      OBVIOUS
    <3>5. /\ oMu' \in {None, "append"}
          /\ rMu' \in {None, "client"}
          /\ historyMu' \in {None, "checkpoint"}
          /\ checkpoint' \in {"idle", "saving", "ended"}
          /\ client' \in {"idle", "locked"}
          /\ oMu' = "append" <=> emitting' = "write"
          /\ rMu' = "client" <=> client' = "locked"
          /\ historyMu' = "checkpoint" <=> checkpoint' = "saving"
      OBVIOUS
    <3> QED
      BY <3>1, <3>2, <3>3, <3>4, <3>5
  <2>2. Ordered' /\ Emitters'
    BY <1>9 DEF Pump, PumpReads, PumpWrites
  <2> QED
    BY <2>1, <2>2
<1>10. CASE ExitOutput
  <2>1. TypeOK'
    <3> USE <1>10 DEF ExitOutput
    <3>1. /\ {unread', chunk', buffer', batch', read', shown'} \subseteq Seq(Byte)
          /\ process' \in {"alive", "ended"}
          /\ input' \in BOOLEAN /\ pipe' \in BOOLEAN /\ reply' \in BOOLEAN
          /\ replyPipe' \in BOOLEAN /\ closing' \in BOOLEAN
      OBVIOUS
    <3>2. /\ reader' \in {"reading", "adding", "emitting", "done"}
          /\ emitMu' \in {None, "reader", "timer", "closer"}
          /\ emitting' \in {None, "append", "write", "metadata"}
          /\ emitting' = None <=> emitMu' = None
          /\ pump' \in {"reading", "writing", "ended"}
          /\ waiter' \in {"process", "reader", "batcher", "exit", "remove", "done"}
      OBVIOUS
    <3>3. /\ oMu' \in {None, "append"}
          /\ rMu' \in {None, "client"}
          /\ historyMu' \in {None, "checkpoint"}
          /\ checkpoint' \in {"idle", "saving", "ended"}
          /\ client' \in {"idle", "locked"}
          /\ oMu' = "append" <=> emitting' = "write"
          /\ rMu' = "client" <=> client' = "locked"
          /\ historyMu' = "checkpoint" <=> checkpoint' = "saving"
      OBVIOUS
    <3> QED
      BY <3>1, <3>2, <3>3
  <2>2. Ordered' /\ Emitters'
    BY <1>10 DEF ExitOutput
  <2> QED
    BY <2>1, <2>2
<1>11. CASE RemovePane
  BY <1>11 DEF RemovePane
<1>12. CASE CheckpointStarts
  BY <1>12 DEF CheckpointStarts
<1>13. CASE CheckpointSaves
  BY <1>13 DEF CheckpointSaves
<1>14. CASE CheckpointLoopEnds
  BY <1>14 DEF CheckpointLoopEnds
<1>15. CASE ClientLocks
  BY <1>15 DEF ClientLocks
<1>16. CASE ClientUsesOutput
  BY <1>16 DEF ClientUsesOutput
<1>17. CASE StartClose
  BY <1>17 DEF StartClose
<1>18. CASE UNCHANGED vars
  BY <1>18 DEF vars
<1> QED
  BY <1>1, <1>2, <1>3, <1>4, <1>5, <1>6, <1>7, <1>8, <1>9, <1>10, <1>11, <1>12,
     <1>13, <1>14, <1>15, <1>16, <1>17, <1>18, Zenon DEF Next, Reader, Callback, Waiter

LEMMA InvariantStep ==
  ASSUME IInv, [Next]_vars
  PROVE  IInv'
<1>1. CASE \E n \in 1..Len(unread) : Read(n)
  BY <1>1, ReadStep
<1>2. CASE Add
  BY <1>2, AddStep
<1>3. CASE TimerFlushes \/ CloseBatcher
  BY <1>3, FlushStep
<1>4. CASE EmulatorWrites
  BY <1>4, EmulatorStep
<1> QED
  BY <1>1, <1>2, <1>3, <1>4, OtherSteps

\* The count is a number, and what moves from one place to the next does not
\* change it.
Waiting == Queries(chunk) + Queries(buffer) + Queries(batch)

LEMMA WaitingIsANumber ==
  ASSUME IInv
  PROVE  /\ Waiting \in Nat
         /\ Unanswered = Waiting + (IF reply THEN 1 ELSE 0) + (IF pump = "writing" THEN 1 ELSE 0)
         /\ chunk = <<>> /\ buffer = <<>> /\ batch = <<>> => Waiting = 0
<1>1. /\ Queries(chunk) \in Nat /\ Queries(buffer) \in Nat /\ Queries(batch) \in Nat
      /\ chunk = <<>> => Queries(chunk) = 0
      /\ buffer = <<>> => Queries(buffer) = 0
      /\ batch = <<>> => Queries(batch) = 0
  BY TypesOfSequences, QueriesAreCounted
<1> QED
  BY <1>1 DEF Unanswered, Waiting

\* What Add takes from the chunk and the buffer is in the batch and the buffer.
LEMMA AddMoves ==
  ASSUME IInv, Add
  PROVE  Waiting' = Waiting /\ UNCHANGED <<console, waiter, replies>> /\ emitMu = None
<1> DEFINE whole == buffer \o chunk
           full == Len(whole) - (Len(whole) % BatchBytes)
<1>0. /\ emitMu = None /\ chunk' = <<>>
      /\ buffer' = SubSeq(whole, full + 1, Len(whole))
      /\ batch' = IF full > 0 THEN SubSeq(whole, 1, full) ELSE batch
      /\ UNCHANGED <<console, waiter, replies>>
  BY DEF Add, Emit
<1>1. whole \in Seq(Byte) /\ Len(whole) \in Nat
  BY TypesOfSequences, LenProperties
<1>2. full \in 0..Len(whole)
  BY <1>1, PipelineAssumption
<1>3. /\ SubSeq(whole, 1, full) \in Seq(Byte) /\ buffer' \in Seq(Byte)
      /\ whole = SubSeq(whole, 1, full) \o buffer'
  BY <1>0, <1>1, <1>2, Cut
<1>4. batch = <<>>
  BY <1>0 DEF IInv, Emitters
<1>5. batch' = SubSeq(whole, 1, full)
  <2>1. full = 0 => SubSeq(whole, 1, full) = <<>>
    BY SubSeqEmpty
  <2> HIDE DEF whole, full
  <2> QED
    BY <2>1, <1>0, <1>2, <1>4
<1>6. Queries(whole) = Queries(buffer) + Queries(chunk)
  BY TypesOfSequences, QueriesOfConcat
<1>7. Queries(whole) = Queries(batch') + Queries(buffer')
  <2> HIDE DEF whole, full
  <2> QED
    BY <1>3, <1>5, QueriesOfConcat
<1>8. Queries(batch) = 0 /\ Queries(chunk') = 0
  <2>1. batch \in Seq(Byte) /\ chunk' \in Seq(Byte)
    BY <1>0, <1>4, EmptySeq
  <2> QED
    BY <2>1, <1>0, <1>4, QueriesAreCounted
<1>9. /\ Queries(buffer) \in Nat /\ Queries(chunk) \in Nat
      /\ Queries(batch') \in Nat /\ Queries(buffer') \in Nat
  <2> HIDE DEF whole, full
  <2> QED
    BY <1>3, <1>5, TypesOfSequences, QueriesAreCounted
<1> HIDE DEF whole, full
<1>10. Waiting' = Queries(chunk') + Queries(buffer') + Queries(batch')
  BY DEF Waiting
<1> QED
  BY <1>0, <1>6, <1>7, <1>8, <1>9, <1>10 DEF Waiting

\* The buffer becomes the batch.
LEMMA FlushMoves ==
  ASSUME IInv, TimerFlushes \/ CloseBatcher
  PROVE  /\ Waiting' = Waiting /\ emitMu = None
         /\ UNCHANGED <<console, replies>> /\ (TimerFlushes => UNCHANGED waiter)
<1>1. /\ emitMu = None /\ batch = <<>> /\ buffer' = <<>> /\ batch' = buffer /\ UNCHANGED chunk
      /\ UNCHANGED <<console, replies>> /\ (TimerFlushes => UNCHANGED waiter)
  BY DEF IInv, Emitters, TimerFlushes, CloseBatcher, Emit, session
<1>2. /\ Queries(chunk) \in Nat /\ Queries(buffer) \in Nat
      /\ Queries(batch) = 0 /\ Queries(buffer') = 0
  <2>1. <<>> \in Seq(Byte)
    BY EmptySeq
  <2> QED
    BY <2>1, <1>1, TypesOfSequences, QueriesAreCounted
<1>3. Waiting' = Queries(chunk') + Queries(buffer') + Queries(batch')
  BY DEF Waiting
<1> QED
  BY <1>1, <1>2, <1>3 DEF Waiting

\* A query leaves the batch as the answer the emulator waits for.
LEMMA EmulatorAsks ==
  ASSUME IInv, EmulatorWrites
  PROVE  Waiting' + (IF reply' THEN 1 ELSE 0) <= Waiting
<1>1. batch = <<Head(batch)>> \o Tail(batch) /\ Head(batch) \in Byte /\ Tail(batch) \in Seq(Byte)
  BY TypesOfSequences, HeadOfBatch DEF EmulatorWrites
<1>2. <<Head(batch)>> \in Seq(Byte)
  BY <1>1
<1>3. Queries(batch) = Queries(<<Head(batch)>>) + Queries(Tail(batch))
  BY <1>1, <1>2, QueriesOfConcat
<1>4. Queries(<<Head(batch)>>) = IF Head(batch) = "query" THEN 1 ELSE 0
  BY <1>1, QueriesOfOne DEF Byte
<1>5. /\ Queries(chunk) \in Nat /\ Queries(buffer) \in Nat /\ Queries(Tail(batch)) \in Nat
  BY <1>1, TypesOfSequences, QueriesAreCounted
<1>6. /\ chunk' = chunk /\ buffer' = buffer /\ batch' = Tail(batch)
      /\ reply' => Head(batch) = "query"
  BY DEF EmulatorWrites, session
<1>7. Waiting' = Queries(chunk') + Queries(buffer') + Queries(batch')
  BY DEF Waiting
<1> QED
  BY <1>3, <1>4, <1>5, <1>6, <1>7 DEF Waiting

-----------------------------------------------------------------------------
LEMMA LateInit == Init => Late
<1> SUFFICES ASSUME Init PROVE Late
  OBVIOUS
<1> QED
  BY DEF Init, Late

\* One case for each place where a query or an answer moves.
LEMMA LateStep ==
  ASSUME IInv, IInv', Late, [Next]_vars
  PROVE  Late'
<1> DEFINE owed(r, p) == (IF r THEN 1 ELSE 0) + (IF p = "writing" THEN 1 ELSE 0)
<1>1. /\ Waiting \in Nat /\ Unanswered = Waiting + owed(reply, pump)
      /\ chunk = <<>> /\ buffer = <<>> /\ batch = <<>> => Waiting = 0
  BY WaitingIsANumber
<1>2. Waiting' \in Nat /\ Unanswered' = Waiting' + owed(reply', pump')
  <2>1. chunk' \in Seq(Byte) /\ buffer' \in Seq(Byte) /\ batch' \in Seq(Byte)
    BY DEF IInv, TypeOK
  <2>2. Queries(chunk') \in Nat /\ Queries(buffer') \in Nat /\ Queries(batch') \in Nat
    BY <2>1, QueriesAreCounted
  <2> QED
    BY <2>2 DEF Unanswered, Waiting
<1>3. /\ input \in BOOLEAN /\ pipe \in BOOLEAN /\ reply \in BOOLEAN /\ replyPipe \in BOOLEAN
      /\ pump \in {"reading", "writing", "ended"} /\ MaxLate \in Nat
      /\ emitMu = None => emitting # "write"
  BY PipelineAssumption DEF IInv, TypeOK
<1>4. ASSUME UNCHANGED <<chunk, buffer, batch>> PROVE Waiting' = Waiting
  BY <1>4 DEF Waiting
<1> HIDE DEF owed
<1>5. ASSUME UNCHANGED <<chunk, buffer, batch, reply, pump>> PROVE Unanswered' = Unanswered
  BY <1>5, <1>1, <1>2, <1>4
<1> USE DEF Late
<1>6. CASE \/ \E b \in Byte : ShellPrints(b)
           \/ ShellEnds \/ ReadFails \/ AppendStarts \/ AppendEnds \/ RemovePane
           \/ CheckpointStarts \/ CheckpointSaves \/ CheckpointLoopEnds
           \/ ClientLocks \/ ClientUsesOutput \/ StartClose \/ UNCHANGED vars
  <2>1. /\ UNCHANGED <<chunk, buffer, batch, reply, pump>> /\ UNCHANGED <<input, pipe, replyPipe>>
        /\ waiter' = waiter \/ (waiter = "remove" /\ waiter' = "done")
        /\ emitting' = emitting \/ emitting' = "write" \/ ~reply
    BY <1>6 DEF ShellPrints, ShellEnds, ReadFails, AppendStarts, AppendEnds, RemovePane,
         CheckpointStarts, CheckpointSaves, CheckpointLoopEnds, ClientLocks, ClientUsesOutput,
         StartClose, vars, console, session, batcher, replies
  <2> QED
    BY <2>1, <1>3, <1>5
<1>7. CASE Metadata
  <2>1. /\ UNCHANGED <<chunk, buffer, batch, reply, pump>> /\ UNCHANGED <<input, pipe, replyPipe>>
        /\ waiter' = waiter \/ (waiter = "batcher" /\ waiter' = "exit")
        /\ emitting = "metadata"
    BY <1>7 DEF Metadata, console, replies, IInv, Emitters
  <2> QED
    BY <2>1, <1>3, <1>5
<1>8. CASE CloseConsole
  <2>1. /\ UNCHANGED <<chunk, buffer, batch, reply, pump>> /\ UNCHANGED <<replyPipe, waiter, emitting>>
        /\ ~input' /\ ~pipe' /\ Unanswered <= MaxLate
    BY <1>8 DEF CloseConsole, session, batcher, replies
  <2> QED
    BY <2>1, <1>3, <1>5
<1>9. CASE Wait
  <2>1. /\ UNCHANGED <<chunk, buffer, batch, reply, pump>> /\ UNCHANGED <<replyPipe, emitting>>
        /\ ~input' /\ ~pipe' /\ Unanswered <= MaxLate /\ waiter = "process" /\ waiter' = "reader"
    BY <1>9 DEF Wait, batcher, replies
  <2> QED
    BY <2>1, <1>3, <1>5
<1>10. CASE \E n \in 1..Len(unread) : Read(n)
  <2>1. /\ UNCHANGED <<input, pipe, waiter, emitting, reply, replyPipe, pump>> /\ pipe
    BY <1>10 DEF Read, batcher, replies
  <2> QED
    BY <2>1, <1>3
<1>11. CASE Add
  <2>1. /\ Waiting' = Waiting /\ UNCHANGED <<input, pipe, waiter, reply, replyPipe, pump>> /\ emitMu = None
    BY <1>11, AddMoves DEF console, replies
  <2> QED
    BY <2>1, <1>1, <1>2, <1>3
<1>12. CASE TimerFlushes \/ CloseBatcher
  <2>1. /\ Waiting' = Waiting /\ UNCHANGED <<input, pipe, reply, replyPipe, pump>> /\ emitMu = None
        /\ waiter' = waiter \/ (waiter = "reader" /\ waiter' = "batcher")
    BY <1>12, FlushMoves DEF console, replies, CloseBatcher
  <2> QED
    BY <2>1, <1>1, <1>2, <1>3
<1>13. CASE EmulatorWrites
  <2>1. /\ UNCHANGED <<input, pipe, waiter, emitting, replyPipe, pump>> /\ ~reply /\ emitting = "write"
        /\ Waiting' + (IF reply' THEN 1 ELSE 0) <= Waiting
    BY <1>13, EmulatorAsks DEF EmulatorWrites, console, session
  <2>2. Unanswered' <= Unanswered /\ Unanswered' \in Nat /\ Unanswered \in Nat
    <3>1. Unanswered = Waiting + (IF pump = "writing" THEN 1 ELSE 0)
      BY <2>1, <1>1 DEF owed
    <3>2. Unanswered' = Waiting' + (IF reply' THEN 1 ELSE 0) + (IF pump = "writing" THEN 1 ELSE 0)
      BY <2>1, <1>2 DEF owed
    <3> DEFINE one(b) == IF b THEN 1 ELSE 0
    <3>3. /\ Waiting' + one(reply') <= Waiting /\ Waiting \in Nat /\ Waiting' \in Nat
          /\ one(reply') \in Nat /\ one(pump = "writing") \in Nat
      BY <2>1, <1>1, <1>2
    <3> HIDE DEF one, Late
    <3>4. \A w, v, a, b \in Nat : v + a <= w => v + a + b <= w + b /\ v + a + b \in Nat /\ w + b \in Nat
      OBVIOUS
    <3>5. Unanswered = Waiting + one(pump = "writing")
      BY <3>1 DEF one
    <3>6. Unanswered' = Waiting' + one(reply') + one(pump = "writing")
      BY <3>2 DEF one
    <3> QED
      BY <3>3, <3>4, <3>5, <3>6
  <2> QED
    BY <2>1, <2>2, <1>3
<1>14. CASE PumpReads
  <2>1. /\ UNCHANGED <<chunk, buffer, batch>> /\ UNCHANGED <<input, pipe, waiter, emitting, replyPipe>>
        /\ pump = "reading" /\ IF reply THEN pump' = "writing" /\ ~reply'
                              ELSE ~replyPipe /\ pump' = "ended" /\ ~reply'
    BY <1>14, <1>3 DEF PumpReads, console, session, batcher
  <2>2. Waiting' = Waiting
    BY <2>1, <1>4
  <2>3. CASE reply
    <3>1. Unanswered' = Unanswered
      BY <2>1, <2>2, <2>3, <1>1, <1>2 DEF owed
    <3> QED
      BY <3>1, <2>1, <2>3, <1>3
  <2>4. CASE ~reply
    <3>1. waiter \in {"remove", "done"}
      BY <2>1, <2>4
    <3>2. batch = <<>> /\ buffer = <<>> /\ chunk = <<>>
      BY <3>1 DEF IInv, Emitters
    <3>3. Unanswered' = 0
      BY <3>2, <2>1, <2>2, <2>4, <1>1, <1>2 DEF owed
    <3> QED
      BY <3>1, <3>3, <2>1, <2>4, <1>3
  <2> QED
    BY <2>3, <2>4
<1>15. CASE PumpWrites
  <2>1. /\ UNCHANGED <<chunk, buffer, batch>>
        /\ UNCHANGED <<input, pipe, waiter, emitting, replyPipe, reply>>
        /\ pump = "writing" /\ pump' = IF input THEN "reading" ELSE "ended"
    BY <1>15 DEF PumpWrites, console, session, batcher
  <2>2. Waiting' = Waiting
    BY <2>1, <1>4
  <2>3. Unanswered' = Unanswered - 1 /\ Unanswered \in Nat /\ Unanswered' \in Nat
    BY <2>1, <2>2, <1>1, <1>2 DEF owed
  <2>4. CASE input
    BY <2>1, <2>4, <1>3
  <2>5. CASE ~input
    <3>1. Unanswered <= MaxLate
      BY <2>5
    <3>2. Unanswered' < MaxLate /\ Unanswered' <= MaxLate
      <4> HIDE DEF Late
      <4> QED
        BY <3>1, <2>3, <1>3
    <3> QED
      BY <3>2, <2>1, <2>5, <1>3
  <2> QED
    BY <2>4, <2>5
<1>16. CASE ExitOutput
  <2>1. /\ UNCHANGED <<chunk, buffer, batch, reply, pump>> /\ UNCHANGED <<input, pipe, emitting>>
        /\ waiter = "exit" /\ waiter' = "remove"
    BY <1>16 DEF ExitOutput, console, batcher
  <2> QED
    BY <2>1, <1>3, <1>5
<1> QED
  BY <1>6, <1>7, <1>8, <1>9, <1>10, <1>11, <1>12, <1>13, <1>14, <1>15, <1>16, Zenon
  DEF Next, Reader, Callback, Pump, Waiter

-----------------------------------------------------------------------------
\* Who has a lock goes on, or waits for one who does.
LEMMA HoldersMove ==
  ASSUME IInv, Late, AnswersAreTaken, MaxLate <= 1, {emitMu, oMu, rMu, historyMu} # {None}
  PROVE  HolderCanMove
<1> USE DEF HolderCanMove
<1>1. /\ emitting \in {None, "append", "write", "metadata"} /\ (emitting = None <=> emitMu = None)
      /\ oMu \in {None, "append"} /\ rMu \in {None, "client"} /\ historyMu \in {None, "checkpoint"}
      /\ oMu = "append" <=> emitting = "write"
      /\ rMu = "client" <=> client = "locked"
      /\ historyMu = "checkpoint" <=> checkpoint = "saving"
      /\ pump \in {"reading", "writing", "ended"}
  BY DEF IInv, TypeOK
<1>2. None \notin {"append", "write", "metadata", "client", "checkpoint"}
  BY PipelineAssumption
<1>3. CASE emitting = "write"
  BY <1>1, <1>3 DEF AnswersAreTaken
<1>4. CASE emitting = "append"
  BY <1>1, <1>4
<1>5. CASE emitting = "metadata"
  BY <1>1, <1>2, <1>5
<1>6. CASE emitting = None
  BY <1>1, <1>2, <1>6
<1> QED
  BY <1>1, <1>3, <1>4, <1>5, <1>6

\* With all locks free, what keeps the waiter is read, flushed, answered or over.
LEMMA WaiterMoves ==
  ASSUME IInv, Late, {emitMu, oMu, rMu, historyMu} = {None}, waiter # "done"
  PROVE  HolderCanMove \/ ReaderCanMove \/ WaiterCanMove
<1> USE DEF ReaderCanMove, WaiterCanMove
<1>1. emitMu = None /\ oMu = None /\ rMu = None /\ historyMu = None /\ emitting = None
  <2>1. emitMu = None /\ oMu = None /\ rMu = None /\ historyMu = None
    OBVIOUS
  <2> QED
    BY <2>1 DEF IInv, TypeOK
<1>2. /\ reader \in {"reading", "adding", "emitting", "done"}
      /\ waiter \in {"process", "reader", "batcher", "exit", "remove", "done"}
      /\ reader # "emitting" /\ waiter # "batcher" /\ batch = <<>> /\ ~reply
      /\ chunk # <<>> => reader = "adding"
      /\ waiter # "process" => ~pipe
  BY <1>1, PipelineAssumption DEF IInv, TypeOK, Emitters, Late
<1>3. CASE waiter = "process"
  <2>1. CASE chunk # <<>> \/ buffer # <<>>
    BY <1>1, <1>2, <2>1
  <2>2. CASE pump = "writing"
    BY <2>2 DEF HolderCanMove
  <2>3. CASE chunk = <<>> /\ buffer = <<>> /\ pump # "writing"
    <3>1. Unanswered = 0
      BY <1>2, <2>3, WaitingIsANumber
    <3> QED
      BY <1>3, <3>1, PipelineAssumption
  <2> QED
    BY <2>1, <2>2, <2>3
<1>4. CASE waiter = "reader"
  BY <1>1, <1>2, <1>4
<1>5. CASE waiter \in {"exit", "remove"}
  BY <1>1, <1>5
<1> QED
  BY <1>2, <1>3, <1>4, <1>5

LEMMA SomebodyMoves == ASSUME IInv, Late, AnswersAreTaken PROVE NobodyIsStuck
<1> SUFFICES ASSUME MaxLate <= 1
             PROVE  /\ {emitMu, oMu, rMu, historyMu} # {None} => HolderCanMove
                    /\ waiter # "done" => HolderCanMove \/ ReaderCanMove \/ WaiterCanMove
  BY DEF NobodyIsStuck
<1> QED
  BY HoldersMove, WaiterMoves, Zenon

\* The screen is a prefix of what was read, and all of it at the exit.
LEMMA InvariantIsEnough == IInv /\ Late => PipelineInv
<1> SUFFICES ASSUME IInv, Late PROVE PipelineInv
  OBVIOUS
<1> DEFINE rest == batch \o (buffer \o chunk)
<1>1. /\ read = shown \o rest /\ rest \in Seq(Byte)
      /\ shown \in Seq(Byte) /\ read \in Seq(Byte)
  BY TypesOfSequences DEF IInv, Ordered
<1>2. Len(read) = Len(shown) + Len(rest) /\ Len(shown) \in Nat /\ Len(rest) \in Nat
  BY <1>1, ConcatProperties, LenProperties
<1>3. shown = SubSeq(read, 1, Len(shown))
  <2>1. CASE Len(shown) = 0
    <3>1. shown = <<>>
      BY <2>1, <1>1, EmptySeq
    <3>2. SubSeq(read, 1, 0) = <<>>
      BY SubSeqEmpty
    <3> QED
      BY <2>1, <3>1, <3>2
  <2>2. CASE Len(shown) # 0
    <3>1. 1 \in 1..Len(shown) /\ Len(shown) \in 1..Len(shown)
      BY <2>2, <1>2
    <3>2. SubSeq(read, 1, Len(shown)) = SubSeq(shown, 1, Len(shown))
      BY <3>1, <1>1, SubSeqOfConcat1
    <3> QED
      BY <3>2, <1>1, SubSeqFull
  <2> QED
    BY <2>1, <2>2
<1>4. ASSUME waiter \in {"exit", "remove", "done"} PROVE shown = read
  <2>1. batch = <<>> /\ buffer = <<>> /\ chunk = <<>>
    BY <1>4 DEF IInv, Emitters
  <2>2. rest = <<>>
    BY <2>1, <1>1, TypesOfSequences, ConcatEmptySeq
  <2> QED
    BY <2>2, <1>1, ConcatEmptySeq
<1>5. AnswersAreTaken
  <2>1. SUFFICES ASSUME MaxLate <= 1, reply, pump = "ended" PROVE FALSE
    BY DEF AnswersAreTaken
  <2>2. Unanswered = Waiting + 1 /\ Waiting \in Nat
    BY <2>1, WaitingIsANumber
  <2>3. Unanswered = 0 \/ Unanswered < MaxLate
    BY <2>1 DEF Late
  <2> QED
    BY <2>1, <2>2, <2>3, PipelineAssumption
<1>6. NobodyIsStuck
  BY <1>5, SomebodyMoves
<1> QED
  BY <1>2, <1>3, <1>4, <1>5, <1>6 DEF IInv, PipelineInv, DrainedAtExit

LEMMA PipelineInductive == Spec => [](IInv /\ Late)
<1>1. Init => IInv /\ Late
  BY InitInvariant, LateInit
<1>2. IInv /\ Late /\ [Next]_vars => IInv' /\ Late'
  BY InvariantStep, LateStep
<1> QED
  BY <1>1, <1>2, PTL DEF Spec

(***************************************************************************)
(* Whatever is emitted by whom, and whenever the console is closed, the    *)
(* screen shows what was read from the shell, in order, and all of it when *)
(* waitForExit tells the exit.  And if no more than one query is           *)
(* unanswered when the input closes, emulator.Write, which waits with      *)
(* output.mu, never waits for a pump that has stopped: no lock is held by  *)
(* one who waits for ever, and the exit of a shell can always go on.       *)
(***************************************************************************)
THEOREM PipelineCorrect == Spec => []PipelineInv
<1>1. IInv /\ Late => PipelineInv
  BY InvariantIsEnough
<1> QED
  BY PipelineInductive, <1>1, PTL

-----------------------------------------------------------------------------
(***************************************************************************)
(* How far the end of a shell is from the end of its pane: the bytes on    *)
(* their way, more the farther they have to go, and what reader, callback, *)
(* emulator, pump and waiter have before them.                             *)
(***************************************************************************)
ReaderLeft(r) == IF r = "done" THEN 0 ELSE IF r = "adding" THEN 2 ELSE 1
EmitLeft(e) == IF e = "append" THEN 3 ELSE IF e = "write" THEN 2 ELSE IF e = "metadata" THEN 1 ELSE 0
ReplyLeft(r) == IF r THEN 2 ELSE 0
PumpLeft(p) == IF p = "writing" THEN 2 ELSE IF p = "reading" THEN 1 ELSE 0
WaiterLeft(w) ==
  IF w = "process" THEN 8 ELSE IF w = "reader" THEN 7 ELSE IF w = "batcher" THEN 3
  ELSE IF w = "exit" THEN 2 ELSE IF w = "remove" THEN 1 ELSE 0
BytesLeft(u, c, b, t) == 10 * Len(u) + 8 * Len(c) + 8 * Len(b) + 3 * Len(t)

StepsLeft ==
  BytesLeft(unread, chunk, buffer, batch)
  + (ReaderLeft(reader) + EmitLeft(emitting) + ReplyLeft(reply) + PumpLeft(pump) + WaiterLeft(waiter))

\* The steps of the exit; the others are those of clients and checkpoints.
ExitStep == Reader \/ TimerFlushes \/ Callback \/ Pump \/ Waiter

LEMMA StagesAreCounted ==
  /\ \A r : ReaderLeft(r) \in Nat
  /\ \A e : EmitLeft(e) \in Nat /\ EmitLeft(e) <= 3
  /\ \A a : ReplyLeft(a) \in Nat /\ ReplyLeft(a) <= 2
  /\ \A p : PumpLeft(p) \in Nat
  /\ \A w : WaiterLeft(w) \in Nat
  BY DEF ReaderLeft, EmitLeft, ReplyLeft, PumpLeft, WaiterLeft

LEMMA BytesAreCounted ==
  ASSUME IInv
  PROVE  /\ Len(unread) \in Nat /\ Len(chunk) \in Nat /\ Len(buffer) \in Nat /\ Len(batch) \in Nat
         /\ BytesLeft(unread, chunk, buffer, batch) \in Nat
<1>1. Len(unread) \in Nat /\ Len(chunk) \in Nat /\ Len(buffer) \in Nat /\ Len(batch) \in Nat
  BY TypesOfSequences, LenProperties
<1> QED
  BY <1>1 DEF BytesLeft

\* A step that is so many bytes closer, or so many stages.
LEMMA Closer ==
  ASSUME NEW less \in Nat,
         BytesLeft(unread, chunk, buffer, batch) \in Nat,
         BytesLeft(unread', chunk', buffer', batch') = BytesLeft(unread, chunk, buffer, batch) - less,
         ReaderLeft(reader') + EmitLeft(emitting') + ReplyLeft(reply') + PumpLeft(pump') + WaiterLeft(waiter')
           < ReaderLeft(reader) + EmitLeft(emitting) + ReplyLeft(reply) + PumpLeft(pump) + WaiterLeft(waiter) + less
  PROVE  StepsLeft' < StepsLeft
<1> DEFINE stages(r, e, a, p, w) == ReaderLeft(r) + EmitLeft(e) + ReplyLeft(a) + PumpLeft(p) + WaiterLeft(w)
<1>1. /\ StepsLeft' = BytesLeft(unread', chunk', buffer', batch') + stages(reader', emitting', reply', pump', waiter')
      /\ StepsLeft = BytesLeft(unread, chunk, buffer, batch) + stages(reader, emitting, reply, pump, waiter)
  BY DEF StepsLeft
<1>2. stages(reader', emitting', reply', pump', waiter') \in Nat /\ stages(reader, emitting, reply, pump, waiter) \in Nat
  BY StagesAreCounted
<1>3. stages(reader', emitting', reply', pump', waiter') < stages(reader, emitting, reply, pump, waiter) + less
  OBVIOUS
<1> HIDE DEF stages
<1> QED
  BY <1>1, <1>2, <1>3

LEMMA CutLengths ==
  ASSUME NEW s \in Seq(Byte), NEW n \in 0..Len(s)
  PROVE  Len(SubSeq(s, 1, n)) = n /\ Len(SubSeq(s, n + 1, Len(s))) = Len(s) - n
<1>1. Len(s) \in Nat /\ \A i \in 1..Len(s) : s[i] \in Byte
  BY LenProperties, ElementOfSeq
<1>2. Len(SubSeq(s, 1, n)) = n
  <2>1. n \in Int /\ 1 \in Int /\ \A i \in 1..n : s[i] \in Byte
    BY <1>1
  <2>2. Len(SubSeq(s, 1, n)) = IF 1 <= n THEN n - 1 + 1 ELSE 0
    BY <2>1, SubSeqProperties
  <2> QED
    BY <1>1, <2>2
<1>3. Len(SubSeq(s, n + 1, Len(s))) = Len(s) - n
  <2>1. n + 1 \in Int /\ Len(s) \in Int /\ \A i \in (n + 1)..Len(s) : s[i] \in Byte
    BY <1>1
  <2>2. Len(SubSeq(s, n + 1, Len(s))) = IF n + 1 <= Len(s) THEN Len(s) - (n + 1) + 1 ELSE 0
    BY <2>1, SubSeqProperties
  <2> QED
    BY <1>1, <2>2
<1> QED
  BY <1>2, <1>3

\* Steps that move no bytes.
LEMMA StagesCloser ==
  ASSUME IInv, ReadFails \/ AppendStarts \/ AppendEnds \/ Metadata \/ Pump \/ Wait \/ ExitOutput \/ RemovePane
  PROVE  StepsLeft' < StepsLeft
<1> USE DEF console, session, batcher, replies
<1> DEFINE Shorter == ReaderLeft(reader') + EmitLeft(emitting') + ReplyLeft(reply') + PumpLeft(pump') + WaiterLeft(waiter')
                        < ReaderLeft(reader) + EmitLeft(emitting) + ReplyLeft(reply) + PumpLeft(pump) + WaiterLeft(waiter)
<1>1. UNCHANGED <<unread, chunk, buffer, batch>>
  BY DEF ReadFails, AppendStarts, AppendEnds, Metadata, Pump, PumpReads, PumpWrites, Wait, ExitOutput, RemovePane
<1>2. ASSUME ReadFails PROVE Shorter
  <2>1. ReaderLeft(reader) = 1 /\ ReaderLeft(reader') = 0 /\ UNCHANGED <<emitting, reply, pump, waiter>>
    BY <1>2 DEF ReadFails, ReaderLeft
  <2> QED
    BY <2>1, StagesAreCounted
<1>3. ASSUME AppendStarts PROVE Shorter
  <2>1. EmitLeft(emitting) = 3 /\ EmitLeft(emitting') = 2 /\ UNCHANGED <<reader, reply, pump, waiter>>
    BY <1>3 DEF AppendStarts, EmitLeft
  <2> QED
    BY <2>1, StagesAreCounted
<1>4. ASSUME AppendEnds PROVE Shorter
  <2>1. EmitLeft(emitting) = 2 /\ EmitLeft(emitting') = 1 /\ UNCHANGED <<reader, reply, pump, waiter>>
    BY <1>4 DEF AppendEnds, EmitLeft
  <2> QED
    BY <2>1, StagesAreCounted
<1>5. ASSUME Metadata PROVE Shorter
  <2>1. (emitMu = "reader" => reader = "emitting") /\ (emitMu = "closer" => waiter = "batcher")
    BY DEF IInv, Emitters
  <2>2. EmitLeft(emitting) = 1 /\ EmitLeft(emitting') = 0 /\ UNCHANGED <<reply, pump>>
    BY <1>5, PipelineAssumption DEF Metadata, EmitLeft
  <2>3. ReaderLeft(reader') = ReaderLeft(reader)
    BY <1>5, <2>1 DEF Metadata, ReaderLeft
  <2>4. WaiterLeft(waiter') <= WaiterLeft(waiter)
    BY <1>5, <2>1 DEF Metadata, WaiterLeft
  <2> QED
    BY <2>2, <2>3, <2>4, StagesAreCounted
<1>6. ASSUME PumpReads PROVE Shorter
  <2>1. /\ UNCHANGED <<reader, emitting, waiter>>
        /\ \/ ReplyLeft(reply) = 2 /\ ReplyLeft(reply') = 0 /\ PumpLeft(pump) = 1 /\ PumpLeft(pump') = 2
           \/ reply' = reply /\ PumpLeft(pump) = 1 /\ PumpLeft(pump') = 0
    BY <1>6 DEF PumpReads, ReplyLeft, PumpLeft
  <2> QED
    BY <2>1, StagesAreCounted
<1>7. ASSUME PumpWrites PROVE Shorter
  <2>1. PumpLeft(pump) = 2 /\ PumpLeft(pump') <= 1 /\ UNCHANGED <<reader, emitting, reply, waiter>>
    BY <1>7 DEF PumpWrites, PumpLeft
  <2> QED
    BY <2>1, StagesAreCounted
<1>8. ASSUME Wait PROVE Shorter
  <2>1. WaiterLeft(waiter) = 8 /\ WaiterLeft(waiter') = 7 /\ UNCHANGED <<reader, emitting, reply, pump>>
    BY <1>8 DEF Wait, WaiterLeft
  <2> QED
    BY <2>1, StagesAreCounted
<1>9. ASSUME ExitOutput \/ RemovePane PROVE Shorter
  <2>1. WaiterLeft(waiter') = WaiterLeft(waiter) - 1 /\ UNCHANGED <<reader, emitting, reply, pump>>
    BY <1>9 DEF ExitOutput, RemovePane, WaiterLeft
  <2> QED
    BY <2>1, StagesAreCounted
<1>10. Shorter
  BY <1>2, <1>3, <1>4, <1>5, <1>6, <1>7, <1>8, <1>9, Zenon DEF Pump
<1>11. /\ BytesLeft(unread', chunk', buffer', batch') = BytesLeft(unread, chunk, buffer, batch) - 0
       /\ BytesLeft(unread, chunk, buffer, batch) \in Nat
  BY <1>1, BytesAreCounted
<1>12. ReaderLeft(reader') + EmitLeft(emitting') + ReplyLeft(reply') + PumpLeft(pump') + WaiterLeft(waiter')
         < ReaderLeft(reader) + EmitLeft(emitting) + ReplyLeft(reply) + PumpLeft(pump) + WaiterLeft(waiter) + 0
  BY <1>10, StagesAreCounted
<1> QED
  BY <1>11, <1>12, Closer

LEMMA ReadCloser ==
  ASSUME IInv, NEW n \in 1..Len(unread), Read(n)
  PROVE  StepsLeft' < StepsLeft
<1>1. /\ chunk' = SubSeq(unread, 1, n) /\ unread' = SubSeq(unread, n + 1, Len(unread))
      /\ reader = "reading" /\ reader' = "adding"
      /\ UNCHANGED <<waiter, buffer, emitting, batch, reply, pump>>
  BY DEF Read, batcher, replies
<1>2. chunk = <<>>
  BY <1>1 DEF IInv, Emitters
<1>3. n \in 0..Len(unread) /\ n > 0 /\ n \in Nat
  BY BytesAreCounted
<1>4. Len(chunk) = 0 /\ Len(chunk') = n /\ Len(unread') = Len(unread) - n
  BY <1>1, <1>2, <1>3, TypesOfSequences, CutLengths
<1> DEFINE less == 2 * n
<1>5. BytesLeft(unread', chunk', buffer', batch') = BytesLeft(unread, chunk, buffer, batch) - less
  <2>1. UNCHANGED <<buffer, batch>>
    BY <1>1
  <2>2. Len(unread) \in Nat /\ Len(buffer) \in Nat /\ Len(batch) \in Nat
    BY BytesAreCounted
  <2> QED
    BY <1>3, <1>4, <2>1, <2>2 DEF BytesLeft
<1>6. ReaderLeft(reader) = 1 /\ ReaderLeft(reader') = 2
  BY <1>1 DEF ReaderLeft
<1>7. less \in Nat /\ less > 1
  BY <1>3
<1> HIDE DEF less
<1>8. ReaderLeft(reader') + EmitLeft(emitting') + ReplyLeft(reply') + PumpLeft(pump') + WaiterLeft(waiter')
        < ReaderLeft(reader) + EmitLeft(emitting) + ReplyLeft(reply) + PumpLeft(pump) + WaiterLeft(waiter) + less
  <2>1. UNCHANGED <<emitting, reply, pump, waiter>>
    BY <1>1
  <2> QED
    <3>1. EmitLeft(emitting) \in Nat /\ ReplyLeft(reply) \in Nat /\ PumpLeft(pump) \in Nat /\ WaiterLeft(waiter) \in Nat
      BY StagesAreCounted
    <3> QED
      BY <1>6, <1>7, <2>1, <3>1
<1> QED
  BY <1>5, <1>7, <1>8, BytesAreCounted, Closer

LEMMA AddCloser ==
  ASSUME IInv, Add
  PROVE  StepsLeft' < StepsLeft
<1> DEFINE whole == buffer \o chunk
           full == Len(whole) - (Len(whole) % BatchBytes)
<1>1. /\ reader = "adding" /\ emitMu = None /\ chunk' = <<>>
      /\ buffer' = SubSeq(whole, full + 1, Len(whole))
      /\ \/ full > 0 /\ batch' = SubSeq(whole, 1, full) /\ emitting' = "append" /\ reader' = "emitting"
         \/ ~(full > 0) /\ reader' = "reading" /\ UNCHANGED <<batch, emitting>>
      /\ UNCHANGED <<unread, waiter, reply, pump>>
  BY DEF Add, Emit, console, replies
<1>2. whole \in Seq(Byte) /\ Len(whole) = Len(buffer) + Len(chunk) /\ Len(whole) \in Nat
  BY TypesOfSequences, ConcatProperties, LenProperties
<1>3. full \in 0..Len(whole) /\ full \in Nat
  BY <1>2, PipelineAssumption
<1> HIDE DEF full, whole
<1>4. Len(batch) = 0 /\ emitting = None
  BY <1>1 DEF IInv, TypeOK, Emitters
<1>5. Len(buffer') = Len(whole) - full /\ Len(chunk') = 0 /\ Len(batch') = full
  <2>1. Len(SubSeq(whole, 1, full)) = full /\ Len(SubSeq(whole, full + 1, Len(whole))) = Len(whole) - full
    BY <1>2, <1>3, CutLengths
  <2> QED
    BY <1>1, <1>3, <1>4, <2>1
<1> DEFINE less == 5 * full
<1>6. BytesLeft(unread', chunk', buffer', batch') = BytesLeft(unread, chunk, buffer, batch) - less
  <2>1. UNCHANGED unread
    BY <1>1
  <2>2. Len(unread) \in Nat /\ Len(buffer) \in Nat /\ Len(chunk) \in Nat /\ Len(whole) = Len(buffer) + Len(chunk)
    BY <1>2, BytesAreCounted
  <2> QED
    BY <1>3, <1>4, <1>5, <2>1, <2>2 DEF BytesLeft
<1>7. ReaderLeft(reader) = 2 /\ ReaderLeft(reader') = 1
  BY <1>1 DEF ReaderLeft
<1>8. EmitLeft(emitting) = 0 /\ EmitLeft(emitting') <= less
  <2>1. EmitLeft(emitting) = 0
    BY <1>4, PipelineAssumption DEF EmitLeft
  <2>2. EmitLeft("append") = 3
    BY DEF EmitLeft
  <2> QED
    BY <1>1, <1>3, <2>1, <2>2
<1>9. less \in Nat
  BY <1>3
<1> HIDE DEF less
<1>10. ReaderLeft(reader') + EmitLeft(emitting') + ReplyLeft(reply') + PumpLeft(pump') + WaiterLeft(waiter')
         < ReaderLeft(reader) + EmitLeft(emitting) + ReplyLeft(reply) + PumpLeft(pump) + WaiterLeft(waiter) + less
  <2>1. UNCHANGED <<reply, pump, waiter>>
    BY <1>1
  <2> QED
    <3>1. /\ ReplyLeft(reply) \in Nat /\ PumpLeft(pump) \in Nat /\ WaiterLeft(waiter) \in Nat
          /\ EmitLeft(emitting') \in Nat
      BY StagesAreCounted
    <3> QED
      BY <1>7, <1>8, <1>9, <2>1, <3>1
<1> QED
  BY <1>6, <1>9, <1>10, BytesAreCounted, Closer

LEMMA FlushCloser ==
  ASSUME IInv, TimerFlushes \/ CloseBatcher
  PROVE  StepsLeft' < StepsLeft
<1>1. /\ emitMu = None /\ batch = <<>> /\ buffer' = <<>> /\ batch' = buffer /\ emitting' = "append"
      /\ UNCHANGED <<unread, chunk, reader, reply, pump>>
      /\ \/ buffer # <<>> /\ waiter' = waiter
         \/ waiter = "reader" /\ waiter' = "batcher"
  BY DEF IInv, Emitters, TimerFlushes, CloseBatcher, Emit, session, console, replies
<1>2. Len(batch) = 0 /\ Len(buffer') = 0 /\ Len(batch') = Len(buffer) /\ Len(buffer) \in Nat
  BY <1>1, BytesAreCounted
<1>3. buffer # <<>> => Len(buffer) > 0
  BY <1>2, TypesOfSequences, EmptySeq
<1> DEFINE less == 5 * Len(buffer)
<1>4. BytesLeft(unread', chunk', buffer', batch') = BytesLeft(unread, chunk, buffer, batch) - less
  <2>1. UNCHANGED <<unread, chunk>>
    BY <1>1
  <2>2. Len(unread) \in Nat /\ Len(chunk) \in Nat
    BY BytesAreCounted
  <2> QED
    BY <1>2, <2>1, <2>2 DEF BytesLeft
<1>5. EmitLeft(emitting) = 0 /\ EmitLeft(emitting') = 3
  BY <1>1, PipelineAssumption DEF EmitLeft, IInv, TypeOK
<1>6. \/ Len(buffer) > 0 /\ waiter' = waiter
      \/ WaiterLeft(waiter) = 7 /\ WaiterLeft(waiter') = 3
  BY <1>1, <1>3 DEF WaiterLeft
<1>7. less \in Nat /\ (Len(buffer) > 0 => less > 3)
  BY <1>2
<1> HIDE DEF less
<1>8. ReaderLeft(reader') + EmitLeft(emitting') + ReplyLeft(reply') + PumpLeft(pump') + WaiterLeft(waiter')
        < ReaderLeft(reader) + EmitLeft(emitting) + ReplyLeft(reply) + PumpLeft(pump) + WaiterLeft(waiter) + less
  <2>1. UNCHANGED <<reader, reply, pump>>
    BY <1>1
  <2>2. WaiterLeft(waiter') + 3 < WaiterLeft(waiter) + less
    BY <1>6, <1>7, StagesAreCounted
  <2> QED
    <3>1. /\ ReaderLeft(reader) \in Nat /\ ReplyLeft(reply) \in Nat /\ PumpLeft(pump) \in Nat
          /\ WaiterLeft(waiter) \in Nat /\ WaiterLeft(waiter') \in Nat
      BY StagesAreCounted
    <3> QED
      BY <1>5, <1>7, <2>1, <2>2, <3>1
<1> QED
  BY <1>4, <1>7, <1>8, BytesAreCounted, Closer

LEMMA EmulatorCloser ==
  ASSUME IInv, EmulatorWrites
  PROVE  StepsLeft' < StepsLeft
<1>1. /\ batch # <<>> /\ batch' = Tail(batch) /\ ~reply
      /\ UNCHANGED <<unread, chunk, buffer, reader, emitting, pump, waiter>>
  BY DEF EmulatorWrites, console, session
<1>2. Len(batch') = Len(batch) - 1
  BY <1>1, TypesOfSequences, HeadTailProperties
<1>3. BytesLeft(unread', chunk', buffer', batch') = BytesLeft(unread, chunk, buffer, batch) - 3
  BY <1>1, <1>2, BytesAreCounted DEF BytesLeft
<1>4. ReplyLeft(reply) = 0
  BY <1>1 DEF ReplyLeft
<1>5. ReaderLeft(reader') + EmitLeft(emitting') + ReplyLeft(reply') + PumpLeft(pump') + WaiterLeft(waiter')
        < ReaderLeft(reader) + EmitLeft(emitting) + ReplyLeft(reply) + PumpLeft(pump) + WaiterLeft(waiter) + 3
  BY <1>1, <1>4, StagesAreCounted
<1>6. 3 \in Nat
  OBVIOUS
<1> QED
  BY <1>3, <1>5, <1>6, BytesAreCounted, Closer

LEMMA ExitStepCloser ==
  ASSUME IInv, ExitStep
  PROVE  StepsLeft' < StepsLeft
<1>1. CASE \E n \in 1..Len(unread) : Read(n)
  BY <1>1, ReadCloser
<1>2. CASE Add
  BY <1>2, AddCloser
<1>3. CASE TimerFlushes \/ CloseBatcher
  BY <1>3, FlushCloser
<1>4. CASE EmulatorWrites
  BY <1>4, EmulatorCloser
<1>5. CASE ReadFails \/ AppendStarts \/ AppendEnds \/ Metadata \/ Pump \/ Wait \/ ExitOutput \/ RemovePane
  BY <1>5, StagesCloser
<1> QED
  BY <1>1, <1>2, <1>3, <1>4, <1>5, Zenon DEF ExitStep, Reader, Callback, Waiter

(***************************************************************************)
(* Nothing that happens after the end of a shell takes its exit back or    *)
(* delays it for ever: every step of the reader, the batcher, the          *)
(* callback, the emulator, the pump and the waiter brings it closer by the *)
(* count of StepsLeft, and clients, checkpoints and Close leave it where   *)
(* it is.  With NobodyIsStuck: the goroutines need only run on, and get    *)
(* their locks in the end, for the pane to be removed.                     *)
(***************************************************************************)
ExitComesCloser ==
  [][process = "ended" =>
       /\ process' = "ended"
       /\ StepsLeft \in Nat /\ StepsLeft' <= StepsLeft
       /\ ExitStep => StepsLeft' < StepsLeft]_vars

THEOREM ExitComesCloserCorrect == Spec => ExitComesCloser
<1>1. ASSUME IInv PROVE StepsLeft \in Nat
  BY <1>1, BytesAreCounted, StagesAreCounted DEF StepsLeft
<1>2. ASSUME IInv, Next, process = "ended"
      PROVE  /\ process' = "ended" /\ StepsLeft \in Nat /\ StepsLeft' <= StepsLeft
             /\ ExitStep => StepsLeft' < StepsLeft
  <2>1. process' = "ended"
    BY <1>2 DEF Next, Reader, Read, ReadFails, Add, TimerFlushes, Callback, AppendStarts, EmulatorWrites, AppendEnds,
         Metadata, Pump, PumpReads, PumpWrites, Waiter, Wait, CloseBatcher, ExitOutput, RemovePane, CheckpointStarts,
         CheckpointSaves, CheckpointLoopEnds, ClientLocks, ClientUsesOutput, StartClose, ShellPrints, ShellEnds,
         CloseConsole, console
  <2>2. StepsLeft \in Nat
    BY <1>1, <1>2
  <2>3. StepsLeft' \in Nat
    <3>1. IInv'
      BY <1>2, InvariantStep
    <3>2. Len(unread') \in Nat /\ Len(chunk') \in Nat /\ Len(buffer') \in Nat /\ Len(batch') \in Nat
      BY <3>1, LenProperties DEF IInv, TypeOK
    <3>3. BytesLeft(unread', chunk', buffer', batch') \in Nat
      BY <3>2 DEF BytesLeft
    <3> QED
      BY <3>3, StagesAreCounted DEF StepsLeft
  <2>4. CASE ExitStep
    <3>1. StepsLeft' < StepsLeft
      BY <1>2, <2>4, ExitStepCloser
    <3> QED
      BY <2>1, <2>2, <2>3, <3>1
  <2>5. CASE ~ExitStep
    <3>1. UNCHANGED <<unread, session, batcher, replies>>
      BY <1>2, <2>5 DEF Next, ExitStep, ShellPrints, ShellEnds, CloseConsole, CheckpointStarts, CheckpointSaves,
           CheckpointLoopEnds, ClientLocks, ClientUsesOutput, StartClose, console
    <3>2. StepsLeft' = StepsLeft
      BY <3>1 DEF StepsLeft, session, batcher, replies
    <3> QED
      BY <2>1, <2>2, <2>5, <3>2
  <2> QED
    BY <2>4, <2>5
<1>3. IInv /\ [Next]_vars =>
        [process = "ended" =>
           /\ process' = "ended"
           /\ StepsLeft \in Nat /\ StepsLeft' <= StepsLeft
           /\ ExitStep => StepsLeft' < StepsLeft]_vars
  BY <1>2, Zenon
<1> QED
  BY PipelineInductive, <1>3, PTL DEF Spec, ExitComesCloser
=============================================================================
