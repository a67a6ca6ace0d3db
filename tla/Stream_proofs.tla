---------------------------- MODULE Stream_proofs ----------------------------
(* Proofs about the aP byte stream, for any number of appenders, readers   *)
(* and any lengths.                                                        *)
EXTENDS Stream, SequenceTheorems, TLAPS

\* The strengthening that makes NoLostWakeup inductive: a live receiver never
\* claims to have seen a version that has not been published yet.
SeenBound == \A r \in Readers : rpc[r] # "idle" => seen[r] <= version

IInv == StreamTypeOK /\ SeenBound /\ NoLostWakeup

LEMMA ChunkIsSeq ==
    ASSUME NEW a \in Appenders, NEW n \in Nat
    PROVE  /\ [i \in 1..ChunkLen |-> <<a, n>>] \in Seq(Bytes)
           /\ Len([i \in 1..ChunkLen |-> <<a, n>>]) = ChunkLen
<1>1. ChunkLen \in Nat BY StreamAssumption
<1>2. <<a, n>> \in Bytes BY DEF Bytes
<1>3. [i \in 1..ChunkLen |-> <<a, n>>] \in [1..ChunkLen -> Bytes] BY <1>2
<1> QED BY <1>1, <1>3

\* The slice a read returns is a sequence of bytes that ends inside the log.
LEMMA SliceIsSeq ==
    ASSUME StreamTypeOK, NEW o \in Nat, o < Len(buf)
    PROVE  /\ Slice(o) \in Seq(Bytes)
           /\ Len(Slice(o)) \in Nat
           /\ o + Len(Slice(o)) <= Len(buf)
<1>1. Count \in Nat /\ Count > 0 BY StreamAssumption
<1>2. buf \in Seq(Bytes) /\ Len(buf) \in Nat BY DEF StreamTypeOK
<1> DEFINE e == IF o + Count < Len(buf) THEN o + Count ELSE Len(buf)
<1>3. e \in Nat /\ e <= Len(buf) /\ o + 1 <= e + 1 BY <1>1, <1>2
<1>4. SubSeq(buf, o + 1, e) \in Seq(Bytes) /\ Len(SubSeq(buf, o + 1, e)) = e - o
  BY <1>2, <1>3, SubSeqProperties
<1> QED BY <1>2, <1>3, <1>4 DEF Slice

LEMMA InitIInv == StreamInit => IInv
  BY DEF StreamInit, IInv, StreamTypeOK, SeenBound, NoLostWakeup

LEMMA NextTypeOK == StreamTypeOK /\ [StreamNext]_streamVars => StreamTypeOK'
<1> SUFFICES ASSUME StreamTypeOK, [StreamNext]_streamVars PROVE StreamTypeOK'
  OBVIOUS
<1> USE StreamAssumption
<1>1. ASSUME NEW a \in Appenders, Extend(a) PROVE StreamTypeOK'
  <2>1. Len(buf) \in Nat BY DEF StreamTypeOK
  <2>2. buf' \in Seq(Bytes) BY <1>1, <2>1, ChunkIsSeq, ConcatProperties DEF Extend, StreamTypeOK
  <2>3. Len(buf) + ChunkLen \in Nat BY <2>1
  <2>4. /\ newLen' = [newLen EXCEPT ![a] = Len(buf) + ChunkLen]
        /\ apc' = [apc EXCEPT ![a] = "send"]
        /\ UNCHANGED <<version, retained, rpc, seen, offset, got>>
    BY <1>1 DEF Extend
  <2> QED BY <2>2, <2>3, <2>4 DEF StreamTypeOK
<1>2. ASSUME NEW a \in Appenders, Send(a) PROVE StreamTypeOK'
  BY <1>2 DEF Send, StreamTypeOK
<1>3. ASSUME NEW r \in Readers, Subscribe(r) PROVE StreamTypeOK'
  BY <1>3 DEF Subscribe, StreamTypeOK
<1>4. ASSUME NEW r \in Readers, Check(r) PROVE StreamTypeOK'
  <2>1. CASE offset[r] < Len(buf)
    <3>1. offset[r] \in Nat BY DEF StreamTypeOK
    <3>2. Slice(offset[r]) \in Seq(Bytes) /\ Len(Slice(offset[r])) \in Nat
      BY <2>1, <3>1, SliceIsSeq
    <3>3. got[r] \o Slice(offset[r]) \in Seq(Bytes)
      BY <3>2, ConcatProperties DEF StreamTypeOK
    <3> DEFINE s == Slice(offset[r])
    <3>4. /\ rpc' = [rpc EXCEPT ![r] = "idle"]
          /\ got' = [got EXCEPT ![r] = got[r] \o s]
          /\ offset' = [offset EXCEPT ![r] = offset[r] + Len(s)]
          /\ UNCHANGED <<buf, version, retained, apc, newLen, seen>>
      BY <1>4, <2>1 DEF Check, CheckAgainst, StreamTypeOK
    <3>5. offset[r] + Len(s) \in Nat /\ got[r] \o s \in Seq(Bytes) BY <3>1, <3>2, <3>3
    <3> HIDE DEF s
    <3> QED BY <3>4, <3>5 DEF StreamTypeOK
  <2>2. CASE ~(offset[r] < Len(buf))
    BY <1>4, <2>2 DEF Check, CheckAgainst, StreamTypeOK
  <2> QED BY <2>1, <2>2
<1>5. ASSUME NEW r \in Readers, Changed(r) PROVE StreamTypeOK'
  BY <1>5 DEF Changed, StreamTypeOK
<1>6. ASSUME NEW r \in Readers, CancelRead(r) PROVE StreamTypeOK'
  BY <1>6 DEF CancelRead, StreamTypeOK
<1>7. CASE UNCHANGED streamVars BY <1>7 DEF streamVars, StreamTypeOK
<1> QED BY <1>1, <1>2, <1>3, <1>4, <1>5, <1>6, <1>7 DEF StreamNext, AppendStep, ReadStep

LEMMA NextIInv == IInv /\ [StreamNext]_streamVars => IInv'
<1> SUFFICES ASSUME IInv, [StreamNext]_streamVars PROVE IInv'
  OBVIOUS
<1>t. StreamTypeOK' BY NextTypeOK DEF IInv
<1> USE StreamAssumption DEF IInv, StreamTypeOK, SeenBound, NoLostWakeup
<1>1. ASSUME NEW a \in Appenders, Extend(a) PROVE (SeenBound /\ NoLostWakeup)'
  BY <1>1 DEF Extend
<1>2. ASSUME NEW a \in Appenders, Send(a) PROVE (SeenBound /\ NoLostWakeup)'
  <2>1. CASE Receivers = {}
    BY <1>2, <2>1 DEF Send, Receivers
  <2>2. CASE Receivers # {}
    <3>1. version' = version + 1 /\ UNCHANGED <<buf, rpc, seen, offset>>
      BY <1>2, <2>2 DEF Send
    <3>2. \A r \in Readers : rpc[r] # "idle" => seen[r] <= version'  /\ seen[r] # version'
      BY <3>1
    <3> QED BY <3>1, <3>2
  <2> QED BY <2>1, <2>2
<1>3. ASSUME NEW r \in Readers, Subscribe(r) PROVE (SeenBound /\ NoLostWakeup)'
  BY <1>3 DEF Subscribe
<1>4. ASSUME NEW r \in Readers, Check(r) PROVE (SeenBound /\ NoLostWakeup)'
  BY <1>4 DEF Check, CheckAgainst
<1>5. ASSUME NEW r \in Readers, Changed(r) PROVE (SeenBound /\ NoLostWakeup)'
  BY <1>5 DEF Changed
<1>6. ASSUME NEW r \in Readers, CancelRead(r) PROVE (SeenBound /\ NoLostWakeup)'
  BY <1>6 DEF CancelRead
<1>7. CASE UNCHANGED streamVars BY <1>7 DEF streamVars
<1> QED BY <1>t, <1>1, <1>2, <1>3, <1>4, <1>5, <1>6, <1>7 DEF StreamNext, AppendStep, ReadStep

\* Appending to the log changes no prefix already read.
LEMMA PrefixStable ==
    ASSUME NEW s \in Seq(Bytes), NEW t \in Seq(Bytes), NEW n \in 0..Len(s)
    PROVE  SubSeq(s \o t, 1, n) = SubSeq(s, 1, n)
<1>1. Len(s) \in Nat OBVIOUS
<1>2. CASE n = 0
  <2>1. SubSeq(s \o t, 1, 0) = <<>> BY SubSeqEmpty
  <2>2. SubSeq(s, 1, 0) = <<>> BY SubSeqEmpty
  <2> QED BY <1>2, <2>1, <2>2
<1>3. CASE n > 0
  <2>1. 1 \in 1..Len(s) /\ n \in 1..Len(s) BY <1>1, <1>3
  <2> QED BY <2>1, SubSeqOfConcat1
<1> QED BY <1>1, <1>2, <1>3

LEMMA NextReadsArePrefix ==
    StreamTypeOK /\ ReadsArePrefix /\ [StreamNext]_streamVars => ReadsArePrefix'
<1> SUFFICES ASSUME StreamTypeOK, ReadsArePrefix, [StreamNext]_streamVars PROVE ReadsArePrefix'
  OBVIOUS
<1> USE StreamAssumption
<1>0. buf \in Seq(Bytes) /\ Len(buf) \in Nat /\ \A r \in Readers : offset[r] \in Nat
  BY DEF StreamTypeOK
<1>1. ASSUME NEW a \in Appenders, Extend(a) PROVE ReadsArePrefix'
  <2> DEFINE c == [i \in 1..ChunkLen |-> <<a, Len(buf)>>]
  <2>1. c \in Seq(Bytes) /\ Len(c) = ChunkLen BY <1>0, ChunkIsSeq
  <2>2. buf' = buf \o c /\ UNCHANGED <<offset, got>> BY <1>1 DEF Extend
  <2> HIDE DEF c
  <2>3. Len(buf') = Len(buf) + ChunkLen BY <1>0, <2>1, <2>2, ConcatProperties
  <2> SUFFICES ASSUME NEW r \in Readers
               PROVE  offset[r] <= Len(buf') /\ got[r] = SubSeq(buf', 1, offset[r])
    BY <2>2 DEF ReadsArePrefix
  <2>4. offset[r] \in 0..Len(buf) BY <1>0 DEF ReadsArePrefix
  <2>5. SubSeq(buf', 1, offset[r]) = SubSeq(buf, 1, offset[r])
    BY <1>0, <2>1, <2>2, <2>4, PrefixStable
  <2> QED BY <1>0, <2>3, <2>4, <2>5 DEF ReadsArePrefix
<1>2. ASSUME NEW a \in Appenders, Send(a) PROVE ReadsArePrefix'
  BY <1>2 DEF Send, ReadsArePrefix
<1>3. ASSUME NEW r \in Readers, Subscribe(r) PROVE ReadsArePrefix'
  BY <1>3 DEF Subscribe, ReadsArePrefix
<1>4. ASSUME NEW r \in Readers, Check(r) PROVE ReadsArePrefix'
  <2>1. CASE offset[r] < Len(buf)
    <3> DEFINE o == offset[r]
               e == IF o + Count < Len(buf) THEN o + Count ELSE Len(buf)
               s == SubSeq(buf, o + 1, e)
    <3>1. o \in Nat /\ e \in o..Len(buf) /\ o \in 0..Len(buf) BY <1>0, <2>1
    <3>2. SubSeq(buf, 1, o) \o s = SubSeq(buf, 1, e)
      <4>1. 1 \in 1..Len(buf)+1 /\ o \in (1-1)..Len(buf) BY <1>0, <3>1
      <4> HIDE DEF o, e
      <4> QED BY <1>0, <3>1, <4>1, ConcatAdjacentSubSeq
    <3>3. Len(s) = e - o
      <4>1. \A i \in (o + 1)..e : buf[i] \in Bytes BY <1>0, <3>1
      <4>2. o + 1 \in Int /\ e \in Int BY <3>1
      <4> HIDE DEF o, e
      <4>3. Len(SubSeq(buf, o + 1, e)) = IF o + 1 <= e THEN e - (o + 1) + 1 ELSE 0
        BY <4>1, <4>2, SubSeqProperties
      <4> QED BY <3>1, <4>3
    <3>4. /\ got' = [got EXCEPT ![r] = got[r] \o s]
          /\ offset' = [offset EXCEPT ![r] = o + Len(s)]
          /\ UNCHANGED buf
      BY <1>4, <2>1 DEF Check, CheckAgainst, Slice, StreamTypeOK
    <3>5. got[r] = SubSeq(buf, 1, o) BY DEF ReadsArePrefix
    <3>6. o + Len(s) = e BY <3>1, <3>3
    <3> HIDE DEF o, e, s
    <3>7. offset' = [offset EXCEPT ![r] = e] /\ got' = [got EXCEPT ![r] = SubSeq(buf, 1, e)]
      BY <3>2, <3>4, <3>5, <3>6
    <3>8. ASSUME NEW x \in Readers
          PROVE  offset'[x] <= Len(buf') /\ got'[x] = SubSeq(buf', 1, offset'[x])
      <4>1. CASE x = r
        <5>1. offset'[x] = e /\ got'[x] = SubSeq(buf, 1, e) BY <3>7, <4>1 DEF StreamTypeOK
        <5> QED BY <1>0, <3>1, <3>4, <5>1
      <4>2. CASE x # r
        <5>1. offset'[x] = offset[x] /\ got'[x] = got[x] BY <3>7, <4>2 DEF StreamTypeOK
        <5> QED BY <3>4, <5>1 DEF ReadsArePrefix
      <4> QED BY <4>1, <4>2
    <3> QED BY <3>8 DEF ReadsArePrefix
  <2>2. CASE ~(offset[r] < Len(buf))
    BY <1>4, <2>2 DEF Check, CheckAgainst, ReadsArePrefix
  <2> QED BY <2>1, <2>2
<1>5. ASSUME NEW r \in Readers, Changed(r) PROVE ReadsArePrefix'
  BY <1>5 DEF Changed, ReadsArePrefix
<1>6. ASSUME NEW r \in Readers, CancelRead(r) PROVE ReadsArePrefix'
  BY <1>6 DEF CancelRead, ReadsArePrefix
<1>7. CASE UNCHANGED streamVars BY <1>7 DEF streamVars, ReadsArePrefix
<1> QED BY <1>1, <1>2, <1>3, <1>4, <1>5, <1>6, <1>7 DEF StreamNext, AppendStep, ReadStep

\* Type correctness of the stream state for every instance.
THEOREM StreamTypeCorrect == StreamSpec => []StreamTypeOK
<1>1. StreamInit => StreamTypeOK BY InitIInv DEF IInv
<1> QED BY <1>1, NextTypeOK, PTL DEF StreamSpec

\* The comment in Stream holds for any number of appenders and readers: an
\* append that lands between a reader's check and its await is never lost.
THEOREM StreamNoLostWakeup == StreamSpec => []NoLostWakeup
<1>1. IInv => NoLostWakeup BY DEF IInv
<1> QED BY <1>1, InitIInv, NextIInv, PTL DEF StreamSpec

\* Stream::read is offset-addressed over retained history: for any number of
\* appenders and readers a tailing reader collects a prefix of the log.
THEOREM StreamReadsArePrefix == StreamSpec => []ReadsArePrefix
<1>1. StreamInit => ReadsArePrefix
  <2> SUFFICES ASSUME StreamInit, NEW r \in Readers
               PROVE  0 <= Len(buf) /\ <<>> = SubSeq(<<>>, 1, 0)
    BY DEF StreamInit, ReadsArePrefix
  <2>1. SubSeq(<<>>, 1, 0) = <<>> BY SubSeqEmpty
  <2> QED BY <2>1 DEF StreamInit
<1> QED BY <1>1, NextReadsArePrefix, StreamTypeCorrect, PTL DEF StreamSpec
=============================================================================
