--------------------------- MODULE ApWire_proofs ---------------------------
(***************************************************************************)
(* Proofs about one aP connection for any number of callers and requests:  *)
(* answers reach their own callers, nobody waits for a finished router,    *)
(* and nothing follows a torn frame.                                       *)
(***************************************************************************)
EXTENDS ApWire, TLAPS

CallRecs == [pc : Pcs, tag : Ids, id : Ids, got : 0..Nothing]
Echoes == {f \in Frames : f.tag = f.id}

\* A call that has taken a tag and not yet given it back.
Active(c) == call[c].pc \in {"lock", "writing", "failing", "waiting"}

WireType ==
    /\ call \in [Calls -> CallRecs]
    /\ pending \subseteq Ids
    /\ closed \in BOOLEAN /\ torn \in BOOLEAN /\ up \in BOOLEAN
    /\ writer \in Calls \cup {NoCall}
    /\ \A c \in Calls : writer = c <=> call[c].pc \in {"writing", "failing"}
    /\ router \in {"running", "draining", "done"}
    /\ reqs \in Seq(Echoes) /\ resps \in Seq(Echoes)
    /\ running \subseteq Echoes
    /\ written \in Nat /\ next \in 1..(MaxRequests + 1)

\* Tags in use are distinct and old; an answer that arrived is the right one.
Tagged ==
    /\ \A c \in Calls : Active(c) => call[c].tag = call[c].id /\ call[c].tag < next
    /\ \A c, d \in Calls : Active(c) /\ Active(d) /\ c # d => call[c].tag # call[d].tag
    /\ \A c \in Calls : call[c].got \in {Nothing, Io, call[c].id}

\* A call without an answer is still registered, as long as it can be woken.
Registered ==
    \A c \in Calls : call[c].pc \in {"lock", "writing", "waiting"}
                        /\ call[c].got = Nothing => call[c].tag \in pending

\* What the closed flag rules out.
Ended ==
    /\ router # "running" => closed
    /\ router = "done" => \A c \in Calls :
          call[c].pc \in {"writing", "waiting"} => call[c].got # Nothing
    /\ torn => closed /\ \A c \in Calls : call[c].pc # "writing"

WireInv == WireType /\ Tagged /\ Registered /\ Ended

LEMMA EchoSeq ==
    ASSUME NEW s \in Seq(Echoes)
    PROVE  /\ \A f \in Echoes : Append(s, f) \in Seq(Echoes)
           /\ s # <<>> => Head(s) \in Echoes /\ Tail(s) \in Seq(Echoes)
           /\ <<>> \in Seq(Echoes)
  OBVIOUS

LEMMA Constants ==
    /\ Idle \in CallRecs /\ Idle.pc = "idle" /\ Idle.got = Nothing
    /\ Nothing \in 0..Nothing /\ Io \in 0..Nothing /\ Nothing # Io
    /\ \A i \in Ids : i \in 0..Nothing /\ i # Nothing /\ i # Io /\ i + 1 \in 1..(MaxRequests + 1)
  BY ConstantsAssumption DEF Nothing, Ids, Idle, Io, CallRecs, Pcs

\* Editing one field of a call record, as the actions do.
LEMMA RecordEdit ==
    ASSUME NEW r \in CallRecs
    PROVE  /\ r.pc \in Pcs /\ r.tag \in Ids /\ r.id \in Ids /\ r.got \in 0..Nothing
           /\ \A p \in Pcs : LET e == [r EXCEPT !.pc = p]
                IN e \in CallRecs /\ e.pc = p /\ e.tag = r.tag /\ e.id = r.id /\ e.got = r.got
           /\ \A g \in 0..Nothing : LET e == [r EXCEPT !.got = g]
                IN e \in CallRecs /\ e.pc = r.pc /\ e.tag = r.tag /\ e.id = r.id /\ e.got = g
  BY DEF CallRecs

LEMMA InitInv == Init => WireInv
<1> SUFFICES ASSUME Init PROVE WireInv
  OBVIOUS
<1>1. \A c \in Calls : call[c] \in CallRecs /\ call[c].pc = "idle" /\ call[c].got = Nothing
  BY Constants DEF Init
<1>2. WireType
  <2>1. call \in [Calls -> CallRecs]
    BY Constants DEF Init
  <2>2. reqs \in Seq(Echoes) /\ resps \in Seq(Echoes)
    BY DEF Init
  <2>3. next \in 1..(MaxRequests + 1) /\ written \in Nat
    BY ConstantsAssumption DEF Init
  <2>4. \A c \in Calls : writer # c /\ call[c].pc \notin {"writing", "failing"}
    BY <1>1, ConstantsAssumption DEF Init
  <2> QED
    BY <2>1, <2>2, <2>3, <2>4 DEF Init, WireType
<1>3. Tagged /\ Registered /\ Ended
  BY <1>1 DEF Tagged, Registered, Ended, Active, Init
<1> QED
  BY <1>2, <1>3 DEF WireInv

LEMMA CheckClosedInv ==
    ASSUME WireInv, NEW c \in Calls, CheckClosed(c)
    PROVE  WireInv'
<1> USE DEF WireInv
<1>1. /\ call[c] \in CallRecs
      /\ call[c].tag \in Ids
  BY RecordEdit DEF WireType, CheckClosed
<1>2. /\ call'[c] \in CallRecs
      /\ call'[c].pc = "checked" /\ call'[c].tag = call[c].tag /\ call'[c].id = call[c].id /\ call'[c].got = call[c].got
  BY <1>1 DEF WireType, CheckClosed, CallRecs, Pcs
<1>3. \A d \in Calls \ {c} : call'[d] = call[d]
  BY DEF WireType, CheckClosed
<1>4. call' \in [Calls -> CallRecs]
  BY <1>2 DEF WireType, CheckClosed
<1>5. reqs' \in Seq(Echoes) /\ resps' \in Seq(Echoes) /\ running' \subseteq Echoes
  BY DEF WireType, CheckClosed, wire, server
<1>6. WireType'
  <2>1. \A d \in Calls : writer' = d <=> call'[d].pc \in {"writing", "failing"}
    BY <1>2, <1>3, Constants, ConstantsAssumption DEF WireType, CheckClosed
  <2>2. written' \in Nat /\ next' \in 1..(MaxRequests + 1)
    BY <1>1, Constants DEF WireType, CheckClosed
  <2> QED
    BY <2>1, <2>2, <1>1, <1>4, <1>5 DEF WireType, CheckClosed, wire, server
<1>7. Tagged'
  BY <1>1, <1>2, <1>3, Constants DEF WireType, Tagged, Active, CheckClosed, Ids
<1>8. Registered'
  BY <1>1, <1>2, <1>3, Constants DEF WireType, Tagged, Registered, Active, CheckClosed
<1>9. Ended'
  BY <1>1, <1>2, <1>3, Constants DEF WireType, Tagged, Registered, Ended, Active, CheckClosed, wire
<1> QED
  BY <1>6, <1>7, <1>8, <1>9

LEMMA RegisterInv ==
    ASSUME WireInv, NEW c \in Calls, Register(c)
    PROVE  WireInv'
<1> USE DEF WireInv
<1>1. /\ call[c] \in CallRecs
      /\ next \in Ids
  BY RecordEdit DEF WireType, Register
<1>2. /\ call'[c] \in CallRecs
      /\ call'[c].pc = "lock" /\ call'[c].tag = next /\ call'[c].id = next /\ call'[c].got = Nothing
  BY <1>1, Constants DEF WireType, Register, Idle, Pcs, CallRecs
<1>3. \A d \in Calls \ {c} : call'[d] = call[d]
  BY DEF WireType, Register, Idle
<1>4. call' \in [Calls -> CallRecs]
  BY <1>2 DEF WireType, Register, Idle
<1>5. reqs' \in Seq(Echoes) /\ resps' \in Seq(Echoes) /\ running' \subseteq Echoes
  BY DEF WireType, Register, wire, server
<1>6. WireType'
  <2>1. \A d \in Calls : writer' = d <=> call'[d].pc \in {"writing", "failing"}
    BY <1>2, <1>3, Constants, ConstantsAssumption DEF WireType, Register, Idle
  <2>2. written' \in Nat /\ next' \in 1..(MaxRequests + 1)
    BY <1>1, Constants DEF WireType, Register
  <2> QED
    BY <2>1, <2>2, <1>1, <1>4, <1>5 DEF WireType, Register, Idle, wire, server
<1>7. Tagged'
  <2>1. next' = next + 1 /\ next \in Nat /\ next < next'
    BY <1>1 DEF Register, Ids
  <2>2. \A d \in Calls \ {c} : Active(d)' => Active(d) /\ call[d].tag < next /\ call'[d].tag # next
    BY <1>3, <2>1 DEF Active, Tagged, WireType, CallRecs, Ids
  <2>3. \A d \in Calls \ {c} : call[d].tag \in Nat
    BY DEF WireType, CallRecs, Ids
  <2> QED
    BY <1>2, <1>3, <2>1, <2>2, <2>3 DEF Tagged, Active
<1>8. Registered'
  BY <1>1, <1>2, <1>3, Constants DEF WireType, Tagged, Registered, Active, Register, Idle
<1>9. Ended'
  BY <1>1, <1>2, <1>3, Constants DEF WireType, Tagged, Registered, Ended, Active, Register, Idle, wire
<1> QED
  BY <1>6, <1>7, <1>8, <1>9

LEMMA WriteInv ==
    ASSUME WireInv, NEW c \in Calls, Write(c)
    PROVE  WireInv'
<1> USE DEF WireInv
<1>1. /\ call[c] \in CallRecs
      /\ call[c].tag \in Ids
  BY RecordEdit DEF WireType, Write
<1>2. /\ call'[c] \in CallRecs
      /\ call'[c].pc = "waiting" /\ call'[c].tag = call[c].tag /\ call'[c].id = call[c].id /\ call'[c].got = call[c].got
  BY <1>1 DEF WireType, Write, CallRecs, Pcs
<1>3. \A d \in Calls \ {c} : call'[d] = call[d]
  BY DEF WireType, Write
<1>4. call' \in [Calls -> CallRecs]
  BY <1>2 DEF WireType, Write
<1>5. reqs' \in Seq(Echoes) /\ resps' \in Seq(Echoes) /\ running' \subseteq Echoes
  <2>1. [tag |-> call[c].tag, id |-> call[c].id] \in Echoes
    BY <1>1, RecordEdit DEF Write, Tagged, Active, Echoes, Frames
  <2> QED
    BY <2>1, EchoSeq DEF WireType, Write, server, Sent
<1>6. WireType'
  <2>1. \A d \in Calls : writer' = d <=> call'[d].pc \in {"writing", "failing"}
    BY <1>2, <1>3, Constants, ConstantsAssumption DEF WireType, Write
  <2>2. written' \in Nat /\ next' \in 1..(MaxRequests + 1)
    BY <1>1, Constants DEF WireType, Write, Sent
  <2> QED
    BY <2>1, <2>2, <1>1, <1>4, <1>5 DEF WireType, Write, Sent, wire, server
<1>7. Tagged'
  BY <1>1, <1>2, <1>3, Constants DEF WireType, Tagged, Active, Write, Ids
<1>8. Registered'
  BY <1>1, <1>2, <1>3, Constants DEF WireType, Tagged, Registered, Active, Write
<1>9. Ended'
  BY <1>1, <1>2, <1>3, Constants DEF WireType, Tagged, Registered, Ended, Active, Write, Sent, wire
<1> QED
  BY <1>6, <1>7, <1>8, <1>9

LEMMA TearWriteInv ==
    ASSUME WireInv, NEW c \in Calls, TearWrite(c)
    PROVE  WireInv'
<1> USE DEF WireInv
<1>1. /\ call[c] \in CallRecs
      /\ call[c].tag \in Ids
  BY RecordEdit DEF WireType, TearWrite
<1>2. /\ call'[c] \in CallRecs
      /\ call'[c].pc = "failing" /\ call'[c].tag = call[c].tag /\ call'[c].id = call[c].id /\ call'[c].got = call[c].got
  BY <1>1 DEF WireType, TearWrite, CallRecs, Pcs
<1>3. \A d \in Calls \ {c} : call'[d] = call[d]
  BY DEF WireType, TearWrite
<1>4. call' \in [Calls -> CallRecs]
  BY <1>2 DEF WireType, TearWrite
<1>5. reqs' \in Seq(Echoes) /\ resps' \in Seq(Echoes) /\ running' \subseteq Echoes
  <2>1. [tag |-> call[c].tag, id |-> call[c].id] \in Echoes
    BY <1>1, RecordEdit DEF TearWrite, Tagged, Active, Echoes, Frames
  <2> QED
    BY <2>1, EchoSeq DEF WireType, TearWrite, server, Sent, Tear
<1>6. WireType'
  <2>1. \A d \in Calls : writer' = d <=> call'[d].pc \in {"writing", "failing"}
    BY <1>2, <1>3, Constants, ConstantsAssumption DEF WireType, TearWrite
  <2>2. written' \in Nat /\ next' \in 1..(MaxRequests + 1)
    BY <1>1, Constants DEF WireType, TearWrite, Sent, Tear
  <2> QED
    BY <2>1, <2>2, <1>1, <1>4, <1>5 DEF WireType, TearWrite, Sent, Tear, wire, server
<1>7. Tagged'
  BY <1>1, <1>2, <1>3, Constants DEF WireType, Tagged, Active, TearWrite, Ids
<1>8. Registered'
  BY <1>1, <1>2, <1>3, Constants DEF WireType, Tagged, Registered, Active, TearWrite
<1>9. Ended'
  BY <1>1, <1>2, <1>3, Constants DEF WireType, Tagged, Registered, Ended, Active, TearWrite, Sent, Tear, wire
<1> QED
  BY <1>6, <1>7, <1>8, <1>9

LEMMA ReturnInv ==
    ASSUME WireInv, NEW c \in Calls, Return(c)
    PROVE  WireInv'
<1> USE DEF WireInv
<1>1. /\ call[c] \in CallRecs
      /\ call[c].tag \in Ids
  BY RecordEdit DEF WireType, Return
<1>2. /\ call'[c] \in CallRecs
      /\ call'[c] = Idle
  BY <1>1, Constants DEF WireType, Return, Finish, Pcs
<1>3. \A d \in Calls \ {c} : call'[d] = call[d]
  BY DEF WireType, Return, Finish
<1>4. call' \in [Calls -> CallRecs]
  BY <1>2 DEF WireType, Return, Finish
<1>5. reqs' \in Seq(Echoes) /\ resps' \in Seq(Echoes) /\ running' \subseteq Echoes
  BY DEF WireType, Return, wire, server
<1>6. WireType'
  <2>1. \A d \in Calls : writer' = d <=> call'[d].pc \in {"writing", "failing"}
    BY <1>2, <1>3, Constants, ConstantsAssumption DEF WireType, Return, Finish
  <2>2. written' \in Nat /\ next' \in 1..(MaxRequests + 1)
    BY <1>1, Constants DEF WireType, Return
  <2> QED
    BY <2>1, <2>2, <1>1, <1>4, <1>5 DEF WireType, Return, Finish, wire, server
<1>7. Tagged'
  <2>1. ~Active(c)' /\ next' = next
    BY <1>2, Constants DEF Active, Return
  <2> QED
    BY <1>2, <1>3, <2>1, Constants DEF Tagged, Active
<1>8. Registered'
  BY <1>1, <1>2, <1>3, Constants DEF WireType, Tagged, Registered, Active, Return, Finish
<1>9. Ended'
  BY <1>1, <1>2, <1>3, Constants DEF WireType, Tagged, Registered, Ended, Active, Return, Finish, wire
<1> QED
  BY <1>6, <1>7, <1>8, <1>9

LEMMA CancelInv ==
    ASSUME WireInv, NEW c \in Calls, Cancel(c)
    PROVE  WireInv'
<1> USE DEF WireInv
<1>1. /\ call[c] \in CallRecs
      /\ call[c].tag \in Ids
  BY RecordEdit DEF WireType, Cancel
<1>2. /\ call'[c] \in CallRecs
      /\ call'[c] = Idle
  BY <1>1, Constants DEF WireType, Cancel, Finish, Pcs
<1>3. \A d \in Calls \ {c} : call'[d] = call[d]
  BY DEF WireType, Cancel, Finish
<1>4. call' \in [Calls -> CallRecs]
  BY <1>2 DEF WireType, Cancel, Finish
<1>5. reqs' \in Seq(Echoes) /\ resps' \in Seq(Echoes) /\ running' \subseteq Echoes
  BY DEF WireType, Cancel, wire, server
<1>6. WireType'
  <2>1. \A d \in Calls : writer' = d <=> call'[d].pc \in {"writing", "failing"}
    BY <1>2, <1>3, Constants, ConstantsAssumption DEF WireType, Cancel, Finish
  <2>2. written' \in Nat /\ next' \in 1..(MaxRequests + 1)
    BY <1>1, Constants DEF WireType, Cancel
  <2> QED
    BY <2>1, <2>2, <1>1, <1>4, <1>5 DEF WireType, Cancel, Finish, wire, server
<1>7. Tagged'
  <2>1. ~Active(c)' /\ next' = next
    BY <1>2, Constants DEF Active, Cancel
  <2> QED
    BY <1>2, <1>3, <2>1, Constants DEF Tagged, Active
<1>8. Registered'
  BY <1>1, <1>2, <1>3, Constants DEF WireType, Tagged, Registered, Active, Cancel, Finish
<1>9. Ended'
  BY <1>1, <1>2, <1>3, Constants DEF WireType, Tagged, Registered, Ended, Active, Cancel, Finish, wire
<1> QED
  BY <1>6, <1>7, <1>8, <1>9

LEMMA AcquireInv ==
    ASSUME WireInv, NEW c \in Calls, Acquire(c)
    PROVE  WireInv'
<1> USE DEF WireInv
<1>1. call[c] \in CallRecs
  BY DEF WireType
<1>2. CASE closed
  <2>1. call'[c] = Idle /\ \A d \in Calls \ {c} : call'[d] = call[d]
    BY <1>2, Constants DEF WireType, Acquire, Finish
  <2>2. WireType'
    <3>1. call' \in [Calls -> CallRecs]
      BY <1>2, Constants DEF WireType, Acquire, Finish
    <3>2. \A d \in Calls : writer' = d <=> call'[d].pc \in {"writing", "failing"}
      BY <1>2, <2>1, Constants DEF WireType, Acquire
    <3> QED
      BY <1>2, <3>1, <3>2 DEF WireType, Acquire, Finish, wire, server
  <2>3. Tagged'
    <3>1. ~Active(c)' /\ next' = next
      BY <2>1, Constants DEF Active, Acquire
    <3> QED
      BY <2>1, <3>1, Constants DEF Tagged, Active
  <2>4. Registered'
    <3>1. pending' = pending \ {call[c].tag} /\ Active(c)
      BY <1>2 DEF Acquire, Finish, Active
    <3>2. ASSUME NEW d \in Calls, call'[d].pc \in {"lock", "writing", "waiting"},
                 call'[d].got = Nothing
          PROVE  call'[d].tag \in pending'
      <4>1. d # c BY <2>1, <3>2, Constants
      <4>2. call'[d] = call[d] BY <2>1, <4>1
      <4>3. Active(d) BY <3>2, <4>2 DEF Active
      <4>4. call[d].tag # call[c].tag BY <3>1, <4>1, <4>3 DEF Tagged
      <4>5. call[d].tag \in pending BY <3>2, <4>2 DEF Registered
      <4> QED BY <3>1, <4>2, <4>4, <4>5
    <3> QED BY <3>2 DEF Registered
  <2>5. Ended'
    BY <1>2, <2>1, Constants DEF Ended, Acquire, wire
  <2> QED
    BY <2>2, <2>3, <2>4, <2>5
<1>3. CASE ~closed
  <2>1. /\ call'[c] \in CallRecs
        /\ call'[c].pc = "writing" /\ call'[c].tag = call[c].tag
        /\ call'[c].id = call[c].id /\ call'[c].got = call[c].got
    BY <1>1, <1>3 DEF WireType, Acquire, CallRecs, Pcs
  <2>2. \A d \in Calls \ {c} : call'[d] = call[d]
    BY <1>3 DEF WireType, Acquire
  <2>3. WireType'
    <3>1. call' \in [Calls -> CallRecs]
      BY <1>3, <2>1 DEF WireType, Acquire
    <3>2. \A d \in Calls : writer' = d <=> call'[d].pc \in {"writing", "failing"}
      BY <1>3, <2>1, <2>2, ConstantsAssumption DEF WireType, Acquire
    <3> QED
      BY <1>3, <3>1, <3>2 DEF WireType, Acquire, wire, server
  <2>4. Tagged'
    BY <2>1, <2>2 DEF Tagged, Active, Acquire
  <2>5. Registered'
    BY <1>3, <2>1, <2>2 DEF Registered, Acquire
  <2>6. Ended'
    BY <1>3, <2>1, <2>2 DEF Ended, Acquire, wire, WireType
  <2> QED
    BY <2>3, <2>4, <2>5, <2>6
<1> QED
  BY <1>2, <1>3

\* What draining the waiters does to each call.
LEMMA DrainEffect ==
    ASSUME WireType, NEW calls \in [Calls -> CallRecs]
    PROVE  /\ Drained(calls) \in [Calls -> CallRecs]
           /\ \A d \in Calls :
                /\ Drained(calls)[d].pc = calls[d].pc
                /\ Drained(calls)[d].tag = calls[d].tag
                /\ Drained(calls)[d].id = calls[d].id
                /\ Drained(calls)[d].got \in {calls[d].got, Io}
                /\ calls[d].pc \in {"lock", "writing", "waiting"} /\ calls[d].tag \in pending
                       => Drained(calls)[d].got = Io
<1>1. \A e \in Calls : calls[e] \in CallRecs /\ [calls[e] EXCEPT !.got = Io] \in CallRecs
  BY Constants DEF CallRecs
<1>2. Drained(calls) \in [Calls -> CallRecs]
  BY <1>1 DEF Drained
<1>3. \A d \in Calls : LET e == [calls[d] EXCEPT !.got = Io]
        IN e.pc = calls[d].pc /\ e.tag = calls[d].tag /\ e.id = calls[d].id /\ e.got = Io
  BY <1>1 DEF CallRecs
<1> QED
  BY <1>2, <1>3 DEF Drained

LEMMA RouterDrainsInv ==
    ASSUME WireInv, RouterDrains
    PROVE  WireInv'
<1> USE DEF WireInv
<1>1. call' \in [Calls -> CallRecs]
  BY DrainEffect DEF RouterDrains, WireType
<1>2. \A d \in Calls :
        /\ call'[d].pc = call[d].pc /\ call'[d].tag = call[d].tag /\ call'[d].id = call[d].id
        /\ call'[d].got \in {call[d].got, Io}
        /\ call[d].pc \in {"lock", "writing", "waiting"} /\ call[d].tag \in pending
               => call'[d].got = Io
  BY DrainEffect DEF RouterDrains, WireType
<1>3. \A d \in Calls : call[d].pc \in {"lock", "writing", "waiting"} => call'[d].got # Nothing
  BY <1>2, Constants DEF Registered
<1>4. WireType'
  BY <1>1, <1>2 DEF WireType, RouterDrains, wire, server
<1>5. Tagged'
  BY <1>2, Constants DEF Tagged, Active, RouterDrains
<1>6. Registered'
  BY <1>2, <1>3 DEF Registered
<1>7. Ended'
  BY <1>2, <1>3 DEF Ended, RouterDrains, wire
<1> QED
  BY <1>4, <1>5, <1>6, <1>7

LEMMA AbortWriteInv ==
    ASSUME WireInv, NEW c \in Calls, AbortWrite(c)
    PROVE  WireInv'
<1> USE DEF WireInv
<1> DEFINE calls == [call EXCEPT ![c] = Idle]
<1>1. calls \in [Calls -> CallRecs] /\ calls[c] = Idle /\ \A d \in Calls \ {c} : calls[d] = call[d]
  BY Constants DEF WireType
<1>2. call' = Drained(calls)
  BY DEF AbortWrite
<1> HIDE DEF calls
<1>3. call' \in [Calls -> CallRecs] /\ call'[c].pc = "idle" /\ call'[c].got \in {Nothing, Io}
  BY <1>1, <1>2, DrainEffect, Constants
<1>4. \A d \in Calls \ {c} :
        /\ call'[d].pc = call[d].pc /\ call'[d].tag = call[d].tag /\ call'[d].id = call[d].id
        /\ call'[d].got \in {call[d].got, Io}
        /\ call[d].pc \in {"lock", "writing", "waiting"} /\ call[d].tag \in pending
               => call'[d].got = Io
  BY <1>1, <1>2, DrainEffect
<1>5. \A d \in Calls \ {c} : call[d].pc \in {"lock", "writing", "waiting"} => call'[d].got # Nothing
  BY <1>4, Constants DEF Registered
<1>6. WireType'
  <2>1. \A d \in Calls : writer' = d <=> call'[d].pc \in {"writing", "failing"}
    BY <1>3, <1>4, ConstantsAssumption DEF WireType, AbortWrite
  <2> QED
    BY <1>3, <2>1 DEF WireType, AbortWrite, wire, server
<1>7. Tagged'
  <2>1. ~Active(c)' /\ next' = next
    BY <1>3 DEF Active, AbortWrite
  <2>2. \A d \in Calls \ {c} : Active(d)' = Active(d)
    BY <1>4 DEF Active
  <2> QED
    BY <1>3, <1>4, <2>1, <2>2 DEF Tagged
<1>8. Registered'
  BY <1>3, <1>4, <1>5 DEF Registered
<1>9. Ended'
  BY <1>3, <1>4, <1>5 DEF Ended, AbortWrite, wire
<1> QED
  BY <1>6, <1>7, <1>8, <1>9

LEMMA RouteInv ==
    ASSUME WireInv, Route
    PROVE  WireInv'
<1> USE DEF WireInv
<1>1. PICK f \in Echoes : f = Head(resps)
  BY EchoSeq DEF WireType, Route
<1>2. f.tag \in Ids /\ f.id = f.tag
  BY DEF Echoes, Frames
<1>3. \A d \in Calls :
        /\ call'[d] \in CallRecs
        /\ call'[d].pc = call[d].pc /\ call'[d].tag = call[d].tag /\ call'[d].id = call[d].id
        /\ IF f.tag \in pending /\ Active(d) /\ call[d].tag = f.tag
           THEN call'[d].got = f.id ELSE call'[d].got = call[d].got
  <2> SUFFICES ASSUME NEW d \in Calls
               PROVE  /\ call'[d] \in CallRecs
                      /\ call'[d].pc = call[d].pc /\ call'[d].tag = call[d].tag
                      /\ call'[d].id = call[d].id
                      /\ IF f.tag \in pending /\ Active(d) /\ call[d].tag = f.tag
                         THEN call'[d].got = f.id ELSE call'[d].got = call[d].got
    OBVIOUS
  <2>1. call[d] \in CallRecs /\ f.id \in 0..Nothing
    BY <1>2, Constants DEF WireType
  <2>2. call'[d] = IF f.tag \in pending /\ Active(d) /\ call[d].tag = f.tag
                   THEN [call[d] EXCEPT !.got = f.id] ELSE call[d]
    BY <1>1, <2>1 DEF Route, Active, Pcs, CallRecs
  <2> QED
    BY <2>1, <2>2 DEF CallRecs
<1>4. call' \in [Calls -> CallRecs]
  BY <1>3 DEF Route
<1>5. WireType'
  BY <1>3, <1>4, EchoSeq DEF WireType, Route, server
<1>6. Tagged'
  BY <1>2, <1>3 DEF Tagged, Active, Route
<1>7. Registered'
  <2> SUFFICES ASSUME NEW d \in Calls, call'[d].pc \in {"lock", "writing", "waiting"},
                      call'[d].got = Nothing
               PROVE  call'[d].tag \in pending'
    BY DEF Registered
  <2>1. ~(f.tag \in pending /\ call[d].tag = f.tag) /\ call[d].got = Nothing
    BY <1>2, <1>3, Constants DEF Active
  <2>2. call[d].tag \in pending
    BY <1>3, <2>1 DEF Registered
  <2> QED
    BY <1>1, <1>3, <2>1, <2>2 DEF Route
<1>8. Ended'
  BY <1>2, <1>3, Constants DEF Ended, Route
<1> QED
  BY <1>5, <1>6, <1>7, <1>8

LEMMA OtherInv ==
    ASSUME WireInv,
           RouterEnds \/ Dispatch \/ ServerEnds \/ (\E r \in running : Respond(r))
               \/ UNCHANGED vars
    PROVE  WireInv'
<1> USE DEF WireInv
<1>1. UNCHANGED <<call, pending, writer, written, next>>
  BY DEF RouterEnds, Dispatch, ServerEnds, Respond, client, vars
<1>2. reqs' \in Seq(Echoes) /\ resps' \in Seq(Echoes) /\ running' \subseteq Echoes
  BY EchoSeq DEF WireType, RouterEnds, Dispatch, ServerEnds, Respond, client, wire, server, vars
<1>3. torn' = torn /\ up' \in BOOLEAN
  BY DEF WireType, RouterEnds, Dispatch, ServerEnds, Respond, client, wire, server, vars
<1>4. \/ closed' = closed /\ router' = router
      \/ closed' /\ closed' \in BOOLEAN /\ router' = "draining"
  BY DEF RouterEnds, Dispatch, ServerEnds, Respond, client, vars
<1>5. WireType'
  BY <1>1, <1>2, <1>3, <1>4 DEF WireType
<1>6. Tagged' /\ Registered'
  BY <1>1 DEF Tagged, Registered, Active
<1>7. Ended'
  BY <1>1, <1>3, <1>4 DEF Ended
<1> QED
  BY <1>5, <1>6, <1>7

LEMMA NextInv == WireInv /\ [Next]_vars => WireInv'
  BY CheckClosedInv, RegisterInv, AcquireInv, WriteInv, TearWriteInv, AbortWriteInv,
     ReturnInv, CancelInv, RouteInv, RouterDrainsInv, OtherInv DEF Next, CallStep

-----------------------------------------------------------------------------
\* ImportedFileServer pairs answers with callers by tag: for any number of callers
\* and requests, a caller gets the answer to its own request or Io.
THEOREM WireAnswerIsOwn == Spec => []AnswerIsOwn
<1>1. WireInv => AnswerIsOwn
  BY DEF WireInv, Tagged, AnswerIsOwn
<1> QED
  BY InitInv, NextInv, <1>1, PTL DEF Spec

\* close_imported_connection and the two checks of the closed flag leave no call
\* waiting for a response router that has finished.
THEOREM WireNobodyStranded == Spec => []NobodyStranded
<1>1. WireInv => NobodyStranded
  BY DEF WireInv, Ended, NobodyStranded
<1> QED
  BY InitInv, NextInv, <1>1, PTL DEF Spec

\* ConnectionWriteGuard: no frame is written after a torn one.
THEOREM WireTornIsLast == Spec => TornIsLast
<1>1. WireInv /\ [Next]_vars => [torn => written' = written]_vars
  <2> SUFFICES ASSUME WireInv, [Next]_vars, torn PROVE written' = written
    BY DEF vars
  <2>1. \A c \in Calls : call[c].pc # "writing"
    BY DEF WireInv, Ended
  <2> QED
    BY <2>1 DEF Next, CallStep, CheckClosed, Register, Acquire, Write, TearWrite, AbortWrite,
       Return, Cancel, Route, RouterEnds, RouterDrains, Dispatch, ServerEnds, Respond,
       client, vars
<1> QED
  BY InitInv, NextInv, <1>1, PTL DEF Spec, TornIsLast
=============================================================================
