------------------------------- MODULE Stream -------------------------------
(***************************************************************************)
(* The append-only byte stream behind every aP stream file                 *)
(* (crates/ap/src/stream.rs).  An append extends the buffer under a mutex  *)
(* and announces the new length on a watch channel after the mutex is      *)
(* released; a read subscribes to the channel, checks the buffer under the *)
(* mutex and parks on the channel when nothing is there yet.               *)
(***************************************************************************)
EXTENDS Naturals, Sequences, SequencesExt, FiniteSets

CONSTANTS Appenders,  \* tasks that append to the stream
          Readers,    \* tasks that tail the stream, each from its own offset
          ChunkLen,   \* bytes in one append
          Count,      \* the count argument of read
          MaxLen      \* bound: the buffer grows no further

ASSUME StreamAssumption ==
    /\ ChunkLen \in Nat \ {0} /\ Count \in Nat \ {0} /\ MaxLen \in Nat
    /\ Appenders \cap Readers = {}

VARIABLES
    buf,       \* Inner::buf, every byte tagged with the append it belongs to
    version,   \* version counter of the watch channel
    retained,  \* value held by the watch channel
    apc,       \* appender -> "idle" | "send"  (between unlock and send)
    newLen,    \* appender -> new_len computed under the mutex
    rpc,       \* reader -> "idle" | "check" | "wait"
    seen,      \* reader -> version its receiver has marked as seen
    offset,    \* reader -> offset of its next read
    got        \* reader -> everything its reads have returned, in order

streamVars == <<buf, version, retained, apc, newLen, rpc, seen, offset, got>>

Bytes == Appenders \X Nat

\* Type correctness of the buffer, the watch channel, the appenders and the
\* readers of stream.rs.
StreamTypeOK ==
    /\ buf \in Seq(Bytes)
    /\ version \in Nat
    /\ retained \in Nat
    /\ apc \in [Appenders -> {"idle", "send"}]
    /\ newLen \in [Appenders -> Nat]
    /\ rpc \in [Readers -> {"idle", "check", "wait"}]
    /\ seen \in [Readers -> Nat]
    /\ offset \in [Readers -> Nat]
    /\ got \in [Readers -> Seq(Bytes)]

StreamInit ==
    /\ buf = <<>>
    /\ version = 0
    /\ retained = 0
    /\ apc = [a \in Appenders |-> "idle"]
    /\ newLen = [a \in Appenders |-> 0]
    /\ rpc = [r \in Readers |-> "idle"]
    /\ seen = [r \in Readers |-> 0]
    /\ offset = [r \in Readers |-> 0]
    /\ got = [r \in Readers |-> <<>>]

\* A receiver exists for as long as a read call is in flight.
Receivers == {r \in Readers : rpc[r] # "idle"}

-----------------------------------------------------------------------------
\* Mutation: the announced length is taken before the bytes are in.
ExtendUnderflows(a) ==
    /\ apc[a] = "idle"
    /\ Len(buf) + ChunkLen <= MaxLen
    /\ buf' = buf \o [i \in 1..ChunkLen |-> <<a, Len(buf)>>]
    /\ newLen' = [newLen EXCEPT ![a] = Len(buf) - ChunkLen]
    /\ apc' = [apc EXCEPT ![a] = "send"]
    /\ UNCHANGED <<version, retained, rpc, seen, offset, got>>

\* append, first half: extend_from_slice and len() under the mutex.
Extend(a) ==
    /\ apc[a] = "idle"
    /\ Len(buf) + ChunkLen <= MaxLen
    /\ buf' = buf \o [i \in 1..ChunkLen |-> <<a, Len(buf)>>]
    /\ newLen' = [newLen EXCEPT ![a] = Len(buf) + ChunkLen]
    /\ apc' = [apc EXCEPT ![a] = "send"]
    /\ UNCHANGED <<version, retained, rpc, seen, offset, got>>

\* append, second half: watch::Sender::send(new_len).  Without a receiver send
\* returns an error and leaves the channel untouched.
Send(a) ==
    /\ apc[a] = "send"
    /\ apc' = [apc EXCEPT ![a] = "idle"]
    /\ IF Receivers = {}
         THEN UNCHANGED <<version, retained>>
         ELSE version' = version + 1 /\ retained' = newLen[a]
    /\ UNCHANGED <<buf, newLen, rpc, seen, offset, got>>

\* read, on entry: subscribe to length changes before the first check.
Subscribe(r) ==
    /\ rpc[r] = "idle"
    /\ rpc' = [rpc EXCEPT ![r] = "check"]
    /\ seen' = [seen EXCEPT ![r] = version]
    /\ UNCHANGED <<buf, version, retained, apc, newLen, offset, got>>

\* The bytes a read at offset o returns while the buffer is non-empty there.
Slice(o) == SubSeq(buf, o + 1, IF o + Count < Len(buf) THEN o + Count ELSE Len(buf))

\* read, one turn of the loop: check under the mutex; return the slice, or
\* leave the mutex and park on the channel.  A reader that tails the stream
\* continues at the end of what it was given.
CheckAgainst(r, len) ==
    /\ rpc[r] = "check"
    /\ IF offset[r] < len
         THEN /\ rpc' = [rpc EXCEPT ![r] = "idle"]
              /\ got' = [got EXCEPT ![r] = @ \o Slice(offset[r])]
              /\ offset' = [offset EXCEPT ![r] = @ + Len(Slice(offset[r]))]
         ELSE /\ rpc' = [rpc EXCEPT ![r] = "wait"]
              /\ UNCHANGED <<got, offset>>
    /\ UNCHANGED <<buf, version, retained, apc, newLen, seen>>

\* Mutation: consult the watch channel's value instead of the buffer.
CheckTrustsChannel(r) == CheckAgainst(r, retained)

\* Mutation: the caller advances by the count it asked for.
CheckSkipsCount(r) ==
    /\ rpc[r] = "check" /\ offset[r] < Len(buf)
    /\ rpc' = [rpc EXCEPT ![r] = "idle"]
    /\ got' = [got EXCEPT ![r] = @ \o Slice(offset[r])]
    /\ offset' = [offset EXCEPT ![r] = @ + Count]
    /\ UNCHANGED <<buf, version, retained, apc, newLen, seen>>

Check(r) == CheckAgainst(r, Len(buf))

\* Mutation: wake on the announced length instead of on the version.
ChangedByValue(r) ==
    /\ rpc[r] = "wait"
    /\ retained > offset[r]
    /\ rpc' = [rpc EXCEPT ![r] = "check"]
    /\ seen' = [seen EXCEPT ![r] = version]
    /\ UNCHANGED <<buf, version, retained, apc, newLen, offset, got>>

\* changed().await completes once the version differs from the one seen.
Changed(r) ==
    /\ rpc[r] = "wait"
    /\ seen[r] # version
    /\ rpc' = [rpc EXCEPT ![r] = "check"]
    /\ seen' = [seen EXCEPT ![r] = version]
    /\ UNCHANGED <<buf, version, retained, apc, newLen, offset, got>>

\* The caller drops the pending read (a wire disconnect aborts it).
CancelRead(r) ==
    /\ rpc[r] # "idle"
    /\ rpc' = [rpc EXCEPT ![r] = "idle"]
    /\ UNCHANGED <<buf, version, retained, apc, newLen, seen, offset, got>>

AppendStep(a) == Extend(a) \/ Send(a)
ReadStep(r) == Subscribe(r) \/ Check(r) \/ Changed(r)
StreamNext ==
    \/ \E a \in Appenders : AppendStep(a)
    \/ \E r \in Readers : ReadStep(r) \/ CancelRead(r)

StreamSpec == StreamInit /\ [][StreamNext]_streamVars

-----------------------------------------------------------------------------
(* What the stream promises.                                               *)

\* Reads are offset-addressed over retained history: what a reader has
\* collected is exactly the prefix of the log up to its offset, with no byte
\* missed, repeated or reordered, however appends and reads interleave.
ReadsArePrefix == \A r \in Readers : /\ offset[r] <= Len(buf)
                                     /\ got[r] = SubSeq(buf, 1, offset[r])

\* "An append between a reader's length check and its await is never lost": a
\* reader parked although bytes exist at its offset either has an unseen
\* channel version or some appender has not sent yet.
NoLostWakeup ==
    \A r \in Readers :
        rpc[r] = "wait" /\ offset[r] < Len(buf) =>
            seen[r] # version \/ \E a \in Appenders : apc[a] = "send"

\* An append that left the mutex runs to its end (append has no await point),
\* and a reader is polled when it can run.  Nobody is obliged to append, to
\* start a read or to drop one.
StreamFairness ==
    /\ \A a \in Appenders : WF_streamVars(Send(a))
    /\ \A r \in Readers : WF_streamVars(Check(r)) /\ WF_streamVars(Changed(r))

StreamFairSpec == StreamSpec /\ StreamFairness

\* A read blocks at the live edge only until bytes arrive: once bytes exist at
\* the offset of a pending read, that read returns (or is dropped).
PendingReadReturns ==
    \A r \in Readers :
        rpc[r] # "idle" /\ offset[r] < Len(buf) ~> rpc[r] = "idle"
=============================================================================
