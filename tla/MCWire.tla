------------------------------- MODULE MCWire -------------------------------
(***************************************************************************)
(* Byte streams, one aP connection and the generations of llmfs, side by   *)
(* side.  They share no state here, so a behaviour moves only the one it   *)
(* starts with: the run explores the sum of their states and not the product.*)
(***************************************************************************)
EXTENDS Stream, ApWire

CONSTANTS Clients, Handles, MaxGens, MaxConns, MaxStarts, MaxUsage, MaxText, Retain, None

VARIABLES moves, conn, made, starts, total, provider, gens, task, generationsClient, ops

\* One reader and one caller stand for all: they are interchangeable.
Reader == CHOOSE r \in Readers : TRUE
Caller == CHOOSE c \in Calls : TRUE

Gen == INSTANCE LlmFs WITH client <- generationsClient

generationsPart == <<conn, made, starts, total, provider, gens, task, generationsClient,
                     ops>>
generationsOff == /\ conn = 0 /\ made = 0 /\ starts = 0 /\ total = 0 /\ provider = 0
                  /\ gens = 0 /\ task = 0 /\ generationsClient = 0 /\ ops = 0

MCInit ==
    /\ moves \in {"stream", "wire", "generations"}
    /\ StreamInit
    /\ Init
    /\ IF moves = "generations" THEN Gen!Init ELSE generationsOff

StreamOnly == moves = "stream" /\ UNCHANGED <<moves, vars, generationsPart>>
WireOnly == moves = "wire" /\ UNCHANGED <<moves, streamVars, generationsPart>>
GenerationsOnly == moves = "generations" /\ UNCHANGED <<moves, streamVars, vars>>

StreamMoves == StreamOnly /\ StreamNext
WireMoves == WireOnly /\ Next
GenerationsMoves == GenerationsOnly /\ Gen!Next

MCNext == StreamMoves \/ WireMoves \/ GenerationsMoves

mcVars == <<moves, streamVars, vars, generationsPart>>

MCFairness ==
    /\ \A a \in Appenders : WF_mcVars(StreamOnly /\ Send(a))
    /\ WF_mcVars(\/ StreamOnly /\ Check(Reader)
                 \/ WireOnly /\ Route
                 \/ GenerationsOnly /\ Gen!Progress)
    /\ WF_mcVars(\/ StreamOnly /\ Changed(Reader)
                 \/ WireOnly /\ ~up /\ RouterEnds)
    /\ WF_mcVars(WireOnly /\ RouterDrains)
    /\ WF_mcVars(WireOnly /\ Return(Caller))
    /\ \A c \in Calls : WF_mcVars(WireOnly /\ AbortWrite(c))

MCSpec == MCInit /\ [][MCNext]_mcVars /\ MCFairness

\* Stream, ApWire and LlmFs: once bytes exist at the offset of a pending read,
\* the read returns or is dropped; after the peer is gone a call waiting on the
\* connection is woken; and no Generation runs forever while its client lives
\* (PendingReadReturns, DisconnectWakesAll and RunningEnds of the modules).
WaitsEnd ==
    (\/ moves = "stream" /\ rpc[Reader] # "idle" /\ offset[Reader] < Len(buf)
     \/ moves = "wire" /\ ~up /\ call[Caller].pc = "waiting"
     \/ moves = "generations" /\ Gen!Runs)
    ~> (\/ moves = "stream" /\ rpc[Reader] = "idle"
        \/ moves = "wire" /\ call[Caller].pc # "waiting"
        \/ moves = "generations" /\ ~Gen!Runs)

\* LlmFs: a Generation ends once and last, and the limits and the meter of its
\* Connection cover every call and every token of all its handles.
GenerationsAreAccounted == moves = "generations" => Gen!EndsOnce /\ Gen!CallsAreMetered

=============================================================================
