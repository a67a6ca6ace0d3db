-------------------------------- MODULE Tape --------------------------------
(***************************************************************************)
(* The agent's conversation tape and where a compaction may cut it         *)
(* (crates/agent-engine/src/tape.rs).                                      *)
(*                                                                         *)
(* A message keeps its role, the Tool calls it requests (an assistant      *)
(* message) or answers (a Tool message), and the logical turn that wrote   *)
(* it; text and token estimates are left out.  A "control" message is the  *)
(* user message the runtime writes when a confirmation is resolved.        *)
(***************************************************************************)
EXTENDS Naturals, Sequences, FiniteSets, FiniteSetsExt

Msg(role, ids, turn) == [role |-> role, ids |-> ids, turn |-> turn]

\* The calls a tape asks for, and those it answers.
Asked(t) == UNION {t[i].ids : i \in {j \in DOMAIN t : t[j].role = "assistant"}}
Responses(t) == UNION {t[i].ids : i \in {j \in DOMAIN t : t[j].role = "tool"}}

\* Semantic spans begin at a user message that is not a control message;
\* whatever precedes the first one is a span of its own.
SpanStarts(t) == {i \in DOMAIN t : i = 1 \/ t[i].role = "user"}

\* A cut inside a run of Tool messages moves back to the assistant message
\* that precedes the run, when that message requested Tools.
Align(t, i) ==
  LET first == CHOOSE j \in 1 .. i :
                 /\ \A k \in j .. i : t[k].role = "tool"
                 /\ j = 1 \/ t[j - 1].role /= "tool"
  IN IF i > Len(t) \/ i = 0 THEN i
     ELSE IF t[i].role /= "tool" THEN i
     ELSE IF first > 1 /\ t[first - 1].role = "assistant" /\ t[first - 1].ids /= {}
          THEN first - 1
     ELSE i

\* The first message a compaction keeps: as many whole spans as fit keep, at
\* least the last one, and the raw tail when the last span alone is too long.
RetentionStart(t, keep) ==
  LET last == Max(SpanStarts(t))
      fits == {s \in SpanStarts(t) : Len(t) - s + 1 =< keep}
      whole == Min(fits \cup {last})
  IN IF t = <<>> THEN 1
     ELSE IF keep = 0 THEN Len(t) + 1
     ELSE Align(t, IF Len(t) - last + 1 > keep /\ keep < Len(t)
                   THEN Len(t) - keep + 1 ELSE whole)
=============================================================================
