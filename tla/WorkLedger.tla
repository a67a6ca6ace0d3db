------------------------------ MODULE WorkLedger ------------------------------
(***************************************************************************)
(* What the source-owner program promises to a reader of the rollout: a    *)
(* work is opened once, spends its evaluator and its generation at most    *)
(* once each and only while it is open, may park on one question, and ends *)
(* once.  Nothing here knows of Processes, crashes or the rollout writer:  *)
(* OwnerWork, which does, is proved to implement this specification.       *)
(***************************************************************************)
EXTENDS Sequences

CONSTANT Works

VARIABLES
    status,   \* Works -> "none" | "started" | "waiting" | an outcome
    spent     \* Works -> the models dispatched for it, in order

vars == <<status, spent>>

Ended == {"completed", "failed", "cancelled"}

Init ==
    /\ status = [w \in Works |-> "none"]
    /\ spent = [w \in Works |-> <<>>]

Open(w) ==
    /\ status[w] = "none"
    /\ status' = [status EXCEPT ![w] = "started"]
    /\ UNCHANGED spent

\* The generation is a fallback of the evaluation, never the first call.
Spend(w, call) ==
    /\ status[w] = "started"
    /\ spent[w] = IF call = "evaluator" THEN <<>> ELSE <<"evaluator">>
    /\ spent' = [spent EXCEPT ![w] = Append(@, call)]
    /\ UNCHANGED status

Park(w) ==
    /\ status[w] = "started"
    /\ spent[w] = <<"evaluator">>
    /\ status' = [status EXCEPT ![w] = "waiting"]
    /\ UNCHANGED spent

End(w, outcome) ==
    /\ status[w] \in {"started", "waiting"}
    /\ status' = [status EXCEPT ![w] = outcome]
    /\ UNCHANGED spent

Next ==
    \E w \in Works :
        \/ Open(w) \/ Park(w)
        \/ \E call \in {"evaluator", "generation"} : Spend(w, call)
        \/ \E outcome \in Ended : End(w, outcome)

Spec == Init /\ [][Next]_vars
=============================================================================
