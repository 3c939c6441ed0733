------------------------ MODULE IdempotentExecution ------------------------
(***************************************************************************)
(* What the command pipeline promises to the callers of Dispatch, per      *)
(* idempotency key: one command claims the key for good, it is executed at *)
(* most once, its execution has at most one outcome, and only that outcome *)
(* is ever recorded.  An optional value is a set of at most one element.   *)
(***************************************************************************)
CONSTANTS Key, Cmd, Code

VARIABLES claimed,   \* the command that owns a key
          begun,     \* the keys whose command the agent has started
          outcome,   \* the exit code its execution ended with
          recorded   \* the exit code the control plane stored

avars == <<claimed, begun, outcome, recorded>>

Init ==
    /\ claimed = [k \in Key |-> {}]
    /\ begun = {}
    /\ outcome = [k \in Key |-> {}]
    /\ recorded = [k \in Key |-> {}]

Claim(k, c) ==
    /\ claimed[k] = {}
    /\ claimed' = [claimed EXCEPT ![k] = {c}]
    /\ UNCHANGED <<begun, outcome, recorded>>

Begin(k) ==
    /\ claimed[k] # {}
    /\ k \notin begun
    /\ begun' = begun \cup {k}
    /\ UNCHANGED <<claimed, outcome, recorded>>

Conclude(k, code) ==
    /\ k \in begun
    /\ outcome[k] = {}
    /\ outcome' = [outcome EXCEPT ![k] = {code}]
    /\ UNCHANGED <<claimed, begun, recorded>>

Record(k) ==
    /\ outcome[k] # {}
    /\ recorded[k] = {}
    /\ recorded' = [recorded EXCEPT ![k] = outcome[k]]
    /\ UNCHANGED <<claimed, begun, outcome>>

Next ==
    \/ \E k \in Key, c \in Cmd : Claim(k, c)
    \/ \E k \in Key : Begin(k)
    \/ \E k \in Key, code \in Code : Conclude(k, code)
    \/ \E k \in Key : Record(k)

Spec == Init /\ [][Next]_avars
============================================================================
