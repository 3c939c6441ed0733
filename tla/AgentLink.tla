------------------------------ MODULE AgentLink ------------------------------
(***************************************************************************)
(* How an agent keeps its stream: the Connect loop of GRPCClient with its  *)
(* failover targets and its backoff, against the TokenService that decides *)
(* whether ConnectStream lets it in, while operators rotate its token.     *)
(***************************************************************************)
EXTENDS Naturals

CONSTANTS N,              \* number of gRPC targets in the configuration
          Reachable,      \* targets behind which a control plane answers
          BackoffInitial, \* in units of time
          BackoffMax,
          MaxAttempt,     \* bound: attempt is counted up to here
          Requests,       \* token rotations, each with a token of its own
          DBFaults,       \* may a query of agent_tokens fail?
          Configured,     \* the token in the agent's configuration
          Nil

Targets == {t \in Nat : t < N}

\* doubled[i] is the delay after i rounds of the loop in backoff.
doubled[i \in Nat] ==
    IF i = 0 THEN BackoffInitial
    ELSE IF 2 * doubled[i - 1] >= BackoffMax THEN BackoffMax ELSE 2 * doubled[i - 1]

\* The counter may be cut off where the delay has reached its maximum, and
\* normalize makes the maximum no smaller than the initial delay.
ASSUME LinkAssumption ==
    /\ N \in Nat
    /\ Reachable \subseteq Targets
    /\ BackoffInitial \in Nat \ {0} /\ BackoffMax \in Nat
    /\ BackoffMax >= BackoffInitial
    /\ MaxAttempt \in Nat \ {0} /\ doubled[MaxAttempt - 1] = BackoffMax
    /\ DBFaults \in BOOLEAN
    /\ Configured \notin Requests
    /\ Nil \notin Requests \cup {Configured}

VARIABLES pc,        \* where Connect is
          targetIdx, \* the next target
          target,    \* the one of this attempt
          attempt,
          delay,
          err,       \* what connectAndServe returned
          ctxDone,   \* shutdown was requested
          row,       \* the token in the server's row of agent_tokens, or Nil
          expired,   \* is it past expires_at?
          ipc,       \* where Issue is
          misled     \* history: has a failed lookup refused the agent?

link == <<pc, targetIdx, target, attempt, delay, err>>
store == <<row, expired, ipc>>
vars == <<link, ctxDone, store, misled>>
-----------------------------------------------------------------------------
Init ==
    /\ pc = "top"
    /\ targetIdx = 0 /\ target = 0
    /\ attempt = 0 /\ delay = 0
    /\ err = "none"
    /\ ctxDone = FALSE
    /\ row = Configured
    /\ expired = FALSE
    /\ ipc = [r \in Requests |-> "idle"]
    /\ misled = FALSE
-----------------------------------------------------------------------------
(* Connect *)

\* Mutation of NextTarget: the index never moves.
NextTargetStays ==
    /\ pc = "top" /\ ~ctxDone /\ N > 0
    /\ target' = targetIdx % N
    /\ UNCHANGED targetIdx
    /\ pc' = "dial"
    /\ UNCHANGED <<attempt, delay, err, ctxDone, store, misled>>

\* The loop's head, preflight (which only logs) and nextTarget.
NextTarget ==
    /\ pc = "top" /\ ~ctxDone /\ N > 0
    /\ target' = targetIdx % N
    /\ targetIdx' = (targetIdx + 1) % N
    /\ pc' = "dial"
    /\ UNCHANGED <<attempt, delay, err, ctxDone, store, misled>>

\* The loop is left at its head, or during the sleep.
Leave ==
    /\ pc \in {"top", "sleep"}
    /\ ctxDone \/ (pc = "top" /\ N = 0)
    /\ pc' = "stopped"
    /\ UNCHANGED <<targetIdx, target, attempt, delay, err, ctxDone, store, misled>>

DialSucceeds ==
    /\ pc = "dial" /\ target \in Reachable
    /\ pc' = "open"
    /\ UNCHANGED <<targetIdx, target, attempt, delay, err, ctxDone, store, misled>>

\* connectAndServe returns an error that is not Unauthenticated: the dial
\* times out or the context ends, the stream cannot be opened, or Recv fails;
\* a stream that the server ends normally fails with io.EOF.
ConnectionFails ==
    /\ pc \in {"dial", "open", "serving"}
    /\ err' = "other"
    /\ pc' = "failed"
    /\ UNCHANGED <<targetIdx, target, attempt, delay, ctxDone, store, misled>>

\* Validate finds the row, unexpired, with a hash that matches.
Valid == row = Configured /\ ~expired

Accept ==
    /\ pc = "open" /\ Valid
    /\ pc' = "serving"
    /\ UNCHANGED <<targetIdx, target, attempt, delay, err, ctxDone, store, misled>>

\* Any failure of Validate, that of its query included, is Unauthenticated.
Refuse ==
    /\ pc = "open"
    /\ \/ ~Valid /\ UNCHANGED misled
       \/ DBFaults /\ misled' = TRUE
    /\ err' = "unauthenticated"
    /\ pc' = "failed"
    /\ UNCHANGED <<targetIdx, target, attempt, delay, ctxDone, store>>

\* Mutation of GiveUp: every error of the stream is taken for a rejection.
GiveUpOnAnyError ==
    /\ pc = "failed"
    /\ pc' = "stopped"
    /\ UNCHANGED <<targetIdx, target, attempt, delay, err, ctxDone, store, misled>>

GiveUp ==
    /\ pc = "failed" /\ (ctxDone \/ err = "unauthenticated")
    /\ pc' = "stopped"
    /\ UNCHANGED <<targetIdx, target, attempt, delay, err, ctxDone, store, misled>>

\* Mutation of backoff: the last doubling is not cut off at the maximum.
backoffNoCutoff(n) ==
    LET base == IF n = 0 THEN BackoffInitial ELSE 2 * doubled[n - 1]
    IN  {base}

\* The delays backoff(n) may return: the doubled delay and up to a fifth more.
backoff(n) ==
    LET base == doubled[n]
    IN  IF base \div 5 = 0 THEN {base} ELSE {base + j : j \in 0 .. base \div 5 - 1}

\* attempt is never reset: connectAndServe does not return nil.
Retry ==
    /\ pc = "failed" /\ ~ctxDone /\ err # "unauthenticated"
    /\ delay' \in backoff(attempt)
    /\ attempt' = IF attempt < MaxAttempt THEN attempt + 1 ELSE attempt
    /\ pc' = "sleep"
    /\ UNCHANGED <<targetIdx, target, err, ctxDone, store, misled>>

Wake ==
    /\ pc = "sleep"
    /\ pc' = "top"
    /\ UNCHANGED <<targetIdx, target, attempt, delay, err, ctxDone, store, misled>>

Shutdown ==
    /\ ctxDone' = TRUE
    /\ UNCHANGED <<link, store, misled>>

(* TokenService *)

\* Issue deletes the old row, ignoring an error ...
Delete(r) ==
    /\ ipc[r] = "idle"
    /\ \/ row' = Nil /\ expired' = FALSE
       \/ DBFaults /\ UNCHANGED <<row, expired>>
    /\ ipc' = [ipc EXCEPT ![r] = "deleted"]
    /\ UNCHANGED <<link, ctxDone, misled>>

\* Mutation of Save: rows are deleted after the new one was stored.
SaveThenDelete(r) ==
    /\ ipc[r] = "deleted"
    /\ row' = Nil /\ expired' = FALSE
    /\ ipc' = [ipc EXCEPT ![r] = "saved"]
    /\ UNCHANGED <<link, ctxDone, misled>>

\* ... and upserts the new one, whose token it returns if that succeeds.
Save(r) ==
    /\ ipc[r] = "deleted"
    /\ \/ row' = r /\ expired' = FALSE /\ ipc' = [ipc EXCEPT ![r] = "saved"]
       \/ DBFaults /\ ipc' = [ipc EXCEPT ![r] = "failed"] /\ UNCHANGED <<row, expired>>
    /\ UNCHANGED <<link, ctxDone, misled>>

\* A year passes.
Expire ==
    /\ row # Nil
    /\ expired' = TRUE
    /\ UNCHANGED <<link, ctxDone, row, ipc, misled>>
-----------------------------------------------------------------------------
LoopStep == NextTarget \/ Leave \/ Accept \/ Refuse \/ GiveUp \/ Retry \/ Wake

Next ==
    \/ LoopStep \/ DialSucceeds \/ ConnectionFails \/ Shutdown \/ Expire
    \/ \E r \in Requests : Delete(r) \/ Save(r)

Spec == Init /\ [][Next]_vars

\* The loop runs on, and a reachable target is reached, and lets the agent
\* in, if that is tried often enough.
Fairness ==
    /\ WF_vars(LoopStep)
    /\ WF_vars(pc = "dial" /\ target \notin Reachable /\ ConnectionFails)
    /\ \A t \in Reachable : SF_vars(target = t /\ DialSucceeds)
    /\ \A t \in Reachable : SF_vars(target = t /\ Accept)

FairSpec == Spec /\ Fairness
-----------------------------------------------------------------------------
(* Safety *)

power[n \in Nat] == IF n = 0 THEN 1 ELSE 2 * power[n - 1]

\* The delay of retry n is the initial one doubled n times, cut off at the
\* maximum, plus at most a fifth (exponential backoff with jitter).
DelayInBounds ==
    pc = "sleep" =>
        LET n    == attempt - 1
            full == BackoffInitial * power[n]
            base == IF attempt = MaxAttempt \/ full > BackoffMax THEN BackoffMax ELSE full
        IN  base <= delay /\ 5 * delay <= 6 * base

\* Some rotation has begun.
Rotated == \E r \in Requests : ipc[r] # "idle"

\* An agent whose token was never rotated, never expired and never failed to
\* be looked up keeps trying: network failures alone never end the loop.
ValidAgentPersists ==
    pc = "stopped" /\ N > 0 /\ ~ctxDone => expired \/ Rotated \/ misled

\* The server is without a token only while a rotation runs or after one
\* whose insert failed: concurrent rotations never delete the last token.
TokenKept == row = Nil => \E r \in Requests : ipc[r] \in {"deleted", "failed"}

\* A sleep lasts one of the delays of the retry it follows; when the counter is at its
\* bound, of one at the maximum.
Paced ==
    /\ attempt \in 0..MaxAttempt
    /\ pc = "sleep" => \/ attempt > 0 /\ delay \in backoff(attempt - 1)
                       \/ attempt = MaxAttempt /\ delay \in backoff(MaxAttempt)

\* A row other than the agent's own is the work of a rotation, and a rejection that
\* of a rotation, of time or of a failed lookup.
Explained ==
    /\ ipc \in [Requests -> {"idle", "deleted", "saved", "failed"}]
    /\ TokenKept
    /\ row # Configured => Rotated
    /\ pc = "failed" /\ err = "unauthenticated" => expired \/ Rotated \/ misled
    /\ ValidAgentPersists

\* The inductive invariant.
Inv == Explained /\ Paced
-----------------------------------------------------------------------------
(* Liveness *)

\* Failover: as long as the token stays valid, its lookups succeed and one
\* target is reachable, the agent is connected again and again, until it is
\* shut down.
Reconnects ==
    [](Valid /\ ~ctxDone /\ ~misled) => []<>(pc = "serving")
=============================================================================
