--------------------------- MODULE BuildOperations ---------------------------
(***************************************************************************)
(* The Build & Artifacts page and the API's runtime operations: a build,   *)
(* an import or a rebuild is started by a request whose answer streams the *)
(* operation's id, its output and its result.  The page keeps the ids it   *)
(* was told in sessionStorage and reconnects to them when it is opened     *)
(* again or another environment is selected; the operation itself goes on  *)
(* in the API process whoever listens.  The output is left out.            *)
(***************************************************************************)
EXTENDS Naturals, SequencesExt

CONSTANTS Kinds, Envs, Streams,
          MaxOps,     \* operations started in a behaviour
          MaxVisits,  \* times the page is opened
          MaxCancels, \* cancel requests under way
          MaxMishaps  \* connections lost, restarts of the API

VARIABLES
    ops,     \* API: per operation its environment, its kind and its status
    visit,   \* how often the page was opened
    env,     \* the selected environment, None while the page is closed
    running, \* isBuildRunning and its like
    stored,  \* sessionStorage: operation ids, oldest first
    stream,  \* per slot: a streaming request of the page
    cancels, \* cancel requests under way
    mishaps

buildVars == <<ops, visit, env, running, stored, stream, cancels, mishaps>>

None == "none"
Free == [ph |-> "free", op |-> 0, kind |-> None, env |-> None, by |-> 0, ref |-> FALSE, again |-> FALSE]
Live(s) == stream[s].ph # "free"
Ops == DOMAIN ops
Running(o) == ops[o].st = "running"
Here == env # None

\* What an earlier visit to the page left: nothing, or an operation that still runs and
\* its record, with the stream that told its id unless the browser was reloaded.
BuildInit ==
    /\ visit = 0
    /\ env = None
    /\ running = [k \in Kinds |-> FALSE]
    /\ cancels = {}
    /\ mishaps = 0
    /\ \/ /\ ops = <<>> /\ stored = <<>>
          /\ stream = [s \in Streams |-> Free]
       \/ /\ \E e \in Envs, k \in Kinds : ops = <<[env |-> e, kind |-> k, st |-> "running"]>>
          /\ stored = <<1>>
          /\ \E live \in SUBSET {CHOOSE s \in Streams : TRUE} :
                stream = [s \in Streams |->
                            IF s \in live
                            THEN [Free EXCEPT !.ph = "told", !.op = 1, !.kind = ops[1].kind,
                                              !.env = ops[1].env, !.ref = TRUE]
                            ELSE Free]

-----------------------------------------------------------------------------
(* The page. *)

\* readStoredOperations of an environment.
StoredIn(e) == {o \in ToSet(stored) : ops[o].env = e}

\* The effect on selectedServerId: every stored operation of environment e is streamed
\* again, also one that another stream still follows.
Reconnect(e, v) ==
    LET again == SetToSeq(StoredIn(e))
        slots == SetToSeq({s \in Streams : ~ Live(s)})
    IN  /\ Len(again) <= Len(slots)
        /\ stream' = [s \in Streams |->
              IF \E i \in DOMAIN again : slots[i] = s
              THEN LET o == again[CHOOSE i \in DOMAIN again : slots[i] = s]
                   IN  [Free EXCEPT !.ph = "sent", !.op = o, !.kind = ops[o].kind,
                                    !.env = e, !.by = v, !.again = TRUE]
              ELSE stream[s]]

Raised(e, flags) == [k \in Kinds |-> flags[k] \/ \E o \in StoredIn(e) : ops[o].kind = k]

\* The page is opened.
Visit(e) ==
    /\ ~ Here
    /\ visit < MaxVisits
    /\ visit' = visit + 1
    /\ env' = e
    /\ running' = Raised(e, [k \in Kinds |-> FALSE])
    /\ Reconnect(e, visit')
    /\ UNCHANGED <<ops, stored, cancels, mishaps>>

\* Another environment is selected; the flags are kept.
Select(e) ==
    /\ Here
    /\ e # env
    /\ env' = e
    /\ running' = Raised(e, running)
    /\ Reconnect(e, visit)
    /\ UNCHANGED <<ops, visit, stored, cancels, mishaps>>

\* The user goes to another page, where the streams go on, or reloads the browser,
\* where they end.
Leave(reload) ==
    /\ Here
    /\ env' = None
    /\ running' = [k \in Kinds |-> FALSE]
    /\ IF reload THEN stream' = [s \in Streams |-> Free] /\ cancels' = {}
                 ELSE UNCHANGED <<stream, cancels>>
    /\ UNCHANGED <<ops, visit, stored, mishaps>>

\* runBuild, importArchive, rebuildFromHistory: their button is disabled by their flag.
run(s, k) ==
    /\ Here
    /\ s \in Streams /\ ~ Live(s)
    /\ ~ running[k]
    /\ running' = [running EXCEPT ![k] = TRUE]
    /\ stream' = [x \in Streams |->
                    IF x = s
                    THEN [Free EXCEPT !.ph = "sent", !.kind = k, !.env = env, !.by = visit, !.ref = TRUE]
                    ELSE [stream[x] EXCEPT !.ref = @ /\ ~ (stream[x].kind = k /\ stream[x].by = visit)]]
    /\ UNCHANGED <<ops, visit, env, stored, cancels, mishaps>>

\* Mutation of Forget: the whole record is cleared.
ForgetAll(o) == <<>>

\* clearStoredOperation; an id is stored once.
Forget(o) ==
    IF o \in ToSet(stored)
    THEN RemoveAt(stored, CHOOSE i \in DOMAIN stored : stored[i] = o)
    ELSE stored

\* writeStoredOperation.
Remember(o) == Append(Forget(o), o)

\* The page reads the operation's id off the stream.
Meta(s) ==
    /\ stream[s].ph = "open"
    /\ stream' = [stream EXCEPT ![s].ph = "told"]
    /\ stored' = Remember(stream[s].op)
    /\ UNCHANGED <<ops, visit, env, running, cancels, mishaps>>

\* The finally of the function that reads stream s: its kind's flag, and for a start its
\* kind's AbortController, are put down, whichever stream they now belong to.
Closed(s) ==
    [x \in Streams |->
        IF x = s THEN Free
        ELSE [stream[x] EXCEPT !.ref =
                @ /\ (stream[s].again \/ stream[x].kind # stream[s].kind \/ stream[x].by # stream[s].by)]]
\* Mutation of Lowered: there is no finally.
LoweredNever(s) == running

Lowered(s) ==
    IF Here /\ stream[s].by = visit THEN [running EXCEPT ![stream[s].kind] = FALSE] ELSE running

\* The result arrives: the record is cleared, and for a failed reconnect cleared again.
Result(s) ==
    /\ stream[s].ph = "told"
    /\ ops[stream[s].op].st = "done"
    /\ stored' = Forget(stream[s].op)
    /\ stream' = Closed(s)
    /\ running' = Lowered(s)
    /\ UNCHANGED <<ops, visit, env, cancels, mishaps>>

\* Stream s ends without a result: refused, disconnected or aborted.  A start leaves its
\* record, a reconnect clears it.
Ended(s) ==
    /\ stream' = Closed(s)
    /\ running' = Lowered(s)
    /\ stored' = IF stream[s].again THEN Forget(stream[s].op) ELSE stored

Disconnect(s) ==
    /\ Live(s)
    /\ mishaps < MaxMishaps
    /\ mishaps' = mishaps + 1
    /\ Ended(s)
    /\ UNCHANGED <<ops, visit, env, cancels>>

\* cancelOperation: the oldest stored operation of the kind is cancelled; without one the
\* request that was to start it is aborted.
cancelOperation(k) ==
    LET mine == SelectSeq(stored, LAMBDA o : ops[o].env = env /\ ops[o].kind = k)
        own == {s \in Streams : stream[s].ref /\ stream[s].kind = k /\ stream[s].by = visit}
    IN  /\ Here
        /\ running[k]
        /\ Cardinality(cancels) < MaxCancels
        /\ IF mine # <<>>
           THEN /\ cancels' = cancels \cup {[op |-> Head(mine), by |-> visit]}
                /\ UNCHANGED <<stream, running, stored>>
           ELSE IF own = {}
                THEN UNCHANGED <<stream, running, stored, cancels>>
                ELSE Ended(CHOOSE s \in own : TRUE) /\ UNCHANGED cancels
        /\ UNCHANGED <<ops, visit, env, mishaps>>

\* The cancel request is answered: the page aborts the requests of all three kinds.  In
\* the API it hurries the end of the operation, unless the operation's goroutine has not
\* yet put its cancel function in place; an operation that is not found is an error,
\* which leaves the page as it is.
cancelDockerOperation(c) ==
    LET cut == {s \in Streams : ops[c.op].st # "gone" /\ stream[s].ref /\ stream[s].by = c.by}
    IN  /\ cancels' = cancels \ {c}
        /\ stream' = [s \in Streams |-> IF s \in cut THEN Free ELSE stream[s]]
        /\ running' = [k \in Kinds |->
                         running[k] /\ ~ (Here /\ c.by = visit /\ \E s \in cut : stream[s].kind = k)]
        /\ UNCHANGED <<ops, visit, env, stored, mishaps>>

-----------------------------------------------------------------------------
(* The API. *)

\* The handler of a start creates the operation and sends its id.
newRuntimeOperation(s) ==
    /\ stream[s].ph = "sent"
    /\ ~ stream[s].again
    /\ Len(ops) < MaxOps
    /\ ops' = Append(ops, [env |-> stream[s].env, kind |-> stream[s].kind, st |-> "running"])
    /\ stream' = [stream EXCEPT ![s].ph = "open", ![s].op = Len(ops')]
    /\ UNCHANGED <<visit, env, running, stored, cancels, mishaps>>

\* A start that is not accepted (no file, no local environment).
Refuse(s) ==
    /\ stream[s].ph = "sent"
    /\ ~ stream[s].again
    /\ Ended(s)
    /\ UNCHANGED <<ops, visit, env, cancels, mishaps>>

\* streamDockerOperation: an operation that is found is streamed, after its id.
streamDockerOperation(s) ==
    /\ stream[s].ph = "sent"
    /\ stream[s].again
    /\ IF ops[stream[s].op].st = "gone"
       THEN Ended(s)
       ELSE stream' = [stream EXCEPT ![s].ph = "open"] /\ UNCHANGED <<running, stored>>
    /\ UNCHANGED <<ops, visit, env, cancels, mishaps>>

\* The operation ends, with success, in an error or cancelled, which its result says.
finish(o) ==
    /\ Running(o)
    /\ ops' = [ops EXCEPT ![o].st = "done"]
    /\ UNCHANGED <<visit, env, running, stored, stream, cancels, mishaps>>

\* The API is restarted: its operations are gone, and the streams end.
Restart ==
    /\ mishaps < MaxMishaps
    /\ mishaps' = mishaps + 1
    /\ ops' = [o \in Ops |-> [ops[o] EXCEPT !.st = "gone"]]
    /\ UNCHANGED <<visit, env, running, stored, stream, cancels>>

HangUp(s) ==
    /\ stream[s].ph \in {"open", "told"}
    /\ ops[stream[s].op].st = "gone"
    /\ Ended(s)
    /\ UNCHANGED <<ops, visit, env, cancels, mishaps>>

-----------------------------------------------------------------------------
Follow(s) == newRuntimeOperation(s) \/ Refuse(s) \/ streamDockerOperation(s) \/ Meta(s) \/ Result(s) \/ HangUp(s)

BuildNext ==
    \/ \E e \in Envs : Visit(e) \/ Select(e)
    \/ \E reload \in BOOLEAN : Leave(reload)
    \/ \E k \in Kinds : \E s \in {x \in Streams : ~ Live(x)} : (\A y \in Streams : y < s => Live(y)) /\ run(s, k)
    \/ \E k \in Kinds : cancelOperation(k)
    \/ \E s \in Streams : Follow(s) \/ Disconnect(s)
    \/ \E o \in Ops : finish(o)
    \/ \E c \in cancels : cancelDockerOperation(c)
    \/ Restart

\* Operations end and what the API sends arrives.
BuildFairness ==
    /\ \A s \in Streams : WF_buildVars(Follow(s))
    /\ \A o \in 1..MaxOps : WF_buildVars(o \in Ops /\ finish(o))

BuildSpec == BuildInit /\ [][BuildNext]_buildVars /\ BuildFairness
-----------------------------------------------------------------------------
(* What the proofs rest on. *)

Operation == [env : Envs, kind : Kinds, st : {"running", "done", "gone"}]
Stream == [ph : {"free", "sent", "open", "told"}, op : Nat, kind : Kinds \cup {None},
           env : Envs \cup {None}, by : Nat, ref : BOOLEAN, again : BOOLEAN]

BuildTypeOK ==
    /\ ops \in Seq(Operation)
    /\ visit \in Nat
    /\ env \in Envs \cup {None}
    /\ running \in [Kinds -> BOOLEAN]
    /\ stored \in Seq(Ops)
    /\ stream \in [Streams -> Stream]
    /\ mishaps \in Nat

\* A stream is of an operation, but for a start that the API has not accepted yet.
StreamsOK ==
    \A s \in Streams :
        /\ Live(s) => stream[s].kind \in Kinds /\ stream[s].env \in Envs
        /\ stream[s].ph \in {"open", "told"} \/ stream[s].again => stream[s].op \in Ops

\* An id is stored once, so that to forget it is to leave no record of it.
StoredOnce == \A i, j \in DOMAIN stored : stored[i] = stored[j] => i = j

BuildInv == BuildTypeOK /\ StreamsOK /\ StoredOnce

-----------------------------------------------------------------------------
(* Properties. *)

\* The record of an operation that runs, by which the page can come back to it, is
\* removed from sessionStorage only by the end of a reconnect to that operation: not by
\* the end of another operation, by cancelling one, or by leaving the page.
Remembered ==
    [][\A o \in ToSet(stored) :
          Running(o) /\ o \notin ToSet(stored') =>
              \E s \in Streams : /\ stream[s].again
                                 /\ stream[s].op = o
                                 /\ stream'[s].ph = "free"]_buildVars

\* A flag that is up comes down again, however the operation or its streams end.
FlagFalls == \A k \in Kinds : running[k] ~> ~ running[k]
=============================================================================
