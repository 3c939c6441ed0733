-------------------------- MODULE CommandDispatch --------------------------
(***************************************************************************)
(* The life of a command: an HTTP request calls Dispatcher.dispatch, which *)
(* writes a row of agent_commands, hands the command to the agent of the   *)
(* server through the Hub and then marks the row RUNNING; the agent runs   *)
(* it and reports an exit code, which the stream handler writes back.      *)
(*                                                                         *)
(* A dispatch call is a thread with a program counter, split at every call *)
(* of the database and of the Hub, because other requests, the agent and   *)
(* the connection handlers run between any two of them.  The identifier of *)
(* a command is a fresh UUID chosen by the request, so a request and the   *)
(* command it may create share one identifier.                             *)
(***************************************************************************)
EXTENDS Naturals, Sequences

CONSTANTS Servers,   \* managed servers, one agent each
          Keys,      \* idempotency keys that callers supply
          Requests,  \* calls of dispatch; also the ids of the commands they create
          SendCap,   \* grpcSendBufSize: commands queued per gRPC connection
          OutCap,    \* capacity of the agent's outCh
          Faults,    \* the fault classes that may happen: "db", "stream", "agent"
          Nil        \* no exit code, no key, no returned command

ASSUME ConstAssumption ==
    /\ Keys \cap Requests = {}
    /\ SendCap \in Nat \ {0}
    /\ OutCap \in Nat \ {0}
    /\ Nil \notin Requests \cup Keys \cup Servers \cup {0, 1}

VARIABLES pc,      \* where each dispatch call is
          server,  \* the server a call targets (row.server_id)
          ikey,    \* the effective idempotency key of a call (row.idempotency_key)
          ret,     \* the command a call returned
          status,  \* agent_commands.status, "absent" when there is no row
          exit,    \* agent_commands.exit_code (set together with done_at)
          link,    \* Hub: transports on which a server's agent is registered
          sendCh,  \* queue of the server's gRPC connection
          runs,    \* how often the agent started a command
          tstate,  \* how far the agent is with it
          tcode,   \* the exit code its process ended with
          via,     \* the transport it came by
          outCh,   \* the agent's queue of results to report
          cancel   \* what Cancel answered for a command

dispatchVars == <<pc, server, ikey, ret>>
rowVars      == <<status, exit>>
taskVars     == <<runs, tstate, tcode, via>>
agentVars    == <<taskVars, outCh>>
vars == <<dispatchVars, rowVars, link, sendCh, agentVars, cancel>>
----------------------------------------------------------------------------
Codes      == {0, 1}                     \* zero and any other exit code
Transports == {"grpc", "ws"}
Stages     == {"idle", "create", "find", "send", "fail", "mark",
               "refused", "error", "returned"}
Statuses   == {"PENDING", "RUNNING", "SUCCESS", "FAILED"}
TaskStates == {"none", "running", "ended", "dropped", "reported", "lost"}
Event      == [id : Requests, code : Codes \cup {Nil}]   \* Nil: an output chunk

TypeOK ==
    /\ pc \in [Requests -> Stages]
    /\ server \in [Requests -> Servers \cup {Nil}]
    /\ ikey \in [Requests -> Keys \cup Requests \cup {Nil}]
    /\ ret \in [Requests -> Requests \cup {Nil}]
    /\ status \in [Requests -> Statuses \cup {"absent"}]
    /\ exit \in [Requests -> Codes \cup {Nil}]
    /\ link \in [Servers -> SUBSET Transports]
    /\ sendCh \in [Servers -> Seq(Requests)]
    /\ runs \in [Requests -> Nat]
    /\ tstate \in [Requests -> TaskStates]
    /\ tcode \in [Requests -> Codes \cup {Nil}]
    /\ via \in [Requests -> Transports \cup {Nil}]
    /\ outCh \in [Servers -> Seq(Event)]
    /\ cancel \in [Requests -> {"none", "sent", "offline"}]

Init ==
    /\ pc = [r \in Requests |-> "idle"]
    /\ server = [r \in Requests |-> Nil]
    /\ ikey = [r \in Requests |-> Nil]
    /\ ret = [r \in Requests |-> Nil]
    /\ status = [r \in Requests |-> "absent"]
    /\ exit = [r \in Requests |-> Nil]
    /\ link = [s \in Servers |-> {}]
    /\ sendCh = [s \in Servers |-> <<>>]
    /\ runs = [r \in Requests |-> 0]
    /\ tstate = [r \in Requests |-> "none"]
    /\ tcode = [r \in Requests |-> Nil]
    /\ via = [r \in Requests |-> Nil]
    /\ outCh = [s \in Servers |-> <<>>]
    /\ cancel = [r \in Requests |-> "none"]
----------------------------------------------------------------------------
(* Dispatcher.dispatch *)

Goto(r, stage) == pc' = [pc EXCEPT ![r] = stage]

\* Mutation of HasKey: no unique index on idempotency_key.
HasKeyNoIndex(k) == {}

\* Mutation of HasKey: a FAILED command gives its key back.
HasKeyRetryFailed(k) ==
    {c \in Requests : status[c] \notin {"absent", "FAILED"} /\ ikey[c] = k}

\* The rows that carry a key: at most one, by the unique index on the column.
HasKey(k) == {c \in Requests : status[c] # "absent" /\ ikey[c] = k}

\* The online check on entry, and the key: the caller's, or a fresh UUID.
Dispatch(r, s, k) ==
    /\ pc[r] = "idle"
    /\ server' = [server EXCEPT ![r] = s]
    /\ ikey' = [ikey EXCEPT ![r] = IF k = Nil THEN r ELSE k]
    /\ Goto(r, IF link[s] = {} THEN "refused" ELSE "create")
    /\ UNCHANGED <<ret, rowVars, link, sendCh, agentVars, cancel>>

\* INSERT of the PENDING row, refused by the unique index or by a failure.
Create(r) ==
    /\ pc[r] = "create"
    /\ \/ /\ HasKey(ikey[r]) = {}
          /\ status' = [status EXCEPT ![r] = "PENDING"]
          /\ Goto(r, "send")
       \/ /\ HasKey(ikey[r]) # {}
          /\ Goto(r, "find")
          /\ UNCHANGED status
       \/ /\ "db" \in Faults
          /\ Goto(r, "error")
          /\ UNCHANGED status
    /\ UNCHANGED <<server, ikey, ret, exit, link, sendCh, agentVars, cancel>>

\* A duplicate key returns the command that owns it, whatever its status.
FindByIdempotencyKey(r) ==
    /\ pc[r] = "find"
    /\ \/ \E c \in HasKey(ikey[r]) :
             /\ ret' = [ret EXCEPT ![r] = c]
             /\ Goto(r, "returned")
       \/ /\ "db" \in Faults
          /\ Goto(r, "error")
          /\ UNCHANGED ret
    /\ UNCHANGED <<server, ikey, rowVars, link, sendCh, agentVars, cancel>>

\* The agent begins to execute command c, which it received over transport t.
Begin(c, t) ==
    /\ runs' = [runs EXCEPT ![c] = @ + 1]
    /\ tstate' = [tstate EXCEPT ![c] = "running"]
    /\ tcode' = [tcode EXCEPT ![c] = Nil]
    /\ via' = [via EXCEPT ![c] = t]

\* GRPCAgentConn.Send answers at once: queued, or an error when sendCh is full
\* (the default branch wins over the timer; nothing ever applies backpressure).
SendBufFull(s) == Len(sendCh[s]) >= SendCap

\* Mutation of SendToAgent: a full buffer is reported as an error although the
\* command is queued all the same.
SendToAgentQueuesWhenFull(r) ==
    LET s == server[r] IN
    /\ pc[r] = "send"
    /\ sendCh' = [sendCh EXCEPT ![s] = Append(@, r)]
    /\ Goto(r, IF SendBufFull(s) THEN "fail" ELSE "mark")
    /\ UNCHANGED <<server, ikey, ret, rowVars, link, agentVars, cancel>>

\* Hub.SendToAgent: gRPC when registered (an error when its buffer is full),
\* else WebSocket (a write that succeeds or fails), else not connected.
SendToAgent(r) ==
    LET s == server[r] IN
    /\ pc[r] = "send"
    /\ \/ /\ "grpc" \in link[s]
          /\ ~SendBufFull(s)
          /\ sendCh' = [sendCh EXCEPT ![s] = Append(@, r)]
          /\ Goto(r, "mark")
          /\ UNCHANGED taskVars
       \/ /\ "grpc" \in link[s]
          /\ SendBufFull(s)
          /\ Goto(r, "fail")
          /\ UNCHANGED <<sendCh, taskVars>>
       \/ /\ link[s] = {"ws"}
          /\ Begin(r, "ws")
          /\ Goto(r, "mark")
          /\ UNCHANGED sendCh
       \/ /\ link[s] = {} \/ (link[s] = {"ws"} /\ "stream" \in Faults)
          /\ Goto(r, "fail")
          /\ UNCHANGED <<sendCh, taskVars>>
    /\ UNCHANGED <<server, ikey, ret, rowVars, link, outCh, cancel>>

\* UpdateStatus without an exit code; its error is ignored by both callers.
UpdateStatus(r, st) ==
    \/ status' = [status EXCEPT ![r] = st]
    \/ "db" \in Faults /\ UNCHANGED status

\* The command could not be handed over: FAILED, and the call errs.
MarkFailed(r) ==
    /\ pc[r] = "fail"
    /\ UpdateStatus(r, "FAILED")
    /\ Goto(r, "error")
    /\ UNCHANGED <<server, ikey, ret, exit, link, sendCh, agentVars, cancel>>

\* The command was handed over: RUNNING is written whatever the row now says.
MarkRunning(r) ==
    /\ pc[r] = "mark"
    /\ UpdateStatus(r, "RUNNING")
    /\ ret' = [ret EXCEPT ![r] = r]
    /\ Goto(r, "returned")
    /\ UNCHANGED <<server, ikey, exit, link, sendCh, agentVars, cancel>>

\* Dispatcher.Cancel looks for a WebSocket agent only.  An agent that gets the
\* signal kills the process, which ends as any other one does.
Cancel(c) ==
    /\ status[c] # "absent"
    /\ cancel[c] = "none"
    /\ cancel' = [cancel EXCEPT ![c] =
                    IF "ws" \in link[server[c]] THEN "sent" ELSE "offline"]
    /\ UNCHANGED <<dispatchVars, rowVars, link, sendCh, agentVars>>
----------------------------------------------------------------------------
(* The gRPC connection and the agent *)

\* Mutation of SendLoop: a delivered command stays queued and is sent again.
SendLoopRetries(s) ==
    /\ "grpc" \in link[s]
    /\ sendCh[s] # <<>>
    /\ runs[Head(sendCh[s])] < 2
    /\ Begin(Head(sendCh[s]), "grpc")
    /\ UNCHANGED <<dispatchVars, rowVars, link, sendCh, outCh, cancel>>

\* sendLoop hands the head of the queue to the agent, which starts a task.
SendLoop(s) ==
    /\ "grpc" \in link[s]
    /\ sendCh[s] # <<>>
    /\ sendCh' = [sendCh EXCEPT ![s] = Tail(@)]
    /\ Begin(Head(sendCh[s]), "grpc")
    /\ UNCHANGED <<dispatchVars, rowVars, link, outCh, cancel>>

\* sendLoop takes a command and the stream fails: the command is dropped.
SendLoopDrop(s) ==
    /\ "stream" \in Faults
    /\ sendCh[s] # <<>>
    /\ sendCh' = [sendCh EXCEPT ![s] = Tail(@)]
    /\ UNCHANGED <<dispatchVars, rowVars, link, agentVars, cancel>>

\* SendEvent never blocks: an event is dropped when outCh is full.
HasRoom(s) == Len(outCh[s]) < OutCap

\* A running task queues a chunk of its output (a dropped chunk changes nothing).
TaskOutput(c) ==
    /\ tstate[c] = "running"
    /\ via[c] = "grpc"
    /\ HasRoom(server[c])
    /\ outCh' = [outCh EXCEPT ![server[c]] = Append(@, [id |-> c, code |-> Nil])]
    /\ UNCHANGED <<dispatchVars, rowVars, link, sendCh, taskVars, cancel>>

\* A process ends (by itself, killed by its timeout or by a cancel) and its
\* result is queued, or dropped with everything else that finds outCh full.
Finish(c, code) ==
    LET s == server[c] IN
    /\ tstate[c] = "running"
    /\ tcode' = [tcode EXCEPT ![c] = code]
    /\ \/ /\ via[c] = "ws"
          /\ tstate' = [tstate EXCEPT ![c] = "ended"]
          /\ UNCHANGED outCh
       \/ /\ via[c] = "grpc"
          /\ HasRoom(s)
          /\ tstate' = [tstate EXCEPT ![c] = "ended"]
          /\ outCh' = [outCh EXCEPT ![s] = Append(@, [id |-> c, code |-> code])]
       \/ /\ via[c] = "grpc"
          /\ ~HasRoom(s)
          /\ tstate' = [tstate EXCEPT ![c] = "dropped"]
          /\ UNCHANGED outCh
    /\ UNCHANGED <<dispatchVars, rowVars, link, sendCh, runs, via, cancel>>

\* The agent process dies: its tasks and its queue are gone, its streams break.
AgentCrash(s) ==
    /\ "agent" \in Faults
    /\ tstate' = [c \in Requests |->
                    IF server[c] = s /\ tstate[c] = "running" THEN "lost" ELSE tstate[c]]
    /\ outCh' = [outCh EXCEPT ![s] = <<>>]
    /\ link' = [link EXCEPT ![s] = {}]
    /\ sendCh' = [sendCh EXCEPT ![s] = <<>>]
    /\ UNCHANGED <<dispatchVars, rowVars, runs, tcode, via, cancel>>
----------------------------------------------------------------------------
(* The control plane's stream handlers *)

\* Mutation of SkillStatus: a reported task counts as done whatever its code,
\* as in the WebSocket handler.
SkillStatusDone(code) == "SUCCESS"

\* The status of a gRPC result follows its exit code.
SkillStatus(code) == IF code = 0 THEN "SUCCESS" ELSE "FAILED"

\* UpdateStatus with the exit code an agent reported.
RecordResult(c, st, code) ==
    /\ status' = [status EXCEPT ![c] = st]
    /\ exit' = [exit EXCEPT ![c] = code]

\* Mutation of HandleEvent: the row of a task that failed is not updated.
HandleEventSkipsFailures(s) ==
    LET event == Head(outCh[s]) IN
    /\ "grpc" \in link[s]
    /\ outCh[s] # <<>>
    /\ outCh' = [outCh EXCEPT ![s] = Tail(@)]
    /\ IF event.code # 0
       THEN UNCHANGED rowVars
       ELSE RecordResult(event.id, SkillStatus(event.code), event.code)
    /\ UNCHANGED <<dispatchVars, link, sendCh, taskVars, cancel>>

\* writeLoop sends the oldest event; handleEvent writes the status of a
\* SkillResult, and appends a TaskOutput to the log.  The handler of an older
\* connection may have removed the Hub's entry of the stream this comes by.
HandleEvent(s) ==
    LET event == Head(outCh[s]) IN
    /\ "grpc" \in link[s] \/ "stream" \in Faults
    /\ outCh[s] # <<>>
    /\ outCh' = [outCh EXCEPT ![s] = Tail(@)]
    /\ IF event.code = Nil
       THEN UNCHANGED rowVars
       ELSE RecordResult(event.id, SkillStatus(event.code), event.code)
    /\ UNCHANGED <<dispatchVars, link, sendCh, taskVars, cancel>>

\* The event leaves the queue and is lost: the stream fails under writeLoop,
\* or UpdateStatus fails (its context is the stream's).
LoseEvent(s) ==
    /\ Faults \cap {"db", "stream"} # {}
    /\ outCh[s] # <<>>
    /\ outCh' = [outCh EXCEPT ![s] = Tail(@)]
    /\ UNCHANGED <<dispatchVars, rowVars, link, sendCh, taskVars, cancel>>

\* HandleAgentMessage: COMMAND_DONE is SUCCESS and COMMAND_ERROR is FAILED,
\* whatever the exit code they carry.  Both payload types have the code, so the
\* handler's defaults for one without it are left out.
HandleAgentMessage(c) ==
    /\ tstate[c] = "ended"
    /\ via[c] = "ws"
    /\ tstate' = [tstate EXCEPT ![c] = "reported"]
    /\ \/ /\ "ws" \in link[server[c]] \/ "stream" \in Faults
          /\ \E st \in {"SUCCESS", "FAILED"} : RecordResult(c, st, tcode[c])
       \/ /\ Faults \cap {"db", "stream"} # {}
          /\ UNCHANGED rowVars
    /\ UNCHANGED <<dispatchVars, link, sendCh, runs, tcode, via, outCh, cancel>>

\* A stream handler registers its connection; when the handler of a broken
\* connection is still there, its entry is replaced and its queue abandoned.
Register(s, t) ==
    /\ t \notin link[s] \/ "stream" \in Faults
    /\ link' = [link EXCEPT ![s] = @ \cup {t}]
    /\ sendCh' = IF t = "grpc" THEN [sendCh EXCEPT ![s] = <<>>] ELSE sendCh
    /\ UNCHANGED <<dispatchVars, rowVars, agentVars, cancel>>

\* ... and unregisters it when the stream breaks: what sendCh holds is dropped.
Unregister(s, t) ==
    /\ "stream" \in Faults
    /\ t \in link[s]
    /\ link' = [link EXCEPT ![s] = @ \ {t}]
    /\ sendCh' = IF t = "grpc" THEN [sendCh EXCEPT ![s] = <<>>] ELSE sendCh
    /\ UNCHANGED <<dispatchVars, rowVars, agentVars, cancel>>
----------------------------------------------------------------------------
DispatchStep(r) ==
    \/ Create(r) \/ FindByIdempotencyKey(r) \/ SendToAgent(r)
    \/ MarkFailed(r) \/ MarkRunning(r)

Next ==
    \/ \E r \in Requests, s \in Servers, k \in Keys \cup {Nil} : Dispatch(r, s, k)
    \/ \E r \in Requests : DispatchStep(r)
    \/ \E c \in Requests : Cancel(c) \/ TaskOutput(c) \/ HandleAgentMessage(c)
    \/ \E c \in Requests, code \in Codes : Finish(c, code)
    \/ \E s \in Servers : \/ SendLoop(s) \/ SendLoopDrop(s) \/ AgentCrash(s)
                          \/ HandleEvent(s) \/ LoseEvent(s)
    \/ \E s \in Servers, t \in Transports : Register(s, t) \/ Unregister(s, t)

Spec == Init /\ [][Next]_vars

\* Goroutines are scheduled fairly: a handler that has started runs on, the
\* two loops drain their queues, and every process ends (executeTask gives it
\* a timeout).  Nothing forces a request to come or an agent to connect.
Fairness ==
    /\ \A r \in Requests : WF_vars(DispatchStep(r))
    /\ \A c \in Requests : WF_vars(\E code \in Codes : Finish(c, code))
    /\ \A c \in Requests : WF_vars(HandleAgentMessage(c))
    /\ \A s \in Servers : WF_vars(SendLoop(s)) /\ WF_vars(HandleEvent(s))

FairSpec == Spec /\ Fairness
----------------------------------------------------------------------------
(* Safety *)

\* At-most-once execution: of all commands dispatched under one idempotency
\* key, at most one is ever executed, and that one at most once, however
\* requests race, retry or meet failures (dispatch, SendToAgent, sendLoop).
AtMostOncePerKey ==
    \A c, d \in Requests :
        /\ runs[c] <= 1
        /\ c # d /\ runs[c] > 0 /\ runs[d] > 0 => ikey[c] # ikey[d]

\* Retries agree: two calls with one key that both return a command return
\* the same command (the duplicate-key branch of dispatch).
RetriesAgree ==
    \A r, q \in Requests :
        ret[r] # Nil /\ ret[q] # Nil /\ ikey[r] = ikey[q]
            => ret[r] = ret[q]

\* A command that dispatch failed to hand over (it is FAILED without an exit
\* code, or its call erred although even writing FAILED failed) is not queued
\* for the agent, has not run and so may be retried under a new key.
RejectedNeverRuns ==
    \A c \in Requests :
        pc[c] = "error" \/ (status[c] = "FAILED" /\ exit[c] = Nil) =>
            /\ runs[c] = 0
            /\ \A s \in Servers : \A i \in 1..Len(sendCh[s]) : sendCh[s][i] # c

\* A recorded exit code is the one the command's own execution ended with,
\* and over gRPC a command is SUCCESS only when that code is zero.
ResultTruthful ==
    \A c \in Requests :
        exit[c] # Nil =>
            /\ exit[c] = tcode[c]
            /\ status[c] = "SUCCESS" /\ via[c] = "grpc" => exit[c] = 0

\* A recorded exit code (and done_at) is never replaced or withdrawn, although
\* UpdateStatus would overwrite it: no second result of a command can come.
ResultStable ==
    [][\A c \in Requests : exit[c] # Nil => exit'[c] = exit[c]]_vars

\* What the rows, the tasks and the exit codes say per key: the command that owns it,
\* whether the agent has started it, its exit code, and the one that is recorded.
AllKeys  == Keys \cup Requests
Claims   == [k \in AllKeys |-> HasKey(k)]
Started  == {k \in AllKeys : \E c \in HasKey(k) : runs[c] > 0}
Outcomes == [k \in AllKeys |-> {tcode[c] : c \in HasKey(k)} \ {Nil}]
Results  == [k \in AllKeys |-> {exit[c] : c \in HasKey(k)} \ {Nil}]

Abstract == INSTANCE IdempotentExecution WITH
    Key <- AllKeys, Cmd <- Requests, Code <- Codes,
    claimed <- Claims, begun <- Started, outcome <- Outcomes, recorded <- Results

\* The pipeline implements IdempotentExecution: each step of the dispatcher, of the
\* agent and of the handlers is a step of that specification or changes nothing in it.
ImplementsIdempotentExecution == Abstract!Spec

\* The inductive invariant behind these properties.
Queued(c) == \E s \in Servers : \E i \in 1..Len(sendCh[s]) : sendCh[s][i] = c

\* One row per key; a call past Dispatch has a target and a key.
RowsInv ==
    /\ \A c, d \in Requests :
          status[c] # "absent" /\ status[d] # "absent" /\ ikey[c] = ikey[d] => c = d
    /\ \A c \in Requests :
          /\ pc[c] # "idle" => server[c] \in Servers /\ ikey[c] \in Keys \cup Requests
          /\ pc[c] \in {"idle", "create", "find", "refused"} => status[c] = "absent"
          /\ pc[c] \in {"send", "fail", "mark"} => status[c] # "absent"

\* A command reaches the agent or its queue only after its call has sent it,
\* and waits there only once, for its first execution.
HandOverInv ==
    /\ \A c \in Requests :
          runs[c] > 0 \/ Queued(c) =>
              pc[c] \in {"mark", "returned"} /\ status[c] # "absent"
    /\ \A s \in Servers : \A i \in 1..Len(sendCh[s]) :
          /\ server[sendCh[s][i]] = s
          /\ runs[sendCh[s][i]] = 0
          /\ \A j \in 1..Len(sendCh[s]) : sendCh[s][j] = sendCh[s][i] => j = i

\* An execution happens once and has an exit code exactly when it has ended.
TaskInv ==
    \A c \in Requests :
        /\ runs[c] <= 1
        /\ runs[c] = 0 <=> tstate[c] = "none"
        /\ tcode[c] # Nil <=> tstate[c] \in {"ended", "dropped", "reported"}

\* A result waits in outCh once, and only while its exit code is unrecorded.
OutInv ==
    \A s \in Servers : \A i \in 1..Len(outCh[s]) :
        outCh[s][i].code # Nil =>
            LET c == outCh[s][i].id IN
            /\ server[c] = s
            /\ tstate[c] = "ended" /\ via[c] = "grpc"
            /\ tcode[c] = outCh[s][i].code
            /\ exit[c] = Nil
            /\ \A j \in 1..Len(outCh[s]) :
                  outCh[s][j].id = c /\ outCh[s][j].code # Nil => j = i

\* What a row says of an execution is what happened.
ExitInv ==
    \A c \in Requests :
        /\ exit[c] # Nil => exit[c] = tcode[c] /\ status[c] # "absent"
        /\ tstate[c] = "ended" /\ via[c] = "ws" => exit[c] = Nil
        /\ status[c] = "FAILED" /\ exit[c] = Nil => pc[c] = "error"
        /\ status[c] = "SUCCESS" => exit[c] # Nil
        /\ status[c] = "SUCCESS" /\ via[c] = "grpc" => exit[c] = 0

\* A returned command is the one that owns the key.
RetInv ==
    \A r \in Requests :
        ret[r] # Nil =>
            /\ pc[r] = "returned"
            /\ status[ret[r]] # "absent"
            /\ ikey[ret[r]] = ikey[r]

Inv == RowsInv /\ HandOverInv /\ TaskInv /\ OutInv /\ ExitInv /\ RetInv
----------------------------------------------------------------------------
(* Liveness *)

\* Without faults, every command handed over gets its exit code recorded,
\* unless the agent's full outCh drops the result.
HandedOverConcludes ==
    \A r \in Requests :
        pc[r] = "mark" ~> (exit[r] # Nil \/ tstate[r] = "dropped")
============================================================================
