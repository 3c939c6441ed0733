------------------------------ MODULE AgentTask ------------------------------
(***************************************************************************)
(* One task on the agent: executeTask runs a command, two readers forward  *)
(* what it writes, and the write loop of the current gRPC session carries  *)
(* the events to the control plane, which appends them to                  *)
(* agent_command_logs and records the result.                              *)
(*                                                                         *)
(* Each reader owns one buffer and queues slices of it, not copies, so the *)
(* bytes of a queued chunk are those the buffer holds when the write loop  *)
(* marshals it.  A chunk is identified by its number in its stream, and    *)
(* the data of an event by the chunk that its first byte comes from.       *)
(***************************************************************************)
EXTENDS Naturals, Sequences

CONSTANTS Writes,      \* bound: chunks the command writes to each stream
          Cap,         \* capacity of outCh
          MaxSessions  \* bound: streams the agent opens meanwhile

Streams  == {"stdout", "stderr"}
Sessions == 1 .. MaxSessions

ASSUME TaskAssumption ==
    /\ Writes \in [Streams -> Nat]
    /\ Cap \in Nat \ {0}
    /\ MaxSessions \in Nat \ {0}

VARIABLES task,    \* where executeTask is
          reader,  \* where the reader goroutine of a stream is
          buf,     \* the chunk a reader's buffer holds, 0 before the first
          seq,     \* the next sequence number
          mine,    \* the number a reader has taken
          outCh,   \* the agent's outbound queue
          proc,    \* the agent process
          loop,    \* the write loop of each session
          wire,    \* what a session has sent and ConnectStream not yet handled
          logs,    \* the rows of agent_command_logs, in insertion order
          result   \* has the control plane recorded the result?

taskVars == <<task, reader, buf, seq, mine>>
server   == <<logs, result>>
vars == <<taskVars, outCh, proc, loop, wire, server>>
-----------------------------------------------------------------------------
Kinds == Streams \cup {"result", "other"}

\* An AgentEvent: a TaskOutput chunk, the SkillResult of the task, or an event
\* of somebody else (a heartbeat, another task).
Event == [kind : Kinds, chunk : Nat, seq : Nat]

ResultEvent == [kind |-> "result", chunk |-> 0, seq |-> 0]
OtherEvent  == [kind |-> "other", chunk |-> 0, seq |-> 0]

\* A marshalled event of the task: data is the chunk its bytes were taken from.
Sent == [kind : Streams \cup {"result"}, chunk : Nat, seq : Nat, data : Nat]

TypeOK ==
    /\ task \in {"new", "running", "closed", "done"}
    /\ reader \in [Streams -> {"read", "seq", "send", "eof"}]
    /\ buf \in [Streams -> Nat] /\ mine \in [Streams -> Nat] /\ seq \in Nat
    /\ outCh \in Seq(Event) /\ Len(outCh) <= Cap
    /\ proc \in {"up", "closed", "exited", "panicked"}
    /\ loop \in [Sessions -> {"off", "on", "cancelled", "exit"}]
    /\ wire \in [Sessions -> Seq(Sent)]
    /\ logs \in Seq({e \in Sent : e.kind \in Streams}) /\ result \in BOOLEAN

Init ==
    /\ task = "new"
    /\ reader = [s \in Streams |-> "read"]
    /\ buf = [s \in Streams |-> 0]
    /\ seq = 0
    /\ mine = [s \in Streams |-> 0]
    /\ outCh = <<>>
    /\ proc = "up"
    /\ loop = [i \in Sessions |-> "off"]
    /\ wire = [i \in Sessions |-> <<>>]
    /\ logs = <<>>
    /\ result = FALSE
-----------------------------------------------------------------------------
Alive == proc \in {"up", "closed"}
Set(f, x, v) == f' = [f EXCEPT ![x] = v]

\* Mutation of SendEvent: it waits for room instead of dropping.
SendEventWaits(e) ==
    /\ proc = "up" /\ Len(outCh) < Cap
    /\ outCh' = Append(outCh, e)
    /\ UNCHANGED proc

\* SendEvent never waits: without room the event is dropped, and once Close
\* has closed the channel the send panics.
SendEvent(e) ==
    \/ proc = "up" /\ Len(outCh) < Cap /\ outCh' = Append(outCh, e) /\ UNCHANGED proc
    \/ proc = "up" /\ Len(outCh) >= Cap /\ UNCHANGED <<proc, outCh>>
    \/ proc = "closed" /\ proc' = "panicked" /\ UNCHANGED outCh

(* executeTask *)

Start ==
    /\ Alive /\ task = "new"
    /\ task' = "running"
    /\ UNCHANGED <<reader, buf, seq, mine, outCh, proc, loop, wire, server>>

\* The command's next write meets Read(buf): a pipe has no buffer of its own.
Read(s) ==
    /\ Alive /\ task = "running" /\ reader[s] = "read" /\ buf[s] < Writes[s]
    /\ Set(buf, s, buf[s] + 1)
    /\ Set(reader, s, "seq")
    /\ UNCHANGED <<task, seq, mine, outCh, proc, loop, wire, server>>

\* Mutation of TakeSeq: the number is read and not advanced.
TakeSeqStale(s) ==
    /\ Alive /\ reader[s] = "seq"
    /\ Set(mine, s, seq)
    /\ Set(reader, s, "send")
    /\ UNCHANGED <<task, buf, seq, outCh, proc, loop, wire, server>>

\* sendOutput takes the next number under seqMu ...
TakeSeq(s) ==
    /\ Alive /\ reader[s] = "seq"
    /\ Set(mine, s, seq)
    /\ seq' = seq + 1
    /\ Set(reader, s, "send")
    /\ UNCHANGED <<task, buf, outCh, proc, loop, wire, server>>

\* ... and queues the slice after releasing it.
SendOutput(s) ==
    /\ Alive /\ reader[s] = "send"
    /\ SendEvent([kind |-> s, chunk |-> buf[s], seq |-> mine[s]])
    /\ Set(reader, s, "read")
    /\ UNCHANGED <<task, buf, seq, mine, loop, wire, server>>

\* The command ends by itself, by its timeout or by cancelTask; Wait returns
\* when its writes have been read, and both pipes are closed.
CommandEnds ==
    /\ Alive /\ task = "running"
    /\ task' = "closed"
    /\ UNCHANGED <<reader, buf, seq, mine, outCh, proc, loop, wire, server>>

Eof(s) ==
    /\ Alive /\ task = "closed" /\ reader[s] = "read"
    /\ Set(reader, s, "eof")
    /\ UNCHANGED <<task, buf, seq, mine, outCh, proc, loop, wire, server>>

\* Mutation of Finish: the result is sent without waiting for the readers.
FinishNoWait ==
    /\ Alive /\ task = "closed"
    /\ SendEvent(ResultEvent)
    /\ task' = "done"
    /\ UNCHANGED <<reader, buf, seq, mine, loop, wire, server>>

\* After wg.Wait the result follows.
Finish ==
    /\ Alive /\ task = "closed" /\ \A s \in Streams : reader[s] = "eof"
    /\ SendEvent(ResultEvent)
    /\ task' = "done"
    /\ UNCHANGED <<reader, buf, seq, mine, loop, wire, server>>

\* Heartbeats and other tasks share the queue.
OtherSend ==
    /\ Alive
    /\ SendEvent(OtherEvent)
    /\ UNCHANGED <<taskVars, loop, wire, server>>

(* The sessions of connectAndServe *)

\* A session is opened when the Recv of the one before has failed; its first
\* act is to queue a Register event.
Connect(i) ==
    /\ Alive /\ loop[i] = "off"
    /\ \A j \in Sessions : j < i => loop[j] \in {"cancelled", "exit"}
    /\ Set(loop, i, "on")
    /\ SendEvent(OtherEvent)
    /\ UNCHANGED <<taskVars, wire, server>>

\* Recv fails: the write loop is cancelled and may not notice at once.
RecvFails(i) ==
    /\ Alive /\ loop[i] = "on"
    /\ Set(loop, i, "cancelled")
    /\ UNCHANGED <<taskVars, outCh, proc, wire, server>>

\* The bytes that marshalling the event finds.
Marshal(e) ==
    [kind |-> e.kind, chunk |-> e.chunk, seq |-> e.seq,
     data |-> IF e.kind \in Streams THEN buf[e.kind] ELSE 0]

\* The write loop sends the next event; other people's are not followed.
WriteLoop(i) ==
    /\ Alive /\ loop[i] = "on" /\ outCh # <<>>
    /\ outCh' = Tail(outCh)
    /\ IF Head(outCh).kind = "other" THEN UNCHANGED wire
       ELSE Set(wire, i, Append(wire[i], Marshal(Head(outCh))))
    /\ UNCHANGED <<taskVars, proc, loop, server>>

\* Send fails, or the select of a cancelled loop picks the queue once more:
\* the event is lost and the loop ends.
WriteFails(i) ==
    /\ Alive /\ loop[i] \in {"on", "cancelled"} /\ outCh # <<>>
    /\ outCh' = Tail(outCh)
    /\ Set(loop, i, "exit")
    /\ UNCHANGED <<taskVars, proc, wire, server>>

\* A cancelled loop sees that its context is done.
LoopExits(i) ==
    /\ Alive /\ loop[i] = "cancelled"
    /\ Set(loop, i, "exit")
    /\ UNCHANGED <<taskVars, outCh, proc, wire, server>>

(* Shutdown of the agent *)

\* The context ends and the deferred Close closes outCh ...
Close ==
    /\ proc = "up"
    /\ proc' = "closed"
    /\ UNCHANGED <<taskVars, outCh, loop, wire, server>>

\* ... and Run returns.
Exit ==
    /\ proc = "closed"
    /\ proc' = "exited"
    /\ UNCHANGED <<taskVars, outCh, loop, wire, server>>

(* ConnectStream on the control plane: one handler per session *)

HandleEvent(i) ==
    /\ wire[i] # <<>>
    /\ LET e == Head(wire[i]) IN
          IF e.kind = "result" THEN result' = TRUE /\ UNCHANGED logs
                               ELSE logs' = Append(logs, e) /\ UNCHANGED result
    /\ Set(wire, i, Tail(wire[i]))
    /\ UNCHANGED <<taskVars, outCh, proc, loop>>

\* The stream's end discards what has not been handled.
StreamLost(i) ==
    /\ wire[i] # <<>>
    /\ loop[i] # "on" \/ ~Alive
    /\ Set(wire, i, <<>>)
    /\ UNCHANGED <<taskVars, outCh, proc, loop, server>>
-----------------------------------------------------------------------------
Reader(s) == Read(s) \/ TakeSeq(s) \/ SendOutput(s) \/ Eof(s)

Next ==
    \/ Start \/ CommandEnds \/ Finish \/ OtherSend \/ Close \/ Exit
    \/ \E s \in Streams : Reader(s)
    \/ \E i \in Sessions :
          \/ Connect(i) \/ RecvFails(i) \/ WriteLoop(i) \/ WriteFails(i)
          \/ LoopExits(i) \/ HandleEvent(i) \/ StreamLost(i)

Spec == Init /\ [][Next]_vars

\* The goroutines of the task run on and the command ends (its context has a
\* timeout).  Nothing is assumed of the link or of the control plane.
Fairness ==
    /\ WF_vars(Start) /\ WF_vars(CommandEnds) /\ WF_vars(Finish)
    /\ \A s \in Streams : WF_vars(Reader(s))

FairSpec == Spec /\ Fairness
-----------------------------------------------------------------------------
(* Safety *)

\* The outputs that have a number and are still on their way.
Held(s) == IF reader[s] = "send" THEN {mine[s]} ELSE {}

\* Two events of one sequence are the same event.
Distinct(q) ==
    \A i, j \in DOMAIN q : q[i].kind \in Streams /\ q[j].kind \in Streams
                           /\ q[i].seq = q[j].seq => i = j

\* A number stands for one chunk: a row of agent_command_logs never repeats
\* the seq of another row, of a chunk still queued or of one on the wire, and
\* no chunk is stored twice, however often the agent reconnects.
ChunkOnce ==
    /\ Distinct(logs)
    /\ \A r \in DOMAIN logs :
          /\ \A i \in DOMAIN outCh : outCh[i].kind \in Streams => outCh[i].seq # logs[r].seq
          /\ \A i \in Sessions : \A j \in DOMAIN wire[i] :
                wire[i][j].kind \in Streams => wire[i][j].seq # logs[r].seq
          /\ \A s \in Streams : logs[r].seq \notin Held(s)

\* Output of one stream, in a sequence of events, is in the order in which the
\* command wrote it.
Ordered(q) ==
    \A i, j \in DOMAIN q : q[i].kind \in Streams /\ q[i].kind = q[j].kind /\ i < j
                           => q[i].seq < q[j].seq /\ q[i].chunk < q[j].chunk

\* Within a session nothing overtakes: the queue and every wire carry a
\* stream's chunks in order.
StreamOrder == Ordered(outCh) /\ \A i \in Sessions : Ordered(wire[i])

\* However chunks are numbered under the lock and queued outside it, a number is stored
\* once and a stream's chunks travel in order (sendOutput, writeLoop, handleEvent).
OutputInOrder == ChunkOnce /\ StreamOrder

\* The result comes last: nothing of the task follows it in the queue or on
\* the wire, and no reader is still to send (wg.Wait in executeTask).
ResultLast ==
    /\ \A i, j \in DOMAIN outCh : i < j /\ outCh[i].kind = "result" => outCh[j].kind = "other"
    /\ \A k \in Sessions : \A i, j \in DOMAIN wire[k] :
          i < j => wire[k][i].kind # "result"
    /\ result \/ task = "done" => \A s \in Streams : reader[s] = "eof"
-----------------------------------------------------------------------------
(* The inductive invariant behind OutputInOrder and ResultLast *)

\* The numbers of the output that a sequence of events carries.
Nums(q) == {q[i].seq : i \in {j \in DOMAIN q : q[j].kind \in Streams}}

\* Every number in use was handed out.
Issued ==
    /\ Nums(outCh) \subseteq 0 .. (seq - 1) /\ Nums(logs) \subseteq 0 .. (seq - 1)
    /\ \A i \in Sessions : Nums(wire[i]) \subseteq 0 .. (seq - 1)
    /\ \A s \in Streams : Held(s) \subseteq 0 .. (seq - 1)

\* A number is in one place: with a reader, in the queue, on one wire or stored.
OnePlace ==
    /\ Distinct(outCh) /\ Distinct(logs) /\ \A i \in Sessions : Distinct(wire[i])
    /\ Nums(outCh) \cap Nums(logs) = {}
    /\ \A i \in Sessions : Nums(wire[i]) \cap (Nums(outCh) \cup Nums(logs)) = {}
    /\ \A i, j \in Sessions : i # j => Nums(wire[i]) \cap Nums(wire[j]) = {}
    /\ \A s \in Streams : /\ Held(s) \cap (Nums(outCh) \cup Nums(logs)) = {}
                          /\ \A i \in Sessions : Held(s) \cap Nums(wire[i]) = {}
                          /\ \A t \in Streams : s # t => Held(s) \cap Held(t) = {}

\* What q carries of a stream comes before what r carries of it.
Before(q, r) ==
    \A i \in DOMAIN q, j \in DOMAIN r : q[i].kind \in Streams /\ q[i].kind = r[j].kind
                                       => q[i].seq < r[j].seq /\ q[i].chunk < r[j].chunk

\* What q carries of a stream comes before what its reader still has in hand.
Behind(q) ==
    \A i \in DOMAIN q : q[i].kind \in Streams =>
        LET s == q[i].kind IN
        /\ q[i].chunk <= buf[s]
        /\ reader[s] \in {"seq", "send"} => q[i].chunk < buf[s]
        /\ reader[s] = "send" => q[i].seq < mine[s]

InOrder ==
    /\ Ordered(outCh) /\ Behind(outCh)
    /\ \A i \in Sessions : Ordered(wire[i]) /\ Before(wire[i], outCh) /\ Behind(wire[i])

Has(q, k) == \E i \in DOMAIN q : q[i].kind = k

\* The result exists only once the task is done, and wherever it has got to,
\* only other people's events are behind it.
ResultAlone ==
    /\ task = "done" => \A s \in Streams : reader[s] = "eof"
    /\ task # "done" => /\ ~Has(outCh, "result") /\ ~result
                        /\ \A i \in Sessions : ~Has(wire[i], "result")
    /\ \A i, j \in DOMAIN outCh : i < j /\ outCh[i].kind = "result" => outCh[j].kind = "other"
    /\ \A k \in Sessions :
          /\ \A i, j \in DOMAIN wire[k] : i < j => wire[k][i].kind # "result"
          /\ Has(wire[k], "result") => \A i \in DOMAIN outCh : outCh[i].kind = "other"

Inv == TypeOK /\ Issued /\ OnePlace /\ InOrder /\ ResultAlone
-----------------------------------------------------------------------------
(* Liveness *)

\* A dead link never blocks a task: whatever becomes of the sessions, a task
\* that was started ends, unless the agent itself does.
TaskConcludes == task = "running" ~> task = "done" \/ proc # "up"
=============================================================================
