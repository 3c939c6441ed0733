----------------------- MODULE CommandDispatchProofs -----------------------
(***************************************************************************)
(* Proofs about CommandDispatch, for any set of servers, keys and requests,*)
(* any queue capacities and any set of faults.                             *)
(***************************************************************************)
EXTENDS CommandDispatch, TLAPS

\* A family of queues keeps its type when an element is appended to one of
\* them, also when the index is not that of a queue.
LEMMA TypeAppend ==
    ASSUME NEW S, NEW E, NEW q \in [S -> Seq(E)], NEW x, NEW e \in E
    PROVE  [q EXCEPT ![x] = Append(@, e)] \in [S -> Seq(E)]
  <1>1. CASE x \in S
    BY <1>1
  <1>2. CASE x \notin S
    BY <1>2
  <1> QED
    BY <1>1, <1>2

\* Every variable keeps its type: in particular a row only ever holds a status
\* that the CHECK constraint of agent_commands allows.
THEOREM TypeCorrect == Spec => []TypeOK
  <1>1. Init => TypeOK
    BY ConstAssumption
    DEF Init, TypeOK, Stages, Statuses, TaskStates, Codes, Transports, Event
  <1>2. TypeOK /\ [Next]_vars => TypeOK'
    <2> SUFFICES ASSUME TypeOK, [Next]_vars PROVE TypeOK'
      OBVIOUS
    <2> USE DEF dispatchVars, rowVars, taskVars, agentVars
    <2>1. ASSUME NEW r \in Requests, NEW s \in Servers, NEW k \in Keys \cup {Nil},
                 Dispatch(r, s, k)
          PROVE TypeOK'
      BY <2>1 DEF TypeOK, Dispatch, Goto, Stages
    <2>2. ASSUME NEW r \in Requests, Create(r) PROVE TypeOK'
      BY <2>2 DEF TypeOK, Create, Goto, Stages, Statuses
    <2>3. ASSUME NEW r \in Requests, FindByIdempotencyKey(r) PROVE TypeOK'
      <3>1. pc' \in [Requests -> Stages]
        BY <2>3 DEF TypeOK, FindByIdempotencyKey, Goto, Stages
      <3>2. ret' \in [Requests -> Requests \cup {Nil}]
        BY <2>3 DEF TypeOK, FindByIdempotencyKey, HasKey
      <3> QED
        BY <2>3, <3>1, <3>2 DEF TypeOK, FindByIdempotencyKey
    <2>4. ASSUME NEW r \in Requests, SendToAgent(r) PROVE TypeOK'
      <3>1. pc' \in [Requests -> Stages]
        <4>1. pc' = [pc EXCEPT ![r] = "mark"] \/ pc' = [pc EXCEPT ![r] = "fail"]
          BY <2>4 DEF SendToAgent, Goto
        <4> QED
          BY <4>1 DEF TypeOK, Stages
      <3>2. sendCh' \in [Servers -> Seq(Requests)]
        <4>1. sendCh' = sendCh \/ sendCh' = [sendCh EXCEPT ![server[r]] = Append(@, r)]
          BY <2>4 DEF SendToAgent
        <4>2. CASE sendCh' = sendCh
          BY <4>2 DEF TypeOK
        <4>3. CASE sendCh' = [sendCh EXCEPT ![server[r]] = Append(@, r)]
          <5>1. sendCh \in [Servers -> Seq(Requests)]
            BY DEF TypeOK
          <5>2. [sendCh EXCEPT ![server[r]] = Append(@, r)] \in [Servers -> Seq(Requests)]
            BY <5>1, TypeAppend
          <5> QED
            BY <4>3, <5>2
        <4> QED
          BY <4>1, <4>2, <4>3
      <3>3. /\ runs' \in [Requests -> Nat]
            /\ tstate' \in [Requests -> TaskStates]
            /\ tcode' \in [Requests -> Codes \cup {Nil}]
            /\ via' \in [Requests -> Transports \cup {Nil}]
        <4>1. UNCHANGED taskVars \/ Begin(r, "ws")
          BY <2>4 DEF SendToAgent
        <4>2. CASE UNCHANGED taskVars
          BY <4>2 DEF TypeOK
        <4>3. CASE Begin(r, "ws")
          BY <4>3 DEF TypeOK, Begin, TaskStates, Transports
        <4> QED
          BY <4>1, <4>2, <4>3
      <3> QED
        BY <2>4, <3>1, <3>2, <3>3 DEF TypeOK, SendToAgent
    <2>5. ASSUME NEW r \in Requests, MarkFailed(r) PROVE TypeOK'
      BY <2>5 DEF TypeOK, MarkFailed, UpdateStatus, Goto, Stages, Statuses
    <2>6. ASSUME NEW r \in Requests, MarkRunning(r) PROVE TypeOK'
      BY <2>6 DEF TypeOK, MarkRunning, UpdateStatus, Goto, Stages, Statuses
    <2>7. ASSUME NEW c \in Requests, Cancel(c) PROVE TypeOK'
      BY <2>7 DEF TypeOK, Cancel
    <2>8. ASSUME NEW c \in Requests, TaskOutput(c) PROVE TypeOK'
      <3>1. outCh' \in [Servers -> Seq(Event)]
        <4> DEFINE event == [id |-> c, code |-> Nil]
        <4>1. event \in Event /\ outCh \in [Servers -> Seq(Event)]
          BY DEF TypeOK, Event
        <4>2. outCh' = [outCh EXCEPT ![server[c]] = Append(@, event)]
          BY <2>8 DEF TaskOutput
        <4> HIDE DEF event
        <4> QED
          BY <4>1, <4>2, TypeAppend
      <3> QED
        BY <2>8, <3>1 DEF TypeOK, TaskOutput
    <2>9. ASSUME NEW c \in Requests, HandleAgentMessage(c) PROVE TypeOK'
      <3>1. status' \in [Requests -> Statuses \cup {"absent"}]
        BY <2>9 DEF TypeOK, HandleAgentMessage, RecordResult, Statuses
      <3>2. exit' \in [Requests -> Codes \cup {Nil}]
        BY <2>9 DEF TypeOK, HandleAgentMessage, RecordResult
      <3>3. tstate' \in [Requests -> TaskStates]
        BY <2>9 DEF TypeOK, HandleAgentMessage, TaskStates
      <3> QED
        BY <2>9, <3>1, <3>2, <3>3 DEF TypeOK, HandleAgentMessage
    <2>10. ASSUME NEW c \in Requests, NEW code \in Codes, Finish(c, code) PROVE TypeOK'
      <3>1. outCh' \in [Servers -> Seq(Event)]
        <4> DEFINE event == [id |-> c, code |-> code]
        <4>1. event \in Event /\ outCh \in [Servers -> Seq(Event)]
          BY DEF TypeOK, Event
        <4>2. \/ outCh' = outCh
              \/ outCh' = [outCh EXCEPT ![server[c]] = Append(@, event)]
          BY <2>10 DEF Finish
        <4> HIDE DEF event
        <4>3. [outCh EXCEPT ![server[c]] = Append(@, event)] \in [Servers -> Seq(Event)]
          BY <4>1, TypeAppend
        <4> QED
          BY <4>1, <4>2, <4>3
      <3>2. /\ tstate' \in [Requests -> TaskStates]
            /\ tcode' \in [Requests -> Codes \cup {Nil}]
        BY <2>10 DEF TypeOK, Finish, TaskStates
      <3> QED
        BY <2>10, <3>1, <3>2 DEF TypeOK, Finish
    <2>11. ASSUME NEW s \in Servers, SendLoop(s) PROVE TypeOK'
      <3>1. Head(sendCh[s]) \in Requests /\ sendCh' \in [Servers -> Seq(Requests)]
        BY <2>11 DEF TypeOK, SendLoop
      <3>2. /\ runs' \in [Requests -> Nat]
            /\ tstate' \in [Requests -> TaskStates]
            /\ tcode' \in [Requests -> Codes \cup {Nil}]
            /\ via' \in [Requests -> Transports \cup {Nil}]
        BY <2>11, <3>1 DEF TypeOK, SendLoop, Begin, TaskStates, Transports
      <3> QED
        BY <2>11, <3>1, <3>2 DEF TypeOK, SendLoop
    <2>12. ASSUME NEW s \in Servers, SendLoopDrop(s) PROVE TypeOK'
      <3>1. sendCh' \in [Servers -> Seq(Requests)]
        BY <2>12 DEF TypeOK, SendLoopDrop
      <3> QED
        BY <2>12, <3>1 DEF TypeOK, SendLoopDrop
    <2>13. ASSUME NEW s \in Servers, AgentCrash(s) PROVE TypeOK'
      <3>1. /\ outCh' \in [Servers -> Seq(Event)]
            /\ sendCh' \in [Servers -> Seq(Requests)]
        BY <2>13 DEF TypeOK, AgentCrash
      <3>2. /\ tstate' \in [Requests -> TaskStates]
            /\ link' \in [Servers -> SUBSET Transports]
        BY <2>13 DEF TypeOK, AgentCrash, TaskStates
      <3> QED
        BY <2>13, <3>1, <3>2 DEF TypeOK, AgentCrash
    <2>14. ASSUME NEW s \in Servers, HandleEvent(s) PROVE TypeOK'
      <3>1. Head(outCh[s]) \in Event /\ outCh' \in [Servers -> Seq(Event)]
        BY <2>14 DEF TypeOK, HandleEvent
      <3>2. /\ status' \in [Requests -> Statuses \cup {"absent"}]
            /\ exit' \in [Requests -> Codes \cup {Nil}]
        BY <2>14, <3>1
        DEF TypeOK, HandleEvent, Event, RecordResult, SkillStatus, Statuses, Codes
      <3> QED
        BY <2>14, <3>1, <3>2 DEF TypeOK, HandleEvent
    <2>15. ASSUME NEW s \in Servers, LoseEvent(s) PROVE TypeOK'
      <3>1. outCh' \in [Servers -> Seq(Event)]
        BY <2>15 DEF TypeOK, LoseEvent
      <3> QED
        BY <2>15, <3>1 DEF TypeOK, LoseEvent
    <2>16. ASSUME NEW s \in Servers, NEW t \in Transports, Register(s, t) PROVE TypeOK'
      <3>1. sendCh' \in [Servers -> Seq(Requests)]
        BY <2>16 DEF TypeOK, Register
      <3>2. link' \in [Servers -> SUBSET Transports]
        BY <2>16 DEF TypeOK, Register
      <3> QED
        BY <2>16, <3>1, <3>2 DEF TypeOK, Register
    <2>17. ASSUME NEW s \in Servers, NEW t \in Transports, Unregister(s, t) PROVE TypeOK'
      <3>1. sendCh' \in [Servers -> Seq(Requests)]
        BY <2>17 DEF TypeOK, Unregister
      <3>2. link' \in [Servers -> SUBSET Transports]
        BY <2>17 DEF TypeOK, Unregister
      <3> QED
        BY <2>17, <3>1, <3>2 DEF TypeOK, Unregister
    <2>18. CASE UNCHANGED vars
      BY <2>18 DEF TypeOK, vars
    <2> QED
      BY <2>1, <2>2, <2>3, <2>4, <2>5, <2>6, <2>7, <2>8, <2>9, <2>10, <2>11, <2>12,
         <2>13, <2>14, <2>15, <2>16, <2>17, <2>18 DEF Next, DispatchStep
  <1> QED
    BY <1>1, <1>2, PTL DEF Spec

\* A command whose call has not handed it over is nowhere at the agent: it is
\* not queued, has not run, and so has neither a result nor a recorded one.
LEMMA NotSentYet ==
    ASSUME TypeOK, Inv, NEW r \in Requests, pc[r] \notin {"mark", "returned"}
    PROVE  /\ runs[r] = 0 /\ ~Queued(r)
           /\ tstate[r] = "none" /\ tcode[r] = Nil /\ exit[r] = Nil
  <1>1. ~(runs[r] > 0) /\ ~Queued(r)
    BY DEF Inv, HandOverInv
  <1>2. runs[r] \in Nat
    BY DEF TypeOK
  <1>3. runs[r] = 0
    BY <1>1, <1>2
  <1>4. tstate[r] = "none" /\ tcode[r] = Nil
    BY <1>3 DEF Inv, TaskInv
  <1>5. exit[r] = Nil
    BY <1>4 DEF Inv, ExitInv
  <1> QED
    BY <1>1, <1>3, <1>4, <1>5

\* An element of a queue is of the queue's type.
LEMMA EventFacts ==
    ASSUME TypeOK, NEW s \in Servers, NEW i \in 1..Len(outCh[s])
    PROVE  outCh[s][i] \in Event /\ outCh[s][i].id \in Requests
  <1>1. outCh[s] \in Seq(Event)
    BY DEF TypeOK
  <1>2. outCh[s][i] \in Event
    BY <1>1
  <1> QED
    BY <1>2 DEF Event

\* A command the agent has started has a row.
LEMMA StartedHasRow ==
    ASSUME TypeOK, Inv, NEW c \in Requests, tstate[c] # "none"
    PROVE  status[c] # "absent" /\ runs[c] = 1 /\ pc[c] \in {"mark", "returned"}
  <1>1. runs[c] \in Nat /\ runs[c] # 0 /\ runs[c] <= 1
    BY DEF TypeOK, Inv, TaskInv
  <1>2. runs[c] > 0 /\ runs[c] = 1
    BY <1>1
  <1> QED
    BY <1>2 DEF Inv, HandOverInv

\* The queued results stay in order when no queue changes and no task that
\* waits to be reported over gRPC does.
LEMMA OutFrame ==
    ASSUME TypeOK, OutInv, UNCHANGED outCh,
           \A c \in Requests : tstate[c] = "ended" /\ via[c] = "grpc" =>
               /\ server'[c] = server[c] /\ tstate'[c] = tstate[c]
               /\ via'[c] = via[c] /\ tcode'[c] = tcode[c] /\ exit'[c] = exit[c]
    PROVE  OutInv'
  BY EventFacts DEF OutInv

\* The command at the head of a gRPC queue is new to the agent.
LEMMA HeadIsNew ==
    ASSUME TypeOK, Inv, NEW s \in Servers, sendCh[s] # <<>>
    PROVE  /\ Head(sendCh[s]) \in Requests
           /\ Queued(Head(sendCh[s]))
           /\ LET c == Head(sendCh[s]) IN
                 /\ runs[c] = 0 /\ tstate[c] = "none"
                 /\ tcode[c] = Nil /\ exit[c] = Nil /\ status[c] # "SUCCESS"
  <1> DEFINE c == Head(sendCh[s])
  <1>1. c \in Requests /\ 1 \in 1..Len(sendCh[s]) /\ c = sendCh[s][1]
    BY DEF TypeOK
  <1> HIDE DEF c
  <1>2. runs[c] = 0 /\ Queued(c)
    BY <1>1 DEF Inv, HandOverInv, Queued
  <1>3. tstate[c] = "none" /\ tcode[c] = Nil
    BY <1>1, <1>2 DEF Inv, TaskInv
  <1>4. exit[c] = Nil /\ status[c] # "SUCCESS"
    BY <1>1, <1>3 DEF Inv, ExitInv
  <1> QED
    BY <1>1, <1>2, <1>3, <1>4 DEF c

\* A queue that stays, is emptied or loses its head.
Shrunk(q, p) == p = q \/ p = <<>> \/ (q # <<>> /\ p = Tail(q))

\* It keeps the order of what is left: its elements are the old ones, shifted
\* by nothing or by one.
LEMMA Shifted ==
    ASSUME NEW S, NEW q \in Seq(S), NEW p, Shrunk(q, p)
    PROVE  \E n \in {0, 1} : \A j \in 1..Len(p) :
              j \in Nat /\ j + n \in 1..Len(q) /\ p[j] = q[j + n]
  <1>1. CASE p = q
    BY <1>1
  <1>2. CASE p = <<>>
    BY <1>2
  <1>3. CASE q # <<>> /\ p = Tail(q)
    <2>1. Len(p) = Len(q) - 1 /\ \A j \in 1..Len(p) : p[j] = q[j + 1]
      BY <1>3
    <2> QED
      BY <2>1
  <1> QED
    BY <1>1, <1>2, <1>3 DEF Shrunk

\* A command is in no queue after the step.
Left(c) == \A q \in Servers : \A i \in 1..Len(sendCh'[q]) : sendCh'[q][i] # c

\* Commands leave the send queues, and only those that leave start to run.
LEMMA QueuesShrink ==
    ASSUME TypeOK, HandOverInv, UNCHANGED <<pc, status, server>>,
           \A q \in Servers : Shrunk(sendCh[q], sendCh'[q]),
           \A c \in Requests : runs'[c] = runs[c] \/ (Queued(c) /\ Left(c))
    PROVE  HandOverInv'
  <1>1. ASSUME NEW q \in Servers
        PROVE  \E n \in {0, 1} : \A j \in 1..Len(sendCh'[q]) :
                  /\ j \in Nat /\ j + n \in 1..Len(sendCh[q])
                  /\ sendCh'[q][j] = sendCh[q][j + n]
    <2>1. sendCh[q] \in Seq(Requests)
      BY DEF TypeOK
    <2> QED
      BY <2>1, Shifted
  <1>2. ASSUME NEW c \in Requests, Queued(c)' PROVE Queued(c)
    BY <1>1, <1>2 DEF Queued
  <1>3. ASSUME NEW c \in Requests, runs'[c] > 0 \/ Queued(c)'
        PROVE  pc'[c] \in {"mark", "returned"} /\ status'[c] # "absent"
    <2>1. runs[c] > 0 \/ Queued(c)
      BY <1>2, <1>3
    <2> QED
      BY <2>1 DEF HandOverInv
  <1>4. ASSUME NEW q \in Servers, NEW i \in 1..Len(sendCh'[q])
        PROVE  /\ server'[sendCh'[q][i]] = q
               /\ runs'[sendCh'[q][i]] = 0
               /\ \A j \in 1..Len(sendCh'[q]) : sendCh'[q][j] = sendCh'[q][i] => j = i
    <2>1. PICK n \in {0, 1} : \A j \in 1..Len(sendCh'[q]) :
                  /\ j \in Nat /\ j + n \in 1..Len(sendCh[q])
                  /\ sendCh'[q][j] = sendCh[q][j + n]
      BY <1>1
    <2>2. /\ server[sendCh[q][i + n]] = q /\ runs[sendCh[q][i + n]] = 0
          /\ \A j \in 1..Len(sendCh[q]) : sendCh[q][j] = sendCh[q][i + n] => j = i + n
      BY <2>1 DEF HandOverInv
    <2>3. sendCh'[q][i] \in Requests
      <3>1. sendCh[q] \in Seq(Requests)
        BY DEF TypeOK
      <3> QED
        BY <2>1, <3>1
    <2>4. ~Left(sendCh'[q][i])
      BY DEF Left
    <2>5. runs'[sendCh'[q][i]] = 0
      BY <2>1, <2>2, <2>3, <2>4
    <2>6. ASSUME NEW j \in 1..Len(sendCh'[q]), sendCh'[q][j] = sendCh'[q][i]
          PROVE  j = i
      <3>1. j + n = i + n
        BY <2>1, <2>2, <2>6
      <3> QED
        BY <2>1, <3>1
    <2> QED
      BY <2>1, <2>2, <2>5, <2>6
  <1> QED
    BY <1>3, <1>4 DEF HandOverInv

\* The invariant is inductive.
LEMMA InvStep == TypeOK /\ TypeOK' /\ Inv /\ [Next]_vars => Inv'
  <1> SUFFICES ASSUME TypeOK, TypeOK', Inv, [Next]_vars PROVE Inv'
    OBVIOUS
  <1> USE ConstAssumption DEF dispatchVars, rowVars, taskVars, agentVars
  <1>1. ASSUME NEW r \in Requests, NEW s \in Servers, NEW k \in Keys \cup {Nil},
               Dispatch(r, s, k)
         PROVE Inv'
    <2>1. RowsInv'
      BY <1>1 DEF TypeOK, Inv, RowsInv, Dispatch, Goto
    <2>2. HandOverInv'
      <3>1. runs[r] = 0 /\ ~Queued(r)
        BY <1>1, NotSentYet DEF Dispatch, TypeOK
      <3>2. \A c \in Requests : c # r => pc'[c] = pc[c] /\ server'[c] = server[c]
        BY <1>1 DEF TypeOK, Dispatch, Goto
      <3>3. UNCHANGED <<sendCh, runs, status>>
        BY <1>1 DEF Dispatch
      <3>4. \A q \in Servers : \A i \in 1..Len(sendCh[q]) :
               sendCh[q][i] \in Requests /\ sendCh[q][i] # r
        BY <3>1 DEF TypeOK, Queued
      <3>5. \A c \in Requests : Queued(c)' <=> Queued(c)
        BY <3>3 DEF Queued
      <3> QED
        BY <3>1, <3>2, <3>3, <3>4, <3>5 DEF Inv, HandOverInv
    <2>3. TaskInv'
      BY <1>1 DEF Inv, TaskInv, Dispatch
    <2>4. OutInv'
      <3>1. \A c \in Requests : tstate[c] = "ended" => c # r
        BY <1>1, NotSentYet DEF Dispatch
      <3> QED
        BY <1>1, <3>1 DEF TypeOK, Event, Inv, OutInv, Dispatch
    <2>5. ExitInv'
      BY <1>1 DEF TypeOK, Inv, ExitInv, Dispatch, Goto
    <2>6. RetInv'
      BY <1>1 DEF TypeOK, Inv, RetInv, RowsInv, Dispatch, Goto
    <2> QED
      BY <2>1, <2>2, <2>3, <2>4, <2>5, <2>6 DEF Inv
  <1>2. ASSUME NEW r \in Requests, Create(r) PROVE Inv'
    <2>1. RowsInv'
      <3>1. CASE HasKey(ikey[r]) = {}
        <4>1. \A d \in Requests : status[d] # "absent" => ikey[d] # ikey[r]
          BY <3>1 DEF HasKey
        <4>2. \A d \in Requests : status'[d] # "absent" => d = r \/ status[d] # "absent"
          BY <1>2 DEF TypeOK, Create
        <4>3. \A d \in Requests : d # r => pc'[d] = pc[d] /\ status'[d] = status[d]
          BY <1>2 DEF TypeOK, Create, Goto
        <4>4. \/ pc'[r] = "send" /\ status'[r] # "absent"
              \/ pc'[r] = "error"
          BY <1>2, <3>1 DEF TypeOK, Create, Goto
        <4>5. pc[r] = "create" /\ UNCHANGED <<server, ikey>>
          BY <1>2 DEF Create
        <4> QED
          BY <4>1, <4>2, <4>3, <4>4, <4>5 DEF Inv, RowsInv
      <3>2. CASE HasKey(ikey[r]) # {}
        BY <1>2, <3>2 DEF TypeOK, Inv, RowsInv, Create, Goto
      <3> QED
        BY <3>1, <3>2
    <2>2. HandOverInv'
      <3>1. \A c \in Requests : runs[c] > 0 \/ Queued(c) => c # r
        BY <1>2 DEF Inv, HandOverInv, Create
      <3>2. \A c \in Requests : Queued(c)' <=> Queued(c)
        BY <1>2 DEF Create, Queued
      <3>3. \A c \in Requests : c # r => status'[c] = status[c] /\ pc'[c] = pc[c]
        BY <1>2 DEF TypeOK, Create, Goto
      <3> QED
        BY <1>2, <3>1, <3>2, <3>3 DEF Inv, HandOverInv, Create
    <2>3. TaskInv'
      BY <1>2 DEF Inv, TaskInv, Create
    <2>4. OutInv'
      BY <1>2 DEF Inv, OutInv, Create
    <2>5. ExitInv'
      BY <1>2 DEF TypeOK, Inv, ExitInv, Create, Goto, HasKey
    <2>6. RetInv'
      BY <1>2 DEF TypeOK, Inv, RetInv, Create, Goto, HasKey
    <2> QED
      BY <2>1, <2>2, <2>3, <2>4, <2>5, <2>6 DEF Inv
  <1>3. ASSUME NEW r \in Requests, FindByIdempotencyKey(r) PROVE Inv'
    <2>1. RowsInv'
      BY <1>3 DEF TypeOK, Inv, RowsInv, FindByIdempotencyKey, Goto, HasKey
    <2>2. HandOverInv'
      <3>1. \A c \in Requests : runs[c] > 0 \/ Queued(c) => c # r
        BY <1>3 DEF Inv, HandOverInv, FindByIdempotencyKey
      <3>2. \A c \in Requests : Queued(c)' <=> Queued(c)
        BY <1>3 DEF FindByIdempotencyKey, Queued
      <3>3. \A c \in Requests : c # r => pc'[c] = pc[c]
        BY <1>3 DEF TypeOK, FindByIdempotencyKey, Goto
      <3> QED
        BY <1>3, <3>1, <3>2, <3>3 DEF Inv, HandOverInv, FindByIdempotencyKey
    <2>3. TaskInv'
      BY <1>3 DEF Inv, TaskInv, FindByIdempotencyKey
    <2>4. OutInv'
      BY <1>3 DEF Inv, OutInv, FindByIdempotencyKey
    <2>5. ExitInv'
      BY <1>3 DEF TypeOK, Inv, ExitInv, FindByIdempotencyKey, Goto, HasKey
    <2>6. RetInv'
      BY <1>3 DEF TypeOK, Inv, RetInv, FindByIdempotencyKey, Goto, HasKey
    <2> QED
      BY <2>1, <2>2, <2>3, <2>4, <2>5, <2>6 DEF Inv
  <1>4. ASSUME NEW r \in Requests, SendToAgent(r) PROVE Inv'
    <2>1. RowsInv'
      BY <1>4 DEF TypeOK, Inv, RowsInv, SendToAgent, Goto, Begin
    <2>2. HandOverInv'
      <3>1. runs[r] = 0 /\ ~Queued(r) /\ status[r] # "absent" /\ server[r] \in Servers
        <4>1. runs[r] = 0 /\ ~Queued(r)
          BY <1>4, NotSentYet DEF SendToAgent
        <4> QED
          BY <1>4, <4>1 DEF Inv, RowsInv, SendToAgent
      <3>2. \A c \in Requests : c # r => pc'[c] = pc[c] /\ runs'[c] = runs[c]
        BY <1>4 DEF TypeOK, SendToAgent, Goto, Begin
      <3>3. CASE /\ sendCh' = [sendCh EXCEPT ![server[r]] = Append(@, r)]
                 /\ Goto(r, "mark") /\ UNCHANGED taskVars
        <4>1. pc'[r] = "mark" /\ runs' = runs
          BY <3>3 DEF TypeOK, Goto
        <4>2. \A c \in Requests : Queued(c)' => c = r \/ Queued(c)
          BY <3>1, <3>3 DEF TypeOK, Queued
        <4>3. \A c \in Requests : runs'[c] > 0 \/ Queued(c)' =>
                 pc'[c] \in {"mark", "returned"} /\ status'[c] # "absent"
          BY <1>4, <3>1, <3>2, <4>1, <4>2 DEF Inv, HandOverInv, SendToAgent
        <4>4. ASSUME NEW q \in Servers, NEW i \in 1..Len(sendCh'[q])
              PROVE  /\ server'[sendCh'[q][i]] = q
                     /\ runs'[sendCh'[q][i]] = 0
                     /\ \A j \in 1..Len(sendCh'[q]) :
                           sendCh'[q][j] = sendCh'[q][i] => j = i
          <5>1. CASE q # server[r]
            BY <1>4, <3>1, <3>3, <4>1, <5>1 DEF TypeOK, Inv, HandOverInv, SendToAgent
          <5>2. CASE q = server[r]
            <6>1. /\ sendCh'[q] = Append(sendCh[q], r)
                  /\ sendCh[q] \in Seq(Requests)
                  /\ \A j \in 1..Len(sendCh[q]) : sendCh[q][j] # r
              BY <3>1, <3>3, <5>2 DEF TypeOK, Queued
            <6>2. /\ \A j \in 1..Len(sendCh'[q]) :
                        sendCh'[q][j] = IF j = Len(sendCh'[q]) THEN r ELSE sendCh[q][j]
                  /\ Len(sendCh'[q]) = Len(sendCh[q]) + 1
                  /\ Len(sendCh[q]) \in Nat
              BY <6>1
            <6>3. \A j \in 1..Len(sendCh'[q]) :
                    j # Len(sendCh'[q]) => j \in 1..Len(sendCh[q])
              BY <6>2
            <6>4. UNCHANGED <<server, runs>>
              BY <1>4, <4>1 DEF SendToAgent
            <6>5. \A j \in 1..Len(sendCh[q]) :
                    /\ server[sendCh[q][j]] = q /\ runs[sendCh[q][j]] = 0
                    /\ \A m \in 1..Len(sendCh[q]) : sendCh[q][m] = sendCh[q][j] => m = j
              BY DEF Inv, HandOverInv
            <6>6. CASE i = Len(sendCh'[q])
              BY <3>1, <5>2, <6>1, <6>2, <6>3, <6>4, <6>6
            <6>7. CASE i # Len(sendCh'[q])
              BY <6>1, <6>2, <6>3, <6>4, <6>5, <6>7
            <6> QED
              BY <6>6, <6>7
          <5> QED
            BY <5>1, <5>2
        <4> QED
          BY <4>3, <4>4 DEF HandOverInv
      <3>4. CASE sendCh' = sendCh
        <4>1. \A c \in Requests : Queued(c)' <=> Queued(c)
          BY <3>4 DEF Queued
        <4>2. runs'[r] > 0 => pc'[r] = "mark"
          BY <1>4, <3>1 DEF TypeOK, SendToAgent, Goto, Begin
        <4>3. \A q \in Servers : \A i \in 1..Len(sendCh[q]) : sendCh[q][i] \in Requests \ {r}
          BY <3>1 DEF TypeOK, Queued
        <4> QED
          BY <1>4, <3>1, <3>2, <3>4, <4>1, <4>2, <4>3 DEF Inv, HandOverInv, SendToAgent
      <3> QED
        BY <1>4, <3>3, <3>4 DEF SendToAgent
    <2>3. TaskInv'
      <3>1. runs[r] = 0
        BY <1>4, NotSentYet DEF SendToAgent
      <3>2. UNCHANGED taskVars \/ Begin(r, "ws")
        BY <1>4 DEF SendToAgent
      <3>3. CASE UNCHANGED taskVars
        BY <3>3 DEF Inv, TaskInv
      <3>4. CASE Begin(r, "ws")
        <4>1. /\ runs'[r] = 1 /\ tstate'[r] = "running"
              /\ tcode'[r] = Nil /\ via'[r] = "ws"
          BY <3>1, <3>4 DEF TypeOK, Begin
        <4>2. \A c \in Requests : c # r =>
                /\ runs'[c] = runs[c] /\ tstate'[c] = tstate[c]
                /\ tcode'[c] = tcode[c] /\ via'[c] = via[c]
          BY <3>4 DEF TypeOK, Begin
        <4> QED
          BY <4>1, <4>2 DEF Inv, TaskInv
      <3> QED
        BY <3>2, <3>3, <3>4
    <2>4. OutInv'
      <3>1. runs[r] = 0 /\ tstate[r] = "none"
        BY <1>4, NotSentYet DEF SendToAgent
      <3>2. UNCHANGED taskVars \/ Begin(r, "ws")
        BY <1>4 DEF SendToAgent
      <3>3. \A c \in Requests : c # r =>
              tstate'[c] = tstate[c] /\ via'[c] = via[c] /\ tcode'[c] = tcode[c]
        BY <3>2 DEF TypeOK, Begin
      <3>4. UNCHANGED <<outCh, server, exit>>
        BY <1>4 DEF SendToAgent
      <3> QED
        BY <3>1, <3>3, <3>4, OutFrame DEF Inv
    <2>5. ExitInv'
      <3>1. runs[r] = 0 /\ tcode[r] = Nil
        BY <1>4, NotSentYet DEF SendToAgent
      <3>2. UNCHANGED taskVars \/ Begin(r, "ws")
        BY <1>4 DEF SendToAgent
      <3>3. UNCHANGED <<status, exit>> /\ (\A c \in Requests : c # r => pc'[c] = pc[c])
        BY <1>4 DEF TypeOK, SendToAgent, Goto
      <3>4. exit[r] = Nil /\ status[r] \notin {"SUCCESS", "FAILED"}
        BY <1>4, <3>1 DEF Inv, ExitInv, SendToAgent
      <3>5. \A c \in Requests : c # r =>
              tstate'[c] = tstate[c] /\ via'[c] = via[c] /\ tcode'[c] = tcode[c]
        BY <3>2 DEF TypeOK, Begin
      <3> QED
        BY <3>3, <3>4, <3>5 DEF Inv, ExitInv
    <2>6. RetInv'
      BY <1>4 DEF TypeOK, Inv, RetInv, SendToAgent, Goto, Begin
    <2> QED
      BY <2>1, <2>2, <2>3, <2>4, <2>5, <2>6 DEF Inv
  <1>5. ASSUME NEW r \in Requests, MarkFailed(r) PROVE Inv'
    <2>1. RowsInv'
      <3>1. \A c \in Requests : status'[c] # "absent" <=> status[c] # "absent"
        BY <1>5 DEF TypeOK, Inv, RowsInv, MarkFailed, UpdateStatus
      <3> QED
        BY <1>5, <3>1 DEF TypeOK, Inv, RowsInv, MarkFailed, Goto
    <2>2. HandOverInv'
      BY <1>5 DEF TypeOK, Inv, HandOverInv, Queued, MarkFailed, UpdateStatus, Goto
    <2>3. TaskInv'
      BY <1>5 DEF Inv, TaskInv, MarkFailed
    <2>4. OutInv'
      BY <1>5 DEF Inv, OutInv, MarkFailed
    <2>5. ExitInv'
      BY <1>5 DEF TypeOK, Inv, ExitInv, MarkFailed, UpdateStatus, Goto
    <2>6. RetInv'
      BY <1>5 DEF TypeOK, Inv, RetInv, MarkFailed, UpdateStatus, Goto
    <2> QED
      BY <2>1, <2>2, <2>3, <2>4, <2>5, <2>6 DEF Inv
  <1>6. ASSUME NEW r \in Requests, MarkRunning(r) PROVE Inv'
    <2>1. RowsInv'
      <3>1. \A c \in Requests : status'[c] # "absent" <=> status[c] # "absent"
        BY <1>6 DEF TypeOK, Inv, RowsInv, MarkRunning, UpdateStatus
      <3> QED
        BY <1>6, <3>1 DEF TypeOK, Inv, RowsInv, MarkRunning, Goto
    <2>2. HandOverInv'
      BY <1>6 DEF TypeOK, Inv, HandOverInv, Queued, MarkRunning, UpdateStatus, Goto
    <2>3. TaskInv'
      BY <1>6 DEF Inv, TaskInv, MarkRunning
    <2>4. OutInv'
      BY <1>6 DEF Inv, OutInv, MarkRunning
    <2>5. ExitInv'
      BY <1>6 DEF TypeOK, Inv, ExitInv, MarkRunning, UpdateStatus, Goto
    <2>6. RetInv'
      <3>1. /\ \A c \in Requests : status[c] # "absent" => status'[c] # "absent"
            /\ status'[r] # "absent"
        BY <1>6 DEF TypeOK, Inv, RowsInv, MarkRunning, UpdateStatus
      <3> QED
        BY <1>6, <3>1 DEF TypeOK, Inv, RetInv, MarkRunning, Goto
    <2> QED
      BY <2>1, <2>2, <2>3, <2>4, <2>5, <2>6 DEF Inv
  <1>7. ASSUME NEW c \in Requests, Cancel(c) PROVE Inv'
    <2>1. RowsInv'
      BY <1>7 DEF Inv, RowsInv, Cancel
    <2>2. HandOverInv'
      BY <1>7 DEF Inv, HandOverInv, Queued, Cancel
    <2>3. TaskInv'
      BY <1>7 DEF Inv, TaskInv, Cancel
    <2>4. OutInv'
      BY <1>7 DEF Inv, OutInv, Cancel
    <2>5. ExitInv'
      BY <1>7 DEF Inv, ExitInv, Cancel
    <2>6. RetInv'
      BY <1>7 DEF Inv, RetInv, Cancel
    <2> QED
      BY <2>1, <2>2, <2>3, <2>4, <2>5, <2>6 DEF Inv
  <1>8. ASSUME NEW c \in Requests, TaskOutput(c) PROVE Inv'
    <2>1. RowsInv'
      BY <1>8 DEF Inv, RowsInv, TaskOutput
    <2>2. HandOverInv'
      BY <1>8 DEF Inv, HandOverInv, Queued, TaskOutput
    <2>3. TaskInv'
      BY <1>8 DEF Inv, TaskInv, TaskOutput
    <2>4. OutInv'
      BY <1>8 DEF TypeOK, Inv, OutInv, TaskOutput
    <2>5. ExitInv'
      BY <1>8 DEF Inv, ExitInv, TaskOutput
    <2>6. RetInv'
      BY <1>8 DEF Inv, RetInv, TaskOutput
    <2> QED
      BY <2>1, <2>2, <2>3, <2>4, <2>5, <2>6 DEF Inv
  <1>9. ASSUME NEW c \in Requests, HandleAgentMessage(c) PROVE Inv'
    <2>1. RowsInv'
      <3>1. status[c] # "absent"
        BY <1>9 DEF TypeOK, Inv, HandOverInv, TaskInv, HandleAgentMessage
      <3>2. \A d \in Requests : status'[d] # "absent" <=> status[d] # "absent"
        BY <1>9, <3>1 DEF TypeOK, HandleAgentMessage, RecordResult
      <3> QED
        BY <1>9, <3>2 DEF Inv, RowsInv, HandleAgentMessage
    <2>2. HandOverInv'
      BY <1>9 DEF TypeOK, Inv, HandOverInv, Queued, HandleAgentMessage, RecordResult
    <2>3. TaskInv'
      BY <1>9 DEF TypeOK, Inv, TaskInv, HandleAgentMessage, RecordResult
    <2>4. OutInv'
      <3>1. \A d \in Requests : d # c => exit'[d] = exit[d] /\ tstate'[d] = tstate[d]
        BY <1>9 DEF TypeOK, HandleAgentMessage, RecordResult
      <3>2. UNCHANGED <<outCh, server, tcode, via>> /\ via[c] = "ws"
        BY <1>9 DEF HandleAgentMessage
      <3> QED
        BY <3>1, <3>2, OutFrame DEF Inv
    <2>5. ExitInv'
      <3>1. \A d \in Requests : d # c =>
              exit'[d] = exit[d] /\ tstate'[d] = tstate[d] /\ status'[d] = status[d]
        BY <1>9 DEF TypeOK, HandleAgentMessage, RecordResult
      <3>2. /\ UNCHANGED <<pc, tcode, via>>
            /\ via[c] = "ws" /\ tstate'[c] = "reported"
        BY <1>9 DEF TypeOK, HandleAgentMessage
      <3>3. \/ exit'[c] = tcode[c] /\ status'[c] \in {"SUCCESS", "FAILED"}
            \/ exit'[c] = exit[c] /\ status'[c] = status[c]
        BY <1>9 DEF TypeOK, HandleAgentMessage, RecordResult
      <3>4. tcode[c] # Nil
        BY <1>9 DEF Inv, TaskInv, HandleAgentMessage
      <3> QED
        BY <3>1, <3>2, <3>3, <3>4 DEF Inv, ExitInv
    <2>6. RetInv'
      BY <1>9 DEF TypeOK, Inv, RetInv, HandleAgentMessage, RecordResult
    <2> QED
      BY <2>1, <2>2, <2>3, <2>4, <2>5, <2>6 DEF Inv
  <1>10. ASSUME NEW c \in Requests, NEW code \in Codes, Finish(c, code) PROVE Inv'
    <2>1. RowsInv'
      BY <1>10 DEF Inv, RowsInv, Finish
    <2>2. HandOverInv'
      BY <1>10 DEF Inv, HandOverInv, Queued, Finish
    <2>3. TaskInv'
      <3>1. /\ tcode'[c] = code /\ tstate'[c] \in {"ended", "dropped"}
            /\ \A d \in Requests : d # c => tcode'[d] = tcode[d] /\ tstate'[d] = tstate[d]
        BY <1>10 DEF TypeOK, Finish
      <3>2. code # Nil /\ tstate[c] = "running" /\ UNCHANGED runs
        BY <1>10 DEF Finish, Codes
      <3> QED
        BY <3>1, <3>2 DEF Inv, TaskInv
    <2>4. OutInv'
      <3>1. \A d \in Requests : d # c => tcode'[d] = tcode[d] /\ tstate'[d] = tstate[d]
        BY <1>10 DEF TypeOK, Finish
      <3>2. tstate[c] = "running" /\ UNCHANGED <<server, via, exit>>
        BY <1>10 DEF Finish
      <3>3. CASE UNCHANGED outCh
        BY <3>1, <3>2, <3>3, OutFrame DEF Inv
      <3>4. CASE /\ outCh' = [outCh EXCEPT ![server[c]] = Append(@, [id |-> c, code |-> code])]
                 /\ via[c] = "grpc" /\ tstate' = [tstate EXCEPT ![c] = "ended"]
        <4> DEFINE event == [id |-> c, code |-> code]
        <4>1. event.id = c /\ event.code = code /\ event \in Event
          BY DEF Event
        <4>2. server[c] \in Servers /\ exit[c] = Nil /\ tcode[c] = Nil
          <5>1. pc[c] # "idle" /\ tcode[c] = Nil
            BY <3>2, StartedHasRow DEF Inv, TaskInv
          <5> QED
            BY <5>1 DEF Inv, RowsInv, ExitInv
        <4>3. tcode'[c] = code /\ tstate'[c] = "ended"
          BY <1>10, <3>4 DEF TypeOK, Finish
        <4>4. outCh' = [outCh EXCEPT ![server[c]] = Append(@, event)]
          BY <3>4
        <4> HIDE DEF event
        <4>5. ASSUME NEW q \in Servers, NEW i \in 1..Len(outCh[q]), outCh[q][i].code # Nil
              PROVE  outCh[q][i].id # c
          BY <3>2, <4>5 DEF Inv, OutInv
        <4>6. ASSUME NEW q \in Servers, NEW i \in 1..Len(outCh'[q]), outCh'[q][i].code # Nil
              PROVE  LET d == outCh'[q][i].id IN
                     /\ server'[d] = q
                     /\ tstate'[d] = "ended" /\ via'[d] = "grpc"
                     /\ tcode'[d] = outCh'[q][i].code
                     /\ exit'[d] = Nil
                     /\ \A j \in 1..Len(outCh'[q]) :
                           outCh'[q][j].id = d /\ outCh'[q][j].code # Nil => j = i
          <5>1. ASSUME NEW j \in 1..Len(outCh[q]), outCh[q][j].code # Nil
                PROVE  LET d == outCh[q][j].id IN
                       /\ d \in Requests /\ d # c
                       /\ server'[d] = q
                       /\ tstate'[d] = "ended" /\ via'[d] = "grpc"
                       /\ tcode'[d] = outCh[q][j].code
                       /\ exit'[d] = Nil
                       /\ \A m \in 1..Len(outCh[q]) :
                             outCh[q][m].id = d /\ outCh[q][m].code # Nil => m = j
            BY <3>1, <3>2, <4>5, <5>1, EventFacts DEF Inv, OutInv
          <5>2. CASE q # server[c]
            <6>1. outCh'[q] = outCh[q]
              BY <4>4, <5>2 DEF TypeOK
            <6> QED
              BY <4>6, <5>1, <6>1
          <5>3. CASE q = server[c]
            <6>1. outCh'[q] = Append(outCh[q], event) /\ outCh[q] \in Seq(Event)
              BY <4>4, <5>3 DEF TypeOK
            <6>2. /\ Len(outCh[q]) \in Nat /\ Len(outCh'[q]) = Len(outCh[q]) + 1
                  /\ outCh'[q][Len(outCh'[q])] = event
                  /\ \A j \in 1..Len(outCh[q]) : outCh'[q][j] = outCh[q][j]
              BY <4>1, <6>1
            <6>3. \A j \in 1..Len(outCh'[q]) :
                    j # Len(outCh'[q]) => j \in 1..Len(outCh[q])
              BY <6>2
            <6>4. CASE i = Len(outCh'[q])
              <7>1. outCh'[q][i].id = c /\ outCh'[q][i].code = code
                BY <4>1, <6>2, <6>4
              <7>2. /\ server'[c] = q /\ tstate'[c] = "ended" /\ via'[c] = "grpc"
                    /\ tcode'[c] = code /\ exit'[c] = Nil
                BY <3>2, <3>4, <4>2, <4>3, <5>3
              <7>3. ASSUME NEW j \in 1..Len(outCh'[q]), outCh'[q][j].id = c,
                           outCh'[q][j].code # Nil
                    PROVE  j = i
                BY <4>5, <6>2, <6>3, <6>4, <7>3
              <7> QED
                BY <7>1, <7>2, <7>3
            <6>5. CASE i # Len(outCh'[q])
              <7>1. i \in 1..Len(outCh[q]) /\ outCh'[q][i] = outCh[q][i]
                BY <6>2, <6>3, <6>5
              <7>2. ASSUME NEW j \in 1..Len(outCh'[q]),
                           outCh'[q][j].id = outCh'[q][i].id, outCh'[q][j].code # Nil
                    PROVE  j \in 1..Len(outCh[q]) /\ outCh'[q][j] = outCh[q][j]
                <8>1. outCh[q][i].id # c
                  BY <4>5, <4>6, <7>1
                <8> QED
                  BY <4>1, <6>2, <6>3, <7>1, <7>2, <8>1
              <7>3. ASSUME NEW j \in 1..Len(outCh'[q]),
                           outCh'[q][j].id = outCh'[q][i].id, outCh'[q][j].code # Nil
                    PROVE  j = i
                BY <4>6, <5>1, <7>1, <7>2, <7>3
              <7> QED
                BY <4>6, <5>1, <7>1, <7>3
            <6> QED
              BY <6>4, <6>5
          <5> QED
            BY <5>2, <5>3
        <4> QED
          BY <4>6 DEF OutInv
      <3> QED
        BY <1>10, <3>3, <3>4 DEF Finish
    <2>5. ExitInv'
      <3>1. \A d \in Requests : d # c => tcode'[d] = tcode[d] /\ tstate'[d] = tstate[d]
        BY <1>10 DEF TypeOK, Finish
      <3>2. tstate[c] = "running" /\ UNCHANGED <<pc, status, via, exit>>
        BY <1>10 DEF Finish
      <3>3. exit[c] = Nil
        BY <3>2 DEF Inv, TaskInv, ExitInv
      <3> QED
        BY <3>1, <3>2, <3>3 DEF Inv, ExitInv
    <2>6. RetInv'
      BY <1>10 DEF Inv, RetInv, Finish
    <2> QED
      BY <2>1, <2>2, <2>3, <2>4, <2>5, <2>6 DEF Inv
  <1>11. ASSUME NEW s \in Servers, SendLoop(s) PROVE Inv'
    <2> DEFINE c == Head(sendCh[s])
    <2>a. /\ c \in Requests /\ runs[c] = 0 /\ tstate[c] = "none"
          /\ tcode[c] = Nil /\ exit[c] = Nil /\ status[c] # "SUCCESS"
      BY <1>11, HeadIsNew DEF SendLoop
    <2>x. Begin(c, "grpc")
      BY <1>11 DEF SendLoop
    <2> HIDE DEF c
    <2>b. /\ runs'[c] = 1 /\ tstate'[c] = "running"
          /\ tcode'[c] = Nil /\ via'[c] = "grpc"
      BY <2>a, <2>x DEF TypeOK, Begin
    <2>c. \A d \in Requests : d # c =>
            /\ runs'[d] = runs[d] /\ tstate'[d] = tstate[d]
            /\ tcode'[d] = tcode[d] /\ via'[d] = via[d]
      BY <2>a, <2>x DEF TypeOK, Begin
    <2>1. RowsInv'
      BY <1>11 DEF Inv, RowsInv, SendLoop
    <2>2. HandOverInv'
      <3>1. Left(Head(sendCh[s]))
        <4>1. ASSUME NEW q \in Servers, NEW i \in 1..Len(sendCh'[q]),
                     sendCh'[q][i] = Head(sendCh[s])
              PROVE  FALSE
          <5>1. sendCh[s] \in Seq(Requests) /\ sendCh[s] # <<>> /\ sendCh'[s] = Tail(sendCh[s])
            BY <1>11 DEF TypeOK, SendLoop
          <5>2. 1 \in 1..Len(sendCh[s]) /\ Head(sendCh[s]) = sendCh[s][1]
            BY <5>1
          <5>3. CASE q = s
            <6>a. /\ Len(sendCh'[s]) = Len(sendCh[s]) - 1 /\ Len(sendCh[s]) \in Nat
                  /\ \A j \in 1..Len(sendCh'[s]) : sendCh'[s][j] = sendCh[s][j + 1]
              BY <5>1
            <6>1. i + 1 \in 1..Len(sendCh[s]) /\ sendCh'[s][i] = sendCh[s][i + 1]
              BY <5>3, <6>a
            <6>2. i + 1 = 1
              BY <1>11, <4>1, <5>2, <5>3, <6>1 DEF Inv, HandOverInv
            <6> QED
              BY <5>3, <6>a, <6>2
          <5>4. CASE q # s
            <6>1. sendCh'[q] = sendCh[q]
              BY <1>11, <5>4 DEF TypeOK, SendLoop
            <6> QED
              BY <4>1, <5>2, <5>4, <6>1 DEF Inv, HandOverInv
          <5> QED
            BY <5>3, <5>4
        <4> QED
          BY <4>1 DEF Left
      <3>2. \A d \in Requests : d # Head(sendCh[s]) => runs'[d] = runs[d]
        BY <1>11 DEF TypeOK, SendLoop, Begin
      <3>3. Queued(Head(sendCh[s]))
        BY <1>11, HeadIsNew DEF SendLoop
      <3>4. \A q \in Servers : Shrunk(sendCh[q], sendCh'[q])
        BY <1>11 DEF TypeOK, SendLoop, Shrunk
      <3>5. UNCHANGED <<pc, status, server>>
        BY <1>11 DEF SendLoop
      <3> QED
        BY <3>1, <3>2, <3>3, <3>4, <3>5, QueuesShrink DEF Inv
    <2>3. TaskInv'
      BY <2>a, <2>b, <2>c DEF Inv, TaskInv
    <2>4. OutInv'
      <3>1. UNCHANGED <<outCh, server, exit>>
        BY <1>11 DEF SendLoop
      <3> QED
        BY <2>a, <2>c, <3>1, OutFrame DEF Inv
    <2>5. ExitInv'
      <3>1. UNCHANGED <<pc, status, exit>>
        BY <1>11 DEF SendLoop
      <3> QED
        BY <2>a, <2>b, <2>c, <3>1 DEF Inv, ExitInv
    <2>6. RetInv'
      BY <1>11 DEF Inv, RetInv, SendLoop
    <2> QED
      BY <2>1, <2>2, <2>3, <2>4, <2>5, <2>6 DEF Inv
  <1>12. ASSUME NEW s \in Servers, SendLoopDrop(s) PROVE Inv'
    <2>1. RowsInv'
      BY <1>12 DEF Inv, RowsInv, SendLoopDrop
    <2>2. HandOverInv'
      <3>1. \A q \in Servers : Shrunk(sendCh[q], sendCh'[q])
        BY <1>12 DEF TypeOK, SendLoopDrop, Shrunk
      <3>2. UNCHANGED <<pc, status, server>>
        BY <1>12 DEF SendLoopDrop
      <3>3. \A c \in Requests : runs'[c] = runs[c]
        BY <1>12 DEF SendLoopDrop
      <3> QED
        BY <3>1, <3>2, <3>3, QueuesShrink DEF Inv
    <2>3. TaskInv'
      BY <1>12 DEF Inv, TaskInv, SendLoopDrop
    <2>4. OutInv'
      BY <1>12 DEF Inv, OutInv, SendLoopDrop
    <2>5. ExitInv'
      BY <1>12 DEF Inv, ExitInv, SendLoopDrop
    <2>6. RetInv'
      BY <1>12 DEF Inv, RetInv, SendLoopDrop
    <2> QED
      BY <2>1, <2>2, <2>3, <2>4, <2>5, <2>6 DEF Inv
  <1>13. ASSUME NEW s \in Servers, AgentCrash(s) PROVE Inv'
    <2>1. RowsInv'
      BY <1>13 DEF Inv, RowsInv, AgentCrash
    <2>2. HandOverInv'
      <3>1. \A q \in Servers : Shrunk(sendCh[q], sendCh'[q])
        BY <1>13 DEF TypeOK, AgentCrash, Shrunk
      <3>2. UNCHANGED <<pc, status, server>>
        BY <1>13 DEF AgentCrash
      <3>3. \A c \in Requests : runs'[c] = runs[c]
        BY <1>13 DEF AgentCrash
      <3> QED
        BY <3>1, <3>2, <3>3, QueuesShrink DEF Inv
    <2>3. TaskInv'
      BY <1>13 DEF TypeOK, Inv, TaskInv, AgentCrash
    <2>4. OutInv'
      <3>1. \A d \in Requests : tstate[d] = "ended" => tstate'[d] = tstate[d]
        BY <1>13 DEF AgentCrash
      <3>2. UNCHANGED <<server, tcode, via, exit>>
        BY <1>13 DEF AgentCrash
      <3>3. \A q \in Servers : q # s => outCh'[q] = outCh[q]
        BY <1>13 DEF TypeOK, AgentCrash
      <3>4. Len(outCh'[s]) = 0
        BY <1>13 DEF TypeOK, AgentCrash
      <3>5. ASSUME NEW q \in Servers, NEW i \in 1..Len(outCh'[q]) PROVE q # s
        BY <3>4, <3>5
      <3> QED
        BY <3>1, <3>2, <3>3, <3>5, EventFacts DEF Inv, OutInv
    <2>5. ExitInv'
      BY <1>13 DEF TypeOK, Inv, ExitInv, AgentCrash
    <2>6. RetInv'
      BY <1>13 DEF Inv, RetInv, AgentCrash
    <2> QED
      BY <2>1, <2>2, <2>3, <2>4, <2>5, <2>6 DEF Inv
  <1>14. ASSUME NEW s \in Servers, HandleEvent(s) PROVE Inv'
    <2> DEFINE e == Head(outCh[s])
    <2>x. /\ e = outCh[s][1] /\ 1 \in 1..Len(outCh[s])
          /\ outCh[s] \in Seq(Event) /\ outCh'[s] = Tail(outCh[s])
      BY <1>14 DEF TypeOK, HandleEvent
    <2>y. IF e.code = Nil THEN UNCHANGED rowVars
                          ELSE RecordResult(e.id, SkillStatus(e.code), e.code)
      BY <1>14 DEF HandleEvent
    <2> HIDE DEF e
    <2>a. /\ e.id \in Requests
          /\ e.code # Nil =>
               /\ status[e.id] # "absent" /\ exit[e.id] = Nil
               /\ tstate[e.id] = "ended" /\ via[e.id] = "grpc" /\ tcode[e.id] = e.code
      <3>1. e.id \in Requests
        BY <2>x, EventFacts
      <3>2. CASE e.code # Nil
        <4>1. /\ exit[e.id] = Nil /\ tstate[e.id] = "ended"
              /\ via[e.id] = "grpc" /\ tcode[e.id] = e.code
          BY <2>x, <3>2 DEF Inv, OutInv
        <4>2. status[e.id] # "absent"
          BY <3>1, <4>1, StartedHasRow
        <4> QED
          BY <3>1, <4>1, <4>2
      <3> QED
        BY <3>1, <3>2
    <2>b. \A d \in Requests : e.code = Nil \/ d # e.id =>
            status'[d] = status[d] /\ exit'[d] = exit[d]
      BY <2>y DEF TypeOK, RecordResult
    <2>c. e.code # Nil =>
            /\ status'[e.id] = (IF e.code = 0 THEN "SUCCESS" ELSE "FAILED")
            /\ exit'[e.id] = e.code
      BY <2>a, <2>y DEF TypeOK, RecordResult, SkillStatus
    <2>1. RowsInv'
      <3>1. \A d \in Requests : status'[d] # "absent" <=> status[d] # "absent"
        BY <2>a, <2>b, <2>c
      <3>2. UNCHANGED <<pc, server, ikey>>
        BY <1>14 DEF HandleEvent
      <3> QED
        BY <3>1, <3>2 DEF Inv, RowsInv
    <2>2. HandOverInv'
      <3>1. \A d \in Requests : status[d] # "absent" => status'[d] # "absent"
        BY <2>a, <2>b, <2>c
      <3>2. UNCHANGED <<pc, server, sendCh, runs>>
        BY <1>14 DEF HandleEvent
      <3>3. \A d \in Requests : Queued(d)' <=> Queued(d)
        BY <3>2 DEF Queued
      <3> QED
        BY <3>1, <3>2, <3>3 DEF Inv, HandOverInv
    <2>3. TaskInv'
      BY <1>14 DEF Inv, TaskInv, HandleEvent
    <2>4. OutInv'
      <3>1. UNCHANGED <<server, tstate, via, tcode>>
        BY <1>14 DEF HandleEvent
      <3>2. \A q \in Servers : q # s => outCh'[q] = outCh[q]
        BY <1>14 DEF TypeOK, HandleEvent
      <3>3. /\ Len(outCh[s]) \in Nat /\ Len(outCh'[s]) = Len(outCh[s]) - 1
            /\ \A i \in 1..Len(outCh'[s]) : outCh'[s][i] = outCh[s][i + 1]
        BY <2>x
      <3>4. \A i \in 1..Len(outCh'[s]) : i + 1 \in 1..Len(outCh[s]) /\ i + 1 # 1
        BY <3>3
      <3>5. ASSUME NEW q \in Servers, NEW i \in 1..Len(outCh[q]), outCh[q][i].code # Nil,
                   ~(q = s /\ i = 1)
            PROVE  LET d == outCh[q][i].id IN
                   /\ server'[d] = q
                   /\ tstate'[d] = "ended" /\ via'[d] = "grpc"
                   /\ tcode'[d] = outCh[q][i].code
                   /\ exit'[d] = Nil
                   /\ \A j \in 1..Len(outCh[q]) :
                         outCh[q][j].id = d /\ outCh[q][j].code # Nil => j = i
        <4> DEFINE d == outCh[q][i].id
        <4>1. /\ server[d] = q /\ tstate[d] = "ended" /\ via[d] = "grpc"
              /\ tcode[d] = outCh[q][i].code /\ exit[d] = Nil
              /\ \A j \in 1..Len(outCh[q]) :
                    outCh[q][j].id = d /\ outCh[q][j].code # Nil => j = i
          BY <3>5 DEF Inv, OutInv
        <4>2. d \in Requests
          BY EventFacts
        <4>3. e.code = Nil \/ d # e.id
          <5>1. CASE e.code # Nil /\ q # s
            <6>1. server[e.id] = s
              BY <2>x, <5>1 DEF Inv, OutInv
            <6> QED
              BY <4>1, <5>1, <6>1
          <5>2. CASE e.code # Nil /\ q = s
            BY <2>x, <3>5, <4>1, <5>2
          <5> QED
            BY <5>1, <5>2
        <4> HIDE DEF d
        <4>4. exit'[d] = Nil
          BY <2>b, <4>1, <4>2, <4>3
        <4> QED
          BY <3>1, <4>1, <4>4 DEF d
      <3>6. ASSUME NEW q \in Servers, NEW i \in 1..Len(outCh'[q]), outCh'[q][i].code # Nil
            PROVE  LET d == outCh'[q][i].id IN
                   /\ server'[d] = q
                   /\ tstate'[d] = "ended" /\ via'[d] = "grpc"
                   /\ tcode'[d] = outCh'[q][i].code
                   /\ exit'[d] = Nil
                   /\ \A j \in 1..Len(outCh'[q]) :
                         outCh'[q][j].id = d /\ outCh'[q][j].code # Nil => j = i
        <4>1. CASE q # s
          BY <3>2, <3>5, <3>6, <4>1
        <4>2. CASE q = s
          <5>1. /\ i + 1 \in 1..Len(outCh[s]) /\ i + 1 # 1
                /\ outCh'[s][i] = outCh[s][i + 1]
            BY <3>3, <3>4, <4>2
          <5>2. \A j \in 1..Len(outCh'[s]) : j + 1 = i + 1 => j = i
            BY <3>3, <4>2
          <5>3. ASSUME NEW j \in 1..Len(outCh'[s]),
                       outCh'[s][j].id = outCh'[s][i].id, outCh'[s][j].code # Nil
                PROVE  j = i
            <6>1. j + 1 \in 1..Len(outCh[s]) /\ outCh'[s][j] = outCh[s][j + 1]
              BY <3>3, <3>4
            <6>2. outCh[s][i + 1].code # Nil
              BY <3>6, <4>2, <5>1
            <6>3. j + 1 = i + 1
              BY <3>5, <5>1, <5>3, <6>1, <6>2
            <6> QED
              BY <5>2, <6>3
          <5> QED
            BY <3>5, <3>6, <4>2, <5>1, <5>3
        <4> QED
          BY <4>1, <4>2
      <3> QED
        BY <3>6 DEF OutInv
    <2>5. ExitInv'
      <3>1. UNCHANGED <<pc, tstate, via, tcode>>
        BY <1>14 DEF HandleEvent
      <3> QED
        BY <2>a, <2>b, <2>c, <3>1 DEF Inv, ExitInv
    <2>6. RetInv'
      BY <1>14 DEF TypeOK, Inv, RetInv, HandleEvent, RecordResult, SkillStatus
    <2> QED
      BY <2>1, <2>2, <2>3, <2>4, <2>5, <2>6 DEF Inv
  <1>15. ASSUME NEW s \in Servers, LoseEvent(s) PROVE Inv'
    <2>1. RowsInv'
      BY <1>15 DEF Inv, RowsInv, LoseEvent
    <2>2. HandOverInv'
      BY <1>15 DEF Inv, HandOverInv, Queued, LoseEvent
    <2>3. TaskInv'
      BY <1>15 DEF Inv, TaskInv, LoseEvent
    <2>4. OutInv'
      <3>1. UNCHANGED <<server, tstate, via, tcode, exit>>
        BY <1>15 DEF LoseEvent
      <3>2. ASSUME NEW q \in Servers, NEW i \in 1..Len(outCh'[q])
            PROVE  \E n \in {0, 1} :
                      /\ i + n \in 1..Len(outCh[q])
                      /\ \A j \in 1..Len(outCh'[q]) :
                            /\ j + n \in 1..Len(outCh[q])
                            /\ outCh'[q][j] = outCh[q][j + n]
        <4>1. CASE q # s
          BY <1>15, <4>1 DEF TypeOK, LoseEvent
        <4>2. CASE q = s
          <5>1. outCh[s] \in Seq(Event) /\ outCh[s] # <<>> /\ outCh'[s] = Tail(outCh[s])
            BY <1>15 DEF TypeOK, LoseEvent
          <5> QED
            BY <4>2, <5>1
        <4> QED
          BY <4>1, <4>2
      <3>3. ASSUME NEW q \in Servers, NEW i \in 1..Len(outCh'[q]), outCh'[q][i].code # Nil
            PROVE  LET d == outCh'[q][i].id IN
                   /\ server[d] = q
                   /\ tstate[d] = "ended" /\ via[d] = "grpc"
                   /\ tcode[d] = outCh'[q][i].code
                   /\ exit[d] = Nil
                   /\ \A j \in 1..Len(outCh'[q]) :
                         outCh'[q][j].id = d /\ outCh'[q][j].code # Nil => j = i
        <4>1. PICK n \in {0, 1} :
                      /\ i + n \in 1..Len(outCh[q])
                      /\ \A j \in 1..Len(outCh'[q]) :
                            /\ j + n \in 1..Len(outCh[q])
                            /\ outCh'[q][j] = outCh[q][j + n]
          BY <3>2
        <4>2. LET d == outCh[q][i + n].id IN
              /\ server[d] = q
              /\ tstate[d] = "ended" /\ via[d] = "grpc"
              /\ tcode[d] = outCh[q][i + n].code
              /\ exit[d] = Nil
              /\ \A j \in 1..Len(outCh[q]) :
                    outCh[q][j].id = d /\ outCh[q][j].code # Nil => j = i + n
          BY <3>3, <4>1 DEF Inv, OutInv
        <4>3. \A j \in 1..Len(outCh'[q]) : j + n = i + n => j = i
          BY <4>1
        <4>4. i \in 1..Len(outCh'[q]) /\ outCh'[q][i] = outCh[q][i + n]
          BY <4>1
        <4>5. ASSUME NEW j \in 1..Len(outCh'[q]),
                     outCh'[q][j].id = outCh'[q][i].id, outCh'[q][j].code # Nil
              PROVE  j = i
          <5>1. j + n \in 1..Len(outCh[q]) /\ outCh'[q][j] = outCh[q][j + n]
            BY <4>1
          <5>2. outCh[q][j + n].id = outCh[q][i + n].id /\ outCh[q][j + n].code # Nil
            BY <4>4, <4>5, <5>1
          <5>3. j + n = i + n
            BY <4>2, <5>1, <5>2
          <5> QED
            BY <4>3, <5>3
        <4> QED
          BY <4>2, <4>4, <4>5
      <3> QED
        BY <3>1, <3>3 DEF OutInv
    <2>5. ExitInv'
      BY <1>15 DEF Inv, ExitInv, LoseEvent
    <2>6. RetInv'
      BY <1>15 DEF Inv, RetInv, LoseEvent
    <2> QED
      BY <2>1, <2>2, <2>3, <2>4, <2>5, <2>6 DEF Inv
  <1>16. ASSUME NEW s \in Servers, NEW t \in Transports, Register(s, t) PROVE Inv'
    <2>1. RowsInv'
      BY <1>16 DEF Inv, RowsInv, Register
    <2>2. HandOverInv'
      <3>1. \A q \in Servers : Shrunk(sendCh[q], sendCh'[q])
        BY <1>16 DEF TypeOK, Register, Shrunk
      <3>2. UNCHANGED <<pc, status, server>>
        BY <1>16 DEF Register
      <3>3. \A c \in Requests : runs'[c] = runs[c]
        BY <1>16 DEF Register
      <3> QED
        BY <3>1, <3>2, <3>3, QueuesShrink DEF Inv
    <2>3. TaskInv'
      BY <1>16 DEF Inv, TaskInv, Register
    <2>4. OutInv'
      BY <1>16 DEF Inv, OutInv, Register
    <2>5. ExitInv'
      BY <1>16 DEF Inv, ExitInv, Register
    <2>6. RetInv'
      BY <1>16 DEF Inv, RetInv, Register
    <2> QED
      BY <2>1, <2>2, <2>3, <2>4, <2>5, <2>6 DEF Inv
  <1>17. ASSUME NEW s \in Servers, NEW t \in Transports, Unregister(s, t) PROVE Inv'
    <2>1. RowsInv'
      BY <1>17 DEF Inv, RowsInv, Unregister
    <2>2. HandOverInv'
      <3>1. \A q \in Servers : Shrunk(sendCh[q], sendCh'[q])
        BY <1>17 DEF TypeOK, Unregister, Shrunk
      <3>2. UNCHANGED <<pc, status, server>>
        BY <1>17 DEF Unregister
      <3>3. \A c \in Requests : runs'[c] = runs[c]
        BY <1>17 DEF Unregister
      <3> QED
        BY <3>1, <3>2, <3>3, QueuesShrink DEF Inv
    <2>3. TaskInv'
      BY <1>17 DEF Inv, TaskInv, Unregister
    <2>4. OutInv'
      BY <1>17 DEF Inv, OutInv, Unregister
    <2>5. ExitInv'
      BY <1>17 DEF Inv, ExitInv, Unregister
    <2>6. RetInv'
      BY <1>17 DEF Inv, RetInv, Unregister
    <2> QED
      BY <2>1, <2>2, <2>3, <2>4, <2>5, <2>6 DEF Inv
  <1>18. CASE UNCHANGED vars
    BY <1>18 DEF vars, Inv, RowsInv, HandOverInv, Queued, TaskInv, OutInv, ExitInv, RetInv
  <1> QED
    BY <1>1, <1>2, <1>3, <1>4, <1>5, <1>6, <1>7, <1>8, <1>9, <1>10, <1>11, <1>12, <1>13, <1>14, <1>15, <1>16, <1>17, <1>18 DEF Next, DispatchStep

\* The inductive invariant holds in every state of every behaviour.
THEOREM Invariance == Spec => []Inv
  <1>1. Init => Inv
    BY ConstAssumption
    DEF Init, Inv, RowsInv, HandOverInv, Queued, TaskInv, OutInv, ExitInv, RetInv
  <1> QED
    BY <1>1, InvStep, TypeCorrect, PTL DEF Spec

\* At most one execution per idempotency key, whatever races, retries and
\* faults happen between dispatch, the Hub, sendLoop and the agent.
THEOREM AtMostOnce == Spec => []AtMostOncePerKey
  <1>1. TypeOK /\ Inv => AtMostOncePerKey
    <2> SUFFICES ASSUME TypeOK, Inv, NEW c \in Requests, NEW d \in Requests
                 PROVE  /\ runs[c] <= 1
                        /\ c # d /\ runs[c] > 0 /\ runs[d] > 0 => ikey[c] # ikey[d]
      BY DEF AtMostOncePerKey
    <2>1. runs[c] <= 1
      BY DEF Inv, TaskInv
    <2>2. runs[c] > 0 /\ runs[d] > 0 => status[c] # "absent" /\ status[d] # "absent"
      BY DEF Inv, HandOverInv
    <2> QED
      BY <2>1, <2>2 DEF Inv, RowsInv
  <1> QED
    BY <1>1, TypeCorrect, Invariance, PTL

\* Two calls of dispatch with one key never return different commands.
THEOREM RetriesReturnOneCommand == Spec => []RetriesAgree
  <1>1. TypeOK /\ Inv => RetriesAgree
    BY ConstAssumption DEF TypeOK, Inv, RetInv, RowsInv, RetriesAgree
  <1> QED
    BY <1>1, TypeCorrect, Invariance, PTL

\* A command whose call erred, or that dispatch marked FAILED, has not reached
\* the agent.
THEOREM RejectedIsNeverRun == Spec => []RejectedNeverRuns
  <1>1. TypeOK /\ Inv => RejectedNeverRuns
    <2> SUFFICES ASSUME TypeOK, Inv, NEW c \in Requests,
                        pc[c] = "error"
                            \/ (status[c] = "FAILED" /\ exit[c] = Nil)
                 PROVE  runs[c] = 0 /\ ~Queued(c)
      BY DEF RejectedNeverRuns, Queued
    <2>1. pc[c] \notin {"mark", "returned"}
      BY DEF Inv, ExitInv
    <2> QED
      BY <2>1, NotSentYet
  <1> QED
    BY <1>1, TypeCorrect, Invariance, PTL

\* A recorded exit code is the one the command's execution ended with.
THEOREM ResultIsTruthful == Spec => []ResultTruthful
  <1>1. Inv => ResultTruthful
    BY DEF Inv, ExitInv, ResultTruthful
  <1> QED
    BY <1>1, Invariance, PTL

\* A recorded exit code never changes again: only HandleEvent and
\* HandleAgentMessage write one, each for a result that was not recorded.
THEOREM ResultIsStable == Spec => ResultStable
  <1> DEFINE Stable == \A c \in Requests : exit[c] # Nil => exit'[c] = exit[c]
  <1>1. TypeOK /\ Inv /\ [Next]_vars => [Stable]_vars
    <2> SUFFICES ASSUME TypeOK, Inv, Next PROVE Stable
      OBVIOUS
    <2> USE DEF dispatchVars, rowVars, taskVars, agentVars
    <2>1. CASE UNCHANGED exit
      BY <2>1
    <2>2. ASSUME NEW c \in Requests, HandleAgentMessage(c) PROVE Stable
      <3>1. exit[c] = Nil
        BY <2>2 DEF Inv, ExitInv, HandleAgentMessage
      <3> QED
        BY <2>2, <3>1 DEF TypeOK, HandleAgentMessage, RecordResult
    <2>3. ASSUME NEW s \in Servers, HandleEvent(s) PROVE Stable
      <3> DEFINE e == Head(outCh[s])
      <3>1. e = outCh[s][1] /\ 1 \in 1..Len(outCh[s])
        BY <2>3 DEF TypeOK, HandleEvent
      <3>2. \/ UNCHANGED exit
            \/ e.code # Nil /\ exit' = [exit EXCEPT ![e.id] = e.code]
        BY <2>3 DEF HandleEvent, RecordResult
      <3> HIDE DEF e
      <3>3. e.code # Nil => exit[e.id] = Nil
        BY <3>1 DEF Inv, OutInv
      <3> QED
        BY <3>2, <3>3 DEF TypeOK
    <2> QED
      BY <2>1, <2>2, <2>3
      DEF Next, DispatchStep, Dispatch, Create, FindByIdempotencyKey, SendToAgent,
          MarkFailed, MarkRunning, Cancel, TaskOutput, Finish, SendLoop, SendLoopDrop,
          AgentCrash, LoseEvent, Register, Unregister
  <1> QED
    BY <1>1, TypeCorrect, Invariance, PTL DEF Spec, ResultStable

\* A command with a row owns its key alone.
LEMMA OwnsKey ==
    ASSUME TypeOK, Inv, NEW c \in Requests, status[c] # "absent"
    PROVE  /\ ikey[c] \in AllKeys /\ HasKey(ikey[c]) = {c}
           /\ \A k \in AllKeys : k # ikey[c] => c \notin HasKey(k)
  <1>1. ikey[c] \in AllKeys
    BY DEF Inv, RowsInv, AllKeys
  <1>2. HasKey(ikey[c]) = {c}
    BY DEF Inv, RowsInv, HasKey
  <1> QED
    BY <1>1, <1>2 DEF HasKey

\* What IdempotentExecution sees of a command does not change.
Same(c) == /\ status'[c] # "absent" <=> status[c] # "absent"
           /\ status[c] # "absent" => /\ ikey'[c] = ikey[c] /\ (runs'[c] > 0 <=> runs[c] > 0)
                                      /\ tcode'[c] = tcode[c] /\ exit'[c] = exit[c]

\* When it changes for no command, the step is a stutter.
LEMMA Stutters ==
    ASSUME \A c \in Requests : Same(c)
    PROVE  UNCHANGED <<Claims, Started, Outcomes, Results>>
  <1>1. \A k \in AllKeys : HasKey(k)' = HasKey(k)
    BY DEF HasKey, Same
  <1>2. \A k \in AllKeys : \A c \in HasKey(k) :
           (runs'[c] > 0 <=> runs[c] > 0) /\ tcode'[c] = tcode[c] /\ exit'[c] = exit[c]
    BY DEF HasKey, Same
  <1>3. UNCHANGED Claims
    BY <1>1 DEF Claims
  <1>4. UNCHANGED Started
    BY <1>1, <1>2 DEF Started
  <1>5. UNCHANGED Outcomes
    BY <1>1, <1>2 DEF Outcomes
  <1>6. UNCHANGED Results
    BY <1>1, <1>2 DEF Results
  <1> QED
    BY <1>3, <1>4, <1>5, <1>6

\* The initial state is the one of IdempotentExecution.
LEMMA AbstractInit == Init => Abstract!Init
  BY DEF Init, Abstract!Init, Claims, Started, Outcomes, Results, HasKey

\* INSERT of a row claims its key.
LEMMA ClaimStep ==
    ASSUME TypeOK, Inv, NEW r \in Requests, pc[r] = "create", HasKey(ikey[r]) = {},
           status' = [status EXCEPT ![r] = "PENDING"], UNCHANGED <<ikey, runs, tcode, exit>>
    PROVE  Abstract!Claim(ikey[r], r) /\ ikey[r] \in AllKeys
  <1> DEFINE k == ikey[r]
  <1>1. k \in AllKeys /\ status[r] = "absent"
    BY DEF Inv, RowsInv, AllKeys
  <1>2. runs[r] = 0 /\ tcode[r] = Nil /\ exit[r] = Nil
    BY NotSentYet
  <1>3. /\ status'[r] = "PENDING" /\ \A c \in Requests : c # r => status'[c] = status[c]
    BY DEF TypeOK
  <1>4. HasKey(k) = {} /\ \A j \in AllKeys : HasKey(j)' = IF j = k THEN {r} ELSE HasKey(j)
    BY <1>1, <1>3 DEF HasKey
  <1>5. Claims[k] = {} /\ Claims' = [Claims EXCEPT ![k] = {r}]
    BY <1>1, <1>4 DEF Claims
  <1>6. UNCHANGED Started
    BY <1>2, <1>4 DEF Started
  <1>7. UNCHANGED Outcomes
    BY <1>2, <1>4 DEF Outcomes
  <1>8. UNCHANGED Results
    BY <1>2, <1>4 DEF Results
  <1> QED
    BY <1>1, <1>5, <1>6, <1>7, <1>8 DEF Abstract!Claim

\* The agent starts a command: its key's execution begins.
LEMMA BeginStep ==
    ASSUME TypeOK, Inv, NEW c \in Requests, NEW t, status[c] # "absent", runs[c] = 0,
           Begin(c, t), UNCHANGED <<status, ikey, exit>>
    PROVE  Abstract!Begin(ikey[c]) /\ ikey[c] \in AllKeys
  <1> DEFINE k == ikey[c]
  <1>1. /\ k \in AllKeys /\ HasKey(k) = {c} /\ \A j \in AllKeys : j # k => c \notin HasKey(j)
    BY OwnsKey
  <1>2. tcode[c] = Nil
    BY DEF Inv, TaskInv
  <1>3. /\ runs'[c] > 0 /\ tcode' = tcode
        /\ \A d \in Requests : d # c => runs'[d] = runs[d]
    BY <1>2 DEF TypeOK, Begin
  <1>4. \A j \in AllKeys : HasKey(j)' = HasKey(j) /\ HasKey(j) \subseteq Requests
    BY DEF HasKey
  <1>5. k \notin Started /\ Started' = Started \cup {k}
    BY <1>1, <1>3, <1>4 DEF Started
  <1>6. UNCHANGED <<Claims, Outcomes, Results>>
    BY <1>3, <1>4 DEF Claims, Outcomes, Results
  <1>7. Claims[k] # {}
    BY <1>1 DEF Claims
  <1> QED
    BY <1>1, <1>5, <1>6, <1>7 DEF Abstract!Begin

\* A process ends: its key's execution has an outcome.
LEMMA ConcludeStep ==
    ASSUME TypeOK, Inv, NEW c \in Requests, NEW code \in Codes, Finish(c, code)
    PROVE  Abstract!Conclude(ikey[c], code) /\ ikey[c] \in AllKeys
  <1> DEFINE k == ikey[c]
  <1>1. /\ tstate[c] = "running" /\ tcode' = [tcode EXCEPT ![c] = code]
        /\ UNCHANGED <<status, ikey, runs, exit>>
    BY DEF Finish, dispatchVars, rowVars
  <1>2. status[c] # "absent" /\ runs[c] = 1 /\ tcode[c] = Nil
    BY <1>1, StartedHasRow DEF Inv, TaskInv
  <1>3. /\ k \in AllKeys /\ HasKey(k) = {c} /\ \A j \in AllKeys : j # k => c \notin HasKey(j)
    BY <1>2, OwnsKey
  <1>4. \A j \in AllKeys : HasKey(j)' = HasKey(j) /\ HasKey(j) \subseteq Requests
    BY <1>1 DEF HasKey
  <1>5. tcode'[c] = code /\ code # Nil /\ \A d \in Requests : d # c => tcode'[d] = tcode[d]
    BY <1>1, ConstAssumption DEF TypeOK, Codes
  <1>6. k \in Started
    BY <1>2, <1>3 DEF Started
  <1>7. Outcomes[k] = {} /\ Outcomes' = [Outcomes EXCEPT ![k] = {code}]
    <2>1. Outcomes[k] = {}
      BY <1>2, <1>3 DEF Outcomes
    <2>2. \A j \in AllKeys : ({tcode[d] : d \in HasKey(j)} \ {Nil})' =
             IF j = k THEN {code} ELSE {tcode[d] : d \in HasKey(j)} \ {Nil}
      BY <1>3, <1>4, <1>5
    <2> QED
      BY <1>3, <2>1, <2>2 DEF Outcomes
  <1>8. UNCHANGED <<Claims, Started, Results>>
    BY <1>1, <1>4 DEF Claims, Started, Results
  <1> QED
    BY <1>3, <1>6, <1>7, <1>8 DEF Abstract!Conclude

\* A handler writes the exit code of a command: its key's outcome is recorded.
LEMMA RecordStep ==
    ASSUME TypeOK, Inv, NEW c \in Requests, NEW st, st # "absent", RecordResult(c, st, tcode[c]),
           tcode[c] # Nil, exit[c] = Nil, UNCHANGED <<ikey, runs, tcode>>
    PROVE  Abstract!Record(ikey[c]) /\ ikey[c] \in AllKeys
  <1> DEFINE k == ikey[c]
  <1>1. /\ status' = [status EXCEPT ![c] = st] /\ exit' = [exit EXCEPT ![c] = tcode[c]]
    BY DEF RecordResult
  <1>2. tstate[c] # "none"
    BY DEF Inv, TaskInv
  <1>3. status[c] # "absent"
    BY <1>2, StartedHasRow
  <1>4. /\ k \in AllKeys /\ HasKey(k) = {c} /\ \A j \in AllKeys : j # k => c \notin HasKey(j)
    BY <1>3, OwnsKey
  <1>5. \A d \in Requests : status'[d] # "absent" <=> status[d] # "absent"
    BY <1>1, <1>3 DEF TypeOK
  <1>6. \A j \in AllKeys : HasKey(j)' = HasKey(j) /\ HasKey(j) \subseteq Requests
    BY <1>5 DEF HasKey
  <1>7. exit'[c] = tcode[c] /\ \A d \in Requests : d # c => exit'[d] = exit[d]
    BY <1>1 DEF TypeOK
  <1>8. Outcomes[k] = {tcode[c]} /\ Outcomes[k] # {}
    BY <1>4 DEF Outcomes
  <1>9. Results[k] = {} /\ Results' = [Results EXCEPT ![k] = Outcomes[k]]
    <2>1. Results[k] = {}
      BY <1>4 DEF Results
    <2>2. \A j \in AllKeys : ({exit[d] : d \in HasKey(j)} \ {Nil})' =
             IF j = k THEN {tcode[c]} ELSE {exit[d] : d \in HasKey(j)} \ {Nil}
      <3> SUFFICES ASSUME NEW j \in AllKeys
                   PROVE  {exit'[d] : d \in HasKey(j)} \ {Nil} =
                            IF j = k THEN {tcode[c]} ELSE {exit[d] : d \in HasKey(j)} \ {Nil}
        BY <1>6
      <3>1. CASE j = k
        BY <1>4, <1>7, <3>1
      <3>2. CASE j # k
        <4>1. \A d \in HasKey(j) : exit'[d] = exit[d]
          BY <1>4, <1>6, <1>7, <3>2
        <4> QED BY <3>2, <4>1
      <3> QED BY <3>1, <3>2
    <2>3. Results' = [j \in AllKeys |-> IF j = k THEN {tcode[c]} ELSE Results[j]]
      BY <2>2 DEF Results
    <2>4. Results = [j \in AllKeys |-> Results[j]]
      BY DEF Results
    <2>5. [Results EXCEPT ![k] = Outcomes[k]] = [j \in AllKeys |-> IF j = k THEN {tcode[c]} ELSE Results[j]]
      BY <1>4, <1>8, <2>4
    <2> QED
      BY <2>1, <2>3, <2>5
  <1>10. UNCHANGED <<Claims, Started, Outcomes>>
    BY <1>6 DEF Claims, Started, Outcomes
  <1> QED
    BY <1>4, <1>8, <1>9, <1>10 DEF Abstract!Record

\* Every step of the pipeline is a step of IdempotentExecution or a stutter.
LEMMA AbstractStep ==
    ASSUME TypeOK, Inv, [Next]_vars
    PROVE  [Abstract!Next]_(Abstract!avars)
  <1> USE DEF dispatchVars, rowVars, taskVars, agentVars
  <1>a. ASSUME \A c \in Requests : Same(c) PROVE [Abstract!Next]_(Abstract!avars)
    BY <1>a, Stutters DEF Abstract!avars
  <1>1. ASSUME UNCHANGED <<status, ikey, runs, tcode, exit>> PROVE \A c \in Requests : Same(c)
    BY <1>1 DEF Same
  <1>2. ASSUME NEW r \in Requests, NEW s \in Servers, NEW k \in Keys \cup {Nil}, Dispatch(r, s, k)
        PROVE  \A c \in Requests : Same(c)
    <2>1. status[r] = "absent"
      BY <1>2 DEF Dispatch, Inv, RowsInv
    <2> QED
      BY <1>2, <2>1 DEF Dispatch, Same, TypeOK
  <1>3. ASSUME NEW r \in Requests, Create(r) PROVE [Abstract!Next]_(Abstract!avars)
    <2>1. CASE HasKey(ikey[r]) = {} /\ status' = [status EXCEPT ![r] = "PENDING"]
      <3>1. pc[r] = "create" /\ UNCHANGED <<ikey, runs, tcode, exit>>
        BY <1>3 DEF Create
      <3>2. Abstract!Claim(ikey[r], r) /\ ikey[r] \in AllKeys
        BY <2>1, <3>1, ClaimStep
      <3> QED
        BY <3>2 DEF Abstract!Next
    <2>2. CASE UNCHANGED status
      <3>1. UNCHANGED <<status, ikey, runs, tcode, exit>>
        BY <1>3, <2>2 DEF Create
      <3> QED
        BY <1>1, <1>a, <3>1
    <2> QED
      BY <1>3, <2>1, <2>2 DEF Create
  <1>4. ASSUME NEW r \in Requests, NEW st \in Statuses, pc[r] \in {"fail", "mark"}, UpdateStatus(r, st),
               UNCHANGED <<ikey, runs, tcode, exit>>
        PROVE  \A c \in Requests : Same(c)
    <2>1. status[r] # "absent" /\ st # "absent"
      BY <1>4 DEF Inv, RowsInv, Statuses
    <2> QED
      BY <1>4, <2>1 DEF UpdateStatus, Same, TypeOK
  <1>5. ASSUME NEW r \in Requests, MarkFailed(r) PROVE \A c \in Requests : Same(c)
    BY <1>4, <1>5 DEF MarkFailed, Statuses
  <1>6. ASSUME NEW r \in Requests, MarkRunning(r) PROVE \A c \in Requests : Same(c)
    BY <1>4, <1>6 DEF MarkRunning, Statuses
  <1>7. ASSUME NEW r \in Requests, SendToAgent(r) PROVE [Abstract!Next]_(Abstract!avars)
    <2>1. pc[r] = "send" /\ UNCHANGED <<status, ikey, exit>> /\ (Begin(r, "ws") \/ UNCHANGED <<runs, tcode>>)
      BY <1>7 DEF SendToAgent
    <2>2. CASE Begin(r, "ws")
      <3>1. status[r] # "absent" /\ runs[r] = 0
        BY <2>1, NotSentYet DEF Inv, RowsInv
      <3>2. Abstract!Begin(ikey[r]) /\ ikey[r] \in AllKeys
        BY <2>1, <2>2, <3>1, BeginStep
      <3> QED
        BY <3>2 DEF Abstract!Next
    <2>3. CASE UNCHANGED <<runs, tcode>>
      BY <1>1, <1>a, <2>1, <2>3
    <2> QED
      BY <2>1, <2>2, <2>3
  <1>8. ASSUME NEW s \in Servers, SendLoop(s) PROVE [Abstract!Next]_(Abstract!avars)
    <2> DEFINE c == Head(sendCh[s])
    <2>1. sendCh[s] # <<>> /\ Begin(c, "grpc") /\ UNCHANGED <<status, ikey, exit>>
      BY <1>8 DEF SendLoop
    <2>2. c \in Requests /\ Queued(c) /\ runs[c] = 0
      BY <2>1, HeadIsNew
    <2> HIDE DEF c
    <2>3. status[c] # "absent"
      BY <2>2 DEF Inv, HandOverInv
    <2>4. Abstract!Begin(ikey[c]) /\ ikey[c] \in AllKeys
      BY <2>1, <2>2, <2>3, BeginStep
    <2> QED
      BY <2>4 DEF Abstract!Next
  <1>9. ASSUME NEW c \in Requests, NEW code \in Codes, Finish(c, code) PROVE [Abstract!Next]_(Abstract!avars)
    BY <1>9, ConcludeStep DEF Abstract!Next
  <1>10. ASSUME NEW c \in Requests, HandleAgentMessage(c) PROVE [Abstract!Next]_(Abstract!avars)
    <2>1. /\ tstate[c] = "ended" /\ via[c] = "ws" /\ UNCHANGED <<ikey, runs, tcode>>
          /\ (\E st \in {"SUCCESS", "FAILED"} : RecordResult(c, st, tcode[c])) \/ UNCHANGED rowVars
      BY <1>10 DEF HandleAgentMessage
    <2>2. tcode[c] # Nil /\ exit[c] = Nil
      BY <2>1 DEF Inv, TaskInv, ExitInv
    <2>3. ASSUME NEW st \in {"SUCCESS", "FAILED"}, RecordResult(c, st, tcode[c])
          PROVE  Abstract!Record(ikey[c]) /\ ikey[c] \in AllKeys
      BY <2>1, <2>2, <2>3, RecordStep
    <2>4. CASE UNCHANGED rowVars
      BY <1>1, <1>a, <2>1, <2>4
    <2> QED
      BY <2>1, <2>3, <2>4 DEF Abstract!Next
  <1>11. ASSUME NEW s \in Servers, HandleEvent(s) PROVE [Abstract!Next]_(Abstract!avars)
    <2> DEFINE e == Head(outCh[s])
    <2>1. /\ e = outCh[s][1] /\ 1 \in 1..Len(outCh[s]) /\ UNCHANGED <<ikey, runs, tcode>>
          /\ IF e.code = Nil THEN UNCHANGED rowVars
                             ELSE RecordResult(e.id, SkillStatus(e.code), e.code)
      BY <1>11 DEF TypeOK, HandleEvent
    <2> HIDE DEF e
    <2>2. e.id \in Requests
      BY <2>1, EventFacts
    <2>3. CASE e.code = Nil
      BY <1>1, <1>a, <2>1, <2>3
    <2>4. CASE e.code # Nil
      <3>1. tcode[e.id] = e.code /\ exit[e.id] = Nil
        BY <2>1, <2>4 DEF Inv, OutInv
      <3>2. SkillStatus(e.code) # "absent"
        BY DEF SkillStatus
      <3>3. Abstract!Record(ikey[e.id]) /\ ikey[e.id] \in AllKeys
        BY <2>1, <2>2, <2>4, <3>1, <3>2, RecordStep
      <3> QED
        BY <3>3 DEF Abstract!Next
    <2> QED
      BY <2>3, <2>4
  <1>12. CASE UNCHANGED vars
    BY <1>1, <1>a, <1>12 DEF vars
  <1>13. ASSUME NEW r \in Requests, FindByIdempotencyKey(r) \/ Cancel(r) \/ TaskOutput(r)
         PROVE  \A c \in Requests : Same(c)
    BY <1>1, <1>13 DEF FindByIdempotencyKey, Cancel, TaskOutput
  <1>14. ASSUME NEW s \in Servers, SendLoopDrop(s) \/ AgentCrash(s) \/ LoseEvent(s)
         PROVE  \A c \in Requests : Same(c)
    BY <1>1, <1>14 DEF SendLoopDrop, AgentCrash, LoseEvent
  <1>15. ASSUME NEW s \in Servers, NEW t \in Transports, Register(s, t) \/ Unregister(s, t)
         PROVE  \A c \in Requests : Same(c)
    BY <1>1, <1>15 DEF Register, Unregister
  <1> QED
    BY <1>a, <1>2, <1>3, <1>5, <1>6, <1>7, <1>8, <1>9, <1>10, <1>11, <1>12, <1>13, <1>14, <1>15
    DEF Next, DispatchStep

\* Per idempotency key, dispatch, the Hub, the agent and the stream handlers together
\* claim once, execute at most once, end once and record only that end.
THEOREM PipelineImplements == Spec => ImplementsIdempotentExecution
  <1>1. Init => Abstract!Init
    BY AbstractInit
  <1>2. TypeOK /\ Inv /\ [Next]_vars => [Abstract!Next]_(Abstract!avars)
    BY AbstractStep
  <1> QED
    BY <1>1, <1>2, TypeCorrect, Invariance, PTL DEF Spec, ImplementsIdempotentExecution, Abstract!Spec
=============================================================================
