-------------------------- MODULE AgentConnections --------------------------
(***************************************************************************)
(* Who is connected: the handlers of the agent connections of one server,  *)
(* the Hub they register with, what they write to agent_infos.online and   *)
(* to the servers row, and what they tell the frontend clients.            *)
(*                                                                         *)
(* Every map of the Hub and every row is keyed by the server id and no     *)
(* operation touches two keys, so one server is modelled.  A handler runs  *)
(* in a goroutine of its own and is split at every access to the Hub and   *)
(* to the database; the agent may open a new connection while the handler  *)
(* of a broken one has not noticed yet.                                    *)
(***************************************************************************)
CONSTANTS WS,       \* WebSocket connections the agent may open (HandleAgentWS)
          GRPC,     \* gRPC streams it may open (ConnectStream)
          Clients,  \* frontend clients that watch the server
          Edits,    \* may a user edit the server meanwhile?
          Nil

Conns == WS \cup GRPC

ASSUME ConnAssumption ==
    /\ WS \cap GRPC = {}
    /\ Nil \notin Conns
    /\ Edits \in BOOLEAN

VARIABLES hpc,        \* where the handler of a connection is
          agents,     \* Hub.agents[server]: the WebSocket connection or Nil
          grpcAgents, \* Hub.grpcAgents[server]: the gRPC connection or Nil
          closed,     \* gRPC connections whose closeCh is closed
          online,     \* agent_infos.online
          status,     \* servers.status
          onboarding, \* servers.onboarding_status
          snap,       \* the copy of the servers row a handler has read
          edit,       \* the copy that UpdateServer has read, or Nil
          cpc,        \* where the handler of a client is
          told,       \* the value a client's handler is about to send
          view        \* what a client was last told about the agent

hub == <<agents, grpcAgents, closed>>
row == <<status, onboarding>>
clients == <<cpc, told, view>>
vars == <<hpc, hub, online, row, snap, edit, clients>>
-----------------------------------------------------------------------------
\* The other declared values are never written; "pending" stands for "ready"
\* too, which promoteServerOnline treats alike.
Statuses    == {"online", "offline"}
Onboarding  == {"pending", "installed"}
Row         == [status : Statuses, onboarding : Onboarding]
HandlerPcs  == {"new", "refused", "online", "read", "status", "install",
                "announce", "serving", "sync", "write", "closing", "offline",
                "down", "goodbye", "gone"}

TypeOK ==
    /\ hpc \in [Conns -> HandlerPcs]
    /\ agents \in WS \cup {Nil}
    /\ grpcAgents \in GRPC \cup {Nil}
    /\ closed \subseteq GRPC
    /\ online \in BOOLEAN
    /\ status \in Statuses
    /\ onboarding \in Onboarding
    /\ snap \in [Conns -> Row \cup {Nil}]
    /\ \A c \in Conns : hpc[c] \in {"status", "install", "write"} => snap[c] \in Row
    /\ edit \in Row \cup {Nil}
    /\ cpc \in [Clients -> {"out", "joined", "asked", "in"}]
    /\ told \in [Clients -> BOOLEAN]
    /\ view \in [Clients -> {"none", "online", "offline"}]

\* RegisterServer creates the row offline and pending.
Init ==
    /\ hpc = [c \in Conns |-> "new"]
    /\ agents = Nil
    /\ grpcAgents = Nil
    /\ closed = {}
    /\ online = FALSE
    /\ status = "offline"
    /\ onboarding = "pending"
    /\ snap = [c \in Conns |-> Nil]
    /\ edit = Nil
    /\ cpc = [k \in Clients |-> "out"]
    /\ told = [k \in Clients |-> FALSE]
    /\ view = [k \in Clients |-> "none"]
-----------------------------------------------------------------------------
At(c, pc) == hpc[c] = pc
Goto(c, pc) == hpc' = [hpc EXCEPT ![c] = pc]

\* BroadcastToClients: every registered client gets the message.
Broadcast(m) ==
    /\ view' = [k \in Clients |-> IF cpc[k] = "out" THEN view[k] ELSE m]
    /\ UNCHANGED <<cpc, told>>

\* GetByID into a local variable, which later writes are computed from.
ReadRow(c) == snap' = [snap EXCEPT ![c] = [status |-> status, onboarding |-> onboarding]]

\* The copy goes out of scope.
DropRow(c) == snap' = [snap EXCEPT ![c] = Nil]

(* HandleAgentWS *)

\* The token is refused, or the upgraded connection is registered.
AcceptWS(c) ==
    /\ At(c, "new")
    /\ \/ Goto(c, "refused") /\ UNCHANGED agents
       \/ Goto(c, "online") /\ agents' = c
    /\ UNCHANGED <<grpcAgents, closed, online, row, snap, edit, clients>>

SetOnlineTrue(c) ==
    /\ At(c, "online")
    /\ online' = TRUE
    /\ Goto(c, "read")
    /\ UNCHANGED <<hub, row, snap, edit, clients>>

\* promoteServerOnline reads the row ...
PromoteRead(c) ==
    /\ At(c, "read")
    /\ \/ /\ status # "online" \/ onboarding = "pending"
          /\ ReadRow(c)
          /\ Goto(c, IF status # "online" THEN "status" ELSE "install")
       \/ /\ status = "online" /\ onboarding # "pending"
          /\ Goto(c, "announce")
          /\ UNCHANGED snap
    /\ UNCHANGED <<hub, online, row, edit, clients>>

\* ... writes the status column ...
PromoteStatus(c) ==
    /\ At(c, "status")
    /\ status' = "online"
    /\ Goto(c, IF snap[c].onboarding = "pending" THEN "install" ELSE "announce")
    /\ IF snap[c].onboarding = "pending" THEN UNCHANGED snap ELSE DropRow(c)
    /\ UNCHANGED <<hub, online, onboarding, edit, clients>>

\* ... and writes the copy back with the new onboarding status: Updates takes
\* every non-zero field of the copy, the old status among them.
PromoteInstall(c) ==
    /\ At(c, "install")
    /\ status' = snap[c].status
    /\ onboarding' = "installed"
    /\ DropRow(c)
    /\ Goto(c, "announce")
    /\ UNCHANGED <<hub, online, edit, clients>>

\* handleHeartbeat upserts agent_infos with online = true.
HeartbeatWS(c) ==
    /\ At(c, "serving")
    /\ online' = TRUE
    /\ UNCHANGED <<hpc, hub, row, snap, edit, clients>>

\* The read loop has ended: UnregisterAgent deletes the server's entry.
UnregisterWS(c) ==
    /\ At(c, "closing")
    /\ agents' = Nil
    /\ Goto(c, "offline")
    /\ UNCHANGED <<grpcAgents, closed, online, row, snap, edit, clients>>

MarkServerOffline(c) ==
    /\ At(c, "down")
    /\ status' = "offline"
    /\ Goto(c, "goodbye")
    /\ UNCHANGED <<hub, online, onboarding, snap, edit, clients>>

(* ConnectStream *)

\* The token is refused, or RegisterGRPCAgent stores a new connection; an
\* entry it replaces is neither closed nor told.
AcceptGRPC(c) ==
    /\ At(c, "new")
    /\ \/ Goto(c, "refused") /\ UNCHANGED grpcAgents
       \/ Goto(c, "announce") /\ grpcAgents' = c
    /\ UNCHANGED <<agents, closed, online, row, snap, edit, clients>>

\* A Register or Heartbeat event: Upsert with online = true ...
EventUpsert(c) ==
    /\ At(c, "serving")
    /\ online' = TRUE
    /\ Goto(c, "sync")
    /\ UNCHANGED <<hub, row, snap, edit, clients>>

\* ... then syncServerSnapshot reads the row ...
SyncRead(c) ==
    /\ At(c, "sync")
    /\ ReadRow(c)
    /\ Goto(c, "write")
    /\ UNCHANGED <<hub, online, row, edit, clients>>

\* Mutation of SyncWrite: only the reported capacity is copied to the row.
SyncWriteCapacityOnly(c) ==
    /\ At(c, "write")
    /\ Goto(c, "serving")
    /\ UNCHANGED <<hub, online, row, snap, edit, clients>>

\* ... and writes its copy back, made online and installed, if that or any
\* other reported field differs from the copy.
SyncWrite(c) ==
    LET differs == snap[c] # [status |-> "online", onboarding |-> "installed"] IN
    /\ At(c, "write")
    /\ \E changed \in {TRUE, differs} :
          IF changed THEN status' = "online" /\ onboarding' = "installed"
                     ELSE UNCHANGED row
    /\ DropRow(c)
    /\ Goto(c, "serving")
    /\ UNCHANGED <<hub, online, edit, clients>>

\* Mutation of UnregisterGRPC: the entry is closed but stays in the map.
UnregisterGRPCKeeps(c) ==
    /\ At(c, "closing")
    /\ closed' = IF grpcAgents = Nil THEN closed ELSE closed \cup {grpcAgents}
    /\ Goto(c, "offline")
    /\ UNCHANGED <<agents, grpcAgents, online, row, snap, edit, clients>>

\* UnregisterGRPCAgent closes and deletes whatever connection is the entry.
UnregisterGRPC(c) ==
    /\ At(c, "closing")
    /\ closed' = IF grpcAgents = Nil THEN closed ELSE closed \cup {grpcAgents}
    /\ grpcAgents' = Nil
    /\ Goto(c, "offline")
    /\ UNCHANGED <<agents, online, row, snap, edit, clients>>

(* Both handlers *)

AnnounceOnline(c) ==
    /\ At(c, "announce")
    /\ Broadcast("online")
    /\ Goto(c, "serving")
    /\ UNCHANGED <<hub, online, row, snap, edit>>

\* The stream breaks, times out or is closed by the agent; a read or a write
\* of syncServerSnapshot that has not happened yet then fails, because it
\* runs under the stream's context.
StreamEnds(c) ==
    /\ hpc[c] \in {"serving", "sync", "write"}
    /\ Goto(c, "closing")
    /\ DropRow(c)
    /\ UNCHANGED <<hub, online, row, edit, clients>>

\* Mutation of SetOnlineFalse: the WebSocket handler does not clear the flag.
SetOnlineFalseGRPCOnly(c) ==
    /\ At(c, "offline")
    /\ online' = (online /\ c \in WS)
    /\ Goto(c, IF c \in WS THEN "down" ELSE "goodbye")
    /\ UNCHANGED <<hub, row, snap, edit, clients>>

SetOnlineFalse(c) ==
    /\ At(c, "offline")
    /\ online' = FALSE
    /\ Goto(c, IF c \in WS THEN "down" ELSE "goodbye")
    /\ UNCHANGED <<hub, row, snap, edit, clients>>

\* Mutation of AnnounceOffline: only the WebSocket handler says goodbye.
AnnounceOfflineWSOnly(c) ==
    /\ At(c, "goodbye")
    /\ IF c \in WS THEN Broadcast("offline") ELSE UNCHANGED clients
    /\ Goto(c, "gone")
    /\ UNCHANGED <<hub, online, row, snap, edit>>

AnnounceOffline(c) ==
    /\ At(c, "goodbye")
    /\ Broadcast("offline")
    /\ Goto(c, "gone")
    /\ UNCHANGED <<hub, online, row, snap, edit>>
-----------------------------------------------------------------------------
(* updateServer: a user edits the server, whose form has no status field *)

EditRead ==
    /\ Edits
    /\ edit = Nil
    /\ edit' = [status |-> status, onboarding |-> onboarding]
    /\ UNCHANGED <<hpc, hub, online, row, snap, clients>>

\* The whole copy is written back, with the statuses that were read.
EditWrite ==
    /\ edit # Nil
    /\ status' = edit.status
    /\ onboarding' = edit.onboarding
    /\ edit' = Nil
    /\ UNCHANGED <<hpc, hub, online, snap, clients>>

(* HandleClientWS *)

RegisterClient(k) ==
    /\ cpc[k] = "out"
    /\ cpc' = [cpc EXCEPT ![k] = "joined"]
    /\ UNCHANGED <<hpc, hub, online, row, snap, edit, told, view>>

\* IsOnline: the WebSocket map only.
AskStatus(k) ==
    /\ cpc[k] = "joined"
    /\ told' = [told EXCEPT ![k] = (agents # Nil)]
    /\ cpc' = [cpc EXCEPT ![k] = "asked"]
    /\ UNCHANGED <<hpc, hub, online, row, snap, edit, view>>

SendStatus(k) ==
    /\ cpc[k] = "asked"
    /\ view' = [view EXCEPT ![k] = IF told[k] THEN "online" ELSE "offline"]
    /\ cpc' = [cpc EXCEPT ![k] = "in"]
    /\ UNCHANGED <<hpc, hub, online, row, snap, edit, told>>

UnregisterClient(k) ==
    /\ cpc[k] = "in"
    /\ cpc' = [cpc EXCEPT ![k] = "out"]
    /\ told' = [told EXCEPT ![k] = FALSE]
    /\ view' = [view EXCEPT ![k] = "none"]
    /\ UNCHANGED <<hpc, hub, online, row, snap, edit>>
-----------------------------------------------------------------------------
\* What the handler of a connection does by itself once it has started.
HandlerStep(c) ==
    \/ c \in WS   /\ \/ SetOnlineTrue(c) \/ PromoteRead(c) \/ PromoteStatus(c)
                     \/ PromoteInstall(c) \/ UnregisterWS(c) \/ MarkServerOffline(c)
    \/ c \in GRPC /\ (SyncRead(c) \/ SyncWrite(c) \/ UnregisterGRPC(c))
    \/ AnnounceOnline(c) \/ SetOnlineFalse(c) \/ AnnounceOffline(c)

\* What the agent's periodic report makes it do.
Report(c) == (c \in WS /\ HeartbeatWS(c)) \/ (c \in GRPC /\ EventUpsert(c))

Next ==
    \/ \E c \in WS : AcceptWS(c)
    \/ \E c \in GRPC : AcceptGRPC(c)
    \/ \E c \in Conns : HandlerStep(c) \/ Report(c) \/ StreamEnds(c)
    \/ EditRead
    \/ EditWrite
    \/ \E k \in Clients : \/ RegisterClient(k) \/ AskStatus(k)
                          \/ SendStatus(k) \/ UnregisterClient(k)

Spec == Init /\ [][Next]_vars

\* Handlers are goroutines and run on; the agent's heartbeat ticker reports
\* for as long as the stream lasts.  Nothing forces a stream to end.
Fairness ==
    \A c \in Conns : WF_vars(HandlerStep(c)) /\ WF_vars(Report(c))

FairSpec == Spec /\ Fairness
-----------------------------------------------------------------------------
(* Safety *)

\* The handler has registered its connection and not yet unregistered.
Active(c) == hpc[c] \in {"online", "read", "status", "install", "announce",
                         "serving", "sync", "write", "closing"}

\* No ghosts in the Hub: an entry belongs to a connection whose handler is
\* still running, and a gRPC entry's send loop has not been closed, so that
\* SendToAgent never queues commands nobody will send (RegisterAgent,
\* UnregisterAgent and their gRPC counterparts, in any order of handlers).
HubSound ==
    /\ agents # Nil => Active(agents)
    /\ grpcAgents # Nil => Active(grpcAgents) /\ grpcAgents \notin closed

\* agent_infos.online never outlives the last connection: it is true only
\* while some handler that has not yet written false is running.
OnlineHasAgent ==
    online => \E c \in Conns : Active(c) \/ hpc[c] = "offline"

\* Clients hear of the end: once every handler has returned, a client that
\* still believes the agent is online was told so by the answer to its own
\* connection (which a broadcast may overtake), never by a broadcast.
ViewAtRest ==
    (\A c \in Conns : hpc[c] \in {"new", "refused", "gone"}) =>
        \A k \in Clients : view[k] = "online" => told[k]

\* The inductive invariant behind these properties: a connection is closed
\* only after it was accepted, and a client that was not answered "online"
\* and sees it has heard it from a handler that has yet to say goodbye.
Greeted(c) == hpc[c] \in {"serving", "sync", "write", "closing", "offline", "down", "goodbye"}

Inv ==
    /\ HubSound
    /\ OnlineHasAgent
    /\ \A c \in closed : hpc[c] # "new"
    /\ \A k \in Clients :
          /\ cpc[k] = "out" => view[k] = "none"
          /\ cpc[k] \in {"out", "joined"} => ~told[k]
          /\ view[k] = "online" /\ ~told[k] => \E c \in Conns : Greeted(c)
-----------------------------------------------------------------------------
(* Liveness *)

\* Reports heal: while a stream lasts, whatever the ending handlers of older
\* connections wrote, agent_infos says online again, and for a gRPC stream
\* the servers row does too (handleEvent, syncServerSnapshot).
ReportsHeal ==
    /\ \A c \in Conns : hpc[c] = "serving" ~> online \/ hpc[c] = "gone"
    /\ \A c \in GRPC : hpc[c] = "serving" ~> status = "online" \/ hpc[c] = "gone"
=============================================================================
