----------------------- MODULE AgentConnectionsProofs -----------------------
(***************************************************************************)
(* Proofs about AgentConnections, for any number of connections and clients.*)
(***************************************************************************)
EXTENDS AgentConnections, TLAPS

\* Every variable keeps its type: a row is only ever given a known status.
THEOREM ConnTypeCorrect == Spec => []TypeOK
  <1> USE ConnAssumption DEF Conns, Row, Statuses, Onboarding, HandlerPcs
  <1>1. Init => TypeOK
    BY DEF Init, TypeOK
  <1>2. TypeOK /\ [Next]_vars => TypeOK'
    <2> SUFFICES ASSUME TypeOK, [Next]_vars PROVE TypeOK'
      OBVIOUS
    <2> USE DEF hub, row, clients, At, Goto
    <2>1. ASSUME NEW c \in WS, SetOnlineTrue(c) PROVE TypeOK'
      BY <2>1 DEF TypeOK, SetOnlineTrue
    <2>2. ASSUME NEW c \in WS, PromoteRead(c) PROVE TypeOK'
      BY <2>2 DEF TypeOK, PromoteRead, ReadRow
    <2>3. ASSUME NEW c \in WS, PromoteStatus(c) PROVE TypeOK'
      BY <2>3 DEF TypeOK, PromoteStatus, DropRow
    <2>4. ASSUME NEW c \in WS, PromoteInstall(c) PROVE TypeOK'
      BY <2>4 DEF TypeOK, PromoteInstall, DropRow
    <2>5. ASSUME NEW c \in WS, UnregisterWS(c) PROVE TypeOK'
      BY <2>5 DEF TypeOK, UnregisterWS
    <2>6. ASSUME NEW c \in WS, MarkServerOffline(c) PROVE TypeOK'
      BY <2>6 DEF TypeOK, MarkServerOffline
    <2>7. ASSUME NEW c \in WS, HeartbeatWS(c) PROVE TypeOK'
      BY <2>7 DEF TypeOK, HeartbeatWS
    <2>8. ASSUME NEW c \in WS, AcceptWS(c) PROVE TypeOK'
      BY <2>8 DEF TypeOK, AcceptWS
    <2>9. ASSUME NEW c \in GRPC, AcceptGRPC(c) PROVE TypeOK'
      BY <2>9 DEF TypeOK, AcceptGRPC
    <2>10. ASSUME NEW c \in GRPC, EventUpsert(c) PROVE TypeOK'
      BY <2>10 DEF TypeOK, EventUpsert
    <2>11. ASSUME NEW c \in GRPC, SyncRead(c) PROVE TypeOK'
      BY <2>11 DEF TypeOK, SyncRead, ReadRow
    <2>12. ASSUME NEW c \in GRPC, SyncWrite(c) PROVE TypeOK'
      BY <2>12 DEF TypeOK, SyncWrite, DropRow
    <2>13. ASSUME NEW c \in GRPC, UnregisterGRPC(c) PROVE TypeOK'
      BY <2>13 DEF TypeOK, UnregisterGRPC
    <2>14. ASSUME NEW c \in Conns, AnnounceOnline(c) PROVE TypeOK'
      BY <2>14 DEF TypeOK, AnnounceOnline, Broadcast
    <2>15. ASSUME NEW c \in Conns, StreamEnds(c) PROVE TypeOK'
      BY <2>15 DEF TypeOK, StreamEnds, DropRow
    <2>16. ASSUME NEW c \in Conns, SetOnlineFalse(c) PROVE TypeOK'
      BY <2>16 DEF TypeOK, SetOnlineFalse
    <2>17. ASSUME NEW c \in Conns, AnnounceOffline(c) PROVE TypeOK'
      BY <2>17 DEF TypeOK, AnnounceOffline, Broadcast
    <2>18. ASSUME EditRead PROVE TypeOK'
      BY <2>18 DEF TypeOK, EditRead
    <2>19. ASSUME EditWrite PROVE TypeOK'
      BY <2>19 DEF TypeOK, EditWrite
    <2>20. ASSUME NEW k \in Clients, RegisterClient(k) PROVE TypeOK'
      BY <2>20 DEF TypeOK, RegisterClient
    <2>21. ASSUME NEW k \in Clients, AskStatus(k) PROVE TypeOK'
      BY <2>21 DEF TypeOK, AskStatus
    <2>22. ASSUME NEW k \in Clients, SendStatus(k) PROVE TypeOK'
      BY <2>22 DEF TypeOK, SendStatus
    <2>23. ASSUME NEW k \in Clients, UnregisterClient(k) PROVE TypeOK'
      BY <2>23 DEF TypeOK, UnregisterClient
    <2>24. CASE UNCHANGED vars
      BY <2>24 DEF TypeOK, vars
    <2> QED
      BY <2>1, <2>2, <2>3, <2>4, <2>5, <2>6, <2>7, <2>8, <2>9, <2>10, <2>11, <2>12, <2>13, <2>14, <2>15, <2>16, <2>17, <2>18, <2>19, <2>20, <2>21, <2>22, <2>23, <2>24
      DEF Next, HandlerStep, Report
  <1> QED
    BY <1>1, <1>2, PTL DEF Spec

\* The invariant is inductive.
LEMMA ConnInvStep == TypeOK /\ Inv /\ [Next]_vars => Inv'
  <1> SUFFICES ASSUME TypeOK, Inv, [Next]_vars PROVE Inv'
    OBVIOUS
  <1> USE ConnAssumption DEF Conns, hub, row, clients, At, Goto
  <1>1. ASSUME NEW c \in WS, SetOnlineTrue(c) PROVE Inv'
    BY <1>1 DEF TypeOK, HandlerPcs, Inv, HubSound, OnlineHasAgent, Active, Greeted, SetOnlineTrue
  <1>2. ASSUME NEW c \in WS, PromoteRead(c) PROVE Inv'
    BY <1>2 DEF TypeOK, HandlerPcs, Inv, HubSound, OnlineHasAgent, Active, Greeted, PromoteRead, ReadRow
  <1>3. ASSUME NEW c \in WS, PromoteStatus(c) PROVE Inv'
    BY <1>3 DEF TypeOK, HandlerPcs, Inv, HubSound, OnlineHasAgent, Active, Greeted, PromoteStatus, DropRow
  <1>4. ASSUME NEW c \in WS, PromoteInstall(c) PROVE Inv'
    BY <1>4 DEF TypeOK, HandlerPcs, Inv, HubSound, OnlineHasAgent, Active, Greeted, PromoteInstall, DropRow
  <1>5. ASSUME NEW c \in WS, UnregisterWS(c) PROVE Inv'
    BY <1>5 DEF TypeOK, HandlerPcs, Inv, HubSound, OnlineHasAgent, Active, Greeted, UnregisterWS
  <1>6. ASSUME NEW c \in WS, MarkServerOffline(c) PROVE Inv'
    BY <1>6 DEF TypeOK, HandlerPcs, Inv, HubSound, OnlineHasAgent, Active, Greeted, MarkServerOffline
  <1>7. ASSUME NEW c \in WS, HeartbeatWS(c) PROVE Inv'
    BY <1>7 DEF TypeOK, HandlerPcs, Inv, HubSound, OnlineHasAgent, Active, Greeted, HeartbeatWS
  <1>8. ASSUME NEW c \in WS, AcceptWS(c) PROVE Inv'
    BY <1>8 DEF TypeOK, HandlerPcs, Inv, HubSound, OnlineHasAgent, Active, Greeted, AcceptWS
  <1>9. ASSUME NEW c \in GRPC, AcceptGRPC(c) PROVE Inv'
    BY <1>9 DEF TypeOK, HandlerPcs, Inv, HubSound, OnlineHasAgent, Active, Greeted, AcceptGRPC
  <1>10. ASSUME NEW c \in GRPC, EventUpsert(c) PROVE Inv'
    BY <1>10 DEF TypeOK, HandlerPcs, Inv, HubSound, OnlineHasAgent, Active, Greeted, EventUpsert
  <1>11. ASSUME NEW c \in GRPC, SyncRead(c) PROVE Inv'
    BY <1>11 DEF TypeOK, HandlerPcs, Inv, HubSound, OnlineHasAgent, Active, Greeted, SyncRead, ReadRow
  <1>12. ASSUME NEW c \in GRPC, SyncWrite(c) PROVE Inv'
    BY <1>12 DEF TypeOK, HandlerPcs, Inv, HubSound, OnlineHasAgent, Active, Greeted, SyncWrite, DropRow
  <1>13. ASSUME NEW c \in GRPC, UnregisterGRPC(c) PROVE Inv'
    BY <1>13 DEF TypeOK, HandlerPcs, Inv, HubSound, OnlineHasAgent, Active, Greeted, UnregisterGRPC
  <1>14. ASSUME NEW c \in Conns, AnnounceOnline(c) PROVE Inv'
    BY <1>14 DEF TypeOK, HandlerPcs, Inv, HubSound, OnlineHasAgent, Active, Greeted, AnnounceOnline, Broadcast
  <1>15. ASSUME NEW c \in Conns, StreamEnds(c) PROVE Inv'
    BY <1>15 DEF TypeOK, HandlerPcs, Inv, HubSound, OnlineHasAgent, Active, Greeted, StreamEnds, DropRow
  <1>16. ASSUME NEW c \in Conns, SetOnlineFalse(c) PROVE Inv'
    BY <1>16 DEF TypeOK, HandlerPcs, Inv, HubSound, OnlineHasAgent, Active, Greeted, SetOnlineFalse
  <1>17. ASSUME NEW c \in Conns, AnnounceOffline(c) PROVE Inv'
    BY <1>17 DEF TypeOK, HandlerPcs, Inv, HubSound, OnlineHasAgent, Active, Greeted, AnnounceOffline, Broadcast
  <1>18. ASSUME EditRead PROVE Inv'
    BY <1>18 DEF TypeOK, HandlerPcs, Inv, HubSound, OnlineHasAgent, Active, Greeted, EditRead
  <1>19. ASSUME EditWrite PROVE Inv'
    BY <1>19 DEF TypeOK, HandlerPcs, Inv, HubSound, OnlineHasAgent, Active, Greeted, EditWrite
  <1>20. ASSUME NEW k \in Clients, RegisterClient(k) PROVE Inv'
    BY <1>20 DEF TypeOK, HandlerPcs, Inv, HubSound, OnlineHasAgent, Active, Greeted, RegisterClient
  <1>21. ASSUME NEW k \in Clients, AskStatus(k) PROVE Inv'
    BY <1>21 DEF TypeOK, HandlerPcs, Inv, HubSound, OnlineHasAgent, Active, Greeted, AskStatus
  <1>22. ASSUME NEW k \in Clients, SendStatus(k) PROVE Inv'
    BY <1>22 DEF TypeOK, HandlerPcs, Inv, HubSound, OnlineHasAgent, Active, Greeted, SendStatus
  <1>23. ASSUME NEW k \in Clients, UnregisterClient(k) PROVE Inv'
    BY <1>23 DEF TypeOK, HandlerPcs, Inv, HubSound, OnlineHasAgent, Active, Greeted, UnregisterClient
  <1>24. CASE UNCHANGED vars
    BY <1>24 DEF Inv, HubSound, OnlineHasAgent, Active, Greeted, vars
  <1> QED
    BY <1>1, <1>2, <1>3, <1>4, <1>5, <1>6, <1>7, <1>8, <1>9, <1>10, <1>11, <1>12, <1>13, <1>14, <1>15, <1>16, <1>17, <1>18, <1>19, <1>20, <1>21, <1>22, <1>23, <1>24
    DEF Next, HandlerStep, Report

\* The inductive invariant holds in every state of every behaviour.
THEOREM ConnInvariance == Spec => []Inv
  <1>1. Init => Inv
    BY ConnAssumption
    DEF Init, Inv, HubSound, OnlineHasAgent, Active, Greeted, Conns
  <1> QED
    BY <1>1, ConnInvStep, ConnTypeCorrect, PTL DEF Spec

\* The Hub never holds a connection whose handler has left or whose send loop
\* was closed, however connections replace one another.
THEOREM HubIsSound == Spec => []HubSound
  <1>1. Inv => HubSound
    BY DEF Inv
  <1> QED
    BY <1>1, ConnInvariance, PTL

\* agent_infos.online is true only while some connection's handler runs.
THEOREM OnlineIsBacked == Spec => []OnlineHasAgent
  <1>1. Inv => OnlineHasAgent
    BY DEF Inv
  <1> QED
    BY <1>1, ConnInvariance, PTL

\* No client is left believing a broadcast that the agent is online.
THEOREM ClientsHearTheEnd == Spec => []ViewAtRest
  <1>1. TypeOK /\ Inv => ViewAtRest
    BY DEF Inv, ViewAtRest, Greeted, TypeOK, Conns
  <1> QED
    BY <1>1, ConnTypeCorrect, ConnInvariance, PTL
=============================================================================
