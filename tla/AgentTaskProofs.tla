--------------------------- MODULE AgentTaskProofs ---------------------------
(***************************************************************************)
(* Proofs about AgentTask, for any amount of output, any capacity of the   *)
(* queue and any number of sessions.                                       *)
(***************************************************************************)
EXTENDS AgentTask, TLAPS

-----------------------------------------------------------------------------
(* What taking the first event off a sequence does to it *)

\* Tail shifts the events by one.
LEMMA TailEvents ==
  ASSUME NEW S, NEW q \in Seq(S), q # <<>>
  PROVE  /\ Tail(q) \in Seq(S) /\ Head(q) \in S
         /\ Head(q) = q[1] /\ 1 \in DOMAIN q
         /\ Len(Tail(q)) = Len(q) - 1
         /\ \A i \in DOMAIN Tail(q) : i + 1 \in DOMAIN q /\ Tail(q)[i] = q[i + 1]
         /\ DOMAIN Tail(q) \subseteq Nat \ {0}
  OBVIOUS

\* Append keeps the events of a sequence and adds one after them.
LEMMA AppendEvents ==
  ASSUME NEW S, NEW q \in Seq(S), NEW e
  PROVE  /\ DOMAIN Append(q, e) = DOMAIN q \cup {Len(q) + 1}
         /\ \A i \in DOMAIN q : Append(q, e)[i] = q[i] /\ i < Len(q) + 1
         /\ Append(q, e)[Len(q) + 1] = e
         /\ DOMAIN q \subseteq Nat \ {0} /\ Len(q) \in Nat
  OBVIOUS

\* Taking the head off keeps order and distinctness, and takes its number away.
LEMMA TailKeeps ==
  ASSUME NEW S, NEW q \in Seq(S), q # <<>>
  PROVE  /\ Nums(Tail(q)) \subseteq Nums(q)
         /\ Head(q).kind \in Streams => Head(q).seq \in Nums(q)
         /\ Distinct(q) => /\ Distinct(Tail(q))
                           /\ Head(q).kind \in Streams => Head(q).seq \notin Nums(Tail(q))
         /\ Ordered(q) => Ordered(Tail(q))
         /\ Behind(q) => Behind(Tail(q))
         /\ \A r : Before(r, q) => Before(r, Tail(q))
         /\ \A r : Before(q, r) => Before(Tail(q), r)
         /\ \A k : Has(Tail(q), k) => Has(q, k)
  <1>1. Nums(Tail(q)) \subseteq Nums(q)
    BY TailEvents DEF Nums
  <1>2. Head(q).kind \in Streams => Head(q).seq \in Nums(q)
    BY TailEvents DEF Nums
  <1>3. ASSUME Distinct(q) PROVE Distinct(Tail(q))
    BY <1>3, TailEvents DEF Distinct
  <1>4. ASSUME Distinct(q), Head(q).kind \in Streams
        PROVE  Head(q).seq \notin Nums(Tail(q))
    BY <1>4, TailEvents DEF Distinct, Nums
  <1>5. Ordered(q) => Ordered(Tail(q))
    BY TailEvents DEF Ordered
  <1>6. Behind(q) => Behind(Tail(q))
    BY TailEvents DEF Behind
  <1>7. \A r : Before(r, q) => Before(r, Tail(q))
    BY TailEvents DEF Before
  <1>8. \A r : Before(q, r) => Before(Tail(q), r)
    BY TailEvents DEF Before
  <1>9. \A k : Has(Tail(q), k) => Has(q, k)
    BY TailEvents DEF Has
  <1> QED
    BY <1>1, <1>2, <1>3, <1>4, <1>5, <1>6, <1>7, <1>8, <1>9

\* Appending an event adds its number, if it is output, and nothing else.
LEMMA AppendAdds ==
  ASSUME NEW S, NEW q \in Seq(S), NEW e
  PROVE  /\ Nums(Append(q, e)) \subseteq Nums(q) \cup {e.seq}
         /\ e.kind \notin Streams => /\ Nums(Append(q, e)) = Nums(q)
                                     /\ Distinct(q) => Distinct(Append(q, e))
                                     /\ Ordered(q) => Ordered(Append(q, e))
                                     /\ Behind(q) => Behind(Append(q, e))
                                     /\ \A r : Before(r, q) => Before(r, Append(q, e))
         /\ Distinct(q) /\ e.seq \notin Nums(q) => Distinct(Append(q, e))
         /\ \A k : Has(Append(q, e), k) <=> Has(q, k) \/ e.kind = k
  <1> DEFINE qe == Append(q, e)
  <1>0. /\ DOMAIN qe = DOMAIN q \cup {Len(q) + 1} /\ qe[Len(q) + 1] = e
        /\ \A i \in DOMAIN q : qe[i] = q[i] /\ i < Len(q) + 1
        /\ DOMAIN q \subseteq Nat \ {0} /\ Len(q) \in Nat
    BY AppendEvents
  <1> HIDE DEF qe
  <1>1. Nums(qe) \subseteq Nums(q) \cup {e.seq}
    BY <1>0 DEF Nums
  <1>2. e.kind \notin Streams => Nums(qe) = Nums(q)
    BY <1>0 DEF Nums
  <1>3. e.kind \notin Streams => (Distinct(q) => Distinct(qe))
    BY <1>0 DEF Distinct
  <1>4. e.kind \notin Streams => (Ordered(q) => Ordered(qe))
    BY <1>0 DEF Ordered
  <1>5. e.kind \notin Streams => (Behind(q) => Behind(qe))
    BY <1>0 DEF Behind
  <1>6. e.kind \notin Streams => \A r : Before(r, q) => Before(r, qe)
    BY <1>0 DEF Before
  <1>7. Distinct(q) /\ e.seq \notin Nums(q) => Distinct(qe)
    BY <1>0 DEF Distinct, Nums
  <1>8. \A k : Has(qe, k) <=> Has(q, k) \/ e.kind = k
    BY <1>0 DEF Has
  <1> QED
    BY <1>1, <1>2, <1>3, <1>4, <1>5, <1>6, <1>7, <1>8 DEF qe

\* Output that comes after what a sequence carries may be appended to it.
LEMMA AppendInOrder ==
  ASSUME NEW S, NEW q \in Seq(S), NEW e, Ordered(q), Before(q, <<e>>)
  PROVE  Ordered(Append(q, e))
  <1>0. /\ DOMAIN Append(q, e) = DOMAIN q \cup {Len(q) + 1} /\ Append(q, e)[Len(q) + 1] = e
        /\ \A i \in DOMAIN q : Append(q, e)[i] = q[i] /\ i < Len(q) + 1
        /\ DOMAIN q \subseteq Nat \ {0} /\ Len(q) \in Nat
    BY AppendEvents
  <1>1. 1 \in DOMAIN <<e>> /\ <<e>>[1] = e
    OBVIOUS
  <1>2. \A i \in DOMAIN q : q[i].kind \in Streams /\ q[i].kind = e.kind
                            => q[i].seq < e.seq /\ q[i].chunk < e.chunk
    BY <1>1, Zenon DEF Before
  <1> QED
    BY <1>0, <1>2 DEF Ordered
-----------------------------------------------------------------------------
(* The inductive invariant *)

\* A send leaves the queue alone or appends the event to it.
LEMMA SendEventAppends ==
  ASSUME TypeOK, NEW e \in Event, SendEvent(e)
  PROVE  /\ outCh' = outCh \/ outCh' = Append(outCh, e)
         /\ outCh' \in Seq(Event) /\ Len(outCh') <= Cap
         /\ proc' \in {"up", "closed", "exited", "panicked"}
  <1>1. outCh \in Seq(Event) /\ Len(outCh) <= Cap /\ Cap \in Nat
    BY TaskAssumption DEF TypeOK
  <1>2. Len(outCh) < Cap => Append(outCh, e) \in Seq(Event) /\ Len(Append(outCh, e)) <= Cap
    BY <1>1
  <1> QED
    BY <1>1, <1>2 DEF TypeOK, SendEvent

\* The queue, the wires, the rows and the flags keep their types.
LEMMA TypeStep == TypeOK /\ [Next]_vars => TypeOK'
  <1> SUFFICES ASSUME TypeOK, [Next]_vars PROVE TypeOK'
    OBVIOUS
  <1> USE DEF Set, taskVars, server
  <1>1. CASE Start
    BY <1>1 DEF Start, TypeOK
  <1>2. CASE CommandEnds
    BY <1>2 DEF CommandEnds, TypeOK
  <1>3. CASE Finish
    <2>1. ResultEvent \in Event
      BY DEF ResultEvent, Event, Kinds
    <2> QED
      BY <1>3, <2>1, SendEventAppends DEF Finish, TypeOK
  <1>4. OtherEvent \in Event
    BY DEF OtherEvent, Event, Kinds
  <1>5. CASE OtherSend
    BY <1>4, <1>5, SendEventAppends DEF OtherSend, TypeOK
  <1>6. CASE Close
    BY <1>6 DEF Close, TypeOK
  <1>7. CASE Exit
    BY <1>7 DEF Exit, TypeOK
  <1>8. ASSUME NEW s \in Streams, Reader(s) PROVE TypeOK'
    <2>1. CASE Read(s)
      BY <2>1 DEF Read, TypeOK
    <2>2. CASE TakeSeq(s)
      BY <2>2 DEF TakeSeq, TypeOK
    <2>3. CASE SendOutput(s)
      <3>1. [kind |-> s, chunk |-> buf[s], seq |-> mine[s]] \in Event
        BY DEF Event, Kinds, TypeOK
      <3> QED
        BY <2>3, <3>1, SendEventAppends DEF SendOutput, TypeOK
    <2>4. CASE Eof(s)
      BY <2>4 DEF Eof, TypeOK
    <2> QED
      BY <1>8, <2>1, <2>2, <2>3, <2>4 DEF Reader
  <1>9. ASSUME NEW i \in Sessions, Connect(i) PROVE TypeOK'
    BY <1>9, <1>4, SendEventAppends DEF Connect, TypeOK
  <1>10. ASSUME NEW i \in Sessions, RecvFails(i) PROVE TypeOK'
    BY <1>10 DEF RecvFails, TypeOK
  <1>11. ASSUME NEW i \in Sessions, WriteLoop(i) PROVE TypeOK'
    <2>1. /\ outCh \in Seq(Event) /\ outCh # <<>> /\ outCh' = Tail(outCh)
          /\ Len(outCh) <= Cap
      BY <1>11 DEF WriteLoop, TypeOK
    <2>2. /\ outCh' \in Seq(Event) /\ Head(outCh) \in Event /\ Len(outCh') <= Cap
      BY <2>1, TailEvents, TaskAssumption
    <2>3. Head(outCh).kind # "other" => Marshal(Head(outCh)) \in Sent
      BY <2>2 DEF Marshal, Sent, Event, Kinds, TypeOK
    <2>4. wire' \in [Sessions -> Seq(Sent)]
      <3>1. CASE Head(outCh).kind = "other"
        BY <1>11, <3>1 DEF WriteLoop, TypeOK
      <3>2. CASE Head(outCh).kind # "other"
        <4>1. Append(wire[i], Marshal(Head(outCh))) \in Seq(Sent)
          BY <2>3, <3>2 DEF TypeOK
        <4> QED
          BY <1>11, <3>2, <4>1 DEF WriteLoop, TypeOK
      <3> QED
        BY <3>1, <3>2
    <2> QED
      BY <1>11, <2>2, <2>4 DEF WriteLoop, TypeOK
  <1>12. ASSUME NEW i \in Sessions, WriteFails(i) PROVE TypeOK'
    <2>1. /\ outCh \in Seq(Event) /\ outCh # <<>> /\ outCh' = Tail(outCh)
          /\ Len(outCh) <= Cap
      BY <1>12 DEF WriteFails, TypeOK
    <2>2. outCh' \in Seq(Event) /\ Len(outCh') <= Cap
      BY <2>1, TailEvents, TaskAssumption
    <2> QED
      BY <1>12, <2>2 DEF WriteFails, TypeOK
  <1>13. ASSUME NEW i \in Sessions, LoopExits(i) PROVE TypeOK'
    BY <1>13 DEF LoopExits, TypeOK
  <1>14. ASSUME NEW i \in Sessions, HandleEvent(i) PROVE TypeOK'
    <2>1. wire[i] \in Seq(Sent) /\ wire[i] # <<>>
      BY <1>14 DEF HandleEvent, TypeOK
    <2>2. Tail(wire[i]) \in Seq(Sent) /\ Head(wire[i]) \in Sent
      BY <2>1, TailEvents
    <2>3. Head(wire[i]).kind # "result"
          => Head(wire[i]) \in {e \in Sent : e.kind \in Streams}
      BY <2>2 DEF Sent
    <2>4. wire' \in [Sessions -> Seq(Sent)]
      BY <1>14, <2>2 DEF HandleEvent, TypeOK
    <2>5. logs' \in Seq({e \in Sent : e.kind \in Streams}) /\ result' \in BOOLEAN
      <3>1. CASE Head(wire[i]).kind = "result"
        BY <1>14, <3>1 DEF HandleEvent, TypeOK
      <3>2. CASE Head(wire[i]).kind # "result"
        <4>1. /\ logs' = Append(logs, Head(wire[i])) /\ result' = result
              /\ logs \in Seq({e \in Sent : e.kind \in Streams}) /\ result \in BOOLEAN
          BY <1>14, <3>2 DEF HandleEvent, TypeOK
        <4> HIDE DEF Sent
        <4> QED
          BY <2>3, <3>2, <4>1
      <3> QED
        BY <3>1, <3>2
    <2> QED
      BY <1>14, <2>4, <2>5 DEF HandleEvent, TypeOK
  <1>15. ASSUME NEW i \in Sessions, StreamLost(i) PROVE TypeOK'
    BY <1>15 DEF StreamLost, TypeOK
  <1>16. CASE UNCHANGED vars
    BY <1>16 DEF vars, TypeOK
  <1> QED
    BY <1>1, <1>2, <1>3, <1>5, <1>6, <1>7, <1>8, <1>9, <1>10, <1>11, <1>12,
       <1>13, <1>14, <1>15, <1>16 DEF Next

\* An event that is no output disturbs neither the numbers nor the order.
LEMMA SendOfNoOutput ==
  ASSUME Inv, NEW e \in Event, e.kind \notin Streams, SendEvent(e),
         UNCHANGED <<reader, buf, seq, mine, wire, logs>>
  PROVE  Issued' /\ OnePlace' /\ InOrder'
  <1>1. outCh \in Seq(Event) /\ (outCh' = outCh \/ outCh' = Append(outCh, e))
    BY SendEventAppends DEF Inv, TypeOK
  <1>2. /\ Nums(outCh') = Nums(outCh)
        /\ Distinct(outCh) => Distinct(outCh')
        /\ Ordered(outCh) => Ordered(outCh')
        /\ Behind(outCh) => Behind(outCh')
        /\ \A r : Before(r, outCh) => Before(r, outCh')
    <2>1. CASE outCh' = outCh
      BY <2>1
    <2>2. CASE outCh' = Append(outCh, e)
      BY <1>1, <2>2, AppendAdds
    <2> QED
      BY <1>1, <2>1, <2>2
  <1>3. \A s \in Streams : Held(s)' = Held(s)
    BY DEF Held
  <1>4. Issued'
    BY <1>2, <1>3 DEF Inv, Issued
  <1>5. OnePlace'
    BY <1>2, <1>3 DEF Inv, OnePlace
  <1>6. Behind(outCh)' /\ \A i \in Sessions : Behind(wire[i])'
    BY <1>2 DEF Inv, InOrder, Behind
  <1>7. InOrder'
    BY <1>2, <1>6 DEF Inv, InOrder
  <1> QED
    BY <1>4, <1>5, <1>7

\* Losing the head of the queue disturbs nothing.
LEMMA HeadDropped ==
  ASSUME Inv, outCh # <<>>, outCh' = Tail(outCh),
         UNCHANGED <<taskVars, wire, logs, result>>
  PROVE  Issued' /\ OnePlace' /\ InOrder' /\ ResultAlone'
  <1>1. outCh \in Seq(Event)
    BY DEF Inv, TypeOK
  <1>2. /\ Nums(outCh') \subseteq Nums(outCh)
        /\ Distinct(outCh) => Distinct(outCh')
        /\ Ordered(outCh) => Ordered(outCh')
        /\ Behind(outCh) => Behind(outCh')
        /\ \A r : Before(r, outCh) => Before(r, outCh')
        /\ Has(outCh', "result") => Has(outCh, "result")
    BY <1>1, TailKeeps
  <1>3. \A s \in Streams : Held(s)' = Held(s)
    BY DEF Held, taskVars
  <1>4. Issued'
    BY <1>2, <1>3 DEF Inv, Issued, taskVars
  <1>5. OnePlace'
    BY <1>2, <1>3 DEF Inv, OnePlace
  <1>6. Behind(outCh)' /\ \A i \in Sessions : Behind(wire[i])'
    BY <1>2 DEF Inv, InOrder, Behind, taskVars
  <1>7. InOrder'
    BY <1>2, <1>6 DEF Inv, InOrder
  <1>8. /\ \A i \in DOMAIN outCh' : i \in Nat /\ i + 1 \in DOMAIN outCh /\ outCh'[i] = outCh[i + 1]
    BY <1>1, TailEvents
  <1>9. ResultAlone'
    BY <1>2, <1>8 DEF Inv, ResultAlone, taskVars
  <1> QED
    BY <1>4, <1>5, <1>7, <1>9

\* A wire that loses events from its front, the others as they were, keeps its order,
\* whether the rows gain the number it lost or not.
LEMMA WireShrinks ==
  ASSUME Inv, NEW i \in Sessions, NEW w,
         w = <<>> \/ (wire[i] # <<>> /\ w = Tail(wire[i])),
         wire' = [wire EXCEPT ![i] = w],
         UNCHANGED <<taskVars, outCh>>
  PROVE  /\ InOrder'
         /\ Distinct(w) /\ Nums(w) \subseteq Nums(wire[i])
         /\ \A k \in Sessions : Has(wire'[k], "result") => Has(wire[k], "result")
         /\ \A k \in Sessions : \A a, b \in DOMAIN wire'[k] :
               a < b => wire'[k][a].kind # "result"
  <1>1. wire[i] \in Seq(Sent) /\ wire \in [Sessions -> Seq(Sent)]
    BY DEF Inv, TypeOK
  <1>2. /\ Distinct(w) /\ Ordered(w) /\ Before(w, outCh) /\ Behind(w)
        /\ Nums(w) \subseteq Nums(wire[i])
        /\ Has(w, "result") => Has(wire[i], "result")
    <2>1. /\ Distinct(wire[i]) /\ Ordered(wire[i]) /\ Before(wire[i], outCh)
          /\ Behind(wire[i])
      BY DEF Inv, OnePlace, InOrder
    <2>2. CASE w = <<>>
      BY <2>2 DEF Distinct, Ordered, Before, Behind, Nums, Has
    <2>3. CASE wire[i] # <<>> /\ w = Tail(wire[i])
      BY <2>1, <2>3, <1>1, TailKeeps
    <2> QED
      BY <2>2, <2>3
  <1>3. \A k \in Sessions : wire'[k] = IF k = i THEN w ELSE wire[k]
    BY <1>1
  <1>4. Behind(outCh)' /\ \A k \in Sessions : Behind(wire[k])'
    <2>1. Behind(outCh) /\ \A k \in Sessions : Behind(wire'[k])
      BY <1>2, <1>3 DEF Inv, InOrder
    <2> QED
      BY <2>1 DEF Behind, taskVars
  <1>5. InOrder'
    BY <1>2, <1>3, <1>4 DEF Inv, InOrder
  <1>6. \A k \in Sessions : \A a, b \in DOMAIN wire'[k] : a < b => wire'[k][a].kind # "result"
    <2> SUFFICES ASSUME NEW k \in Sessions, NEW a \in DOMAIN wire'[k],
                        NEW b \in DOMAIN wire'[k], a < b
                 PROVE  wire'[k][a].kind # "result"
      OBVIOUS
    <2>1. \A c, d \in DOMAIN wire[k] : c < d => wire[k][c].kind # "result"
      BY DEF Inv, ResultAlone
    <2>2. CASE k # i \/ w = <<>>
      BY <1>3, <2>1, <2>2
    <2>3. CASE k = i /\ wire[i] # <<>> /\ w = Tail(wire[i])
      <3>1. /\ wire'[k][a] = wire[k][a + 1] /\ a + 1 \in DOMAIN wire[k]
            /\ b + 1 \in DOMAIN wire[k] /\ a \in Nat /\ b \in Nat
        BY <1>1, <1>3, <2>3, TailEvents
      <3> QED
        BY <2>1, <3>1
    <2> QED
      BY <2>2, <2>3
  <1> QED
    BY <1>2, <1>3, <1>5, <1>6

\* The numbers and chunks of queued and sent events are natural numbers.
LEMMA EventNumbers ==
  ASSUME TypeOK
  PROVE  /\ \A i \in DOMAIN outCh : outCh[i].seq \in Nat /\ outCh[i].chunk \in Nat
         /\ \A k \in Sessions : \A i \in DOMAIN wire[k] :
               wire[k][i].seq \in Nat /\ wire[k][i].chunk \in Nat
  <1>1. \A i \in DOMAIN outCh : outCh[i] \in Event
    BY DEF TypeOK
  <1>2. \A k \in Sessions : \A i \in DOMAIN wire[k] : wire[k][i] \in Sent
    BY DEF TypeOK
  <1> QED
    BY <1>1, <1>2 DEF Event, Sent

\* A reader that takes a number or goes on reading leaves the events where they are.
LEMMA ReaderStep ==
  ASSUME Inv, TypeOK', NEW s \in Streams, Read(s) \/ TakeSeq(s) \/ Eof(s)
  PROVE  Inv'
  <1> USE DEF Inv, Set, server
  <1>0. /\ seq \in Nat /\ buf \in [Streams -> Nat] /\ mine \in [Streams -> Nat]
        /\ reader \in [Streams -> {"read", "seq", "send", "eof"}]
    BY DEF TypeOK
  <1>1. CASE Read(s)
    <2>1. \A t \in Streams : Held(t)' \subseteq Held(t)
      BY <1>0, <1>1 DEF Read, Held
    <2>2. Issued'
      BY <1>1, <2>1 DEF Read, Issued
    <2>3. OnePlace'
      BY <1>1, <2>1 DEF Read, OnePlace
    <2>4. Behind(outCh)' /\ \A i \in Sessions : Behind(wire[i])'
      <3>1. Behind(outCh) /\ \A i \in Sessions : Behind(wire[i])
        BY DEF InOrder
      <3>2. /\ reader[s] = "read" /\ UNCHANGED <<outCh, wire, mine>>
            /\ buf' = [buf EXCEPT ![s] = buf[s] + 1]
            /\ reader' = [reader EXCEPT ![s] = "seq"]
        BY <1>1 DEF Read
      <3> QED
        BY <1>0, <3>1, <3>2, EventNumbers DEF Behind
    <2>5. InOrder'
      BY <1>1, <2>4 DEF Read, InOrder
    <2>6. ResultAlone'
      BY <1>0, <1>1 DEF Read, ResultAlone
    <2> QED
      BY <2>2, <2>3, <2>5, <2>6
  <1>2. CASE TakeSeq(s)
    <2>1. /\ seq' = seq + 1 /\ Held(s)' = {seq}
          /\ \A t \in Streams : t # s => Held(t)' = Held(t)
      BY <1>0, <1>2 DEF TakeSeq, Held
    <2>2. UNCHANGED <<outCh, wire, logs, task, result, buf>>
      BY <1>2 DEF TakeSeq
    <2>3. Issued'
      <3>1. 0 .. (seq - 1) \subseteq 0 .. (seq' - 1) /\ seq \in 0 .. (seq' - 1)
        BY <1>0, <2>1
      <3> QED
        BY <2>1, <2>2, <3>1 DEF Issued
    <2>4. /\ seq \notin Nums(outCh) /\ seq \notin Nums(logs)
          /\ \A i \in Sessions : seq \notin Nums(wire[i])
          /\ \A t \in Streams : seq \notin Held(t)
      <3>1. seq \notin 0 .. (seq - 1)
        BY <1>0
      <3> QED
        BY <3>1 DEF Issued
    <2>5. OnePlace'
      <3>1. /\ Held(s)' \cap (Nums(outCh) \cup Nums(logs)) = {}
            /\ \A i \in Sessions : Held(s)' \cap Nums(wire[i]) = {}
            /\ \A t \in Streams : s # t => Held(s)' \cap Held(t) = {}
        BY <2>1, <2>4
      <3> QED
        BY <2>1, <2>2, <3>1 DEF OnePlace
    <2>6. ASSUME NEW q, Nums(q) \subseteq 0 .. (seq - 1)
          PROVE  \A i \in DOMAIN q : q[i].kind \in Streams => q[i].seq < seq
      BY <1>0, <2>6 DEF Nums
    <2>7. Behind(outCh)' /\ \A i \in Sessions : Behind(wire[i])'
      <3>1. /\ Behind(outCh)
            /\ \A i \in DOMAIN outCh : outCh[i].kind \in Streams => outCh[i].seq < seq
        BY <2>6 DEF InOrder, Issued
      <3>2. \A k \in Sessions :
              /\ Behind(wire[k])
              /\ \A i \in DOMAIN wire[k] : wire[k][i].kind \in Streams => wire[k][i].seq < seq
        BY <2>6 DEF InOrder, Issued
      <3>3. /\ reader[s] = "seq" /\ reader' = [reader EXCEPT ![s] = "send"]
            /\ mine' = [mine EXCEPT ![s] = seq]
        BY <1>2 DEF TakeSeq
      <3> QED
        BY <1>0, <2>2, <3>1, <3>2, <3>3 DEF Behind
    <2>8. InOrder'
      BY <2>2, <2>7 DEF InOrder
    <2>9. ResultAlone'
      BY <1>0, <1>2 DEF TakeSeq, ResultAlone
    <2> QED
      BY <2>3, <2>5, <2>8, <2>9
  <1>3. CASE Eof(s)
    <2>1. \A t \in Streams : Held(t)' = Held(t)
      BY <1>0, <1>3 DEF Eof, Held
    <2>2. Issued'
      BY <1>3, <2>1 DEF Eof, Issued
    <2>3. OnePlace'
      BY <1>3, <2>1 DEF Eof, OnePlace
    <2>4. InOrder'
      BY <1>0, <1>3 DEF Eof, InOrder, Behind
    <2>5. ResultAlone'
      BY <1>0, <1>3 DEF Eof, ResultAlone
    <2> QED
      BY <2>2, <2>3, <2>4, <2>5
  <1> QED
    BY <1>1, <1>2, <1>3

\* Queuing a chunk moves its number from the reader to the end of the queue,
\* or drops it.
LEMMA SendOutputStep ==
  ASSUME Inv, TypeOK', NEW s \in Streams, SendOutput(s)
  PROVE  Inv'
  <1> DEFINE e == [kind |-> s, chunk |-> buf[s], seq |-> mine[s]]
  <1>1. /\ reader[s] = "send" /\ SendEvent(e) /\ reader' = [reader EXCEPT ![s] = "read"]
        /\ UNCHANGED <<task, buf, seq, mine, wire, logs, result>>
        /\ reader \in [Streams -> {"read", "seq", "send", "eof"}]
        /\ outCh \in Seq(Event) /\ outCh' \in Seq(Event)
        /\ wire \in [Sessions -> Seq(Sent)]
        /\ buf \in [Streams -> Nat] /\ mine \in [Streams -> Nat] /\ seq \in Nat
    BY DEF SendOutput, Set, server, Inv, TypeOK
  <1>2. e \in Event /\ e.kind = s /\ e.seq = mine[s] /\ e.chunk = buf[s]
    BY <1>1 DEF Event, Kinds
  <1> HIDE DEF e
  <1>3. outCh' = outCh \/ outCh' = Append(outCh, e)
    BY <1>1, <1>2, SendEventAppends DEF Inv
  <1>4. /\ Held(s) = {e.seq} /\ Held(s)' = {}
        /\ \A t \in Streams : t # s => Held(t)' = Held(t)
    BY <1>1, <1>2 DEF Held
  <1>5. Nums(outCh') \subseteq Nums(outCh) \cup Held(s)
    BY <1>1, <1>3, <1>4, AppendAdds
  <1>6. Issued'
    BY <1>1, <1>4, <1>5 DEF Inv, Issued
  <1>7. Distinct(outCh')
    <2>1. e.seq \notin Nums(outCh) /\ Distinct(outCh)
      BY <1>4 DEF Inv, OnePlace
    <2>2. Distinct(Append(outCh, e))
      BY <1>1, <2>1, AppendAdds
    <2> QED
      BY <1>3, <2>1, <2>2
  <1>8. OnePlace'
    <2>1. /\ Nums(outCh') \cap Nums(logs) = {}
          /\ \A i \in Sessions : Nums(wire[i]) \cap (Nums(outCh') \cup Nums(logs)) = {}
      BY <1>5 DEF Inv, OnePlace
    <2>2. ASSUME NEW t \in Streams, t # s
          PROVE  Held(t) \cap (Nums(outCh') \cup Nums(logs)) = {}
      <3>1. Held(t) \cap (Nums(outCh) \cup Nums(logs)) = {} /\ Held(t) \cap Held(s) = {}
        BY <2>2 DEF Inv, OnePlace
      <3> QED
        BY <1>5, <3>1
    <2>3. \A t \in Streams : /\ Held(t)' \cap (Nums(outCh') \cup Nums(logs)) = {}
                             /\ \A i \in Sessions : Held(t)' \cap Nums(wire[i]) = {}
                             /\ \A u \in Streams : t # u => Held(t)' \cap Held(u)' = {}
      <3>1. \A t \in Streams : /\ \A i \in Sessions : Held(t) \cap Nums(wire[i]) = {}
                               /\ \A u \in Streams : t # u => Held(t) \cap Held(u) = {}
        BY DEF Inv, OnePlace
      <3> QED
        BY <1>4, <2>2, <3>1
    <2>4. /\ Distinct(logs) /\ \A i \in Sessions : Distinct(wire[i])
          /\ \A i, j \in Sessions : i # j => Nums(wire[i]) \cap Nums(wire[j]) = {}
      BY DEF Inv, OnePlace
    <2> QED
      BY <1>1, <1>7, <2>1, <2>3, <2>4 DEF OnePlace
  <1>9. Before(outCh, <<e>>) /\ \A i \in Sessions : Before(wire[i], <<e>>)
    <2>1. \A i \in DOMAIN <<e>> : <<e>>[i] = e
      OBVIOUS
    <2> QED
      BY <1>1, <1>2, <2>1 DEF Inv, InOrder, Behind, Before
  <1>10. Ordered(outCh')
    BY <1>1, <1>3, <1>9, AppendInOrder DEF Inv, InOrder
  <1>11. \A i \in DOMAIN outCh' : \/ i \in DOMAIN outCh /\ outCh'[i] = outCh[i]
                                 \/ outCh'[i] = e
    <2>1. CASE outCh' = outCh
      BY <2>1
    <2>2. CASE outCh' = Append(outCh, e)
      <3>1. /\ DOMAIN outCh' = DOMAIN outCh \cup {Len(outCh) + 1}
            /\ \A i \in DOMAIN outCh : outCh'[i] = outCh[i]
            /\ outCh'[Len(outCh) + 1] = e
        BY <1>1, <2>2, AppendEvents
      <3> QED
        BY <3>1, Zenon
    <2> QED
      BY <1>3, <2>1, <2>2
  <1>12. \A i \in Sessions : Before(wire[i], outCh')
    <2>1. 1 \in DOMAIN <<e>> /\ <<e>>[1] = e
      OBVIOUS
    <2>2. \A i \in Sessions : Before(wire[i], outCh)
      BY DEF Inv, InOrder
    <2> QED
      BY <1>9, <1>11, <2>1, <2>2 DEF Before
  <1>13. Behind(outCh)' /\ \A i \in Sessions : Behind(wire[i])'
    <2>1. Behind(outCh) /\ \A i \in Sessions : Behind(wire[i])
      BY DEF Inv, InOrder
    <2>2. \A i \in Sessions : Behind(wire[i])'
      BY <1>1, <2>1 DEF Behind
    <2>3. Behind(outCh)'
      <3> SUFFICES ASSUME NEW i \in DOMAIN outCh', outCh'[i].kind \in Streams
                   PROVE  /\ outCh'[i].chunk <= buf[outCh'[i].kind]
                          /\ reader'[outCh'[i].kind] \in {"seq", "send"}
                             => outCh'[i].chunk < buf[outCh'[i].kind]
                          /\ reader'[outCh'[i].kind] = "send"
                             => outCh'[i].seq < mine[outCh'[i].kind]
        BY <1>1, Zenon DEF Behind
      <3>1. CASE i \in DOMAIN outCh /\ outCh'[i] = outCh[i]
        BY <1>1, <2>1, <3>1 DEF Behind
      <3>2. CASE outCh'[i] = e
        BY <1>1, <1>2, <3>2
      <3> QED
        BY <1>11, <3>1, <3>2
    <2> QED
      BY <2>2, <2>3
  <1>14. InOrder'
    BY <1>1, <1>10, <1>12, <1>13 DEF Inv, InOrder
  <1>15. ResultAlone'
    <2>1. task # "done"
      BY <1>1 DEF Inv, ResultAlone
    <2>2. ~Has(outCh, "result") /\ ~result /\ \A i \in Sessions : ~Has(wire[i], "result")
      BY <2>1 DEF Inv, ResultAlone
    <2>3. ~Has(outCh', "result")
      BY <1>2, <1>11, <2>2 DEF Has, Streams
    <2> QED
      BY <1>1, <2>1, <2>2, <2>3 DEF ResultAlone, Has
  <1> QED
    BY <1>6, <1>8, <1>14, <1>15 DEF Inv

\* Other people's events may be queued anywhere.
LEMMA OtherStep ==
  ASSUME Inv, TypeOK', SendEvent(OtherEvent), UNCHANGED <<taskVars, wire, server>>
  PROVE  Inv'
  <1>1. OtherEvent \in Event /\ OtherEvent.kind = "other" /\ "other" \notin Streams
    BY DEF OtherEvent, Event, Kinds, Streams
  <1>2. Issued' /\ OnePlace' /\ InOrder'
    BY <1>1, SendOfNoOutput DEF taskVars, server
  <1>3. outCh \in Seq(Event) /\ (outCh' = outCh \/ outCh' = Append(outCh, OtherEvent))
    BY <1>1, SendEventAppends DEF Inv, TypeOK
  <1>4. ResultAlone'
    <2>1. CASE outCh' = outCh
      BY <2>1 DEF Inv, ResultAlone, taskVars, server
    <2>2. CASE outCh' = Append(outCh, OtherEvent)
      <3>1. /\ DOMAIN outCh' = DOMAIN outCh \cup {Len(outCh) + 1}
            /\ \A i \in DOMAIN outCh : outCh'[i] = outCh[i] /\ i < Len(outCh) + 1
            /\ outCh'[Len(outCh) + 1].kind = "other"
            /\ DOMAIN outCh \subseteq Nat \ {0} /\ Len(outCh) \in Nat
        BY <1>1, <1>3, <2>2, AppendEvents
      <3>2. Has(outCh', "result") <=> Has(outCh, "result")
        BY <3>1 DEF Has
      <3> QED
        BY <3>1, <3>2 DEF Inv, ResultAlone, taskVars, server
    <2> QED
      BY <1>3, <2>1, <2>2
  <1> QED
    BY <1>2, <1>4 DEF Inv

\* The result is queued behind everything the task has sent.
LEMMA FinishStep ==
  ASSUME Inv, TypeOK', Finish
  PROVE  Inv'
  <1>1. ResultEvent \in Event /\ ResultEvent.kind = "result" /\ "result" \notin Streams
    BY DEF ResultEvent, Event, Kinds, Streams
  <1>2. Issued' /\ OnePlace' /\ InOrder'
    BY <1>1, SendOfNoOutput DEF Finish, server
  <1>3. outCh \in Seq(Event) /\ (outCh' = outCh \/ outCh' = Append(outCh, ResultEvent))
    BY <1>1, SendEventAppends DEF Finish, Inv, TypeOK
  <1>4. /\ ~Has(outCh, "result") /\ ~result /\ \A i \in Sessions : ~Has(wire[i], "result")
        /\ task' = "done" /\ \A s \in Streams : reader'[s] = "eof"
        /\ UNCHANGED <<wire, result>>
    BY DEF Finish, Inv, ResultAlone, server
  <1>5. \A i, j \in DOMAIN outCh' : i < j => outCh'[i].kind # "result"
    <2>1. CASE outCh' = outCh
      BY <1>4, <2>1 DEF Has
    <2>2. CASE outCh' = Append(outCh, ResultEvent)
      <3>1. /\ DOMAIN outCh' = DOMAIN outCh \cup {Len(outCh) + 1}
            /\ \A i \in DOMAIN outCh : outCh'[i] = outCh[i] /\ i < Len(outCh) + 1
            /\ DOMAIN outCh \subseteq Nat \ {0} /\ Len(outCh) \in Nat
        BY <1>3, <2>2, AppendEvents
      <3> QED
        BY <1>4, <3>1 DEF Has
    <2> QED
      BY <1>3, <2>1, <2>2
  <1>6. ResultAlone'
    BY <1>4, <1>5 DEF Inv, ResultAlone, Has
  <1> QED
    BY <1>2, <1>6 DEF Inv

\* The write loop moves the head of the queue to the end of its wire.
LEMMA WriteLoopStep ==
  ASSUME Inv, TypeOK', NEW i \in Sessions, WriteLoop(i)
  PROVE  Inv'
  <1>1. /\ outCh # <<>> /\ outCh' = Tail(outCh) /\ outCh \in Seq(Event)
        /\ UNCHANGED <<taskVars, logs, result>>
        /\ wire \in [Sessions -> Seq(Sent)]
    BY DEF WriteLoop, server, Inv, TypeOK
  <1>2. CASE Head(outCh).kind = "other"
    <2>1. UNCHANGED wire
      BY <1>2 DEF WriteLoop
    <2> QED
      BY <1>1, <2>1, HeadDropped DEF Inv
  <1>3. CASE Head(outCh).kind # "other"
    <2> DEFINE e == Marshal(Head(outCh))
               w == Append(wire[i], e)
    <2>1. /\ \A k \in Sessions : wire'[k] = IF k = i THEN w ELSE wire[k]
          /\ wire[i] \in Seq(Sent)
      BY <1>1, <1>3 DEF WriteLoop, Set
    <2>2. e.kind = outCh[1].kind /\ e.seq = outCh[1].seq /\ e.chunk = outCh[1].chunk
      BY <1>1, TailEvents DEF Marshal
    <2>3. /\ 1 \in DOMAIN outCh
          /\ \A j \in DOMAIN outCh' : /\ j \in Nat \ {0} /\ j + 1 \in DOMAIN outCh
                                       /\ outCh'[j] = outCh[j + 1]
      BY <1>1, TailEvents
    <2> HIDE DEF e
    <2>4. /\ DOMAIN w = DOMAIN wire[i] \cup {Len(wire[i]) + 1}
          /\ \A j \in DOMAIN wire[i] : w[j] = wire[i][j] /\ j < Len(wire[i]) + 1
          /\ w[Len(wire[i]) + 1] = e
          /\ DOMAIN wire[i] \subseteq Nat \ {0} /\ Len(wire[i]) \in Nat
      BY <2>1, AppendEvents
    <2>5. \A s \in Streams : Held(s)' = Held(s)
      BY <1>1 DEF Held, taskVars
    <2>6. /\ Nums(outCh') \subseteq Nums(outCh)
          /\ Distinct(outCh')
          /\ e.kind \in Streams => e.seq \in Nums(outCh) /\ e.seq \notin Nums(outCh')
      <3>1. Head(outCh) = outCh[1] /\ Distinct(outCh)
        BY <1>1, TailEvents DEF Inv, OnePlace
      <3> QED
        BY <1>1, <2>2, <3>1, TailKeeps
    <2>7. /\ Nums(w) \subseteq Nums(wire[i]) \cup (Nums(outCh) \ Nums(outCh'))
          /\ Distinct(w)
      <3>1. Distinct(wire[i]) /\ Nums(wire[i]) \cap Nums(outCh) = {}
        BY DEF Inv, OnePlace
      <3>2. CASE e.kind \in Streams
        BY <2>1, <2>6, <3>1, <3>2, AppendAdds
      <3>3. CASE e.kind \notin Streams
        BY <2>1, <3>1, <3>3, AppendAdds
      <3> QED
        BY <3>2, <3>3
    <2>8. \A k \in Sessions : /\ Distinct(wire'[k])
                              /\ k # i => Nums(wire'[k]) = Nums(wire[k])
                              /\ Nums(wire'[i]) \subseteq Nums(wire[i]) \cup (Nums(outCh) \ Nums(outCh'))
      BY <2>1, <2>7 DEF Inv, OnePlace
    <2> HIDE DEF w
    <2>9. Issued'
      <3>1. /\ Nums(outCh) \subseteq 0 .. (seq - 1) /\ Nums(logs) \subseteq 0 .. (seq - 1)
            /\ \A k \in Sessions : Nums(wire[k]) \subseteq 0 .. (seq - 1)
            /\ \A s \in Streams : Held(s) \subseteq 0 .. (seq - 1)
        BY DEF Inv, Issued
      <3>2. \A k \in Sessions : Nums(wire'[k]) \subseteq 0 .. (seq - 1)
        BY <2>8, <3>1
      <3> QED
        BY <1>1, <2>5, <2>6, <3>1, <3>2 DEF Issued, taskVars
    <2>10. OnePlace'
      <3>1. /\ Nums(outCh) \cap Nums(logs) = {}
            /\ \A k \in Sessions : Nums(wire[k]) \cap (Nums(outCh) \cup Nums(logs)) = {}
            /\ \A k, j \in Sessions : k # j => Nums(wire[k]) \cap Nums(wire[j]) = {}
        BY DEF Inv, OnePlace
      <3>2. \A s \in Streams : /\ Held(s) \cap (Nums(outCh) \cup Nums(logs)) = {}
                               /\ \A k \in Sessions : Held(s) \cap Nums(wire[k]) = {}
                               /\ \A t \in Streams : s # t => Held(s) \cap Held(t) = {}
        BY DEF Inv, OnePlace
      <3>3. /\ Nums(outCh') \cap Nums(logs) = {}
            /\ \A k \in Sessions : Nums(wire'[k]) \cap (Nums(outCh') \cup Nums(logs)) = {}
        BY <2>6, <2>8, <3>1
      <3>4. \A k, j \in Sessions : k # j => Nums(wire'[k]) \cap Nums(wire'[j]) = {}
        BY <2>8, <3>1
      <3>5. \A s \in Streams : /\ Held(s) \cap (Nums(outCh') \cup Nums(logs)) = {}
                               /\ \A k \in Sessions : Held(s) \cap Nums(wire'[k]) = {}
        BY <2>6, <2>8, <3>2
      <3>6. Distinct(logs) /\ logs' = logs
        BY <1>1 DEF Inv, OnePlace
      <3> QED
        BY <2>5, <2>6, <2>8, <3>2, <3>3, <3>4, <3>5, <3>6 DEF OnePlace
    <2>11. /\ Ordered(outCh') /\ Behind(outCh')
           /\ \A k \in Sessions : k # i => /\ Ordered(wire'[k]) /\ Behind(wire'[k])
                                            /\ Before(wire'[k], outCh')
      <3>1. /\ Ordered(outCh) /\ Behind(outCh)
            /\ \A k \in Sessions : Ordered(wire[k]) /\ Before(wire[k], outCh) /\ Behind(wire[k])
        BY DEF Inv, InOrder
      <3> QED
        BY <1>1, <2>1, <3>1, TailKeeps
    <2>12. Ordered(w) /\ Before(w, outCh') /\ Behind(w)
      <3>1. /\ Ordered(outCh) /\ Behind(outCh)
            /\ Ordered(wire[i]) /\ Before(wire[i], outCh) /\ Behind(wire[i])
        BY DEF Inv, InOrder
      <3>2. \A j \in DOMAIN wire[i] : wire[i][j].kind \in Streams /\ wire[i][j].kind = e.kind
               => wire[i][j].seq < e.seq /\ wire[i][j].chunk < e.chunk
        BY <2>2, <2>3, <3>1 DEF Before
      <3>3. Ordered(w)
        BY <2>4, <3>1, <3>2 DEF Ordered
      <3>4. Before(w, outCh')
        BY <2>2, <2>3, <2>4, <3>1 DEF Before, Ordered
      <3>5. Behind(w)
        BY <2>2, <2>3, <2>4, <3>1 DEF Behind
      <3> QED
        BY <3>3, <3>4, <3>5
    <2>13. InOrder'
      <3>1. Behind(outCh)' /\ \A k \in Sessions : Behind(wire[k])'
        <4>1. Behind(outCh') /\ \A k \in Sessions : Behind(wire'[k])
          BY <2>1, <2>11, <2>12
        <4> QED
          BY <1>1, <4>1 DEF Behind, taskVars
      <3> QED
        BY <2>1, <2>11, <2>12, <3>1 DEF InOrder
    <2>14. ResultAlone'
      <3>1. UNCHANGED <<task, reader, result>>
        BY <1>1 DEF taskVars
      <3>2. Has(outCh', "result") => Has(outCh, "result")
        BY <2>3 DEF Has
      <3>3. Has(w, "result") => Has(wire[i], "result") \/ e.kind = "result"
        BY <2>4 DEF Has
      <3>4. e.kind = "result" => /\ Has(outCh, "result")
                                 /\ \A j \in DOMAIN outCh' : outCh'[j].kind = "other"
        <4>1. \A a, b \in DOMAIN outCh : a < b /\ outCh[a].kind = "result"
                                          => outCh[b].kind = "other"
          BY DEF Inv, ResultAlone
        <4>2. \A j \in DOMAIN outCh' : 1 < j + 1
          BY <2>3
        <4> QED
          BY <2>2, <2>3, <4>1, <4>2 DEF Has
      <3>5. ~Has(wire[i], "result")
        BY <1>3, <2>2, <2>3, <1>1, TailEvents DEF Inv, ResultAlone
      <3>6. \A a, b \in DOMAIN w : a < b => w[a].kind # "result"
        BY <2>4, <3>5 DEF Has
      <3>7. task # "done" => /\ ~Has(outCh', "result") /\ ~result
                             /\ \A k \in Sessions : ~Has(wire'[k], "result")
        BY <2>1, <3>2, <3>3, <3>4 DEF Inv, ResultAlone
      <3>8. \A a, b \in DOMAIN outCh' : a < b /\ outCh'[a].kind = "result" => outCh'[b].kind = "other"
        BY <2>3 DEF Inv, ResultAlone
      <3>9. ASSUME NEW k \in Sessions
            PROVE  /\ \A a, b \in DOMAIN wire'[k] : a < b => wire'[k][a].kind # "result"
                   /\ Has(wire'[k], "result") => \A j \in DOMAIN outCh' : outCh'[j].kind = "other"
        <4>1. CASE k = i
          BY <2>1, <3>3, <3>4, <3>5, <3>6, <4>1
        <4>2. CASE k # i
          <5>1. wire'[k] = wire[k]
            BY <2>1, <4>2
          <5>2. /\ \A a, b \in DOMAIN wire[k] : a < b => wire[k][a].kind # "result"
                /\ Has(wire[k], "result") => \A j \in DOMAIN outCh : outCh[j].kind = "other"
            BY DEF Inv, ResultAlone
          <5> QED
            BY <2>3, <5>1, <5>2
        <4> QED
          BY <4>1, <4>2
      <3>10. task = "done" => \A s \in Streams : reader[s] = "eof"
        BY DEF Inv, ResultAlone
      <3> QED
        BY <3>1, <3>7, <3>8, <3>9, <3>10 DEF ResultAlone
    <2> QED
      BY <2>9, <2>10, <2>13, <2>14 DEF Inv
  <1> QED
    BY <1>2, <1>3

\* Handling an event moves it from its wire to the rows, or records the result.
LEMMA HandleEventStep ==
  ASSUME Inv, TypeOK', NEW i \in Sessions, HandleEvent(i)
  PROVE  Inv'
  <1> DEFINE w == Tail(wire[i])
             e == Head(wire[i])
  <1>1. /\ wire[i] # <<>> /\ wire[i] \in Seq(Sent) /\ wire \in [Sessions -> Seq(Sent)]
        /\ wire' = [wire EXCEPT ![i] = w] /\ UNCHANGED <<taskVars, outCh>>
        /\ logs \in Seq({x \in Sent : x.kind \in Streams})
    BY DEF HandleEvent, Set, Inv, TypeOK
  <1>2. /\ InOrder' /\ Distinct(w) /\ Nums(w) \subseteq Nums(wire[i])
        /\ \A k \in Sessions : Has(wire'[k], "result") => Has(wire[k], "result")
        /\ \A k \in Sessions : \A a, b \in DOMAIN wire'[k] :
              a < b => wire'[k][a].kind # "result"
    BY <1>1, WireShrinks
  <1>3. \A k \in Sessions : wire'[k] = IF k = i THEN w ELSE wire[k]
    BY <1>1
  <1>4. \A s \in Streams : Held(s)' = Held(s)
    BY <1>1 DEF Held, taskVars
  <1>5. e \in Sent /\ 1 \in DOMAIN wire[i] /\ wire[i][1] = e
    BY <1>1, TailEvents
  <1>6. /\ Nums(logs') \subseteq Nums(logs) \cup (Nums(wire[i]) \ Nums(w))
        /\ Distinct(logs')
    <2>1. Distinct(logs) /\ Nums(wire[i]) \cap Nums(logs) = {} /\ Distinct(wire[i])
      BY DEF Inv, OnePlace
    <2>2. CASE e.kind = "result"
      BY <2>1, <2>2 DEF HandleEvent
    <2>3. CASE e.kind # "result"
      <3>1. e.kind \in Streams /\ logs' = Append(logs, e)
        BY <1>5, <2>3 DEF HandleEvent, Sent
      <3>2. e.seq \in Nums(wire[i]) /\ e.seq \notin Nums(w)
        BY <1>1, <2>1, <3>1, TailKeeps
      <3> HIDE DEF e, w
      <3> QED
        BY <1>1, <2>1, <3>1, <3>2, AppendAdds
    <2> QED
      BY <2>2, <2>3
  <1>7. (result' # result => Has(wire[i], "result"))
    BY <1>5 DEF HandleEvent, Has
  <1>8. /\ \A k \in Sessions : Distinct(wire'[k]) /\ Nums(wire'[k]) \subseteq Nums(wire[k])
        /\ Nums(wire'[i]) = Nums(w)
    BY <1>2, <1>3 DEF Inv, OnePlace
  <1> HIDE DEF w, e
  <1>9. Issued'
    <2>1. /\ Nums(outCh) \subseteq 0 .. (seq - 1) /\ Nums(logs) \subseteq 0 .. (seq - 1)
          /\ \A k \in Sessions : Nums(wire[k]) \subseteq 0 .. (seq - 1)
          /\ \A s \in Streams : Held(s) \subseteq 0 .. (seq - 1)
      BY DEF Inv, Issued
    <2>2. /\ Nums(logs') \subseteq 0 .. (seq - 1)
          /\ \A k \in Sessions : Nums(wire'[k]) \subseteq 0 .. (seq - 1)
      BY <1>6, <1>8, <2>1
    <2> QED
      BY <1>1, <1>4, <2>1, <2>2 DEF Issued, taskVars
  <1>10. OnePlace'
    <2>1. /\ Nums(outCh) \cap Nums(logs) = {} /\ Distinct(outCh)
          /\ \A k \in Sessions : Nums(wire[k]) \cap (Nums(outCh) \cup Nums(logs)) = {}
          /\ \A k, j \in Sessions : k # j => Nums(wire[k]) \cap Nums(wire[j]) = {}
      BY DEF Inv, OnePlace
    <2>2. \A s \in Streams : /\ Held(s) \cap (Nums(outCh) \cup Nums(logs)) = {}
                             /\ \A k \in Sessions : Held(s) \cap Nums(wire[k]) = {}
                             /\ \A t \in Streams : s # t => Held(s) \cap Held(t) = {}
      BY DEF Inv, OnePlace
    <2>3. Nums(outCh) \cap Nums(logs') = {}
      BY <1>6, <2>1
    <2>4. \A k \in Sessions : Nums(wire'[k]) \cap (Nums(outCh) \cup Nums(logs')) = {}
      <3>1. ASSUME NEW k \in Sessions, k # i
            PROVE  Nums(wire'[k]) \cap (Nums(outCh) \cup Nums(logs')) = {}
        <4>1. Nums(wire[k]) \cap Nums(wire[i]) = {} /\ Nums(wire'[k]) \subseteq Nums(wire[k])
          BY <1>8, <2>1, <3>1
        <4> QED
          BY <1>6, <2>1, <4>1
      <3>2. Nums(w) \cap (Nums(outCh) \cup Nums(logs')) = {}
        BY <1>2, <1>6, <2>1
      <3> QED
        BY <1>8, <3>1, <3>2
    <2>5. \A k, j \in Sessions : k # j => Nums(wire'[k]) \cap Nums(wire'[j]) = {}
      BY <1>8, <2>1
    <2>6. \A s \in Streams : /\ Held(s) \cap (Nums(outCh) \cup Nums(logs')) = {}
                             /\ \A k \in Sessions : Held(s) \cap Nums(wire'[k]) = {}
      BY <1>6, <1>8, <2>2
    <2>7. outCh' = outCh
      BY <1>1
    <2> QED
      BY <1>4, <1>6, <1>8, <2>1, <2>2, <2>3, <2>4, <2>5, <2>6, <2>7 DEF OnePlace
  <1>11. ResultAlone'
    BY <1>1, <1>2, <1>7 DEF Inv, ResultAlone, taskVars
  <1> QED
    BY <1>2, <1>9, <1>10, <1>11 DEF Inv

\* A lost stream takes its events with it and disturbs no other.
LEMMA StreamLostStep ==
  ASSUME Inv, TypeOK', NEW i \in Sessions, StreamLost(i)
  PROVE  Inv'
  <1>1. /\ wire \in [Sessions -> Seq(Sent)] /\ wire' = [wire EXCEPT ![i] = <<>>]
        /\ UNCHANGED <<taskVars, outCh, logs, result>>
    BY DEF StreamLost, Set, server, Inv, TypeOK
  <1>2. /\ InOrder' /\ Distinct(<<>>) /\ Nums(<<>>) \subseteq Nums(wire[i])
        /\ \A k \in Sessions : Has(wire'[k], "result") => Has(wire[k], "result")
        /\ \A k \in Sessions : \A a, b \in DOMAIN wire'[k] :
              a < b => wire'[k][a].kind # "result"
    BY <1>1, WireShrinks
  <1>3. \A k \in Sessions : Distinct(wire'[k]) /\ Nums(wire'[k]) \subseteq Nums(wire[k])
    BY <1>1, <1>2 DEF Inv, OnePlace
  <1>4. \A s \in Streams : Held(s)' = Held(s)
    BY <1>1 DEF Held, taskVars
  <1>5. Issued'
    BY <1>1, <1>3, <1>4 DEF Inv, Issued, taskVars
  <1>6. OnePlace'
    BY <1>1, <1>3, <1>4 DEF Inv, OnePlace
  <1>7. ResultAlone'
    BY <1>1, <1>2 DEF Inv, ResultAlone, taskVars
  <1> QED
    BY <1>2, <1>5, <1>6, <1>7 DEF Inv

\* A step of the task, of a session or of the control plane preserves the invariant.
LEMMA TaskInvStep == Inv /\ [Next]_vars => Inv'
  <1> SUFFICES ASSUME Inv, [Next]_vars PROVE Inv'
    OBVIOUS
  <1>0. TypeOK'
    BY TypeStep DEF Inv
  <1>1. ASSUME UNCHANGED <<reader, buf, seq, mine, outCh, wire, server>>,
               task' = task \/ (task # "done" /\ task' # "done")
        PROVE  Inv'
    <2>1. Issued' /\ OnePlace' /\ InOrder'
      BY <1>1 DEF Inv, Issued, OnePlace, InOrder, Held, Behind, server
    <2>2. ResultAlone'
      BY <1>1 DEF Inv, ResultAlone, server
    <2> QED
      BY <1>0, <2>1, <2>2 DEF Inv
  <1>2. CASE Start \/ CommandEnds \/ Close \/ Exit \/ UNCHANGED vars
    BY <1>1, <1>2 DEF Start, CommandEnds, Close, Exit, vars, taskVars
  <1>3. CASE Finish
    BY <1>0, <1>3, FinishStep
  <1>4. CASE OtherSend
    BY <1>0, <1>4, OtherStep DEF OtherSend
  <1>5. ASSUME NEW s \in Streams, Reader(s) PROVE Inv'
    BY <1>0, <1>5, ReaderStep, SendOutputStep DEF Reader
  <1>6. ASSUME NEW i \in Sessions, Connect(i) PROVE Inv'
    BY <1>0, <1>6, OtherStep DEF Connect
  <1>7. ASSUME NEW i \in Sessions, RecvFails(i) \/ LoopExits(i) PROVE Inv'
    BY <1>1, <1>7 DEF RecvFails, LoopExits, taskVars
  <1>8. ASSUME NEW i \in Sessions, WriteLoop(i) PROVE Inv'
    BY <1>0, <1>8, WriteLoopStep
  <1>9. ASSUME NEW i \in Sessions, WriteFails(i) PROVE Inv'
    BY <1>0, <1>9, HeadDropped DEF WriteFails, server, Inv
  <1>10. ASSUME NEW i \in Sessions, HandleEvent(i) PROVE Inv'
    BY <1>0, <1>10, HandleEventStep
  <1>11. ASSUME NEW i \in Sessions, StreamLost(i) PROVE Inv'
    BY <1>0, <1>11, StreamLostStep
  <1> QED
    BY <1>2, <1>3, <1>4, <1>5, <1>6, <1>7, <1>8, <1>9, <1>10, <1>11 DEF Next

\* The invariant holds in every state of the agent and the control plane.
THEOREM TaskInvariance == Spec => []Inv
  <1>1. Init => Inv
    <2> SUFFICES ASSUME Init PROVE Inv
      OBVIOUS
    <2> USE DEF Init
    <2>1. TypeOK
      <3>1. outCh \in Seq(Event) /\ Len(outCh) <= Cap
        BY TaskAssumption
      <3>2. wire \in [Sessions -> Seq(Sent)] /\ logs \in Seq({e \in Sent : e.kind \in Streams})
        <4>1. \A S : <<>> \in Seq(S)
          OBVIOUS
        <4> QED
          BY <4>1
      <3> QED
        BY <3>1, <3>2 DEF TypeOK
    <2>2. Nums(<<>>) = {} /\ Distinct(<<>>) /\ Ordered(<<>>) /\ Behind(<<>>)
          /\ Before(<<>>, <<>>) /\ ~Has(<<>>, "result")
      BY DEF Nums, Distinct, Ordered, Behind, Before, Has
    <2>3. \A i \in Sessions : wire[i] = <<>>
      OBVIOUS
    <2>4. \A s \in Streams : Held(s) = {}
      BY DEF Held
    <2>5. Issued /\ OnePlace /\ InOrder
      BY <2>2, <2>3, <2>4 DEF Issued, OnePlace, InOrder
    <2>6. ResultAlone
      BY <2>2, <2>3 DEF ResultAlone
    <2> QED
      BY <2>1, <2>5, <2>6 DEF Inv
  <1> QED
    BY <1>1, TaskInvStep, PTL DEF Spec

\* However chunks are numbered under the lock and queued outside it, and however
\* often the agent reconnects, a number is stored once and a stream's chunks
\* travel in order (sendOutput, writeLoop, handleEvent).
THEOREM OutputStaysInOrder == Spec => []OutputInOrder
  <1>1. Inv => OutputInOrder
    <2> SUFFICES ASSUME Inv PROVE OutputInOrder
      OBVIOUS
    <2>1. \A r \in DOMAIN logs : logs[r].seq \in Nums(logs)
      <3>1. \A r \in DOMAIN logs : logs[r].kind \in Streams
        BY DEF Inv, TypeOK
      <3> QED
        BY <3>1 DEF Nums
    <2>2. /\ \A i \in DOMAIN outCh : outCh[i].kind \in Streams => outCh[i].seq \in Nums(outCh)
          /\ \A k \in Sessions : \A i \in DOMAIN wire[k] :
                wire[k][i].kind \in Streams => wire[k][i].seq \in Nums(wire[k])
      BY DEF Nums
    <2>3. ChunkOnce
      <3>1. /\ Distinct(logs) /\ Nums(outCh) \cap Nums(logs) = {}
            /\ \A k \in Sessions : Nums(wire[k]) \cap Nums(logs) = {}
            /\ \A s \in Streams : Held(s) \cap Nums(logs) = {}
        BY DEF Inv, OnePlace
      <3> QED
        BY <2>1, <2>2, <3>1 DEF ChunkOnce
    <2> QED
      BY <2>3 DEF Inv, InOrder, OutputInOrder, StreamOrder
  <1> QED
    BY <1>1, TaskInvariance, PTL

\* The result comes last in the queue and on every wire, and no reader is still
\* to send when it exists (wg.Wait in executeTask).
THEOREM ResultComesLast == Spec => []ResultLast
  <1>1. Inv => ResultLast
    BY DEF Inv, ResultAlone, ResultLast
  <1> QED
    BY <1>1, TaskInvariance, PTL
=============================================================================
