------------------------- MODULE ConsolePageProofs -------------------------
(***************************************************************************)
(* Theorems about a page of the console, for every set of pages and any    *)
(* number of calls, fetches, faults and followed views.                    *)
(*                                                                         *)
(* Each theorem has a rule on the descriptions of the pages as its         *)
(* hypothesis.  The rule is a conjunct of the property the theorem is      *)
(* about, so the run that checks the property evaluates it on every page.  *)
(*                                                                         *)
(* What a step can do to the calls (Moved), to one view (Stepped) and to   *)
(* the open dialogs (Spared) is shown once; the invariants follow.         *)
(* What a view lacks, and who still owes it, is followed at the end        *)
(* (Lacking, Calm), on the views the page is followed in.                  *)
(***************************************************************************)
EXTENDS ConsolePage, SequenceTheorems, TLAPS

\* Controls and views are found under their names.
LEMMA Named ==
    ASSUME NEW p \in DOMAIN PageTable
    PROVE  /\ \A c \in DOMAIN PageTable[p].controls : At(p, c).name = c
           /\ \A n \in DOMAIN PageTable[p].views : ViewAt(p, n).name = n
<1> DEFINE Q == {[q EXCEPT !.views = ByName(@), !.controls = ByName(@)] : q \in Pages}
<1>1. ASSUME NEW S, NEW n \in DOMAIN ByName(S)
      PROVE  ByName(S)[n] \in S /\ ByName(S)[n].name = n
  <2>1. \E x \in S : x.name = n
    BY DEF ByName
  <2>2. ByName(S)[n] = CHOOSE x \in S : x.name = n
    BY DEF ByName
  <2> QED BY <2>1, <2>2
<1>2. PageTable[p] \in Q
  BY <1>1 DEF PageTable
<1>3. PICK q \in Pages : PageTable[p] = [q EXCEPT !.views = ByName(@), !.controls = ByName(@)]
  BY <1>2
<1>4. PageTable[p].controls = ByName(q.controls) /\ PageTable[p].views = ByName(q.views)
  BY <1>3, PagesAssumption
<1> QED BY <1>1, <1>4 DEF At, ViewAt

-----------------------------------------------------------------------------
(* What a step does to the calls under way. *)

\* The calls under way stay the same ones.
Kept ==
    /\ UnderWay' = UnderWay
    /\ \A i \in UnderWay : call'[i].c = call[i].c /\ call'[i].top = call[i].top
    /\ flags' = flags \/ (flags' = {} /\ ~ mounted')

\* The call of control n starts in slot i.
Begins(n, i) ==
    /\ n \in Senders(page)
    /\ Usable(At(page, n), P.inline)
    /\ i \in Slots \ UnderWay
    /\ UnderWay' = UnderWay \cup {i}
    /\ call'[i].c = n
    /\ call'[i].top = (OpAt(page, n).hook # "")
    /\ \A j \in UnderWay :
          /\ call'[j].c = call[j].c
          /\ call'[j].top = (call[j].top /\ OpOf(j).hook # OpAt(page, n).hook)
    /\ \/ OpAt(page, n).flag = "" /\ flags' = flags
       \/ flags' = (flags \ OpAt(page, n).lowers) \cup {OpAt(page, n).flag}
       \/ flags' = {} /\ ~ mounted'

\* The call in slot i ends.
Ends(i) ==
    /\ i \in UnderWay
    /\ UnderWay' = UnderWay \ {i}
    /\ \A j \in UnderWay \ {i} : call'[j].c = call[j].c /\ call'[j].top = call[j].top
    /\ \/ flags' = flags \ ({OpOf(i).flag} \cup OpOf(i).lowers)
       \/ flags' = {} /\ ~ mounted'

\* What a step may do to the calls, with the slots well formed before and after.
Moved ==
    /\ page' = page
    /\ mounted' => mounted
    /\ CallsOK'
    /\ \/ Kept
       \/ \E n \in Senders(page), i \in Slots : Begins(n, i)
       \/ \E i \in Slots : Ends(i)

\* A step that leaves the calls alone but for what they own and have copied.
LEMMA KeptMoves ==
    ASSUME CallsOK, page' = page, mounted' => mounted,
           flags' = flags \/ (flags' = {} /\ ~ mounted'),
           call' = [i \in Slots |-> call'[i]],
           \A i \in Slots :
              /\ call'[i] = [c |-> call'[i].c, step |-> call'[i].step, ph |-> call'[i].ph,
                             top |-> call'[i].top, own |-> call'[i].own, copy |-> call'[i].copy]
              /\ call'[i].c = call[i].c
              /\ call'[i].top = call[i].top
              /\ (call'[i].ph = "idle") <=> (call[i].ph = "idle")
    PROVE  Moved
<1>1. UnderWay' = UnderWay
  BY DEF UnderWay
<1>2. Kept
  BY <1>1 DEF Kept, UnderWay
<1>3. page' \in DOMAIN PageTable
  BY DEF CallsOK
<1>4. \A i \in Slots : call'[i].top \in BOOLEAN
  BY DEF CallsOK
<1>5. \A i \in Slots : call'[i].ph # "idle" => call'[i].c \in Senders(page')
  BY DEF CallsOK
<1>6. CallsOK'
  BY <1>3, <1>4, <1>5 DEF CallsOK
<1> QED BY <1>2, <1>6 DEF Moved

\* The shape of a slot, and what replacing a part of it leaves.
Shaped(r) ==
    r = [c |-> r.c, step |-> r.step, ph |-> r.ph, top |-> r.top, own |-> r.own, copy |-> r.copy]

\* The parts of a slot given by its parts.
LEMMA Parts ==
    ASSUME NEW r, NEW c, NEW step, NEW ph, NEW top, NEW own, NEW copy,
           r = [c |-> c, step |-> step, ph |-> ph, top |-> top, own |-> own, copy |-> copy]
    PROVE  /\ r.c = c /\ r.step = step /\ r.ph = ph /\ r.top = top /\ r.own = own /\ r.copy = copy
           /\ Shaped(r)
BY DEF Shaped

\* A slot with one part replaced.
LEMMA Replaced ==
    ASSUME NEW r, NEW x, Shaped(r)
    PROVE  /\ [r EXCEPT !.own = x] = [c |-> r.c, step |-> r.step, ph |-> r.ph, top |-> r.top, own |-> x, copy |-> r.copy]
           /\ [r EXCEPT !.top = x] = [c |-> r.c, step |-> r.step, ph |-> r.ph, top |-> x, own |-> r.own, copy |-> r.copy]
           /\ [r EXCEPT !.ph = x] = [c |-> r.c, step |-> r.step, ph |-> x, top |-> r.top, own |-> r.own, copy |-> r.copy]
           /\ [r EXCEPT !.copy = x] = [c |-> r.c, step |-> r.step, ph |-> r.ph, top |-> r.top, own |-> r.own, copy |-> x]
BY DEF Shaped

\* The end of a call, by whatever way.
LEMMA EndMoves ==
    ASSUME CallsOK, page' = page, mounted' => mounted,
           NEW i \in UnderWay, NEW gone,
           call' = [j \in Slots |-> IF j = i THEN Idle ELSE Disown(j, gone)],
           \/ flags' = flags \ ({OpOf(i).flag} \cup OpOf(i).lowers)
           \/ flags' = {} /\ ~ mounted'
    PROVE  Moved
<1>1. /\ page \in DOMAIN PageTable
      /\ \A j \in Slots :
          /\ call[j] = [c |-> call[j].c, step |-> call[j].step, ph |-> call[j].ph,
                        top |-> call[j].top, own |-> call[j].own, copy |-> call[j].copy]
          /\ call[j].top \in BOOLEAN
          /\ call[j].ph # "idle" => call[j].c \in Senders(page)
  BY DEF CallsOK
<1>2. i \in Slots
  BY DEF UnderWay
<1>3. call'[i] = Idle
  BY <1>2
<1>4. \A j \in Slots \ {i} : call'[j] = [call[j] EXCEPT !.own = @ \ gone]
  BY DEF Disown
<1>5. \A j \in Slots \ {i} :
        /\ call'[j] = [c |-> call[j].c, step |-> call[j].step, ph |-> call[j].ph,
                       top |-> call[j].top, own |-> call[j].own \ gone, copy |-> call[j].copy]
  BY <1>1, <1>4
<1>6. ASSUME NEW j \in Slots \ {i}
      PROVE  /\ call'[j].c = call[j].c
             /\ call'[j].ph = call[j].ph
             /\ call'[j].top = call[j].top
             /\ call'[j] = [c |-> call'[j].c, step |-> call'[j].step, ph |-> call'[j].ph,
                            top |-> call'[j].top, own |-> call'[j].own, copy |-> call'[j].copy]
  BY <1>5
<1>7. /\ Idle.ph = "idle" /\ Idle.top = FALSE
      /\ Idle = [c |-> Idle.c, step |-> Idle.step, ph |-> Idle.ph,
                 top |-> Idle.top, own |-> Idle.own, copy |-> Idle.copy]
  BY DEF Idle
<1>8. CallsOK'
  <2>1. call' = [j \in Slots |-> call'[j]]
    OBVIOUS
  <2>2. ASSUME NEW j \in Slots
        PROVE  /\ call'[j] = [c |-> call'[j].c, step |-> call'[j].step, ph |-> call'[j].ph,
                              top |-> call'[j].top, own |-> call'[j].own, copy |-> call'[j].copy]
               /\ call'[j].top \in BOOLEAN
               /\ call'[j].ph # "idle" => call'[j].c \in Senders(page)
    <3>1. CASE j = i
      BY <1>3, <1>7, <3>1
    <3>2. CASE j # i
      BY <1>1, <1>6, <3>2
    <3> QED BY <3>1, <3>2
  <2> QED BY <1>1, <2>1, <2>2 DEF CallsOK
<1>9. UnderWay' = UnderWay \ {i}
  <2>1. \A j \in Slots : (call'[j].ph # "idle") <=> (call[j].ph # "idle" /\ j # i)
    BY <1>3, <1>6, <1>7
  <2>2. UnderWay' = {j \in Slots : call'[j].ph # "idle"}
    BY DEF UnderWay
  <2> HIDE DEF Idle, Disown
  <2> QED BY <2>1, <2>2 DEF UnderWay
<1>10. Ends(i)
  BY <1>6, <1>9 DEF Ends, UnderWay
<1> QED BY <1>2, <1>8, <1>10 DEF Moved


\* The start of a call: the others keep their place, and lose their hook's latest one.
LEMMA BeginMoves ==
    ASSUME CallsOK, page' = page, mounted' => mounted,
           NEW n \in Senders(page), Usable(At(page, n), P.inline),
           NEW i \in Slots \ UnderWay,
           call' = Started(At(page, n), i),
           \/ OpAt(page, n).flag = "" /\ flags' = flags
           \/ flags' = (flags \ OpAt(page, n).lowers) \cup {OpAt(page, n).flag}
           \/ flags' = {} /\ ~ mounted'
    PROVE  Moved
<1>1. /\ page \in DOMAIN PageTable
      /\ \A j \in Slots :
          /\ call[j] = [c |-> call[j].c, step |-> call[j].step, ph |-> call[j].ph,
                        top |-> call[j].top, own |-> call[j].own, copy |-> call[j].copy]
          /\ call[j].top \in BOOLEAN
          /\ call[j].ph # "idle" => call[j].c \in Senders(page)
  BY DEF CallsOK
<1> DEFINE a == At(page, n)
           mine == ((open \ a.closes) \cup a.opens) \cap (a.op.shut \cup a.op.failShut)
           copied == [m \in a.op.patches \cap DOMAIN view |->
                        [miss |-> IF view[m].data THEN view[m].miss ELSE ViewOf(m).reads,
                         wrong |-> view[m].wrong]]
           still(j) == call[j].top /\ ~ (j \in UnderWay /\ OpOf(j).hook = a.op.hook)
<1>2. a.name = n
  BY <1>1, Named DEF Senders
<1>3. /\ call' = [j \in Slots |-> call'[j]]
      /\ call'[i] = [c |-> n, step |-> 1, ph |-> "sent", top |-> a.op.hook # "",
                     own |-> mine, copy |-> copied]
      /\ \A j \in Slots \ {i} : call'[j] = [Disown(j, a.closes \cup a.opens)
                                         EXCEPT !.top = @ /\ ~ (j \in UnderWay /\ OpOf(j).hook = a.op.hook)]
  BY <1>2 DEF Started
<1> HIDE DEF a, mine, copied, still
<1>4. ASSUME NEW j \in Slots \ {i}
      PROVE  /\ call'[j].c = call[j].c
             /\ call'[j].ph = call[j].ph
             /\ call'[j].top = still(j)
             /\ Shaped(call'[j])
  <2> DEFINE d == Disown(j, a.closes \cup a.opens)
  <2>0. PICK t : t = still(j)
    OBVIOUS
  <2>1. Shaped(call[j])
    BY <1>1 DEF Shaped
  <2>2. d = [c |-> call[j].c, step |-> call[j].step, ph |-> call[j].ph, top |-> call[j].top,
             own |-> call[j].own \ (a.closes \cup a.opens), copy |-> call[j].copy]
    BY <2>1, Replaced, Zenon DEF Disown
  <2>3. d.c = call[j].c /\ d.ph = call[j].ph /\ d.top = call[j].top /\ Shaped(d)
    <3> HIDE DEF d
    <3> QED BY <2>2 DEF Shaped
  <2>4. call'[j] = [d EXCEPT !.top = @ /\ ~ (j \in UnderWay /\ OpOf(j).hook = a.op.hook)]
    BY <1>3
  <2>5. call'[j] = [d EXCEPT !.top = t]
    BY <2>0, <2>3, <2>4 DEF still
  <2> HIDE DEF d
  <2>6. call'[j] = [c |-> d.c, step |-> d.step, ph |-> d.ph, top |-> t, own |-> d.own, copy |-> d.copy]
    BY <2>3, <2>5, Replaced, Zenon
  <2>7. call'[j].c = d.c /\ call'[j].ph = d.ph /\ call'[j].top = t /\ Shaped(call'[j])
    <3> DEFINE r == call'[j]
    <3>1. r = [c |-> d.c, step |-> d.step, ph |-> d.ph, top |-> t, own |-> d.own, copy |-> d.copy]
      BY <2>6
    <3> HIDE DEF r
    <3>2. r.c = d.c /\ r.ph = d.ph /\ r.top = t /\ Shaped(r)
      BY <3>1, Parts
    <3> QED BY <3>2 DEF r
  <2> QED BY <2>0, <2>3, <2>7
<1>5. /\ call'[i].c = n
      /\ call'[i].ph = "sent"
      /\ call'[i].top = (a.op.hook # "")
      /\ Shaped(call'[i])
  <2>0. PICK t : t = (a.op.hook # "")
    OBVIOUS
  <2>1. call'[i] = [c |-> n, step |-> 1, ph |-> "sent", top |-> t, own |-> mine, copy |-> copied]
    BY <1>3, <2>0
  <2>2. call'[i].c = n /\ call'[i].ph = "sent" /\ call'[i].top = t /\ Shaped(call'[i])
    <3> DEFINE r == call'[i]
    <3>1. r = [c |-> n, step |-> 1, ph |-> "sent", top |-> t, own |-> mine, copy |-> copied]
       BY <2>1
    <3> HIDE DEF r
    <3>2. r.c = n /\ r.ph = "sent" /\ r.top = t /\ Shaped(r)
      BY <3>1, Parts
    <3> QED BY <3>2 DEF r
  <2> QED BY <2>0, <2>2
<1>7. CallsOK'
  <2>1. ASSUME NEW j \in Slots
        PROVE  /\ Shaped(call'[j])
               /\ call'[j].top \in BOOLEAN
               /\ call'[j].ph # "idle" => call'[j].c \in Senders(page)
    <3>1. CASE j = i
      BY <1>5, <3>1
    <3>2. CASE j # i
      <4>1. still(j) \in BOOLEAN
        BY DEF still
      <4> QED BY <1>1, <1>4, <3>2, <4>1
    <3> QED BY <3>1, <3>2
  <2> QED BY <1>1, <1>3, <2>1 DEF CallsOK, Shaped
<1>8. UnderWay' = UnderWay \cup {i}
  <2>1. \A j \in Slots : (call'[j].ph # "idle") <=> (call[j].ph # "idle" \/ j = i)
    BY <1>5, <1>4
  <2>2. UnderWay' = {j \in Slots : call'[j].ph # "idle"}
    BY DEF UnderWay
  <2> QED BY <2>1, <2>2 DEF UnderWay
<1>9. Begins(n, i)
  <2>1. ASSUME NEW j \in UnderWay
        PROVE  /\ call'[j].c = call[j].c
               /\ call'[j].top = (call[j].top /\ OpOf(j).hook # OpAt(page, n).hook)
    <3>1. j \in Slots \ {i}
      BY DEF UnderWay
    <3>2. still(j) = (call[j].top /\ OpOf(j).hook # OpAt(page, n).hook)
      BY DEF still, a, OpAt
    <3> QED BY <1>4, <3>1, <3>2
  <2>2. call'[i].top = (OpAt(page, n).hook # "")
    BY <1>5 DEF a, OpAt
  <2> QED BY <1>5, <1>8, <2>1, <2>2 DEF Begins
<1> QED BY <1>7, <1>9 DEF Moved


\* A slot keeps its control and its rank when what it owns, what it has copied, its
\* step or its phase is replaced.
LEMMA Same ==
    ASSUME NEW r, Shaped(r), NEW x, NEW y, NEW q,
           \/ q = r
           \/ q = [r EXCEPT !.own = x]
           \/ q = [r EXCEPT !.copy = x]
           \/ q = [r EXCEPT !.ph = x]
           \/ q = [r EXCEPT !.step = x, !.ph = y]
    PROVE  q.c = r.c /\ q.top = r.top /\ Shaped(q)
<1>1. CASE q = r
  BY <1>1
<1>2. CASE q = [r EXCEPT !.own = x]
  BY <1>2 DEF Shaped
<1>3. CASE q = [r EXCEPT !.copy = x]
  BY <1>3 DEF Shaped
<1>4. CASE q = [r EXCEPT !.ph = x]
  BY <1>4 DEF Shaped
<1>5. CASE q = [r EXCEPT !.step = x, !.ph = y]
  BY <1>5 DEF Shaped
<1> QED BY <1>1, <1>2, <1>3, <1>4, <1>5

\* A load that flees takes the user away, and leaves the calls alone.
LEMMA FleeLeaves ==
    ASSUME NEW v, NEW k, FetchFlees(v, k)
    PROVE  /\ page' = page /\ mounted /\ ~ mounted' /\ open' = {} /\ flags' = {} /\ view' = <<>>
           /\ call' = call /\ later' = later /\ early' = {} /\ seen' = seen
           /\ faults' = faults + 1
BY DEF FetchFlees, Unmount

\* A load that goes on without its page changes nothing of what is shown.
LEMMA StrayStays ==
    ASSUME NEW n, StrayFails(n)
    PROVE  /\ page' = page /\ mounted' = mounted /\ open' = open /\ flags' = flags /\ view' = view
           /\ call' = call /\ later' = later /\ done' = done /\ failed' = failed /\ early' = early
           /\ faults' = faults + 1
           /\ seen' = seen \cup Harm(TRUE, "yank", <<"load", n>>, Yankers)
BY DEF StrayFails

\* Every step of the page moves its calls in one of these ways.
LEMMA NextMoves ==
    ASSUME CallsOK, [Next]_vars
    PROVE  Moved
<1>0. /\ page \in DOMAIN PageTable
      /\ call = [i \in Slots |-> call[i]]
      /\ \A i \in Slots : Shaped(call[i])
      /\ \A i \in UnderWay : i \in Slots /\ call[i].ph # "idle"
  BY DEF CallsOK, Shaped, UnderWay
<1>1. ASSUME page' = page, mounted' => mounted,
             flags' = flags \/ (flags' = {} /\ ~ mounted'), call' = call
      PROVE  Moved
  BY <1>0, <1>1, KeptMoves DEF Shaped
<1>2. ASSUME NEW n \in DOMAIN view, NEW k, Receive(ViewOf(n), k)
      PROVE  Moved
  BY <1>1, <1>2 DEF Receive
<1>3. ASSUME NEW n \in DOMAIN view, NEW k, FetchFails(ViewOf(n), k)
      PROVE  Moved
  BY <1>1, <1>3 DEF FetchFails, ui
<1>4. ASSUME NEW n \in DOMAIN view, Refetch(ViewOf(n))
      PROVE  Moved
  BY <1>1, <1>4 DEF Refetch, ui
<1>5. CASE Leave
  BY <1>1, <1>5 DEF Leave, Unmount
<1>6. CASE UNCHANGED vars
  BY <1>1, <1>6 DEF vars
<1>7. ASSUME NEW n \in DOMAIN P.controls, Click(ControlOf(n))
      PROVE  Moved
  <2> DEFINE c == At(page, n)
  <2>1. ControlOf(n) = c /\ c.op = OpAt(page, n)
    BY DEF ControlOf, At, P, OpAt
  <2>2. /\ page' = page
        /\ mounted' => mounted
        /\ Usable(c, P.inline)
    BY <1>7, <2>1 DEF Click, Unmount, Usable
  <2>3. /\ ~ OpAt(page, n).some => flags' = flags \/ (flags' = {} /\ ~ mounted')
        /\ \/ OpAt(page, n).flag = "" /\ flags' = flags
           \/ ~ OpAt(page, n).some
           \/ flags' = (flags \ OpAt(page, n).lowers) \cup {OpAt(page, n).flag}
           \/ flags' = {} /\ ~ mounted'
    <3> HIDE DEF c
    <3>1. IF c.exit THEN flags' = {} /\ ~ mounted'
          ELSE flags' = IF ~ c.op.some \/ c.op.flag = "" THEN flags ELSE (flags \ c.op.lowers) \cup {c.op.flag}
      BY <1>7, <2>1 DEF Click, Unmount
    <3> QED BY <2>1, <3>1
  <2>4. CASE OpAt(page, n).some
    <3>1. \E i \in Slots \ UnderWay : call' = Started(c, i)
      BY <1>7, <2>1, <2>4 DEF Click
    <3>2. n \in Senders(page)
      BY <2>4 DEF Senders, P
    <3> QED BY <2>2, <2>3, <2>4, <3>1, <3>2, BeginMoves
  <2>5. CASE ~ OpAt(page, n).some
    <3>1. call' = [i \in Slots |-> [Disown(i, c.closes \cup c.opens) EXCEPT
                                         !.copy = Strayed(@, c.picks)]]
      BY <1>7, <2>1, <2>5 DEF Click
    <3> HIDE DEF c
    <3>2. ASSUME NEW i \in Slots
          PROVE  /\ call'[i].c = call[i].c
                 /\ call'[i].top = call[i].top
                 /\ call'[i].ph = call[i].ph
                 /\ Shaped(call'[i])
      <4> DEFINE r == call[i]
                 q == call'[i]
                 x == r.own \ (c.closes \cup c.opens)
                 y == Strayed(Disown(i, c.closes \cup c.opens).copy, c.picks)
      <4>1. q = [[r EXCEPT !.own = x] EXCEPT !.copy = y]
        BY <3>1 DEF Disown
      <4>2. Shaped(r)
        BY <1>0
      <4> HIDE DEF r, q, x, y
      <4>3. q.c = r.c /\ q.top = r.top /\ Shaped(q)
        BY <4>1, <4>2 DEF Shaped
      <4>4. q.ph = r.ph
        BY <4>1, <4>2 DEF Shaped
      <4> QED BY <4>3, <4>4 DEF r, q
    <3> QED BY <2>2, <2>3, <2>5, <3>1, <3>2, KeptMoves DEF Shaped
  <2> QED BY <2>4, <2>5
<1>8. ASSUME NEW i \in UnderWay, Apply(i, OpOf(i))
      PROVE  Moved
  <2>1. /\ page' = page /\ mounted' = mounted /\ flags' = flags
        /\ call[i].ph = "sent"
        /\ call' = [j \in Slots |->
                      IF j = i THEN [call[j] EXCEPT !.ph = "applied"]
                      ELSE [call[j] EXCEPT !.copy = Aged(@, Writes(i, OpOf(i)))]]
    BY <1>8 DEF Apply, ui
  <2>2. ASSUME NEW j \in Slots
        PROVE  /\ call'[j].c = call[j].c
               /\ call'[j].top = call[j].top
               /\ (call'[j].ph = "idle") <=> (call[j].ph = "idle")
               /\ Shaped(call'[j])
    <3> DEFINE r == call[j]
               q == call'[j]
               x == Aged(r.copy, Writes(i, OpOf(i)))
    <3>1. /\ j = i => q = [r EXCEPT !.ph = "applied"] /\ r.ph = "sent"
          /\ j # i => q = [r EXCEPT !.copy = x]
      BY <2>1
    <3>2. Shaped(r)
      BY <1>0
    <3> HIDE DEF r, q, x
    <3>3. q.c = r.c /\ q.top = r.top /\ Shaped(q)
      BY <3>1, <3>2, Same
    <3>4. (q.ph = "idle") <=> (r.ph = "idle")
      BY <3>1, <3>2 DEF Shaped
    <3> QED BY <3>3, <3>4 DEF r, q
  <2> QED BY <2>1, <2>2, KeptMoves DEF Shaped
<1>9. ASSUME NEW i \in UnderWay, NextCall(i, OpOf(i))
      PROVE  Moved
  <2> DEFINE op == OpOf(i)
  <2>1. /\ page' = page /\ mounted' = mounted /\ flags' = flags
        /\ call[i].ph = "applied"
        /\ call' = [j \in Slots |->
                     IF j = i THEN [call[i] EXCEPT !.step = @ + 1, !.ph = "sent"]
                     ELSE IF op.chain THEN Disown(j, Shuts(i, op)) ELSE call[j]]
    BY <1>9 DEF NextCall
  <2>2. ASSUME NEW j \in Slots
        PROVE  /\ call'[j].c = call[j].c
               /\ call'[j].top = call[j].top
               /\ (call'[j].ph = "idle") <=> (call[j].ph = "idle")
               /\ Shaped(call'[j])
    <3> DEFINE r == call[j]
               q == call'[j]
               x == r.own \ Shuts(i, op)
               y == r.step + 1
    <3>1. /\ j = i => q = [r EXCEPT !.step = y, !.ph = "sent"] /\ r.ph = "applied"
          /\ j # i => q = [r EXCEPT !.own = x] \/ q = r
      BY <2>1 DEF Disown
    <3>2. Shaped(r)
      BY <1>0
    <3> HIDE DEF r, q, x, y
    <3>3. q.c = r.c /\ q.top = r.top /\ Shaped(q)
      BY <3>1, <3>2, Same
    <3>4. (q.ph = "idle") <=> (r.ph = "idle")
      BY <3>1, <3>2 DEF Shaped
    <3> QED BY <3>3, <3>4 DEF r, q
  <2> QED BY <2>1, <2>2, KeptMoves DEF Shaped
<1>10. ASSUME NEW i \in UnderWay, Succeed(i, OpOf(i))
       PROVE  Moved
  <2>1. /\ page' = page
        /\ mounted' => mounted
        /\ call' = [j \in Slots |-> IF j = i THEN Idle ELSE Disown(j, Shuts(i, OpOf(i)))]
        /\ \/ flags' = flags \ ({OpOf(i).flag} \cup OpOf(i).lowers)
           \/ flags' = {} /\ ~ mounted'
    BY <1>10 DEF Succeed, Unmount, FlagsAfter
  <2> QED BY <2>1, EndMoves
<1>11. ASSUME NEW i \in UnderWay, Fail(i, OpOf(i))
       PROVE  Moved
  <2>1. PICK gone : call' = [j \in Slots |-> IF j = i THEN Idle ELSE Disown(j, gone)]
    BY <1>11 DEF Fail
  <2>2. page' = page /\ mounted' = mounted /\ flags' = flags \ ({OpOf(i).flag} \cup OpOf(i).lowers)
    BY <1>11 DEF Fail, FlagsAfter
  <2> QED BY <2>1, <2>2, EndMoves
<1>12. ASSUME NEW l \in later, Land(l)
       PROVE  Moved
  <2>1. /\ page' = page /\ mounted' = mounted /\ flags' = flags
        /\ call' = [i \in Slots |-> [call[i] EXCEPT !.copy = Aged(@, l.ws)]]
    BY <1>12 DEF Land, ui
  <2>2. ASSUME NEW j \in Slots
        PROVE  /\ call'[j].c = call[j].c
               /\ call'[j].top = call[j].top
               /\ (call'[j].ph = "idle") <=> (call[j].ph = "idle")
               /\ Shaped(call'[j])
    <3> DEFINE r == call[j]
               q == call'[j]
               x == Aged(r.copy, l.ws)
    <3>1. q = [r EXCEPT !.copy = x]
      BY <2>1
    <3>2. Shaped(r)
      BY <1>0
    <3> HIDE DEF r, q, x
    <3>3. q.c = r.c /\ q.top = r.top /\ Shaped(q)
      BY <3>1, <3>2, Same
    <3>4. (q.ph = "idle") <=> (r.ph = "idle")
      BY <3>1, <3>2 DEF Shaped
    <3> QED BY <3>3, <3>4 DEF r, q
  <2> QED BY <2>1, <2>2, KeptMoves DEF Shaped
<1>13. ASSUME NEW v, NEW k, FetchFlees(v, k)
       PROVE  Moved
  BY <1>1, <1>13, FleeLeaves
<1>14. ASSUME NEW n, StrayFails(n)
       PROVE  Moved
  BY <1>1, <1>14, StrayStays
<1> QED
  BY <1>2, <1>3, <1>4, <1>5, <1>6, <1>7, <1>8, <1>9, <1>10, <1>11, <1>12, <1>13, <1>14 DEF Next


-----------------------------------------------------------------------------
(* Calls, flags and hooks. *)

\* The page starts with every slot empty.
LEMMA NothingAtFirst ==
    Init => CallsOK /\ UnderWay = {}
<1> SUFFICES ASSUME Init PROVE CallsOK /\ UnderWay = {}
  OBVIOUS
<1>1. page \in DOMAIN PageTable /\ call = [i \in Slots |-> Idle]
  BY DEF Init
<1>2. Idle.ph = "idle" /\ Idle.top = FALSE /\ Shaped(Idle)
  BY DEF Idle, Shaped
<1>3. \A i \in Slots : call[i] = Idle
  BY <1>1
<1>4. UnderWay = {}
  BY <1>2, <1>3 DEF UnderWay
<1>5. CallsOK
  <2>1. call = [i \in Slots |-> call[i]]
    BY <1>1
  <2>2. \A i \in Slots : Shaped(call[i]) /\ call[i].top \in BOOLEAN /\ call[i].ph = "idle"
    BY <1>2, <1>3
  <2> QED BY <1>1, <2>1, <2>2 DEF CallsOK, Shaped
<1> QED BY <1>4, <1>5

\* The slots of a page hold calls of its own controls, whatever happens.
THEOREM CallsAreItsOwn == Spec => []CallsOK
<1>1. Init => CallsOK
  BY NothingAtFirst
<1>2. CallsOK /\ [Next]_vars => CallsOK'
  BY NextMoves DEF Moved
<1> QED BY <1>1, <1>2, PTL DEF Spec

\* The operation of a call that goes on is the one it was.
LEMMA SameOp ==
    ASSUME page' = page, NEW i, call'[i].c = call[i].c
    PROVE  OpOf(i)' = OpOf(i)
BY DEF OpOf, ControlOf, P

\* The operation of a call, by its control.
LEMMA OpIs == \A i : OpOf(i) = OpAt(page, call[i].c)
BY DEF OpOf, ControlOf, P, OpAt, At

\* Locks of the same flag, and of the same hook, are the same.
LEMMA LocksAgree ==
    ASSUME NEW p, NEW c, NEW d
    PROVE  /\ OpAt(p, c).flag = OpAt(p, d).flag => (FlagLocks(p, c) <=> FlagLocks(p, d))
           /\ OpAt(p, c).hook = OpAt(p, d).hook => (HookLocks(p, c) <=> HookLocks(p, d))
BY DEF FlagLocks, HookLocks

\* What is up or pending and named by a control's disabled attribute keeps it from use.
LEMMA Disabled ==
    ASSUME NEW c, NEW inline, Usable(c, inline), NEW x \in c.off
    PROVE  /\ x \notin flags
           /\ \A i \in UnderWay : call[i].top => OpOf(i).hook # x
<1>1. x \notin GoingOn
  BY DEF Usable
<1> QED BY <1>1 DEF GoingOn, Pending

\* The locks hold through every step: what would break them is disabled.
LEMMA LockedStep ==
    ASSUME CallsOK, Locked, [Next]_vars
    PROVE  Locked'
<1> DEFINE Lock(i) ==
        /\ FlagLocks(page, call[i].c) =>
              /\ mounted => OpOf(i).flag \in flags
              /\ \A j \in UnderWay \ {i} : OpOf(j).flag # OpOf(i).flag
        /\ HookLocks(page, call[i].c) =>
              /\ call[i].top
              /\ \A j \in UnderWay \ {i} : OpOf(j).hook # OpOf(i).hook
<1>1. \A i \in UnderWay : Lock(i)
  BY DEF Locked
<1>2. Moved
  BY NextMoves
<1>3. page' = page /\ (mounted' => mounted)
  BY <1>2 DEF Moved
<1>4. \A i \in UnderWay : call[i].c \in Senders(page)
  BY DEF CallsOK, UnderWay
<1>5. CASE Kept
  <2>1. ASSUME NEW i \in UnderWay' PROVE Lock(i)'
    <3>1. /\ UnderWay' = UnderWay
          /\ \A j \in UnderWay : call'[j].c = call[j].c /\ call'[j].top = call[j].top
          /\ mounted' => flags' = flags
      BY <1>5 DEF Kept
    <3>2. \A j \in UnderWay : OpOf(j)' = OpOf(j)
      BY <1>3, <3>1, SameOp
    <3>3. Lock(i) /\ i \in UnderWay
      BY <1>1, <3>1
    <3> QED BY <1>3, <3>1, <3>2, <3>3
  <2> QED BY <2>1 DEF Locked
<1>6. ASSUME NEW s \in Slots, Ends(s) PROVE Locked'
  <2>1. ASSUME NEW i \in UnderWay' PROVE Lock(i)'
    <3>1. /\ UnderWay' = UnderWay \ {s} /\ s \in UnderWay
          /\ \A j \in UnderWay \ {s} : call'[j].c = call[j].c /\ call'[j].top = call[j].top
      BY <1>6 DEF Ends
    <3>2. \A j \in UnderWay' : OpOf(j)' = OpOf(j)
      BY <1>3, <3>1, SameOp
    <3>3. Lock(i) /\ i \in UnderWay /\ i # s
      BY <1>1, <3>1
    <3>4. ASSUME FlagLocks(page, call[i].c), mounted'
          PROVE  OpOf(i).flag \in flags'
      <4>1. OpOf(i).flag \in flags /\ OpOf(s).flag # OpOf(i).flag
        BY <1>3, <3>1, <3>3, <3>4
      <4>2. OpOf(i).flag \notin OpOf(s).lowers
        BY <1>4, <3>1, <3>3, <3>4, <4>1, OpIs DEF FlagLocks
      <4>3. \/ flags' = flags \ ({OpOf(s).flag} \cup OpOf(s).lowers)
            \/ flags' = flags
        BY <1>6, <3>4 DEF Ends
      <4> QED BY <4>1, <4>2, <4>3
    <3>5. call'[i].c = call[i].c /\ call'[i].top = call[i].top
      BY <3>1, <3>3
    <3>6. FlagLocks(page, call[i].c)' =>
              /\ mounted' => OpOf(i)'.flag \in flags'
              /\ \A j \in UnderWay' \ {i} : OpOf(j)'.flag # OpOf(i)'.flag
      <4>1. FlagLocks(page, call[i].c)' <=> FlagLocks(page, call[i].c)
        BY <1>3, <3>5
      <4>2. FlagLocks(page, call[i].c) => \A j \in UnderWay' \ {i} : OpOf(j).flag # OpOf(i).flag
        BY <3>1, <3>3
      <4> QED BY <3>2, <3>4, <4>1, <4>2
    <3>7. HookLocks(page, call[i].c)' =>
              /\ call'[i].top
              /\ \A j \in UnderWay' \ {i} : OpOf(j)'.hook # OpOf(i)'.hook
      <4>1. HookLocks(page, call[i].c)' <=> HookLocks(page, call[i].c)
        BY <1>3, <3>5
      <4>2. HookLocks(page, call[i].c) =>
                call[i].top /\ \A j \in UnderWay' \ {i} : OpOf(j).hook # OpOf(i).hook
        BY <3>1, <3>3
      <4> QED BY <3>2, <3>5, <4>1, <4>2
    <3> QED BY <3>6, <3>7
  <2> QED BY <2>1 DEF Locked

<1>7. ASSUME NEW n \in Senders(page), NEW s \in Slots, Begins(n, s) PROVE Locked'
  <2>1. /\ UnderWay' = UnderWay \cup {s} /\ s \notin UnderWay
        /\ Usable(At(page, n), P.inline)
        /\ mounted
        /\ call'[s].c = n
        /\ call'[s].top = (OpAt(page, n).hook # "")
        /\ \A j \in UnderWay :
              /\ call'[j].c = call[j].c
              /\ call'[j].top = (call[j].top /\ OpOf(j).hook # OpAt(page, n).hook)
    BY <1>7 DEF Begins, Usable
  <2>2. \A j \in UnderWay : OpOf(j)' = OpOf(j) /\ OpOf(j) = OpAt(page, call[j].c)
    BY <1>3, <2>1, SameOp, OpIs
  <2>3. OpOf(s)' = OpAt(page, n)
    BY <1>3, <2>1 DEF OpOf, ControlOf, P, OpAt, At
  <2>4. ASSUME NEW i \in UnderWay, FlagLocks(page, call[i].c)
        PROVE  OpOf(i).flag \in flags /\ OpOf(i).flag \notin {OpAt(page, n).flag} \cup OpAt(page, n).lowers
    <3>1. OpOf(i).flag \in flags
      BY <1>1, <2>1, <2>4
    <3>2. OpOf(i).flag \in {OpAt(page, n).flag} \cup OpAt(page, n).lowers => OpOf(i).flag \in At(page, n).off
      BY <2>2, <2>4 DEF FlagLocks
    <3> QED BY <2>1, <3>1, <3>2, Disabled
  <2>5. ASSUME NEW i \in UnderWay, HookLocks(page, call[i].c)
        PROVE  OpOf(i).hook # OpAt(page, n).hook
    <3>1. call[i].top
      BY <1>1, <2>5
    <3>2. OpOf(i).hook = OpAt(page, n).hook => OpAt(page, n).hook \in At(page, n).off
      BY <2>2, <2>5 DEF HookLocks
    <3> QED BY <2>1, <3>1, <3>2, Disabled
  <2>6. ASSUME NEW i \in UnderWay PROVE Lock(i)'
    <3>1. Lock(i) /\ call'[i].c = call[i].c
      BY <1>1, <2>1
    <3>2. FlagLocks(page, call[i].c)' =>
              /\ mounted' => OpOf(i)'.flag \in flags'
              /\ \A j \in UnderWay' \ {i} : OpOf(j)'.flag # OpOf(i)'.flag
      <4> SUFFICES ASSUME FlagLocks(page, call[i].c)
                   PROVE  /\ mounted' => OpOf(i).flag \in flags'
                          /\ \A j \in UnderWay' \ {i} : OpOf(j)'.flag # OpOf(i).flag
        BY <1>3, <2>2, <3>1
      <4>1. mounted' => OpOf(i).flag \in flags'
        BY <1>7, <2>4 DEF Begins
      <4>2. \A j \in UnderWay \ {i} : OpOf(j)'.flag # OpOf(i).flag
        <5>1. \A j \in UnderWay \ {i} : OpOf(j).flag # OpOf(i).flag
          BY <3>1
        <5> QED BY <2>2, <5>1
      <4>3. OpOf(s)'.flag # OpOf(i).flag
        BY <2>3, <2>4
      <4>4. \A j \in UnderWay' \ {i} : j \in UnderWay \ {i} \/ j = s
        BY <2>1
      <4> HIDE DEF Lock
      <4> QED BY <4>1, <4>2, <4>3, <4>4
    <3>3. HookLocks(page, call[i].c)' =>
              /\ call'[i].top
              /\ \A j \in UnderWay' \ {i} : OpOf(j)'.hook # OpOf(i)'.hook
      <4> SUFFICES ASSUME HookLocks(page, call[i].c)
                   PROVE  /\ call'[i].top
                          /\ \A j \in UnderWay' \ {i} : OpOf(j)'.hook # OpOf(i).hook
        BY <1>3, <2>2, <3>1
      <4>1. OpOf(i).hook # OpAt(page, n).hook
        BY <2>5
      <4>2. call'[i].top
        BY <2>1, <3>1, <4>1
      <4>3. \A j \in UnderWay \ {i} : OpOf(j)'.hook # OpOf(i).hook
        <5>1. \A j \in UnderWay \ {i} : OpOf(j).hook # OpOf(i).hook
          BY <3>1
        <5> QED BY <2>2, <5>1
      <4>4. OpOf(s)'.hook # OpOf(i).hook
        BY <2>3, <4>1
      <4>5. \A j \in UnderWay' \ {i} : j \in UnderWay \ {i} \/ j = s
        BY <2>1
      <4> HIDE DEF Lock
      <4> QED BY <4>2, <4>3, <4>4, <4>5
    <3> QED BY <3>2, <3>3
  <2>7. Lock(s)'
    <3>1. FlagLocks(page, call[s].c)' =>
              /\ mounted' => OpOf(s)'.flag \in flags'
              /\ \A j \in UnderWay' \ {s} : OpOf(j)'.flag # OpOf(s)'.flag
      <4> SUFFICES ASSUME FlagLocks(page, n)
                   PROVE  /\ mounted' => OpAt(page, n).flag \in flags'
                          /\ \A j \in UnderWay : OpOf(j).flag # OpAt(page, n).flag
        BY <1>3, <2>1, <2>2, <2>3
      <4>1. OpAt(page, n).flag # ""
        BY DEF FlagLocks
      <4>2. mounted' => OpAt(page, n).flag \in flags'
        BY <1>7, <4>1 DEF Begins
      <4>3. \A j \in UnderWay : OpOf(j).flag # OpAt(page, n).flag
        BY <2>2, <2>4, LocksAgree
      <4> QED BY <4>2, <4>3
    <3>2. HookLocks(page, call[s].c)' =>
              /\ call'[s].top
              /\ \A j \in UnderWay' \ {s} : OpOf(j)'.hook # OpOf(s)'.hook
      <4> SUFFICES ASSUME HookLocks(page, n)
                   PROVE  /\ call'[s].top
                          /\ \A j \in UnderWay : OpOf(j).hook # OpAt(page, n).hook
        BY <1>3, <2>1, <2>2, <2>3
      <4>1. call'[s].top
        BY <2>1 DEF HookLocks
      <4>2. \A j \in UnderWay : OpOf(j).hook # OpAt(page, n).hook
        BY <2>2, <2>5, LocksAgree
      <4> QED BY <4>1, <4>2
    <3> QED BY <3>1, <3>2
  <2> HIDE DEF Lock
  <2>8. \A i \in UnderWay' : Lock(i)'
    BY <2>1, <2>6, <2>7
  <2> QED BY <2>8 DEF Locked, Lock
<1> QED BY <1>2, <1>5, <1>6, <1>7 DEF Moved

\* The locks of a page hold.
THEOREM LocksHold == Spec => []Locked
<1>1. Init => Locked
  BY NothingAtFirst DEF Locked
<1>2. CallsOK /\ Locked /\ [Next]_vars => Locked'
  BY LockedStep
<1> QED BY <1>1, <1>2, CallsAreItsOwn, PTL DEF Spec

\* No control that is not one of Doubles sends a call that changes something while an
\* earlier one of its own is under way, however many calls there are.
THEOREM CallSentOnce ==
    ASSUME OnceRule
    PROVE  Spec => []SentOnce
<1>1. CallsOK /\ Locked => SentOnce
  <2> SUFFICES ASSUME CallsOK, Locked,
                      NEW i \in UnderWay, NEW j \in UnderWay, i # j, call[i].c = call[j].c,
                      UNION Range(OpOf(i).calls) # {}
               PROVE  <<page, call[i].c>> \in Doubles
    BY DEF SentOnce
  <2>1. page \in DOMAIN PageTable /\ call[i].c \in Senders(page)
    BY DEF CallsOK, UnderWay
  <2>2. OpOf(i) = OpAt(page, call[i].c) /\ OpOf(j) = OpOf(i)
    BY DEF OpOf, ControlOf, P, OpAt, At
  <2>3. ~ FlagLocks(page, call[i].c) /\ ~ HookLocks(page, call[i].c)
    BY <2>2 DEF Locked
  <2> QED BY <2>1, <2>2, <2>3 DEF OnceRule
<1> QED BY <1>1, CallsAreItsOwn, LocksHold, PTL

-----------------------------------------------------------------------------
(* Harm done by late answers. *)

\* Harm of one kind is that kind or none, and none when the control is known to do it.
LEMMA HarmIs ==
    ASSUME NEW happens, NEW what, NEW who, NEW known
    PROVE  /\ Harm(happens, what, who, known) \subseteq {what}
           /\ (~ happens \/ <<page, who>> \in known) => Harm(happens, what, who, known) = {}
BY DEF Harm


-----------------------------------------------------------------------------
(* Views, one at a time. *)

\* What is kept of a view is whole, with its fetches in a sequence.
Good(v, s) ==
    /\ s = [data |-> s.data, miss |-> s.miss, wrong |-> s.wrong, late |-> s.late,
            err |-> s.err, fl |-> s.fl]
    /\ s.fl \in Seq(Fetches(v))

\* No fetch under way is for an earlier choice.
NoneOld(s) == \A k \in DOMAIN s.fl : ~ s.fl[k].old

\* The same, and what is shown of an earlier choice will go or is marked.
Right(s, keeps) == NoneOld(s) /\ (s.wrong => keeps /\ (s.fl # <<>> \/ s.err))

\* A sequence with its elements changed one by one.
LEMMA Changed ==
    ASSUME NEW S, NEW T, NEW fl \in Seq(S), NEW g, g = [k \in DOMAIN fl |-> g[k]],
           \A k \in DOMAIN fl : g[k] \in T
    PROVE  /\ g \in Seq(T) /\ Len(g) = Len(fl) /\ DOMAIN g = DOMAIN fl
           /\ fl = <<>> <=> g = <<>>
<1>1. Len(fl) \in Nat /\ DOMAIN fl = 1..Len(fl)
  BY LenProperties
<1>2. g \in [1..Len(fl) -> T]
  BY <1>1
<1>3. g \in Seq(T) /\ DOMAIN g = 1..Len(fl)
  BY <1>1, <1>2
<1>4. Len(g) = Len(fl)
  BY <1>1, <1>3, LenProperties
<1>5. fl = <<>> <=> Len(fl) = 0
  BY EmptySeq
<1>6. g = <<>> <=> Len(g) = 0
  BY <1>3, EmptySeq
<1> QED BY <1>1, <1>3, <1>4, <1>5, <1>6

\* A sequence without one of its elements.
LEMMA Removed ==
    ASSUME NEW S, NEW fl \in Seq(S), NEW k \in DOMAIN fl
    PROVE  /\ RemoveAt(fl, k) \in Seq(S)
           /\ Len(fl) \in Nat /\ Len(RemoveAt(fl, k)) = Len(fl) - 1
           /\ \A j \in DOMAIN RemoveAt(fl, k) : \E i \in DOMAIN fl : RemoveAt(fl, k)[j] = fl[i]
<1>1. Len(fl) \in Nat /\ DOMAIN fl = 1..Len(fl) /\ k \in 1..Len(fl)
  BY LenProperties
<1> DEFINE a == SubSeq(fl, 1, k - 1)
           b == SubSeq(fl, k + 1, Len(fl))
<1>2. /\ a \in Seq(S) /\ Len(a) = k - 1
      /\ \A j \in 1..(k - 1) : a[j] = fl[j]
  BY <1>1
<1>3. /\ b \in Seq(S) /\ Len(b) = Len(fl) - k
      /\ \A j \in 1..(Len(fl) - k) : b[j] = fl[k + j]
  BY <1>1
<1>4. RemoveAt(fl, k) = a \o b
  BY DEF RemoveAt
<1> HIDE DEF a, b
<1>5. /\ a \o b \in Seq(S)
      /\ Len(a \o b) = Len(fl) - 1
      /\ \A j \in 1..Len(a) : (a \o b)[j] = a[j]
      /\ \A j \in 1..Len(b) : (a \o b)[Len(a) + j] = b[j]
  <2>1. /\ a \o b \in Seq(S)
        /\ Len(a \o b) = Len(a) + Len(b)
        /\ \A j \in 1..(Len(a) + Len(b)) :
              (a \o b)[j] = IF j <= Len(a) THEN a[j] ELSE b[j - Len(a)]
    BY <1>2, <1>3, ConcatProperties
  <2>2. Len(a) \in Nat /\ Len(b) \in Nat /\ Len(a) + Len(b) = Len(fl) - 1
    BY <1>1, <1>2, <1>3
  <2>3. \A j \in 1..Len(a) : j \in 1..(Len(a) + Len(b)) /\ j <= Len(a)
    BY <2>2
  <2>4. ASSUME NEW j \in 1..Len(b)
        PROVE  /\ Len(a) + j \in 1..(Len(a) + Len(b))
               /\ ~ (Len(a) + j <= Len(a))
               /\ (Len(a) + j) - Len(a) = j
    BY <2>2
  <2> QED BY <2>1, <2>2, <2>3, <2>4
<1>6. ASSUME NEW j \in DOMAIN (a \o b)
      PROVE  \E i \in DOMAIN fl : (a \o b)[j] = fl[i]
  <2>1. j \in 1..(Len(fl) - 1)
    BY <1>5, LenProperties
  <2>2. CASE j <= k - 1
    <3>1. (a \o b)[j] = fl[j]
      BY <1>1, <1>2, <1>5, <2>1, <2>2
    <3> QED BY <1>1, <2>1, <3>1
  <2>3. CASE j > k - 1
    <3>1. PICK i \in 1..(Len(fl) - k) : j = Len(a) + i
      <4>1. j - Len(a) \in 1..(Len(fl) - k) /\ j = Len(a) + (j - Len(a))
        BY <1>1, <1>2, <2>1, <2>3
      <4> QED BY <4>1
    <3>2. (a \o b)[j] = fl[k + i]
      BY <1>1, <1>3, <1>5, <3>1
    <3>3. k + i \in DOMAIN fl
      BY <1>1, <3>1
    <3> QED BY <3>2, <3>3
  <2> QED BY <1>1, <2>1, <2>2, <2>3
<1> QED BY <1>1, <1>4, <1>5, <1>6

\* A new fetch, and a load called now, are for the present choice.
LEMMA NewFetch ==
    ASSUME NEW v, NEW s
    PROVE  /\ Fetch \in Fetches(v) /\ Load(v, s) \in Fetches(v)
           /\ ~ Fetch.old /\ ~ Load(v, s).old
<1>1. Fetch \in Fetches(v) /\ ~ Fetch.old
  BY DEF Fetch, Fetches
<1>2. PICK x \in BOOLEAN : x = (v.while = "" \/ ~ s.data \/ v.while \in open)
  OBVIOUS
<1>3. Load(v, s) = [Fetch EXCEPT !.fill = x]
  BY <1>2 DEF Load
<1>4. [Fetch EXCEPT !.fill = x] \in Fetches(v)
  BY <1>1 DEF Fetches
<1>5. [Fetch EXCEPT !.fill = x].old = Fetch.old
  BY <1>1 DEF Fetches
<1> QED BY <1>1, <1>3, <1>4, <1>5

\* A sequence of one fetch for the present choice.
LEMMA OneFetch ==
    ASSUME NEW v, NEW f \in Fetches(v), ~ f.old
    PROVE  /\ <<f>> \in Seq(Fetches(v)) /\ <<f>> # <<>> /\ Len(<<f>>) = 1
           /\ \A k \in DOMAIN <<f>> : ~ <<f>>[k].old
OBVIOUS

\* A view with its fetches replaced.
LEMMA NewFl ==
    ASSUME NEW v, NEW s, Good(v, s), NEW fl \in Seq(Fetches(v))
    PROVE  /\ Good(v, [s EXCEPT !.fl = fl])
           /\ [s EXCEPT !.fl = fl].fl = fl
           /\ [s EXCEPT !.fl = fl].data = s.data
           /\ [s EXCEPT !.fl = fl].wrong = s.wrong
           /\ [s EXCEPT !.fl = fl].err = s.err
<1> DEFINE t == [s EXCEPT !.fl = fl]
<1>1. t = [data |-> s.data, miss |-> s.miss, wrong |-> s.wrong, late |-> s.late,
           err |-> s.err, fl |-> fl]
  BY DEF Good
<1> HIDE DEF t
<1>2. /\ t.fl = fl /\ t.data = s.data /\ t.wrong = s.wrong /\ t.err = s.err
      /\ t = [data |-> t.data, miss |-> t.miss, wrong |-> t.wrong, late |-> t.late,
              err |-> t.err, fl |-> t.fl]
  BY <1>1
<1>3. Good(v, t)
  BY <1>2 DEF Good
<1> QED BY <1>2, <1>3 DEF t

\* The beginning of a view, and of one whose data is dropped.
LEMMA FreshView ==
    ASSUME NEW v, NEW keeps
    PROVE  /\ Good(v, Unloaded) /\ Good(v, Gone)
           /\ Right(Unloaded, keeps)
           /\ ~ Gone.wrong
           /\ Len(Unloaded.fl) = 1 /\ ~ Unloaded.data
<1>1. Unloaded = [data |-> FALSE, miss |-> {}, wrong |-> FALSE, late |-> FALSE, err |-> FALSE, fl |-> <<Fetch>>]
  BY DEF Unloaded
<1>2. Unloaded.fl = <<Fetch>> /\ Unloaded.wrong = FALSE /\ Unloaded.data = FALSE
  BY <1>1
<1>3. <<Fetch>> \in Seq(Fetches(v)) /\ Len(<<Fetch>>) = 1 /\ \A k \in DOMAIN <<Fetch>> : ~ <<Fetch>>[k].old
  BY NewFetch, OneFetch
<1>4. Good(v, Unloaded)
  BY <1>1, <1>2, <1>3 DEF Good
<1>5. Good(v, Gone) /\ Gone.wrong = Unloaded.wrong
  <2>1. << >> \in Seq(Fetches(v))
    OBVIOUS
  <2>2. Gone = [Unloaded EXCEPT !.fl = << >>]
    BY DEF Gone
  <2>3. ASSUME NEW fl \in Seq(Fetches(v))
        PROVE  Good(v, [Unloaded EXCEPT !.fl = fl]) /\ [Unloaded EXCEPT !.fl = fl].wrong = Unloaded.wrong
    BY <1>4, NewFl
  <2> QED BY <2>1, <2>2, <2>3
<1>6. Right(Unloaded, keeps)
  <2>1. NoneOld(Unloaded)
    BY <1>2, <1>3, Zenon DEF NoneOld
  <2> QED BY <1>2, <2>1 DEF Right
<1> QED BY <1>2, <1>3, <1>4, <1>5, <1>6

\* Invalidation.
LEMMA InvalidatedView ==
    ASSUME NEW v, NEW s, Good(v, s), NEW keeps
    PROVE  /\ Good(v, Invalidated(s))
           /\ Right(s, keeps) => Right(Invalidated(s), keeps)
<1>1. CASE Invalidated(s) = s
  BY <1>1
<1>2. CASE Invalidated(s) = [s EXCEPT !.fl = <<Fetch>>]
  <2>1. /\ <<Fetch>> \in Seq(Fetches(v)) /\ <<Fetch>> # <<>>
        /\ \A k \in DOMAIN <<Fetch>> : ~ <<Fetch>>[k].old
    BY NewFetch, OneFetch
  <2> DEFINE one == <<Fetch>>
  <2>2. /\ Good(v, [s EXCEPT !.fl = one])
        /\ [s EXCEPT !.fl = one].fl = one
        /\ [s EXCEPT !.fl = one].wrong = s.wrong
    <3>1. one \in Seq(Fetches(v))
      BY <2>1
    <3> HIDE DEF one
    <3> QED BY <3>1, NewFl
  <2> DEFINE t == [s EXCEPT !.fl = <<Fetch>>]
  <2> HIDE DEF t
  <2>3. Good(v, t) /\ t.fl = <<Fetch>> /\ t.wrong = s.wrong /\ Invalidated(s) = t
    BY <1>2, <2>2 DEF t
  <2>4. Right(s, keeps) => Right(t, keeps)
    BY <2>1, <2>3 DEF Right, NoneOld
  <2> QED BY <2>3, <2>4
<1> QED BY <1>1, <1>2 DEF Invalidated


\* A view whose fetches are replaced by a new one, or by others and a new one.
LEMMA LoadedView ==
    ASSUME NEW v, NEW r, Good(v, r), NEW b \in Seq(Fetches(v)),
           NEW f \in Fetches(v), ~ f.old, NEW fl, fl = <<f>> \/ fl = Append(b, f), NEW keeps
    PROVE  /\ Good(v, [r EXCEPT !.fl = fl])
           /\ (r.wrong => keeps) /\ (fl = <<f>> \/ \A k \in DOMAIN b : ~ b[k].old)
                 => Right([r EXCEPT !.fl = fl], keeps)
<1>1. fl \in Seq(Fetches(v)) /\ fl # <<>>
  <2>1. CASE fl = <<f>>
    BY <2>1
  <2>2. CASE fl = Append(b, f)
    BY <2>2
  <2> QED BY <2>1, <2>2
<1>2. fl = <<f>> \/ (\A k \in DOMAIN b : ~ b[k].old) => \A k \in DOMAIN fl : ~ fl[k].old
  <2>1. CASE fl = <<f>>
    BY <2>1
  <2>2. ASSUME fl = Append(b, f), \A k \in DOMAIN b : ~ b[k].old
        PROVE  \A k \in DOMAIN fl : ~ fl[k].old
    <3>1. /\ Len(fl) = Len(b) + 1 /\ Len(b) \in Nat
          /\ DOMAIN b = 1..Len(b) /\ DOMAIN fl = 1..(Len(b) + 1)
          /\ fl[Len(b) + 1] = f
          /\ \A k \in 1..Len(b) : fl[k] = b[k]
      BY <2>2
    <3>2. \A k \in DOMAIN fl : k \in DOMAIN b \/ k = Len(b) + 1
      BY <3>1
    <3> QED BY <2>2, <3>1, <3>2
  <2> QED BY <2>1, <2>2
<1> DEFINE t == [r EXCEPT !.fl = fl]
<1>3. Good(v, t) /\ t.fl = fl /\ t.wrong = r.wrong
  BY <1>1, NewFl
<1> HIDE DEF t
<1>4. (r.wrong => keeps) /\ (fl = <<f>> \/ \A k \in DOMAIN b : ~ b[k].old) => Right(t, keeps)
  BY <1>1, <1>2, <1>3 DEF Right, NoneOld
<1> QED BY <1>3, <1>4 DEF t

\* A load called again.
LEMMA ReloadedView ==
    ASSUME NEW v, NEW s, Good(v, s), NEW keeps
    PROVE  /\ Good(v, Reloaded(v, s))
           /\ Right(s, keeps) => Right(Reloaded(v, s), keeps)
<1> DEFINE f == Load(v, s)
           fl == IF v.cancel THEN <<f>> ELSE Append(s.fl, f)
           r == IF v.clears THEN Gone ELSE s
<1>1. \/ Reloaded(v, s) = Unloaded
      \/ Reloaded(v, s) = s
      \/ Reloaded(v, s) = [r EXCEPT !.fl = fl]
  BY DEF Reloaded
<1>2. f \in Fetches(v) /\ ~ f.old
  BY NewFetch
<1>3. s.fl \in Seq(Fetches(v)) /\ (Right(s, keeps) => \A k \in DOMAIN s.fl : ~ s.fl[k].old)
  BY DEF Good, Right, NoneOld
<1>4. Good(v, r) /\ (Right(s, keeps) => (r.wrong => keeps))
  BY FreshView DEF Right
<1>5. fl = <<f>> \/ fl = Append(s.fl, f)
  OBVIOUS
<1> HIDE DEF f, fl, r
<1>6. /\ Good(v, [r EXCEPT !.fl = fl])
      /\ Right(s, keeps) => Right([r EXCEPT !.fl = fl], keeps)
  BY <1>2, <1>3, <1>4, <1>5, LoadedView
<1> QED BY <1>1, <1>6, FreshView

\* A view loaded for another choice: no answer for the earlier one is taken if the view
\* has a key per choice or a guard, or nothing was under way.
LEMMA RechosenView ==
    ASSUME NEW v, NEW s, Good(v, s), NEW keeps
    PROVE  /\ Good(v, Rechosen(v, s))
           /\ (v.cached \/ v.cancel \/ s.fl = <<>>) /\ (keeps \/ v.clears \/ v.cached)
                 => Right(Rechosen(v, s), keeps)
<1> DEFINE f == Load(v, s)
           older == [k \in DOMAIN s.fl |-> [s.fl[k] EXCEPT !.old = TRUE]]
           fl == IF v.cancel THEN <<f>> ELSE Append(older, f)
           kept == [s EXCEPT !.wrong = s.data, !.err = FALSE]
           r == IF v.clears THEN Gone ELSE kept
<1>1. Rechosen(v, s) = IF v.cached THEN Unloaded ELSE [r EXCEPT !.fl = fl]
  BY DEF Rechosen
<1>2. f \in Fetches(v) /\ ~ f.old
  BY NewFetch
<1>3. s.fl \in Seq(Fetches(v))
  BY DEF Good
<1>4. older \in Seq(Fetches(v)) /\ (s.fl = <<>> => older = <<>>)
  <2>1. \A k \in DOMAIN s.fl : s.fl[k] \in Fetches(v)
    BY <1>3, ElementOfSeq
  <2>2. \A k \in DOMAIN s.fl : older[k] \in Fetches(v)
    BY <2>1 DEF Fetches
  <2>3. older = [k \in DOMAIN s.fl |-> older[k]]
    OBVIOUS
  <2> DEFINE fs == s.fl
  <2> HIDE DEF older, fs
  <2>4. fs \in Seq(Fetches(v)) /\ older = [k \in DOMAIN fs |-> older[k]] /\ \A k \in DOMAIN fs : older[k] \in Fetches(v)
    BY <1>3, <2>2, <2>3 DEF fs
  <2>5. older \in Seq(Fetches(v)) /\ (fs = <<>> => older = <<>>)
    BY <2>4, Changed
  <2> QED BY <2>5 DEF fs
<1>5. Good(v, kept)
  <2>1. PICK x, y : x = s.data /\ y = FALSE
    OBVIOUS
  <2>2. kept = [s EXCEPT !.wrong = x, !.err = y]
    BY <2>1
  <2> HIDE DEF kept
  <2>3. s = [data |-> s.data, miss |-> s.miss, wrong |-> s.wrong, late |-> s.late, err |-> s.err, fl |-> s.fl]
    BY DEF Good
  <2>4. kept = [data |-> s.data, miss |-> s.miss, wrong |-> x, late |-> s.late, err |-> y, fl |-> s.fl]
    BY <2>2, <2>3
  <2>5. /\ kept.fl = s.fl
        /\ kept = [data |-> kept.data, miss |-> kept.miss, wrong |-> kept.wrong, late |-> kept.late,
                   err |-> kept.err, fl |-> kept.fl]
    BY <2>4
  <2> QED BY <1>3, <2>5 DEF Good
<1>6. Good(v, r) /\ (keeps \/ v.clears => (r.wrong => keeps))
  BY <1>5, FreshView
<1>7. fl = <<f>> \/ fl = Append(older, f)
  OBVIOUS
<1>8. v.cancel => fl = <<f>>
  OBVIOUS
<1>9. s.fl = <<>> => \A k \in DOMAIN older : ~ older[k].old
  OBVIOUS
<1> HIDE DEF f, fl, r, older, kept
<1>10. /\ Good(v, [r EXCEPT !.fl = fl])
       /\ (r.wrong => keeps) /\ (fl = <<f>> \/ \A k \in DOMAIN older : ~ older[k].old)
             => Right([r EXCEPT !.fl = fl], keeps)
  BY <1>2, <1>4, <1>6, <1>7, LoadedView
<1>11. (v.cancel \/ s.fl = <<>>) /\ (keeps \/ v.clears) => Right([r EXCEPT !.fl = fl], keeps)
  BY <1>6, <1>8, <1>9, <1>10
<1>12. CASE v.cached
  BY <1>1, <1>12, FreshView
<1>13. CASE ~ v.cached
  BY <1>1, <1>10, <1>11, <1>13
<1> QED BY <1>12, <1>13


\* Two states of a view that differ in what they lack and in what their fetches know.
Like(s, t) ==
    /\ t.data = s.data /\ t.wrong = s.wrong /\ t.err = s.err
    /\ DOMAIN t.fl = DOMAIN s.fl /\ Len(t.fl) = Len(s.fl) /\ (t.fl = <<>> <=> s.fl = <<>>)
    /\ \A k \in DOMAIN s.fl : t.fl[k].old = s.fl[k].old

\* They are right together.
LEMMA LikeRight ==
    ASSUME NEW s, NEW t, NEW keeps, Like(s, t), Right(s, keeps)
    PROVE  Right(t, keeps)
<1>1. NoneOld(t)
  BY DEF Like, Right, NoneOld
<1>2. t.wrong => keeps /\ (t.fl # <<>> \/ t.err)
  BY DEF Like, Right
<1> QED BY <1>1, <1>2 DEF Right

\* Fetches in the place of others, each for the choice of the one it replaces.
InPlace(v, fl, g) ==
    /\ g = [k \in DOMAIN fl |-> g[k]]
    /\ \A k \in DOMAIN fl : g[k] \in Fetches(v) /\ g[k].old = fl[k].old

\* The parts of a view with two replaced.
LEMMA TwoParts ==
    ASSUME NEW s, NEW x, NEW y,
           s = [data |-> s.data, miss |-> s.miss, wrong |-> s.wrong, late |-> s.late, err |-> s.err, fl |-> s.fl]
    PROVE  [s EXCEPT !.miss = x, !.fl = y] =
              [data |-> s.data, miss |-> x, wrong |-> s.wrong, late |-> s.late, err |-> s.err, fl |-> y]
<1> DEFINE t == [s EXCEPT !.miss = x, !.fl = y]
<1>1. DOMAIN s = {"data", "miss", "wrong", "late", "err", "fl"}
  OBVIOUS
<1>2. /\ t = [z \in DOMAIN s |-> t[z]]
      /\ t.data = s.data /\ t.miss = x /\ t.wrong = s.wrong /\ t.late = s.late /\ t.err = s.err /\ t.fl = y
  <2>1. t = [z \in DOMAIN s |-> IF z = "fl" THEN y ELSE IF z = "miss" THEN x ELSE s[z]]
    OBVIOUS
  <2> HIDE DEF t
  <2> QED BY <1>1, <2>1
<1> HIDE DEF t
<1>3. t = [data |-> s.data, miss |-> x, wrong |-> s.wrong, late |-> s.late, err |-> s.err, fl |-> y]
  BY <1>1, <1>2
<1> QED BY <1>3 DEF t

\* A view with other fetches in the place of its own.
LEMMA LikeView ==
    ASSUME NEW v, NEW s, Good(v, s), NEW miss, NEW g, InPlace(v, s.fl, g)
    PROVE  /\ Good(v, [s EXCEPT !.miss = miss, !.fl = g])
           /\ Like(s, [s EXCEPT !.miss = miss, !.fl = g])
<1> DEFINE t == [s EXCEPT !.miss = miss, !.fl = g]
<1>0. s = [data |-> s.data, miss |-> s.miss, wrong |-> s.wrong, late |-> s.late, err |-> s.err, fl |-> s.fl]
  BY DEF Good
<1>1. t = [data |-> s.data, miss |-> miss, wrong |-> s.wrong, late |-> s.late, err |-> s.err, fl |-> g]
  BY <1>0, TwoParts
<1> HIDE DEF t
<1>2. /\ t.data = s.data /\ t.wrong = s.wrong /\ t.err = s.err /\ t.fl = g
      /\ t = [data |-> t.data, miss |-> t.miss, wrong |-> t.wrong, late |-> t.late,
              err |-> t.err, fl |-> t.fl]
  BY <1>1
<1>3. /\ g \in Seq(Fetches(v)) /\ Len(g) = Len(s.fl) /\ DOMAIN g = DOMAIN s.fl
      /\ g = <<>> <=> s.fl = <<>>
  <2> DEFINE fs == s.fl
  <2>1. fs \in Seq(Fetches(v)) /\ g = [k \in DOMAIN fs |-> g[k]] /\ \A k \in DOMAIN fs : g[k] \in Fetches(v)
    BY DEF Good, InPlace
  <2> HIDE DEF fs
  <2>2. /\ g \in Seq(Fetches(v)) /\ Len(g) = Len(fs) /\ DOMAIN g = DOMAIN fs
        /\ g = <<>> <=> fs = <<>>
    BY <2>1, Changed
  <2> QED BY <2>2 DEF fs
<1>4. Good(v, t)
  BY <1>2, <1>3 DEF Good
<1>5. Like(s, t)
  BY <1>2, <1>3 DEF Like, InPlace
<1> QED BY <1>4, <1>5 DEF t

\* The server writes.
LEMMA WrittenView ==
    ASSUME NEW v, NEW s, Good(v, s), NEW ws
    PROVE  Good(v, Written(v, s, ws)) /\ Like(s, Written(v, s, ws))
<1> DEFINE g == [k \in DOMAIN s.fl |-> [s.fl[k] EXCEPT !.since = @ \cup (ws \cap v.reads)]]
           miss == IF s.data THEN s.miss \cup (ws \cap v.reads) ELSE s.miss
<1>1. Written(v, s, ws) = [s EXCEPT !.miss = miss, !.fl = g]
  BY DEF Written, Good
<1>2. \A k \in DOMAIN s.fl : s.fl[k] \in Fetches(v)
  BY ElementOfSeq DEF Good
<1>3. ASSUME NEW k \in DOMAIN s.fl
      PROVE  g[k] \in Fetches(v) /\ g[k].old = s.fl[k].old
  <2>1. g[k] = [s.fl[k] EXCEPT !.since = @ \cup (ws \cap v.reads)]
    OBVIOUS
  <2>2. s.fl[k] \in Fetches(v)
    BY <1>2
  <2> QED BY <2>1, <2>2 DEF Fetches
<1>4. InPlace(v, s.fl, g)
  BY <1>3 DEF InPlace
<1> HIDE DEF g, miss
<1>5. Good(v, [s EXCEPT !.miss = miss, !.fl = g]) /\ Like(s, [s EXCEPT !.miss = miss, !.fl = g])
  BY <1>4, LikeView
<1> QED BY <1>1, <1>5

\* The answer of a call is put into a list: in place, or over it.
LEMMA AnsweredView ==
    ASSUME NEW v, NEW s, Good(v, s), NEW op, NEW copy, NEW n
    PROVE  /\ Good(v, Answered(op, copy, n, s))
           /\ n \notin op.patches \ op.merges => s = Answered(op, copy, n, s) \/ Like(s, Answered(op, copy, n, s))
<1> DEFINE g == [k \in DOMAIN s.fl |-> [s.fl[k] EXCEPT !.passed = TRUE]]
<1>2. \A k \in DOMAIN s.fl : s.fl[k] \in Fetches(v)
  BY ElementOfSeq DEF Good
<1>3. ASSUME NEW k \in DOMAIN s.fl
      PROVE  g[k] \in Fetches(v) /\ g[k].old = s.fl[k].old
  <2>1. g[k] = [s.fl[k] EXCEPT !.passed = TRUE]
    OBVIOUS
  <2>2. s.fl[k] \in Fetches(v)
    BY <1>2
  <2> QED BY <2>1, <2>2 DEF Fetches
<1>4. InPlace(v, s.fl, g)
  BY <1>3 DEF InPlace
<1>5. s = [data |-> s.data, miss |-> s.miss, wrong |-> s.wrong, late |-> s.late, err |-> s.err, fl |-> s.fl]
  BY DEF Good
<1>6. CASE n \in op.merges
  <2> DEFINE miss == s.miss \ UNION Range(op.calls)
  <2>0. Answered(op, copy, n, s) = [s EXCEPT !.miss = @ \ UNION Range(op.calls),
                                             !.fl = [k \in DOMAIN @ |-> [@[k] EXCEPT !.passed = TRUE]]]
    BY <1>6 DEF Answered
  <2>1. Answered(op, copy, n, s) = [s EXCEPT !.miss = miss, !.fl = g]
    BY <1>5, <2>0
  <2> HIDE DEF g, miss
  <2>2. Good(v, [s EXCEPT !.miss = miss, !.fl = g]) /\ Like(s, [s EXCEPT !.miss = miss, !.fl = g])
    BY <1>4, LikeView
  <2> QED BY <2>1, <2>2
<1>7. CASE n \notin op.merges /\ n \in op.patches
  <2>1. PICK x : x = TRUE
    OBVIOUS
  <2>2. Answered(op, copy, n, s) = [s EXCEPT !.data = TRUE, !.miss = copy[n].miss,
                                             !.wrong = copy[n].wrong,
                                             !.fl = [k \in DOMAIN @ |-> [@[k] EXCEPT !.passed = TRUE]]]
    BY <1>7 DEF Answered
  <2>3. Answered(op, copy, n, s) = [s EXCEPT !.data = x, !.miss = copy[n].miss, !.wrong = copy[n].wrong, !.fl = g]
    BY <1>5, <2>1, <2>2
  <2> DEFINE t == Answered(op, copy, n, s)
  <2> HIDE DEF g, t
  <2>4. t = [data |-> x, miss |-> copy[n].miss, wrong |-> copy[n].wrong, late |-> s.late, err |-> s.err, fl |-> g]
    BY <1>5, <2>3 DEF t
  <2>5. /\ t.fl = g
        /\ t = [data |-> t.data, miss |-> t.miss, wrong |-> t.wrong, late |-> t.late, err |-> t.err, fl |-> t.fl]
    BY <2>4
  <2>6. g \in Seq(Fetches(v))
    <3> DEFINE fs == s.fl
    <3>1. fs \in Seq(Fetches(v)) /\ g = [k \in DOMAIN fs |-> g[k]] /\ \A k \in DOMAIN fs : g[k] \in Fetches(v)
      BY <1>4 DEF Good, InPlace
    <3> HIDE DEF fs
    <3> QED BY <3>1, Changed
  <2> QED BY <1>7, <2>5, <2>6 DEF Good, t
<1>8. CASE n \notin op.merges /\ n \notin op.patches
  BY <1>8 DEF Answered
<1> QED BY <1>6, <1>7, <1>8

\* What a call's end refreshes.
LEMMA RefreshedView ==
    ASSUME NEW op, NEW v, Good(v, view[v.name]), NEW mine, NEW keeps
    PROVE  /\ Good(v, Refreshed(op, v, mine))
           /\ Right(view[v.name], keeps) => Right(Refreshed(op, v, mine), keeps)
           /\ ~ v.cached /\ v.name \notin op.loads => Refreshed(op, v, mine) = view[v.name]
<1> DEFINE s == IF Hit(v, op.keys) THEN Invalidated(view[v.name]) ELSE view[v.name]
<1>1. \/ Refreshed(op, v, mine) = s
      \/ Refreshed(op, v, mine) = Invalidated(s)
      \/ Refreshed(op, v, mine) = Reloaded(v, s)
  BY DEF Refreshed
<1>2. ~ v.cached /\ v.name \notin op.loads => Refreshed(op, v, mine) = view[v.name]
  BY DEF Refreshed, Hit
<1>3. Good(v, s) /\ (Right(view[v.name], keeps) => Right(s, keeps))
  BY InvalidatedView
<1> HIDE DEF s
<1> QED BY <1>1, <1>2, <1>3, InvalidatedView, ReloadedView

\* The fetches that are left when one has ended.
LEMMA AfterFl ==
    ASSUME NEW v, NEW fl \in Seq(Fetches(v)), NEW k \in DOMAIN fl
    PROVE  /\ After(fl, k) \in Seq(Fetches(v))
           /\ (\A j \in DOMAIN fl : ~ fl[j].old) => \A j \in DOMAIN After(fl, k) : ~ After(fl, k)[j].old
           /\ Len(fl) = 1 => After(fl, k) = <<>>
<1> DEFINE g == [j \in DOMAIN fl |-> [fl[j] EXCEPT !.passed = @ \/ j < k]]
<1>1. ASSUME NEW j \in DOMAIN fl
      PROVE  g[j] \in Fetches(v) /\ g[j].old = fl[j].old
  <2>1. fl[j] \in Fetches(v)
    BY ElementOfSeq
  <2>2. PICK x \in BOOLEAN : x = (fl[j].passed \/ j < k)
    OBVIOUS
  <2>3. g[j] = [fl[j] EXCEPT !.passed = x]
    BY <2>1, <2>2 DEF Fetches
  <2> QED BY <2>1, <2>3 DEF Fetches
<1>2. g = [j \in DOMAIN fl |-> g[j]]
  OBVIOUS
<1>3. After(fl, k) = RemoveAt(g, k)
  BY DEF After
<1> HIDE DEF g
<1>4. g \in Seq(Fetches(v)) /\ Len(g) = Len(fl) /\ DOMAIN g = DOMAIN fl
  BY <1>1, <1>2, Changed
<1>5. /\ RemoveAt(g, k) \in Seq(Fetches(v))
      /\ Len(g) \in Nat /\ Len(RemoveAt(g, k)) = Len(g) - 1
      /\ \A j \in DOMAIN RemoveAt(g, k) : \E i \in DOMAIN g : RemoveAt(g, k)[j] = g[i]
  <2> DEFINE F == Fetches(v)
  <2>1. g \in Seq(F) /\ k \in DOMAIN g
    BY <1>4
  <2> HIDE DEF F
  <2>2. /\ RemoveAt(g, k) \in Seq(F)
        /\ Len(g) \in Nat /\ Len(RemoveAt(g, k)) = Len(g) - 1
        /\ \A j \in DOMAIN RemoveAt(g, k) : \E i \in DOMAIN g : RemoveAt(g, k)[j] = g[i]
    BY <2>1, Removed
  <2> QED BY <2>2 DEF F
<1> DEFINE h == RemoveAt(g, k)
<1> HIDE DEF h
<1>6. Len(fl) = 1 => h = <<>>
  <2>1. Len(fl) = 1 => Len(h) = 0
    BY <1>4, <1>5 DEF h
  <2>2. h \in Seq(Fetches(v))
    BY <1>5 DEF h
  <2> QED BY <2>1, <2>2, EmptySeq
<1>7. (\A j \in DOMAIN fl : ~ fl[j].old) => \A j \in DOMAIN h : ~ h[j].old
  BY <1>1, <1>4, <1>5 DEF h
<1> QED BY <1>3, <1>5, <1>6, <1>7 DEF h


-----------------------------------------------------------------------------
(* What a step does to the views. *)

\* The load of view n has ended, or nothing it fills is open.
Filled(n) ==
    view[n].fl = <<>> \/ (Len(view[n].fl) = 1 /\ ~ view[n].data /\ open \cap ViewOf(n).fills = {})

\* A step leaves view n whole, right if it was, and its forms alone.
Stepped(n) ==
    /\ Good(ViewOf(n), view'[n])
    /\ \A keeps \in BOOLEAN :
          KeepsChoice(page, n) /\ keeps = KeepsOld(page, n) /\ Right(view[n], keeps) => Right(view'[n], keeps)
    /\ FillsOnce(page, n) /\ Filled(n) => Filled(n)'

ViewsMove ==
    /\ page' = page
    /\ view' = [n \in DOMAIN view' |-> view'[n]]
    /\ DOMAIN view' \subseteq DOMAIN view
    /\ \A n \in DOMAIN view' : Stepped(n)

\* A followed view is whole, under its own name, and the page's view of that name.
LEMMA ViewIs ==
    ASSUME ViewsOK, NEW n \in DOMAIN view
    PROVE  /\ Good(ViewOf(n), view[n]) /\ ViewOf(n).name = n /\ ViewOf(n) = ViewAt(page, n)
           /\ page \in DOMAIN PageTable /\ n \in DOMAIN PageTable[page].views
<1>1. page \in DOMAIN PageTable /\ n \in DOMAIN PageTable[page].views
  BY DEF ViewsOK, P
<1>2. ViewOf(n) = ViewAt(page, n)
  BY DEF ViewOf, P, ViewAt
<1>3. ViewOf(n).name = n
  BY <1>1, <1>2, Named
<1>4. Good(ViewOf(n), view[n])
  BY DEF ViewsOK, Good
<1> QED BY <1>1, <1>2, <1>3, <1>4

\* A view that stays the same, but for what it lacks, is stepped when nothing it fills
\* is opened.
LEMMA LikeSteps ==
    ASSUME ViewsOK, page' = page, NEW n \in DOMAIN view,
           Good(ViewOf(n), view'[n]), view'[n] = view[n] \/ Like(view[n], view'[n]),
           FillsOnce(page, n) /\ Filled(n) /\ view[n].fl # <<>> => open' \cap ViewOf(n).fills = {}
    PROVE  Stepped(n)
<1>1. ASSUME NEW keeps, Right(view[n], keeps) PROVE Right(view'[n], keeps)
  <2> DEFINE s == view[n]
             t == view'[n]
  <2>1. Right(s, keeps) /\ (t = s \/ Like(s, t))
    BY <1>1
  <2> HIDE DEF s, t
  <2>2. Right(t, keeps)
    BY <2>1, LikeRight
  <2> QED BY <2>2 DEF t
<1>2. ASSUME FillsOnce(page, n), Filled(n) PROVE Filled(n)'
  <2>1. /\ view'[n].fl = <<>> <=> view[n].fl = <<>>
        /\ Len(view'[n].fl) = Len(view[n].fl)
        /\ view'[n].data = view[n].data
    BY DEF Like
  <2>2. ViewOf(n)' = ViewOf(n)
    BY DEF ViewOf, P
  <2> QED BY <1>2, <2>1, <2>2 DEF Filled
<1> QED BY <1>1, <1>2 DEF Stepped

\* A step that changes no view, and opens nothing.
LEMMA IdleViews ==
    ASSUME ViewsOK, page' = page, view' = view, open' \subseteq open
    PROVE  ViewsMove
<1>1. ASSUME NEW n \in DOMAIN view' PROVE Stepped(n)
  <2>1. n \in DOMAIN view /\ Good(ViewOf(n), view'[n]) /\ view'[n] = view[n]
    BY ViewIs
  <2>2. Filled(n) /\ view[n].fl # <<>> => open' \cap ViewOf(n).fills = {}
    BY DEF Filled
  <2> QED BY <2>1, <2>2, LikeSteps
<1> QED BY <1>1 DEF ViewsMove, ViewsOK

\* Nothing is followed once the user has left.
LEMMA NoViews ==
    ASSUME page' = page, view' = <<>>
    PROVE  ViewsMove
<1>1. DOMAIN view' = {}
  OBVIOUS
<1>2. view' = [n \in DOMAIN view' |-> view'[n]]
  BY <1>1
<1> QED BY <1>1, <1>2 DEF ViewsMove

\* A step of the server.
LEMMA TouchMoves ==
    ASSUME ViewsOK, page' = page, open' = open, NEW ws, Touch(ws)
    PROVE  ViewsMove
<1>1. view' = [n \in DOMAIN view |-> Written(ViewOf(n), view[n], ws)]
  BY DEF Touch
<1>2. ASSUME NEW n \in DOMAIN view' PROVE Stepped(n)
  <2>1. n \in DOMAIN view /\ view'[n] = Written(ViewOf(n), view[n], ws)
    BY <1>1
  <2>2. Good(ViewOf(n), view'[n]) /\ Like(view[n], view'[n])
    BY <2>1, ViewIs, WrittenView
  <2>3. Filled(n) /\ view[n].fl # <<>> => open' \cap ViewOf(n).fills = {}
    BY DEF Filled
  <2> QED BY <2>1, <2>2, <2>3, LikeSteps
<1>3. DOMAIN view' = DOMAIN view
  BY <1>1
<1> HIDE DEF Written
<1>4. view' = [n \in DOMAIN view' |-> view'[n]]
  BY <1>1
<1> QED BY <1>2, <1>3, <1>4 DEF ViewsMove


\* A step of one view: the others stay the same.
LEMMA OneViewMoves ==
    ASSUME ViewsOK, page' = page, open' \subseteq open, NEW n \in DOMAIN view, NEW t,
           view' = [view EXCEPT ![n] = t], Good(ViewOf(n), t),
           \A keeps \in BOOLEAN : KeepsChoice(page, n) /\ Right(view[n], keeps) => Right(t, keeps),
           FillsOnce(page, n) /\ Filled(n) => t.fl = <<>>
    PROVE  ViewsMove
<1>1. DOMAIN view' = DOMAIN view /\ view' = [m \in DOMAIN view' |-> view'[m]]
  BY DEF ViewsOK
<1>2. ASSUME NEW m \in DOMAIN view, m # n PROVE Stepped(m)
  <2>1. Good(ViewOf(m), view'[m]) /\ view'[m] = view[m]
    BY <1>2, ViewIs
  <2>2. Filled(m) /\ view[m].fl # <<>> => open' \cap ViewOf(m).fills = {}
    BY DEF Filled
  <2> QED BY <2>1, <2>2, LikeSteps
<1>3. Stepped(n)
  <2>1. view'[n] = t
    BY DEF ViewsOK
  <2>2. FillsOnce(page, n) /\ Filled(n) => Filled(n)'
    BY <2>1 DEF Filled
  <2> QED BY <2>1, <2>2 DEF Stepped
<1> QED BY <1>1, <1>2, <1>3 DEF ViewsMove

\* An answer of a fetch, or its failure: the fetch is gone, and if none was for an
\* earlier choice neither is what is shown.
LEMMA EndOfFetch ==
    ASSUME NEW v, NEW s, Good(v, s), NEW k \in DOMAIN s.fl, NEW t,
           t = [data |-> t.data, miss |-> t.miss, wrong |-> t.wrong, late |-> t.late, err |-> t.err, fl |-> t.fl],
           t.fl = After(s.fl, k),
           t.wrong = s.fl[k].old \/ (t.wrong = s.wrong /\ t.err = TRUE)
    PROVE  /\ Good(v, t)
           /\ \A keeps \in BOOLEAN : Right(s, keeps) => Right(t, keeps)
           /\ Len(s.fl) = 1 => t.fl = <<>>
<1>0. s.fl \in Seq(Fetches(v)) /\ s.fl[k] \in Fetches(v)
  BY ElementOfSeq DEF Good
<1> DEFINE fs == s.fl
<1>1. /\ t.fl \in Seq(Fetches(v))
      /\ (\A j \in DOMAIN s.fl : ~ s.fl[j].old) => \A j \in DOMAIN t.fl : ~ t.fl[j].old
      /\ Len(s.fl) = 1 => t.fl = <<>>
  <2>1. fs \in Seq(Fetches(v)) /\ k \in DOMAIN fs /\ t.fl = After(fs, k)
    BY <1>0
  <2> HIDE DEF fs
  <2>2. /\ t.fl \in Seq(Fetches(v))
        /\ (\A j \in DOMAIN fs : ~ fs[j].old) => \A j \in DOMAIN t.fl : ~ t.fl[j].old
        /\ Len(fs) = 1 => t.fl = <<>>
    BY <2>1, AfterFl
  <2> QED BY <2>2 DEF fs
<1>2. Good(v, t)
  BY <1>1 DEF Good
<1>3. ASSUME NEW keeps \in BOOLEAN, Right(s, keeps) PROVE Right(t, keeps)
  <2>1. ~ s.fl[k].old /\ NoneOld(t) /\ (s.wrong => keeps)
    BY <1>1, <1>3 DEF Right, NoneOld
  <2>2. CASE t.wrong = s.fl[k].old
    BY <2>1, <2>2 DEF Right
  <2>3. CASE t.wrong = s.wrong /\ t.err = TRUE
    BY <2>1, <2>3 DEF Right
  <2> QED BY <2>2, <2>3
<1> QED BY <1>1, <1>2, <1>3

\* Answers of fetches move the views.
LEMMA ReceiveMoves ==
    ASSUME ViewsOK, NEW n \in DOMAIN view, NEW k, Receive(ViewOf(n), k)
    PROVE  ViewsMove
<1> DEFINE s == view[n]
           v == ViewOf(n)
<1>1. Good(v, s) /\ v.name = n
  BY ViewIs
<1>2. PICK lacks \in SUBSET s.fl[k].since :
         view' = [view EXCEPT ![n] =
                    [data |-> TRUE, miss |-> lacks, wrong |-> s.fl[k].old,
                     late |-> s.fl[k].passed /\ lacks # {}, err |-> FALSE, fl |-> After(s.fl, k)]]
  BY <1>1 DEF Receive
<1>3. page' = page /\ k \in DOMAIN s.fl
  BY <1>1 DEF Receive
<1>4. open' \subseteq open
  BY DEF Receive
<1>5. PICK x, y, z : x = TRUE /\ y = (s.fl[k].passed /\ lacks # {}) /\ z = FALSE
  OBVIOUS
<1>6. PICK t : t = [data |-> x, miss |-> lacks, wrong |-> s.fl[k].old, late |-> y, err |-> z, fl |-> After(s.fl, k)]
  OBVIOUS
<1>7. view' = [view EXCEPT ![n] = t]
  BY <1>2, <1>5, <1>6
<1>8. /\ t = [data |-> t.data, miss |-> t.miss, wrong |-> t.wrong, late |-> t.late, err |-> t.err, fl |-> t.fl]
      /\ t.fl = After(s.fl, k)
      /\ t.wrong = s.fl[k].old
  BY <1>6
<1>9. /\ Good(v, t)
      /\ \A keeps \in BOOLEAN : Right(s, keeps) => Right(t, keeps)
      /\ Len(s.fl) = 1 => t.fl = <<>>
  <2> HIDE DEF s, v
  <2> QED BY <1>1, <1>3, <1>8, EndOfFetch
<1>10. Filled(n) => t.fl = <<>>
  BY <1>3, <1>9 DEF Filled
<1> QED BY <1>3, <1>4, <1>7, <1>9, <1>10, OneViewMoves

\* The parts of a view whose fetch failed.
LEMMA FailedParts ==
    ASSUME NEW s, NEW x, NEW y,
           s = [data |-> s.data, miss |-> s.miss, wrong |-> s.wrong, late |-> s.late, err |-> s.err, fl |-> s.fl]
    PROVE  [s EXCEPT !.err = x, !.fl = y] =
              [data |-> s.data, miss |-> s.miss, wrong |-> s.wrong, late |-> s.late, err |-> x, fl |-> y]
<1> DEFINE t == [s EXCEPT !.err = x, !.fl = y]
<1>1. DOMAIN s = {"data", "miss", "wrong", "late", "err", "fl"}
  OBVIOUS
<1>2. /\ t = [z \in DOMAIN s |-> t[z]]
      /\ t.data = s.data /\ t.miss = s.miss /\ t.wrong = s.wrong /\ t.late = s.late /\ t.err = x /\ t.fl = y
  <2>1. t = [z \in DOMAIN s |-> IF z = "fl" THEN y ELSE IF z = "err" THEN x ELSE s[z]]
    OBVIOUS
  <2> HIDE DEF t
  <2> QED BY <1>1, <2>1
<1> HIDE DEF t
<1>3. t = [data |-> s.data, miss |-> s.miss, wrong |-> s.wrong, late |-> s.late, err |-> x, fl |-> y]
  BY <1>1, <1>2
<1> QED BY <1>3 DEF t

\* So do their failures.
LEMMA FailedMoves ==
    ASSUME ViewsOK, NEW n \in DOMAIN view, NEW k, FetchFails(ViewOf(n), k)
    PROVE  ViewsMove
<1> DEFINE s == view[n]
           v == ViewOf(n)
<1>1. Good(v, s) /\ v.name = n
  BY ViewIs
<1>2. view' = [view EXCEPT ![n] =
                 IF v.swallow
                 THEN [data |-> TRUE, miss |-> v.reads, wrong |-> s.fl[k].old, late |-> FALSE,
                       err |-> FALSE, fl |-> After(s.fl, k)]
                 ELSE [s EXCEPT !.err = TRUE, !.fl = After(s.fl, k)]]
  BY <1>1 DEF FetchFails
<1>3. page' = page /\ k \in DOMAIN s.fl /\ open' \subseteq open
  BY <1>1 DEF FetchFails, ui
<1>4. PICK x, y : x = TRUE /\ y = FALSE
  OBVIOUS
<1>5. PICK t : /\ v.swallow => t = [data |-> x, miss |-> v.reads, wrong |-> s.fl[k].old, late |-> y,
                                    err |-> y, fl |-> After(s.fl, k)]
               /\ ~ v.swallow => t = [data |-> s.data, miss |-> s.miss, wrong |-> s.wrong, late |-> s.late,
                                      err |-> x, fl |-> After(s.fl, k)]
  OBVIOUS
<1>6. view' = [view EXCEPT ![n] = t]
  <2>1. ~ v.swallow => [s EXCEPT !.err = TRUE, !.fl = After(s.fl, k)] = t
    <3>1. s = [data |-> s.data, miss |-> s.miss, wrong |-> s.wrong, late |-> s.late, err |-> s.err, fl |-> s.fl]
      BY <1>1 DEF Good
    <3> DEFINE a == After(s.fl, k)
    <3> HIDE DEF s, v, a
    <3>2. [s EXCEPT !.err = x, !.fl = a] =
            [data |-> s.data, miss |-> s.miss, wrong |-> s.wrong, late |-> s.late, err |-> x, fl |-> a]
      BY <3>1, FailedParts
    <3> QED BY <1>4, <1>5, <3>2 DEF a
  <2> QED BY <1>2, <1>4, <1>5, <2>1
<1>7. /\ t = [data |-> t.data, miss |-> t.miss, wrong |-> t.wrong, late |-> t.late, err |-> t.err, fl |-> t.fl]
      /\ t.fl = After(s.fl, k)
      /\ t.wrong = s.fl[k].old \/ (t.wrong = s.wrong /\ t.err = TRUE)
  <2>1. CASE v.swallow
    BY <1>5, <2>1
  <2>2. CASE ~ v.swallow
    <3>1. t = [data |-> s.data, miss |-> s.miss, wrong |-> s.wrong, late |-> s.late, err |-> x, fl |-> After(s.fl, k)]
      BY <1>5, <2>2
    <3> QED BY <1>4, <3>1
  <2> QED BY <2>1, <2>2
<1>8. /\ Good(v, t)
      /\ \A keeps \in BOOLEAN : Right(s, keeps) => Right(t, keeps)
      /\ Len(s.fl) = 1 => t.fl = <<>>
  <2> HIDE DEF s, v
  <2> QED BY <1>1, <1>3, <1>7, EndOfFetch
<1>9. Filled(n) => t.fl = <<>>
  BY <1>3, <1>8 DEF Filled
<1> QED BY <1>3, <1>6, <1>8, <1>9, OneViewMoves

\* A refetch moves the view: one that fills a form is not refetched.
LEMMA RefetchMoves ==
    ASSUME ViewsOK, NEW n \in DOMAIN view, Refetch(ViewOf(n))
    PROVE  ViewsMove
<1> DEFINE s == view[n]
           v == ViewOf(n)
           one == <<Fetch>>
           t == [s EXCEPT !.fl = one]
<1>1. Good(v, s) /\ v.name = n /\ v = ViewAt(page, n)
  BY ViewIs
<1>2. /\ page' = page /\ open' \subseteq open
      /\ v.poll \/ v.cached
      /\ view' = [view EXCEPT ![n].fl = one]
  BY <1>1 DEF Refetch, ui
<1>3. view' = [view EXCEPT ![n] = t]
  BY <1>2 DEF ViewsOK
<1>4. one \in Seq(Fetches(v)) /\ one # <<>> /\ \A k \in DOMAIN one : ~ one[k].old
  BY NewFetch, OneFetch
<1> HIDE DEF s, v, one
<1>5. Good(v, t) /\ t.fl = one /\ t.wrong = s.wrong
  BY <1>1, <1>4, NewFl
<1> HIDE DEF t
<1>6. ASSUME NEW keeps \in BOOLEAN, Right(s, keeps) PROVE Right(t, keeps)
  BY <1>4, <1>5, <1>6 DEF Right, NoneOld
<1>7. ~ FillsOnce(page, n)
  BY <1>1, <1>2 DEF FillsOnce, LoadedOnce, Starts
<1> QED BY <1>2, <1>3, <1>5, <1>6, <1>7, OneViewMoves DEF s, v


\* A view that is refreshed, or asked for again, is stepped if no form waits for it.
LEMMA RightSteps ==
    ASSUME NEW n, Good(ViewOf(n), view'[n]),
           \A keeps \in BOOLEAN :
              KeepsChoice(page, n) /\ keeps = KeepsOld(page, n) /\ Right(view[n], keeps) => Right(view'[n], keeps),
           ~ FillsOnce(page, n)
    PROVE  Stepped(n)
BY DEF Stepped

\* A click moves the views: what it opens waits for the load that fills it, and what it
\* chooses is loaded under a guard or while nothing is under way.
LEMMA ClickMoves ==
    ASSUME ViewsOK, NEW m \in DOMAIN P.controls, Click(ControlOf(m))
    PROVE  ViewsMove
<1> DEFINE c == At(page, m)
<1>1. ControlOf(m) = c /\ m \in DOMAIN PageTable[page].controls
  BY DEF ControlOf, At, P
<1>2. /\ page' = page
      /\ Usable(c, P.inline)
      /\ IF c.exit THEN Unmount({})
         ELSE /\ open' = (open \ c.closes) \cup c.opens
              /\ view' = [n \in DOMAIN view |-> Clicked(c, ViewOf(n), view[n])]
  BY <1>1 DEF Click
<1>3. CASE c.exit
  BY <1>2, <1>3, NoViews DEF Unmount
<1>4. CASE ~ c.exit
  <2>1. /\ open' = (open \ c.closes) \cup c.opens
        /\ view' = [n \in DOMAIN view |-> Clicked(c, ViewOf(n), view[n])]
    BY <1>2, <1>4
  <2>2. DOMAIN view' = DOMAIN view /\ view' = [n \in DOMAIN view' |-> view'[n]]
    BY <2>1
  <2>3. ASSUME NEW n \in DOMAIN view PROVE Stepped(n)
    <3> DEFINE v == ViewOf(n)
               s == view[n]
               t == view'[n]
    <3>1. Good(v, s) /\ v.name = n /\ v = ViewAt(page, n) /\ page \in DOMAIN PageTable
      BY ViewIs
    <3>2. t = Clicked(c, v, s)
      BY <2>1
    <3>3. n \in c.off => s.fl = <<>>
      <4>1. n \in c.off => n \notin GoingOn
        BY <1>2 DEF Usable
      <4> QED BY <4>1 DEF GoingOn, Loading
    <3>4. n \in c.has => s.data
      BY <1>2 DEF Usable
    <3>5. CASE n \in c.picks
      <4>1. t = Rechosen(v, s)
        BY <3>1, <3>2, <3>5 DEF Clicked
      <4>2. ~ FillsOnce(page, n)
        BY <1>1, <3>5 DEF FillsOnce, LoadedOnce, Starts
      <4>3. KeepsChoice(page, n) => v.cached \/ v.cancel \/ s.fl = <<>>
        BY <1>1, <3>1, <3>3, <3>5 DEF KeepsChoice
      <4>4. KeepsOld(page, n) \/ v.clears \/ v.cached
        BY <1>1, <3>1, <3>5 DEF KeepsOld
      <4>5. Good(v, t)
        BY <3>1, <4>1, RechosenView
      <4>6. ASSUME NEW keeps \in BOOLEAN, KeepsChoice(page, n), keeps = KeepsOld(page, n)
            PROVE  Right(t, keeps)
        <5>1. (v.cached \/ v.cancel \/ s.fl = <<>>) /\ (keeps \/ v.clears \/ v.cached)
          BY <4>3, <4>4, <4>6
        <5> HIDE DEF s, t, v
        <5> QED BY <3>1, <4>1, <5>1, RechosenView
      <4> QED BY <4>2, <4>5, <4>6, RightSteps
    <3>6. CASE n \notin c.picks /\ n \in c.again
      <4>1. t = Invalidated(s) \/ t = Reloaded(v, s)
        BY <3>1, <3>2, <3>6 DEF Clicked
      <4>2. ~ FillsOnce(page, n)
        BY <1>1, <3>6 DEF FillsOnce, LoadedOnce, Starts
      <4>3. Good(v, t) /\ \A keeps \in BOOLEAN : Right(s, keeps) => Right(t, keeps)
        <5> HIDE DEF s, t, v
        <5> QED BY <3>1, <4>1, InvalidatedView, ReloadedView
      <4> QED BY <4>2, <4>3, RightSteps
    <3>7. CASE n \notin c.picks /\ n \notin c.again
      <4>1. t = s
        BY <3>1, <3>2, <3>7 DEF Clicked
      <4>2. ASSUME FillsOnce(page, n), Filled(n), s.fl # <<>>
            PROVE  open' \cap v.fills = {}
        <5>1. ~ s.data /\ open \cap v.fills = {}
          BY <4>2 DEF Filled
        <5>2. c.opens \cap v.fills = {}
          BY <1>1, <3>1, <3>3, <3>4, <4>2, <5>1 DEF FillsOnce, LoadedOnce, Starts
        <5> QED BY <2>1, <5>1, <5>2
      <4> QED BY <1>2, <3>1, <4>1, <4>2, LikeSteps
    <3> QED BY <3>5, <3>6, <3>7
  <2> QED BY <1>2, <2>2, <2>3 DEF ViewsMove
<1> QED BY <1>3, <1>4

\* What a call's end does to a view moves it.
LEMMA EndSteps ==
    ASSUME ViewsOK, CallsOK, page' = page, NEW i \in UnderWay, NEW n \in DOMAIN view,
           NEW copy, NEW mine, NEW t,
           t = Refreshed(OpOf(i), ViewOf(n), mine) \/ t = Answered(OpOf(i), copy, n, Refreshed(OpOf(i), ViewOf(n), mine)),
           view'[n] = t,
           open' \subseteq open \cup OpOf(i).show
    PROVE  Stepped(n)
<1> DEFINE v == ViewOf(n)
           op == OpOf(i)
           s == view[n]
           r == Refreshed(op, v, mine)
<1>1. Good(v, s) /\ v.name = n /\ v = ViewAt(page, n)
  BY ViewIs
<1>2. call[i].c \in Senders(page) /\ op = OpAt(page, call[i].c)
  BY OpIs DEF CallsOK, UnderWay
<1>3. /\ Good(v, r)
      /\ \A keeps \in BOOLEAN : Right(s, keeps) => Right(r, keeps)
      /\ ~ v.cached /\ n \notin op.loads => r = s
  <2>1. Good(v, view[v.name])
    BY <1>1
  <2> HIDE DEF v, op
  <2>2. /\ Good(v, r)
        /\ \A keeps \in BOOLEAN : Right(view[v.name], keeps) => Right(r, keeps)
        /\ ~ v.cached /\ v.name \notin op.loads => r = view[v.name]
    BY <2>1, RefreshedView
  <2> QED BY <1>1, <2>2
<1>4. t = r \/ t = Answered(op, copy, n, r)
  OBVIOUS
<1> HIDE DEF r
<1>5. Good(v, t) /\ (n \notin op.patches => t = r \/ Like(r, t))
  BY <1>3, <1>4, AnsweredView
<1>6. ASSUME NEW keeps \in BOOLEAN, KeepsChoice(page, n), Right(s, keeps) PROVE Right(t, keeps)
  <2>1. n \notin op.patches
    BY <1>2, <1>6 DEF KeepsChoice
  <2>2. Right(r, keeps)
    BY <1>3, <1>6
  <2> QED BY <1>5, <2>1, <2>2, LikeRight
<1>7. CASE FillsOnce(page, n)
  <2>1. ~ v.cached /\ n \notin op.loads /\ n \notin op.patches /\ op.show \cap v.fills = {}
    BY <1>1, <1>2, <1>7 DEF FillsOnce, LoadedOnce, Starts
  <2>2. t = s \/ Like(s, t)
    BY <1>3, <1>5, <2>1
  <2>3. Filled(n) /\ s.fl # <<>> => open' \cap v.fills = {}
    BY <2>1 DEF Filled
  <2> QED BY <1>5, <2>2, <2>3, LikeSteps
<1>8. CASE ~ FillsOnce(page, n)
  BY <1>5, <1>6, <1>8, RightSteps
<1> QED BY <1>7, <1>8

\* The next call of a handler, and the end of its last one, move the views.
LEMMA CallMoves ==
    ASSUME ViewsOK, CallsOK, NEW i \in UnderWay, NextCall(i, OpOf(i)) \/ Succeed(i, OpOf(i))
    PROVE  ViewsMove
<1> DEFINE op == OpOf(i)
<1>1. CASE NextCall(i, op)
  <2>1. page' = page /\ open' \subseteq open
    BY <1>1 DEF NextCall
  <2>2. view' = view \/ view' = [n \in DOMAIN view |-> Refreshed(op, ViewOf(n), FALSE)]
    BY <1>1 DEF NextCall
  <2>3. CASE view' = view
    BY <2>1, <2>3, IdleViews
  <2>4. CASE view' = [n \in DOMAIN view |-> Refreshed(op, ViewOf(n), FALSE)]
    <3>1. DOMAIN view' = DOMAIN view /\ view' = [n \in DOMAIN view' |-> view'[n]]
      BY <2>4
    <3>2. PICK mine : mine = FALSE
      OBVIOUS
    <3>3. ASSUME NEW n \in DOMAIN view PROVE Stepped(n)
      <4>1. view'[n] = Refreshed(OpOf(i), ViewOf(n), mine)
        BY <2>4, <3>2
      <4> QED BY <2>1, <4>1, EndSteps
    <3> QED BY <2>1, <3>1, <3>3 DEF ViewsMove
  <2> QED BY <2>2, <2>3, <2>4
<1>2. CASE Succeed(i, op)
  <2>1. PICK mine \in BOOLEAN : mine = Mine(i, op)
    BY DEF Mine
  <2>2. /\ page' = page
        /\ \/ view' = <<>>
           \/ view' = view /\ open' = open
           \/ /\ view' = [n \in DOMAIN view |-> Answered(op, call[i].copy, n, Refreshed(op, ViewOf(n), Mine(i, op)))]
              /\ open' \subseteq open \cup op.show
    BY <1>2 DEF Succeed, Unmount
  <2>3. CASE view' = <<>>
    BY <2>2, <2>3, NoViews
  <2>4. CASE view' = view /\ open' = open
    BY <2>2, <2>4, IdleViews
  <2>5. CASE /\ view' = [n \in DOMAIN view |-> Answered(op, call[i].copy, n, Refreshed(op, ViewOf(n), Mine(i, op)))]
             /\ open' \subseteq open \cup op.show
    <3>1. DOMAIN view' = DOMAIN view /\ view' = [n \in DOMAIN view' |-> view'[n]]
      BY <2>5
    <3>2. ASSUME NEW n \in DOMAIN view PROVE Stepped(n)
      <4>1. view'[n] = Answered(OpOf(i), call[i].copy, n, Refreshed(OpOf(i), ViewOf(n), mine))
        BY <2>1, <2>5
      <4> QED BY <2>2, <2>5, <4>1, EndSteps
    <3> QED BY <2>2, <3>1, <3>2 DEF ViewsMove
  <2> QED BY <2>2, <2>3, <2>4, <2>5
<1> QED BY <1>1, <1>2


\* Every step of the page moves its views in this way.
LEMMA NextViews ==
    ASSUME ViewsOK, CallsOK, [Next]_vars
    PROVE  ViewsMove
<1>1. CASE UNCHANGED vars
  BY <1>1, IdleViews DEF vars
<1>2. CASE Leave
  BY <1>2, NoViews DEF Leave, Unmount
<1>3. ASSUME NEW i \in UnderWay, Apply(i, OpOf(i)) PROVE ViewsMove
  <2>1. page' = page /\ open' = open /\ Touch(Writes(i, OpOf(i)))
    BY <1>3 DEF Apply, ui
  <2> QED BY <2>1, TouchMoves
<1>4. ASSUME NEW i \in UnderWay, Fail(i, OpOf(i)) PROVE ViewsMove
  <2>1. page' = page /\ view' = view /\ open' \subseteq open
    BY <1>4 DEF Fail
  <2> QED BY <2>1, IdleViews
<1>5. ASSUME NEW l \in later, Land(l) PROVE ViewsMove
  <2>1. page' = page /\ open' = open /\ Touch(l.ws)
    BY <1>5 DEF Land, ui
  <2> QED BY <2>1, TouchMoves
<1>6. ASSUME NEW v, NEW k, FetchFlees(v, k) PROVE ViewsMove
  BY <1>6, FleeLeaves, NoViews
<1>7. ASSUME NEW n, StrayFails(n) PROVE ViewsMove
  BY <1>7, StrayStays, IdleViews
<1> QED BY <1>1, <1>2, <1>3, <1>4, <1>5, <1>6, <1>7, ReceiveMoves, FailedMoves, RefetchMoves, ClickMoves, CallMoves DEF Next

\* The views keep their shape.
LEMMA ViewsOKStep ==
    ASSUME ViewsOK, ViewsMove
    PROVE  ViewsOK'
<1>1. /\ page' = page /\ view' = [n \in DOMAIN view' |-> view'[n]]
      /\ DOMAIN view' \subseteq DOMAIN view
      /\ \A n \in DOMAIN view' : Stepped(n)
  BY DEF ViewsMove
<1>2. \A n \in DOMAIN view' : Good(ViewOf(n)', view'[n])
  <2>1. \A n \in DOMAIN view' : Good(ViewOf(n), view'[n])
    BY <1>1 DEF Stepped
  <2>2. \A n : ViewOf(n)' = ViewOf(n)
    BY <1>1 DEF ViewOf, P
  <2> QED BY <2>1, <2>2
<1>3. page' \in DOMAIN PageTable /\ DOMAIN view' \subseteq DOMAIN P'.views
  BY <1>1 DEF ViewsOK, P
<1> QED BY <1>1, <1>2, <1>3 DEF ViewsOK, Good

\* A page starts with its followed views being loaded for the first time.
LEMMA ViewsAtFirst ==
    ASSUME Init
    PROVE  /\ ViewsOK
           /\ open = {}
           /\ \A n \in DOMAIN view : view[n] = Unloaded
<1>1. PICK followed \in Followed(DOMAIN P.views) : view = [n \in followed |-> Unloaded]
  BY DEF Init
<1>2. followed \subseteq DOMAIN P.views
  BY DEF Followed
<1>3. DOMAIN view = followed /\ \A n \in DOMAIN view : view[n] = Unloaded
  BY <1>1
<1>4. \A n \in DOMAIN view : Good(ViewOf(n), view[n])
  BY <1>3, FreshView
<1>5. view = [n \in DOMAIN view |-> view[n]]
  BY <1>1
<1>6. page \in DOMAIN PageTable /\ open = {}
  BY DEF Init
<1> QED BY <1>2, <1>3, <1>4, <1>5, <1>6 DEF ViewsOK, Good

\* The views a page is followed in are its own, each with its fetches in order.
THEOREM ViewsAreItsOwn == Spec => []ViewsOK
<1>1. Init => ViewsOK
  BY ViewsAtFirst
<1>2. ViewsOK /\ CallsOK /\ [Next]_vars => ViewsOK'
  BY NextViews, ViewsOKStep
<1> QED BY <1>1, <1>2, CallsAreItsOwn, PTL DEF Spec

\* A load under way when the user leaves can navigate later only if it is one of the page's
\* that navigate when they fail.
THEOREM StraysFlee == Spec => []StrayOK
<1>1. Init => StrayOK
  BY DEF Init, StrayOK
<1>2. ViewsOK /\ CallsOK /\ StrayOK /\ [Next]_vars => StrayOK'
  <2> SUFFICES ASSUME ViewsOK, CallsOK, StrayOK, [Next]_vars PROVE StrayOK'
    OBVIOUS
  <2> DEFINE CanStray(n) == n \in DOMAIN P.views /\ ViewOf(n).flees
  <2>1. page' = page
    BY NextViews DEF ViewsMove
  <2>2. \A n : CanStray(n)' <=> CanStray(n)
    BY <2>1 DEF P, ViewOf
  <2>3. \A n \in DOMAIN view : ViewOf(n).flees => CanStray(n)
    BY DEF ViewsOK
  <2>4. \A n \in stray : CanStray(n)
    BY DEF StrayOK
  <2>5. stray' \subseteq stray \cup {n \in DOMAIN view : ViewOf(n).flees}
    <3>1. ASSUME NEW ended, Unmount(ended)
          PROVE  stray' \subseteq stray \cup {n \in DOMAIN view : ViewOf(n).flees}
      BY <3>1 DEF Unmount
    <3>2. \A v, k : FetchFlees(v, k) => stray' \subseteq stray \cup {n \in DOMAIN view : ViewOf(n).flees}
      BY <3>1 DEF FetchFlees
    <3>3. Leave => stray' \subseteq stray \cup {n \in DOMAIN view : ViewOf(n).flees}
      BY <3>1 DEF Leave
    <3>4. \A i : Succeed(i, OpOf(i)) => stray' \subseteq stray \cup {n \in DOMAIN view : ViewOf(n).flees}
      BY <3>1 DEF Succeed
    <3>5. \A m : Click(ControlOf(m)) => stray' \subseteq stray \cup {n \in DOMAIN view : ViewOf(n).flees}
      BY <3>1 DEF Click, ui
    <3>6. /\ \A v, k : Receive(v, k) \/ FetchFails(v, k) => stray' = stray
          /\ \A n : StrayFails(n) => stray' \subseteq stray
          /\ \A v : Refetch(v) => stray' = stray
          /\ \A i : Apply(i, OpOf(i)) \/ NextCall(i, OpOf(i)) \/ Fail(i, OpOf(i)) => stray' = stray
          /\ \A l : Land(l) => stray' = stray
          /\ UNCHANGED vars => stray' = stray
      BY DEF Receive, FetchFails, StrayFails, Refetch, Apply, NextCall, Fail, Land, ui, vars
    <3> QED BY <3>2, <3>3, <3>4, <3>5, <3>6 DEF Next
  <2> HIDE DEF CanStray
  <2>6. \A n \in stray' : CanStray(n)'
    BY <2>2, <2>3, <2>4, <2>5
  <2> QED BY <2>6 DEF StrayOK, CanStray
<1> QED BY <1>1, <1>2, ViewsAreItsOwn, CallsAreItsOwn, PTL DEF Spec

\* An answer or a failure that arrives after the user left navigates only for the controls
\* and the loads of Yankers: the other handlers that navigate are callbacks of mutate,
\* which the page takes along, and the other loads show their errors in the page.
THEOREM LeftIsLeft ==
    ASSUME AwayRule
    PROVE  Spec => []StaysAway
<1>1. Init => StaysAway
  BY DEF Init, StaysAway
<1>2. CallsOK /\ StrayOK /\ StaysAway /\ [Next]_vars => StaysAway'
  <2> SUFFICES ASSUME CallsOK, StrayOK, "yank" \notin seen, [Next]_vars
               PROVE  "yank" \notin seen'
    BY DEF StaysAway
  <2>1. ASSUME NEW i, NEW shut PROVE "yank" \notin ClosedBy(i, shut)
    BY DEF ClosedBy, Harm
  <2>2. ASSUME NEW n \in DOMAIN view, NEW k, Receive(ViewOf(n), k)
        PROVE  "yank" \notin seen'
    <3>1. \/ seen' = seen
          \/ seen' = seen \cup Harm(open \cap ViewOf(n).fills # {}, "wipe", ViewOf(n).name, Wipers)
      BY <2>2 DEF Receive
    <3> QED BY <3>1 DEF Harm
  <2>3. ASSUME NEW i \in UnderWay, NextCall(i, OpOf(i))
        PROVE  "yank" \notin seen'
    BY <2>1, <2>3 DEF NextCall
  <2>4. ASSUME NEW i \in UnderWay, Fail(i, OpOf(i))
        PROVE  "yank" \notin seen'
    BY <2>1, <2>4 DEF Fail
  <2>5. ASSUME NEW i \in UnderWay, Succeed(i, OpOf(i))
        PROVE  "yank" \notin seen'
    <3> DEFINE happens == Mine(i, OpOf(i)) /\ OpOf(i).exit /\ ~ mounted
    <3>1. seen' = seen \cup Harm(happens, "yank", call[i].c, Yankers)
                       \cup ClosedBy(i, Shuts(i, OpOf(i)))
      BY <2>5 DEF Succeed
    <3>2. page \in DOMAIN PageTable /\ call[i].c \in Senders(page)
      BY DEF CallsOK, UnderWay
    <3>3. happens => <<page, call[i].c>> \in Yankers
      BY <3>2, OpIs DEF AwayRule, Mine
    <3> HIDE DEF happens
    <3>4. Harm(happens, "yank", call[i].c, Yankers) = {}
      BY <3>3, HarmIs
    <3> QED BY <2>1, <3>1, <3>4
  <2>6. \/ Leave
        \/ \E n \in DOMAIN view : \E k \in 1..Len(view[n].fl) : FetchFails(ViewOf(n), k)
        \/ \E n \in DOMAIN view : Refetch(ViewOf(n))
        \/ \E n \in DOMAIN P.controls : Click(ControlOf(n))
        \/ \E i \in UnderWay : Apply(i, OpOf(i))
        \/ \E l \in later : Land(l)
        \/ UNCHANGED vars
        => seen' = seen
    BY DEF Leave, FetchFails, Refetch, Click, Apply, Land, history, vars
  <2>7. ASSUME NEW v, NEW k, FetchFlees(v, k)
        PROVE  "yank" \notin seen'
    BY <2>7, FleeLeaves
  <2>8. ASSUME NEW n \in stray, StrayFails(n)
        PROVE  "yank" \notin seen'
    <3>1. page \in DOMAIN PageTable /\ n \in DOMAIN PageTable[page].views /\ ViewAt(page, n).flees
      BY DEF CallsOK, StrayOK, P, ViewOf, ViewAt
    <3>2. <<page, <<"load", n>>>> \in Yankers
      BY <3>1 DEF AwayRule
    <3>3. Harm(TRUE, "yank", <<"load", n>>, Yankers) = {}
      BY <3>2, HarmIs
    <3> QED BY <2>8, <3>3, StrayStays
  <2> QED BY <2>2, <2>3, <2>4, <2>5, <2>6, <2>7, <2>8 DEF Next
<1> QED BY <1>1, <1>2, CallsAreItsOwn, StraysFlee, PTL DEF Spec


\* A form is filled before it can be edited, when its view is loaded once.
THEOREM FilledFirst == Spec => []FormsOK
<1>1. Init => FormsOK
  <2> SUFFICES ASSUME Init PROVE FormsOK
    OBVIOUS
  <2>1. open = {} /\ \A n \in DOMAIN view : Len(view[n].fl) = 1 /\ ~ view[n].data
    BY ViewsAtFirst, FreshView
  <2> QED BY <2>1 DEF FormsOK
<1>2. FormsOK /\ ViewsOK /\ CallsOK /\ [Next]_vars => FormsOK'
  <2> SUFFICES ASSUME FormsOK, ViewsOK, CallsOK, [Next]_vars PROVE FormsOK'
    OBVIOUS
  <2>1. ViewsMove
    BY NextViews
  <2>2. page' = page /\ DOMAIN view' \subseteq DOMAIN view
    BY <2>1 DEF ViewsMove
  <2>3. \A n \in DOMAIN view' : FillsOnce(page, n) => Filled(n)
    BY <2>2 DEF FormsOK, Filled
  <2>4. \A n \in DOMAIN view' : FillsOnce(page, n) => Filled(n)'
    BY <2>1, <2>3 DEF ViewsMove, Stepped
  <2> QED BY <2>2, <2>4 DEF FormsOK, Filled
<1> QED BY <1>1, <1>2, ViewsAreItsOwn, CallsAreItsOwn, PTL DEF Spec

\* No answer discards what the user typed into a form, but for the views of Wipers:
\* the others are loaded once, and their forms opened after that.
THEOREM TypingSurvives ==
    ASSUME EditsRule
    PROVE  Spec => []EditsKept
<1>1. Init => EditsKept
  BY DEF Init, EditsKept
<1>2. FormsOK /\ ViewsOK /\ EditsKept /\ [Next]_vars => EditsKept'
  <2> SUFFICES ASSUME FormsOK, ViewsOK, "wipe" \notin seen, [Next]_vars
               PROVE  "wipe" \notin seen'
    BY DEF EditsKept
  <2>1. ASSUME NEW i, NEW shut PROVE "wipe" \notin ClosedBy(i, shut)
    BY DEF ClosedBy, Harm
  <2>2. ASSUME NEW n \in DOMAIN view, NEW k, Receive(ViewOf(n), k)
        PROVE  "wipe" \notin seen'
    <3>1. /\ ViewOf(n).name = n /\ ViewOf(n) = ViewAt(page, n)
          /\ page \in DOMAIN PageTable /\ n \in DOMAIN PageTable[page].views
      BY ViewIs
    <3>2. k \in DOMAIN view[n].fl
      BY <2>2, <3>1 DEF Receive
    <3>3. \/ seen' = seen
          \/ seen' = seen \cup Harm(open \cap ViewOf(n).fills # {}, "wipe", n, Wipers)
      BY <2>2, <3>1 DEF Receive
    <3>4. <<page, n>> \in Wipers \/ open \cap ViewOf(n).fills = {}
      <4>1. FillsOnce(page, n) => open \cap ViewOf(n).fills = {}
        BY <3>2 DEF FormsOK
      <4> QED BY <3>1, <4>1 DEF EditsRule
    <3> QED BY <3>3, <3>4 DEF Harm
  <2>3. ASSUME NEW i \in UnderWay, NextCall(i, OpOf(i))
        PROVE  "wipe" \notin seen'
    BY <2>1, <2>3 DEF NextCall
  <2>4. ASSUME NEW i \in UnderWay, Fail(i, OpOf(i))
        PROVE  "wipe" \notin seen'
    BY <2>1, <2>4 DEF Fail
  <2>5. ASSUME NEW i \in UnderWay, Succeed(i, OpOf(i))
        PROVE  "wipe" \notin seen'
    <3>1. \E x : seen' = seen \cup {w \in {"yank"} : x} \cup ClosedBy(i, Shuts(i, OpOf(i)))
      BY <2>5 DEF Succeed, Harm
    <3> QED BY <2>1, <3>1
  <2>6. \/ Leave
        \/ \E n \in DOMAIN view : \E k \in 1..Len(view[n].fl) : FetchFails(ViewOf(n), k)
        \/ \E n \in DOMAIN view : Refetch(ViewOf(n))
        \/ \E n \in DOMAIN P.controls : Click(ControlOf(n))
        \/ \E i \in UnderWay : Apply(i, OpOf(i))
        \/ \E l \in later : Land(l)
        \/ UNCHANGED vars
        => seen' = seen
    BY DEF Leave, FetchFails, Refetch, Click, Apply, Land, history, vars
  <2>7. ASSUME NEW v, NEW k, FetchFlees(v, k)
        PROVE  "wipe" \notin seen'
    BY <2>7, FleeLeaves
  <2>8. ASSUME NEW n, StrayFails(n)
        PROVE  "wipe" \notin seen'
    <3>1. \E x : seen' = seen \cup {w \in {"yank"} : x}
      BY <2>8, StrayStays DEF Harm
    <3> QED BY <3>1
  <2> QED BY <2>2, <2>3, <2>4, <2>5, <2>6, <2>7, <2>8 DEF Next
<1> QED BY <1>1, <1>2, FilledFirst, ViewsAreItsOwn, PTL DEF Spec

\* Views that keep their choice have no answer of an earlier one on its way, and show its
\* data only until the next answer or next to an error.
THEOREM ChoicesHold == Spec => []ChoiceOK
<1>1. Init => ChoiceOK
  <2> SUFFICES ASSUME Init, NEW n \in DOMAIN view
               PROVE  /\ \A k \in DOMAIN view[n].fl : ~ view[n].fl[k].old
                      /\ view[n].wrong => KeepsOld(page, n) /\ (view[n].fl # <<>> \/ view[n].err)
    BY DEF ChoiceOK
  <2>1. view[n] = Unloaded
    BY ViewsAtFirst
  <2>2. PICK no : no = FALSE
    OBVIOUS
  <2>3. Right(Unloaded, no)
    BY FreshView
  <2> QED BY <2>1, <2>2, <2>3 DEF Right, NoneOld
<1>2. ChoiceOK /\ ViewsOK /\ CallsOK /\ [Next]_vars => ChoiceOK'
  <2> SUFFICES ASSUME ChoiceOK, ViewsOK, CallsOK, [Next]_vars PROVE ChoiceOK'
    OBVIOUS
  <2>1. ViewsMove
    BY NextViews
  <2>2. page' = page /\ DOMAIN view' \subseteq DOMAIN view
    BY <2>1 DEF ViewsMove
  <2>3. ASSUME NEW n \in DOMAIN view', KeepsChoice(page, n)
        PROVE  /\ \A k \in DOMAIN view'[n].fl : ~ view'[n].fl[k].old
               /\ view'[n].wrong => KeepsOld(page, n) /\ (view'[n].fl # <<>> \/ view'[n].err)
    <3>1. PICK keeps \in BOOLEAN : keeps = KeepsOld(page, n)
      BY DEF KeepsOld
    <3>2. Right(view[n], keeps)
      BY <2>2, <2>3, <3>1 DEF ChoiceOK, Right, NoneOld
    <3>3. Right(view'[n], keeps)
      BY <2>1, <2>3, <3>1, <3>2 DEF ViewsMove, Stepped
    <3> QED BY <3>1, <3>3 DEF Right, NoneOld
  <2> QED BY <2>2, <2>3 DEF ChoiceOK
<1> QED BY <1>1, <1>2, ViewsAreItsOwn, CallsAreItsOwn, PTL DEF Spec

\* A page that has come to rest shows the data of the choice made last, but for the views
\* of Racers and for the sockets of Frozen.
THEOREM LastChoiceShown ==
    ASSUME ChoiceRule
    PROVE  Spec => []RightChoice
<1>1. ChoiceOK /\ ViewsOK => RightChoice
  <2> SUFFICES ASSUME ChoiceOK, ViewsOK, Quiet, NEW n \in DOMAIN view,
                      Shown(ViewOf(n)), view[ViewOf(n).name].wrong
               PROVE  \/ <<page, ViewOf(n).name>> \in Racers
                      \/ Lost(ViewOf(n)) /\ <<page, ViewOf(n).name>> \in Frozen
    BY DEF RightChoice, Views
  <2>1. /\ ViewOf(n).name = n /\ ViewOf(n) = ViewAt(page, n)
        /\ page \in DOMAIN PageTable /\ n \in DOMAIN PageTable[page].views
    BY ViewIs
  <2>2. view[n].fl = <<>>
    BY <2>1 DEF Quiet, Views
  <2>3. <<page, n>> \in Racers \/ KeepsChoice(page, n)
    BY <2>1 DEF ChoiceRule
  <2>4. KeepsChoice(page, n) => view[n].err /\ KeepsOld(page, n)
    BY <2>1, <2>2 DEF ChoiceOK
  <2>5. view[n].err => Lost(ViewOf(n)) /\ ViewAt(page, n).live
    BY <2>1 DEF Shown, Lost
  <2> QED BY <2>1, <2>3, <2>4, <2>5 DEF ChoiceRule
<1> QED BY <1>1, ChoicesHold, ViewsAreItsOwn, PTL


-----------------------------------------------------------------------------
(* Dialogs that answers shut. *)

\* What OpenOK says of the call in slot i.
Owned(i) ==
    <<page, call[i].c>> \notin Closers =>
        /\ Closing(page, call[i].c) \cap open \subseteq call[i].own
        /\ mounted /\ Stays(page, call[i].c) => At(page, call[i].c).at \in open
        /\ Away(page, call[i].c) \cap open = {}

\* A call goes on owning what it shuts when some of it is shut, and nothing of it opened.
LEMMA OwnedStep ==
    ASSUME page' = page, mounted' => mounted, NEW i, Owned(i), call'[i].c = call[i].c,
           NEW gone, NEW added, open' \subseteq (open \ gone) \cup added,
           call[i].own \ (gone \cup added) \subseteq call'[i].own,
           <<page, call[i].c>> \notin Closers =>
              /\ Closing(page, call[i].c) \cap added = {}
              /\ Away(page, call[i].c) \cap added = {}
              /\ mounted' /\ Stays(page, call[i].c) /\ At(page, call[i].c).at \in open
                    => At(page, call[i].c).at \in open'
    PROVE  Owned(i)'
<1> SUFFICES ASSUME <<page, call[i].c>> \notin Closers
             PROVE  /\ Closing(page, call[i].c) \cap open' \subseteq call'[i].own
                    /\ mounted' /\ Stays(page, call[i].c) => At(page, call[i].c).at \in open'
                    /\ Away(page, call[i].c) \cap open' = {}
  BY DEF Owned
<1> DEFINE S == Closing(page, call[i].c)
           A == Away(page, call[i].c)
<1>1. /\ S \cap open \subseteq call[i].own
      /\ mounted /\ Stays(page, call[i].c) => At(page, call[i].c).at \in open
      /\ A \cap open = {}
      /\ S \cap added = {} /\ A \cap added = {}
  BY DEF Owned
<1> HIDE DEF S, A
<1>2. S \cap open' \subseteq call'[i].own
  BY <1>1
<1>3. A \cap open' = {}
  BY <1>1
<1>4. mounted' /\ Stays(page, call[i].c) => At(page, call[i].c).at \in open'
  BY <1>1
<1> QED BY <1>2, <1>3, <1>4 DEF S, A

\* A control that a call under way blocks cannot be used.
LEMMA Blocked ==
    ASSUME CallsOK, Locked, NEW i \in UnderWay, NEW d, Blocks(page, call[i].c, d)
    PROVE  ~ Usable(At(page, d), P.inline)
<1> SUFFICES ASSUME Usable(At(page, d), P.inline) PROVE FALSE
  OBVIOUS
<1>1. mounted /\ OpOf(i) = OpAt(page, call[i].c)
  BY OpIs DEF Usable
<1>2. CASE FlagLocks(page, call[i].c) /\ OpAt(page, call[i].c).flag \in At(page, d).off
  <2>1. OpOf(i).flag \in flags
    BY <1>1, <1>2 DEF Locked
  <2> QED BY <1>1, <1>2, <2>1, Disabled
<1>3. CASE HookLocks(page, call[i].c) /\ OpAt(page, call[i].c).hook \in At(page, d).off
  <2>1. call[i].top
    BY <1>3 DEF Locked
  <2> QED BY <1>1, <1>3, <2>1, Disabled
<1> QED BY <1>2, <1>3 DEF Blocks

\* A twin of a call under way is not under way.
LEMMA NoTwin ==
    ASSUME Locked, NEW i \in UnderWay, NEW j \in UnderWay, i # j
    PROVE  ~ Twins(page, call[i].c, call[j].c)
<1>1. OpOf(i) = OpAt(page, call[i].c) /\ OpOf(j) = OpAt(page, call[j].c)
  BY OpIs
<1>2. /\ FlagLocks(page, call[i].c) => OpOf(j).flag # OpOf(i).flag
      /\ HookLocks(page, call[i].c) => OpOf(j).hook # OpOf(i).hook
  BY DEF Locked
<1> QED BY <1>1, <1>2 DEF Twins

\* A control that is kept out by a call under way cannot be used.
LEMMA OutOfReach ==
    ASSUME CallsOK, Locked, NEW i \in UnderWay, Owned(i), <<page, call[i].c>> \notin Closers,
           NEW d, KeepsOut(page, call[i].c, d)
    PROVE  ~ Usable(At(page, d), P.inline)
<1> SUFFICES ASSUME Usable(At(page, d), P.inline), ~ Blocks(page, call[i].c, d) PROVE FALSE
  BY Blocked
<1>1. /\ mounted
      /\ At(page, d).at \in {""} \cup P.inline => open \subseteq P.inline
      /\ At(page, d).at # "" => At(page, d).at \in open
      /\ At(page, d).need \subseteq open
  BY DEF Usable
<1>2. CASE Stays(page, call[i].c) /\ At(page, d).at \in {""} \cup PageTable[page].inline
  <2>1. At(page, call[i].c).at \in open
    BY <1>1, <1>2 DEF Owned
  <2>2. At(page, call[i].c).at \notin PageTable[page].inline
    BY <1>2 DEF Stays
  <2> QED BY <1>1, <1>2, <2>1, <2>2 DEF P
<1>3. CASE (({At(page, d).at} \ {""}) \cup At(page, d).need) \cap Away(page, call[i].c) # {}
  <2>1. (({At(page, d).at} \ {""}) \cup At(page, d).need) \subseteq open
    BY <1>1
  <2>2. Away(page, call[i].c) \cap open = {}
    BY DEF Owned
  <2> QED BY <1>3, <2>1, <2>2
<1> QED BY <1>2, <1>3 DEF KeepsOut

\* A usable control opens nothing that a call under way shuts or keeps away, and closes
\* no dialog that is to stay.
LEMMA ClickSpares ==
    ASSUME CloseRule, CallsOK, Locked, NEW i \in UnderWay, Owned(i), <<page, call[i].c>> \notin Closers,
           NEW d \in DOMAIN PageTable[page].controls, Usable(At(page, d), P.inline)
    PROVE  /\ Closing(page, call[i].c) \cap At(page, d).opens = {}
           /\ Away(page, call[i].c) \cap At(page, d).opens = {}
           /\ Stays(page, call[i].c) => At(page, call[i].c).at \notin At(page, d).closes
<1>0. page \in DOMAIN PageTable /\ call[i].c \in Senders(page)
  BY DEF CallsOK, UnderWay
<1>1. ~ Blocks(page, call[i].c, d) /\ ~ KeepsOut(page, call[i].c, d)
  BY Blocked, OutOfReach
<1>2. At(page, d).opens \cap Closing(page, call[i].c) # {} => KeepsOut(page, call[i].c, d)
  BY <1>0 DEF CloseRule
<1>3. Away(page, call[i].c) \cap At(page, d).opens = {}
  BY <1>1 DEF Away
<1>4. Stays(page, call[i].c) => At(page, call[i].c).at \notin At(page, d).closes
  BY <1>1 DEF Stays
<1> QED BY <1>1, <1>2, <1>3, <1>4

\* The end of another call shuts no dialog that is to stay, and shows nothing that a call
\* under way shuts or keeps away.
LEMMA EndSpares ==
    ASSUME CloseRule, CallsOK, Locked, NEW i \in UnderWay, NEW j \in UnderWay, i # j,
           <<page, call[i].c>> \notin Closers
    PROVE  /\ Closing(page, call[i].c) \cap OpOf(j).show = {}
           /\ Away(page, call[i].c) \cap OpOf(j).show = {}
           /\ Stays(page, call[i].c) => At(page, call[i].c).at \notin OpOf(j).shut \cup OpOf(j).failShut
<1>0. page \in DOMAIN PageTable /\ call[i].c \in Senders(page) /\ call[j].c \in Senders(page)
  BY DEF CallsOK, UnderWay
<1>1. ~ Twins(page, call[i].c, call[j].c)
  BY NoTwin
<1>2. OpOf(j) = OpAt(page, call[j].c)
  BY OpIs
<1>3. Closing(page, call[i].c) \cap OpOf(j).show = {}
  BY <1>0, <1>1, <1>2 DEF CloseRule
<1>4. Away(page, call[i].c) \cap OpOf(j).show = {}
  BY <1>0, <1>1, <1>2 DEF Away
<1>5. Stays(page, call[i].c) => At(page, call[i].c).at \notin OpOf(j).shut \cup OpOf(j).failShut
  BY <1>0, <1>1, <1>2 DEF Stays, Closing
<1> QED BY <1>3, <1>4, <1>5


\* What a step must leave of the dialogs for the call in slot i.
Spared(i, added) ==
    <<page, call[i].c>> \notin Closers =>
        /\ Closing(page, call[i].c) \cap added = {}
        /\ Away(page, call[i].c) \cap added = {}
        /\ mounted' /\ Stays(page, call[i].c) /\ At(page, call[i].c).at \in open
              => At(page, call[i].c).at \in open'

\* A step in which no call starts, and in which every call that goes on is spared.
LEMMA OpenStep ==
    ASSUME OpenOK, page' = page, mounted' => mounted, ~ mounted' => open' = {},
           NEW gone, NEW added, open' \subseteq (open \ gone) \cup added,
           \A i \in UnderWay' :
              /\ i \in UnderWay /\ call'[i].c = call[i].c
              /\ call[i].own \ (gone \cup added) \subseteq call'[i].own
              /\ Spared(i, added)
    PROVE  OpenOK'
<1>1. ASSUME NEW i \in UnderWay' PROVE Owned(i)'
  <2>1. /\ i \in UnderWay /\ call'[i].c = call[i].c
        /\ call[i].own \ (gone \cup added) \subseteq call'[i].own
        /\ Spared(i, added)
    OBVIOUS
  <2>2. Owned(i)
    BY <2>1 DEF OpenOK, Owned
  <2> QED BY <2>1, <2>2, OwnedStep DEF Spared
<1> QED BY <1>1 DEF OpenOK, Owned

\* Nothing is opened and no call changes what it owns.
LEMMA SameOwners ==
    ASSUME OpenOK, CallsOK, [Next]_vars, mounted' = mounted, NEW gone, open' = open \ gone,
           \A i \in Slots : call'[i].c = call[i].c /\ call'[i].own = call[i].own
                            /\ ((call'[i].ph = "idle") <=> (call[i].ph = "idle")),
           \A i \in UnderWay : Stays(page, call[i].c) => At(page, call[i].c).at \notin gone
    PROVE  OpenOK'
<1>1. page' = page
  BY NextMoves DEF Moved
<1>2. UnderWay' = UnderWay
  BY DEF UnderWay
<1>3. ~ mounted' => open' = {}
  BY DEF OpenOK
<1>4. PICK none : none = {}
  OBVIOUS
<1>5. ASSUME NEW i \in UnderWay'
      PROVE  /\ i \in UnderWay /\ call'[i].c = call[i].c
             /\ call[i].own \ (gone \cup none) \subseteq call'[i].own
             /\ Spared(i, none)
  <2>1. i \in UnderWay /\ i \in Slots
    BY <1>2 DEF UnderWay
  <2>2. Spared(i, none)
    BY <1>4, <2>1 DEF Spared
  <2> QED BY <2>1, <2>2
<1>6. open' \subseteq (open \ gone) \cup none
  OBVIOUS
<1> QED BY <1>1, <1>3, <1>5, <1>6, OpenStep

\* The end of a call, which shuts dialogs and may show others.
LEMMA EndOwners ==
    ASSUME CloseRule, OpenOK, CallsOK, Locked, page' = page, mounted' => mounted, ~ mounted' => open' = {},
           NEW j \in UnderWay, NEW gone, gone \subseteq OpOf(j).shut \cup OpOf(j).failShut,
           call' = [i \in Slots |-> IF i = j THEN Idle ELSE Disown(i, gone)],
           \/ open' = {} /\ ~ mounted'
           \/ open' = open \ gone
           \/ open' = (open \ gone) \cup OpOf(j).show
    PROVE  OpenOK'
<1> DEFINE added == IF open' = (open \ gone) \cup OpOf(j).show THEN OpOf(j).show ELSE {}
<1>1. open' \subseteq (open \ gone) \cup added
  OBVIOUS
<1>2. added \subseteq OpOf(j).show
  OBVIOUS
<1>3. mounted' => open \ gone \subseteq open'
  OBVIOUS
<1> HIDE DEF added
<1>4. ASSUME NEW i \in UnderWay'
      PROVE  /\ i \in UnderWay /\ call'[i].c = call[i].c
             /\ call[i].own \ (gone \cup added) \subseteq call'[i].own
             /\ Spared(i, added)
  <2>1. i \in Slots /\ call'[i].ph # "idle"
    BY DEF UnderWay
  <2>2. i # j
    BY <2>1 DEF Idle
  <2>3. Shaped(call[i])
    BY <2>1 DEF CallsOK, Shaped
  <2>4. call'[i] = [call[i] EXCEPT !.own = @ \ gone]
    BY <2>1, <2>2 DEF Disown
  <2>5. call'[i].c = call[i].c /\ call'[i].ph = call[i].ph /\ call'[i].own = call[i].own \ gone
    <3> DEFINE r == call[i]
               q == call'[i]
    <3>1. Shaped(r) /\ q = [r EXCEPT !.own = r.own \ gone]
      BY <2>3, <2>4
    <3> HIDE DEF r, q
    <3>2. q.c = r.c /\ q.ph = r.ph /\ q.own = r.own \ gone
      BY <3>1 DEF Shaped
    <3> QED BY <3>2 DEF r, q
  <2>6. i \in UnderWay
    BY <2>1, <2>5 DEF UnderWay
  <2>7. Spared(i, added)
    <3> SUFFICES ASSUME <<page, call[i].c>> \notin Closers
                 PROVE  /\ Closing(page, call[i].c) \cap added = {}
                        /\ Away(page, call[i].c) \cap added = {}
                        /\ mounted' /\ Stays(page, call[i].c) /\ At(page, call[i].c).at \in open
                              => At(page, call[i].c).at \in open'
      BY DEF Spared
    <3>1. /\ Closing(page, call[i].c) \cap OpOf(j).show = {}
          /\ Away(page, call[i].c) \cap OpOf(j).show = {}
          /\ Stays(page, call[i].c) => At(page, call[i].c).at \notin OpOf(j).shut \cup OpOf(j).failShut
      BY <2>2, <2>6, EndSpares
    <3>2. Closing(page, call[i].c) \cap added = {} /\ Away(page, call[i].c) \cap added = {}
      BY <1>2, <3>1
    <3>3. Stays(page, call[i].c) => At(page, call[i].c).at \notin gone
      BY <3>1
    <3> QED BY <1>3, <3>2, <3>3
  <2> QED BY <2>5, <2>6, <2>7
<1> QED BY <1>1, <1>4, OpenStep


\* The next call of a handler: a chained one shuts what the first callback shuts.
LEMMA NextCallOwners ==
    ASSUME CloseRule, OpenOK, CallsOK, Locked, NEW j \in UnderWay, NextCall(j, OpOf(j))
    PROVE  OpenOK'
<1> DEFINE op == OpOf(j)
           gone == IF op.chain THEN Shuts(j, op) ELSE {}
<1>1. /\ page' = page /\ mounted' = mounted
      /\ call[j].ph = "applied"
      /\ call' = [i \in Slots |->
                    IF i = j THEN [call[j] EXCEPT !.step = @ + 1, !.ph = "sent"]
                    ELSE IF op.chain THEN Disown(i, Shuts(j, op)) ELSE call[i]]
      /\ open' = IF mounted /\ op.chain THEN open \ Shuts(j, op) ELSE open
  BY DEF NextCall
<1>2. gone \subseteq op.shut /\ (gone # {} => op.chain)
  BY DEF Shuts
<1>3. ~ mounted' => open' = {}
  BY <1>1 DEF OpenOK
<1>4. open' = open \ gone
  <2>1. CASE mounted
    BY <1>1, <2>1
  <2>2. CASE ~ mounted
    BY <1>1, <2>2 DEF OpenOK
  <2> QED BY <2>1, <2>2
<1>5. PICK none : none = {}
  OBVIOUS
<1>6. \A i \in Slots \ {j} : call'[i] = [call[i] EXCEPT !.own = @ \ gone] \/ (call'[i] = call[i])
  BY <1>1 DEF Disown
<1>7. j \in Slots /\ call'[j] = [call[j] EXCEPT !.step = @ + 1, !.ph = "sent"]
  BY <1>1 DEF UnderWay
<1>8. call[j].c \in Senders(page) /\ op = OpAt(page, call[j].c)
  BY OpIs DEF CallsOK, UnderWay
<1> HIDE DEF gone, op
<1>9. ASSUME NEW i \in UnderWay'
      PROVE  /\ i \in UnderWay /\ call'[i].c = call[i].c
             /\ call[i].own \ (gone \cup none) \subseteq call'[i].own
             /\ Spared(i, none)
  <2>1. i \in Slots /\ call'[i].ph # "idle"
    BY DEF UnderWay
  <2>2. Shaped(call[i])
    BY <2>1 DEF CallsOK, Shaped
  <2>3. /\ call'[i].c = call[i].c
        /\ i # j => call'[i].ph = call[i].ph
        /\ call[i].own \ gone \subseteq call'[i].own
    <3> DEFINE r == call[i]
               q == call'[i]
               x == r.step + 1
    <3>1. CASE i = j
      <4>1. q = [r EXCEPT !.step = x, !.ph = "sent"]
        BY <1>7, <3>1
      <4>2. Shaped(r)
        BY <2>2
      <4> HIDE DEF r, q, x
      <4>3. q.c = r.c /\ q.own = r.own
        BY <4>1, <4>2 DEF Shaped
      <4> QED BY <3>1, <4>3 DEF r, q
    <3>2. CASE i # j
      <4>1. q = [r EXCEPT !.own = r.own \ gone] \/ q = r
        BY <1>6, <2>1, <3>2
      <4>2. Shaped(r)
        BY <2>2
      <4> HIDE DEF r, q
      <4>3. q.c = r.c /\ q.ph = r.ph /\ r.own \ gone \subseteq q.own
        BY <4>1, <4>2 DEF Shaped
      <4> QED BY <4>3 DEF r, q
    <3> QED BY <3>1, <3>2
  <2>4. i \in UnderWay
    BY <2>1, <2>3 DEF UnderWay
  <2>5. Spared(i, none)
    <3> SUFFICES ASSUME <<page, call[i].c>> \notin Closers, Stays(page, call[i].c)
                 PROVE  At(page, call[i].c).at \notin gone
      BY <1>4, <1>5 DEF Spared
    <3>1. CASE i = j
      BY <1>2, <1>8, <3>1 DEF Stays
    <3>2. CASE i # j
      <4>1. At(page, call[i].c).at \notin OpOf(j).shut
        BY <2>4, <3>2, EndSpares
      <4> QED BY <1>2, <4>1 DEF op
    <3> QED BY <3>1, <3>2
  <2> QED BY <1>5, <2>3, <2>4, <2>5
<1>10. open' \subseteq (open \ gone) \cup none
  BY <1>4
<1>11. mounted' => mounted
  BY <1>1
<1> QED BY <1>1, <1>3, <1>9, <1>10, <1>11, OpenStep

\* A click: what it opens belongs to no call under way, and a call it starts owns what
\* is open by then.
LEMMA ClickOwners ==
    ASSUME CloseRule, OpenOK, CallsOK, Locked, [Next]_vars,
           NEW m \in DOMAIN P.controls, Click(ControlOf(m))
    PROVE  OpenOK'
<1> DEFINE c == At(page, m)
           gone == c.closes \cup c.opens
           next == (open \ c.closes) \cup c.opens
<1>1. ControlOf(m) = c /\ m \in DOMAIN PageTable[page].controls /\ c.op = OpAt(page, m)
  BY DEF ControlOf, At, P, OpAt
<1>2. /\ page' = page /\ (mounted' => mounted)
      /\ Usable(c, P.inline)
      /\ IF c.exit THEN open' = {} /\ ~ mounted' ELSE open' = next /\ mounted' = mounted
  BY <1>1 DEF Click, Unmount, Usable
<1>3. mounted
  BY <1>2 DEF Usable
<1>4. ~ mounted' => open' = {}
  BY <1>2, <1>3
<1>5. CallsOK'
  BY NextMoves DEF Moved
<1>6. \A i \in Slots : Shaped(call[i])
  BY DEF CallsOK, Shaped
<1>7. ASSUME NEW i \in UnderWay, i \in UnderWay', call'[i].c = call[i].c,
             call'[i].own = call[i].own \ gone
      PROVE  Owned(i)'
  <2>1. Owned(i)
    BY DEF OpenOK, Owned
  <2>2. <<page, call[i].c>> \notin Closers =>
           /\ Closing(page, call[i].c) \cap c.opens = {}
           /\ Away(page, call[i].c) \cap c.opens = {}
           /\ Stays(page, call[i].c) => At(page, call[i].c).at \notin c.closes
    BY <1>1, <1>2, <2>1, ClickSpares
  <2>3. <<page, call[i].c>> \notin Closers =>
           (mounted' /\ Stays(page, call[i].c) /\ At(page, call[i].c).at \in open
               => At(page, call[i].c).at \in open')
    BY <1>2, <2>2
  <2>4. open' \subseteq (open \ c.closes) \cup c.opens
    BY <1>2
  <2>5. call[i].own \ (c.closes \cup c.opens) \subseteq call'[i].own
    BY <1>7
  <2> DEFINE closes == c.closes
             opens == c.opens
  <2> HIDE DEF c, closes, opens
  <2>6. /\ open' \subseteq (open \ closes) \cup opens
        /\ call[i].own \ (closes \cup opens) \subseteq call'[i].own
        /\ <<page, call[i].c>> \notin Closers =>
              /\ Closing(page, call[i].c) \cap opens = {}
              /\ Away(page, call[i].c) \cap opens = {}
              /\ mounted' /\ Stays(page, call[i].c) /\ At(page, call[i].c).at \in open
                    => At(page, call[i].c).at \in open'
    BY <2>2, <2>3, <2>4, <2>5 DEF closes, opens
  <2> QED BY <1>2, <1>7, <2>1, <2>6, OwnedStep
<1>8. CASE c.op.some
  <2>1. PICK s \in Slots \ UnderWay : call' = Started(c, s)
    BY <1>1, <1>8 DEF Click
  <2>2. m \in Senders(page) /\ c.name = m
    BY <1>1, <1>8, Named DEF Senders, CallsOK
  <2> DEFINE mine == next \cap (c.op.shut \cup c.op.failShut)
  <2>3. /\ \E x, y : call'[s] = [c |-> m, step |-> 1, ph |-> "sent", top |-> x, own |-> mine, copy |-> y]
        /\ \A i \in Slots \ {s} : \E x : call'[i] = [Disown(i, gone) EXCEPT !.top = x]
    <3>1. call'[s] =
            [c |-> m, step |-> 1, ph |-> "sent", top |-> c.op.hook # "",
             own |-> ((open \ c.closes) \cup c.opens) \cap (c.op.shut \cup c.op.failShut),
             copy |-> [n \in c.op.patches \cap DOMAIN view |->
                          [miss |-> IF view[n].data THEN view[n].miss ELSE ViewOf(n).reads,
                           wrong |-> view[n].wrong]]]
      BY <2>1, <2>2 DEF Started
    <3>2. ASSUME NEW i \in Slots \ {s}
          PROVE  \E x : call'[i] = [Disown(i, gone) EXCEPT !.top = x]
      <4>1. call'[i] = [Disown(i, c.closes \cup c.opens) EXCEPT
                          !.top = @ /\ ~ (i \in UnderWay /\ OpOf(i).hook = c.op.hook)]
        BY <2>1 DEF Started
      <4>2. PICK x : x = (Disown(i, c.closes \cup c.opens).top
                            /\ ~ (i \in UnderWay /\ OpOf(i).hook = c.op.hook))
        OBVIOUS
      <4> QED BY <4>1, <4>2
    <3> QED BY <3>1, <3>2
  <2> HIDE DEF c, mine
  <2>4. call'[s].c = m /\ call'[s].own = mine
    <3>1. PICK x, y : call'[s] = [c |-> m, step |-> 1, ph |-> "sent", top |-> x, own |-> mine, copy |-> y]
      BY <2>3
    <3> QED BY <3>1
  <2>5. ASSUME NEW i \in Slots \ {s}
        PROVE  call'[i].c = call[i].c /\ call'[i].ph = call[i].ph /\ call'[i].own = call[i].own \ gone
    <3>1. PICK x : call'[i] = [[call[i] EXCEPT !.own = @ \ gone] EXCEPT !.top = x]
      BY <2>3 DEF Disown
    <3> DEFINE r == call[i]
               q == call'[i]
    <3>2. Shaped(r) /\ q = [[r EXCEPT !.own = r.own \ gone] EXCEPT !.top = x]
      BY <1>6, <3>1
    <3> HIDE DEF r, q, gone
    <3>3. q.c = r.c /\ q.ph = r.ph /\ q.own = r.own \ gone
      BY <3>2 DEF Shaped
    <3> QED BY <3>3 DEF r, q
  <2>6. Owned(s)'
    <3>1. Closing(page, m) = c.op.shut \cup c.op.failShut
      BY <1>1 DEF Closing
    <3>2. open' \subseteq next
      BY <1>2
    <3>3. Closing(page, m) \cap open' \subseteq mine
      BY <3>1, <3>2 DEF mine
    <3>4. mounted' /\ Stays(page, m) => At(page, m).at \in open'
      <4>1. c.at # "" => c.at \in open
        BY <1>2 DEF Usable
      <4>2. Stays(page, m) => c.at # "" /\ c.at \notin c.closes
        BY DEF Stays, c
      <4> QED BY <1>2, <4>1, <4>2 DEF c
    <3>5. Away(page, m) \cap open' = {}
      <4>1. c.off \cap open = {}
        BY <1>2 DEF Usable
      <4>2. Away(page, m) \subseteq c.off \ c.opens
        BY DEF Away, c
      <4> QED BY <3>2, <4>1, <4>2
    <3> QED BY <1>2, <2>4, <3>3, <3>4, <3>5 DEF Owned
  <2>7. \A i \in UnderWay' : Owned(i)'
    <3> SUFFICES ASSUME NEW i \in UnderWay', i # s PROVE Owned(i)'
      BY <2>6
    <3>1. i \in Slots \ {s} /\ call'[i].ph # "idle"
      BY DEF UnderWay
    <3>2. i \in UnderWay
      BY <2>5, <3>1 DEF UnderWay
    <3> QED BY <1>7, <2>5, <3>1, <3>2
  <2> QED BY <1>4, <2>7 DEF OpenOK, Owned
<1>9. CASE ~ c.op.some
  <2>1. call' = [i \in Slots |-> [Disown(i, gone) EXCEPT !.copy = Strayed(@, c.picks)]]
    BY <1>1, <1>9 DEF Click
  <2> HIDE DEF c
  <2>2. ASSUME NEW i \in Slots
        PROVE  call'[i].c = call[i].c /\ call'[i].ph = call[i].ph /\ call'[i].own = call[i].own \ gone
    <3>1. PICK x : call'[i] = [[call[i] EXCEPT !.own = @ \ gone] EXCEPT !.copy = x]
      BY <2>1 DEF Disown
    <3> DEFINE r == call[i]
               q == call'[i]
    <3>2. Shaped(r) /\ q = [[r EXCEPT !.own = r.own \ gone] EXCEPT !.copy = x]
      BY <1>6, <3>1
    <3> HIDE DEF r, q, gone
    <3>3. q.c = r.c /\ q.ph = r.ph /\ q.own = r.own \ gone
      BY <3>2 DEF Shaped
    <3> QED BY <3>3 DEF r, q
  <2>3. ASSUME NEW i \in UnderWay' PROVE Owned(i)'
    <3>1. i \in Slots /\ call'[i].ph # "idle"
      BY DEF UnderWay
    <3>2. i \in UnderWay
      BY <2>2, <3>1 DEF UnderWay
    <3> QED BY <1>7, <2>2, <3>1, <3>2
  <2> QED BY <1>4, <2>3 DEF OpenOK, Owned
<1> QED BY <1>8, <1>9


\* What a call shuts is its own after every step.
LEMMA OpenOKStep ==
    ASSUME CloseRule, OpenOK, CallsOK, ViewsOK, Locked, [Next]_vars
    PROVE  OpenOK'
<1>0. /\ \A i \in Slots : Shaped(call[i])
      /\ page \in DOMAIN PageTable
  BY DEF CallsOK, Shaped
<1>1. ASSUME NEW gone, mounted' = mounted, open' = open \ gone, call' = call,
             \A i \in UnderWay : Stays(page, call[i].c) => At(page, call[i].c).at \notin gone
      PROVE  OpenOK'
  BY <1>1, SameOwners
<1>2. PICK none : none = {}
  OBVIOUS
<1>3. ASSUME mounted' = mounted, open' = open, call' = call
      PROVE  OpenOK'
  <2>1. open' = open \ none
    BY <1>2, <1>3
  <2> QED BY <1>1, <1>2, <1>3, <2>1
<1>4. ASSUME NEW n \in DOMAIN view, NEW k, Receive(ViewOf(n), k)
      PROVE  OpenOK'
  <2>1. mounted' = mounted /\ call' = call
    BY <1>4 DEF Receive
  <2>2. open' = open \/ open' = open \ ViewOf(n).fills
    BY <1>4 DEF Receive
  <2>3. \A i \in UnderWay : Stays(page, call[i].c) => At(page, call[i].c).at \notin ViewOf(n).fills
    BY ViewIs DEF Stays
  <2> QED BY <1>1, <1>3, <2>1, <2>2, <2>3
<1>5. ASSUME NEW n \in DOMAIN view, NEW k, FetchFails(ViewOf(n), k)
      PROVE  OpenOK'
  BY <1>3, <1>5 DEF FetchFails, ui
<1>6. ASSUME NEW n \in DOMAIN view, Refetch(ViewOf(n))
      PROVE  OpenOK'
  BY <1>3, <1>6 DEF Refetch, ui
<1>7. CASE UNCHANGED vars
  BY <1>3, <1>7 DEF vars
<1>8. CASE Leave
  <2>1. open' = {} /\ ~ mounted' /\ call' = call /\ page' = page
    BY <1>8 DEF Leave, Unmount
  <2>2. UnderWay' = UnderWay
    BY <2>1 DEF UnderWay
  <2> QED BY <2>1, <2>2 DEF OpenOK
<1>13. ASSUME NEW v, NEW k, FetchFlees(v, k)
       PROVE  OpenOK'
  <2>1. open' = {} /\ ~ mounted' /\ call' = call /\ page' = page
    BY <1>13, FleeLeaves
  <2>2. UnderWay' = UnderWay
    BY <2>1 DEF UnderWay
  <2> QED BY <2>1, <2>2 DEF OpenOK
<1>14. ASSUME NEW n, StrayFails(n)
       PROVE  OpenOK'
  BY <1>3, <1>14, StrayStays
<1>9. ASSUME NEW j \in UnderWay, Apply(j, OpOf(j))
      PROVE  OpenOK'
  <2>1. /\ mounted' = mounted /\ open' = open \ none
        /\ call[j].ph = "sent"
        /\ call' = [i \in Slots |->
                      IF i = j THEN [call[i] EXCEPT !.ph = "applied"]
                      ELSE [call[i] EXCEPT !.copy = Aged(@, Writes(j, OpOf(j)))]]
    BY <1>2, <1>9 DEF Apply, ui
  <2>2. ASSUME NEW i \in Slots
        PROVE  /\ call'[i].c = call[i].c /\ call'[i].own = call[i].own
               /\ (call'[i].ph = "idle") <=> (call[i].ph = "idle")
    <3> DEFINE r == call[i]
               q == call'[i]
               x == Aged(r.copy, Writes(j, OpOf(j)))
    <3>1. /\ Shaped(r)
          /\ i = j => q = [r EXCEPT !.ph = "applied"] /\ r.ph = "sent"
          /\ i # j => q = [r EXCEPT !.copy = x]
      BY <1>0, <2>1
    <3> HIDE DEF r, q, x
    <3>2. q.c = r.c /\ q.own = r.own /\ ((q.ph = "idle") <=> (r.ph = "idle"))
      BY <3>1 DEF Shaped
    <3> QED BY <3>2 DEF r, q
  <2> QED BY <1>2, <2>1, <2>2, SameOwners
<1>10. ASSUME NEW l \in later, Land(l)
       PROVE  OpenOK'
  <2>1. /\ mounted' = mounted /\ open' = open \ none
        /\ call' = [i \in Slots |-> [call[i] EXCEPT !.copy = Aged(@, l.ws)]]
    BY <1>2, <1>10 DEF Land, ui
  <2>2. ASSUME NEW i \in Slots
        PROVE  /\ call'[i].c = call[i].c /\ call'[i].own = call[i].own
               /\ (call'[i].ph = "idle") <=> (call[i].ph = "idle")
    <3> DEFINE r == call[i]
               q == call'[i]
               x == Aged(r.copy, l.ws)
    <3>1. Shaped(r) /\ q = [r EXCEPT !.copy = x]
      BY <1>0, <2>1
    <3> HIDE DEF r, q, x
    <3>2. q.c = r.c /\ q.own = r.own /\ ((q.ph = "idle") <=> (r.ph = "idle"))
      BY <3>1 DEF Shaped
    <3> QED BY <3>2 DEF r, q
  <2>3. \A i \in UnderWay : Stays(page, call[i].c) => At(page, call[i].c).at \notin none
    BY <1>2
  <2>4. mounted' = mounted /\ open' = open \ none
    BY <2>1
  <2> QED BY <2>2, <2>3, <2>4, SameOwners
<1>11. ASSUME NEW j \in UnderWay, Succeed(j, OpOf(j))
       PROVE  OpenOK'
  <2> DEFINE gone == Shuts(j, OpOf(j))
  <2>1. /\ page' = page /\ (mounted' => mounted)
        /\ call' = [i \in Slots |-> IF i = j THEN Idle ELSE Disown(i, gone)]
        /\ \/ open' = {} /\ ~ mounted'
           \/ open' = open /\ ~ mounted /\ mounted' = mounted
           \/ open' = open \ gone /\ mounted /\ mounted' = mounted
           \/ open' = (open \ gone) \cup OpOf(j).show /\ mounted /\ mounted' = mounted
    BY <1>11 DEF Succeed, Unmount
  <2>2. gone \subseteq OpOf(j).shut \cup OpOf(j).failShut
    BY DEF Shuts
  <2>3. \/ open' = {} /\ ~ mounted'
        \/ open' = open \ gone
        \/ open' = (open \ gone) \cup OpOf(j).show
    BY <2>1 DEF OpenOK
  <2>4. ~ mounted' => open' = {}
    BY <2>1 DEF OpenOK
  <2> HIDE DEF gone
  <2> QED BY <2>1, <2>2, <2>3, <2>4, EndOwners
<1>12. ASSUME NEW j \in UnderWay, Fail(j, OpOf(j))
       PROVE  OpenOK'
  <2> DEFINE gone == IF Mine(j, OpOf(j)) /\ mounted THEN OpOf(j).failShut ELSE {}
  <2>1. /\ page' = page /\ mounted' = mounted
        /\ call' = [i \in Slots |-> IF i = j THEN Idle ELSE Disown(i, gone)]
        /\ open' = open \ gone
    BY <1>12 DEF Fail
  <2>2. gone \subseteq OpOf(j).shut \cup OpOf(j).failShut
    OBVIOUS
  <2>3. ~ mounted' => open' = {}
    BY <2>1 DEF OpenOK
  <2> HIDE DEF gone
  <2> QED BY <2>1, <2>2, <2>3, EndOwners
<1> QED
  BY <1>4, <1>5, <1>6, <1>7, <1>8, <1>9, <1>10, <1>11, <1>12, <1>13, <1>14, NextCallOwners, ClickOwners DEF Next

\* A late answer shuts no dialog that the user opened since, but for the controls of
\* Closers: what an answer shuts can only be opened again when the call has ended.
THEOREM DialogsAreOwn ==
    ASSUME CloseRule
    PROVE  Spec => []ClosesOwn
<1>1. Init => OpenOK /\ ClosesOwn
  BY NothingAtFirst DEF OpenOK, ClosesOwn, Init
<1>2. OpenOK /\ CallsOK /\ ViewsOK /\ Locked /\ [Next]_vars => OpenOK'
  BY OpenOKStep
<1>3. OpenOK /\ ClosesOwn /\ [Next]_vars => ClosesOwn'
  <2> SUFFICES ASSUME OpenOK, "close" \notin seen, [Next]_vars
               PROVE  "close" \notin seen'
    BY DEF ClosesOwn
  <2>1. ASSUME NEW i \in UnderWay, NEW shut, shut \subseteq OpOf(i).shut \cup OpOf(i).failShut
        PROVE  ClosedBy(i, shut) = {}
    <3>1. Closing(page, call[i].c) = OpOf(i).shut \cup OpOf(i).failShut
      BY OpIs DEF Closing
    <3>2. <<page, call[i].c>> \notin Closers => (shut \cap open) \ call[i].own = {}
      BY <2>1, <3>1 DEF OpenOK
    <3> QED BY <3>2 DEF ClosedBy, Harm
  <2>2. \A i : Shuts(i, OpOf(i)) \subseteq OpOf(i).shut \cup OpOf(i).failShut
    BY DEF Shuts
  <2>3. ASSUME NEW n \in DOMAIN view, NEW k, Receive(ViewOf(n), k)
        PROVE  "close" \notin seen'
    BY <2>3 DEF Receive, Harm
  <2>4. ASSUME NEW i \in UnderWay, NextCall(i, OpOf(i))
        PROVE  "close" \notin seen'
    <3>1. seen' = seen \/ seen' = seen \cup ClosedBy(i, Shuts(i, OpOf(i)))
      BY <2>4 DEF NextCall
    <3> QED BY <2>1, <2>2, <3>1
  <2>5. ASSUME NEW i \in UnderWay, Fail(i, OpOf(i))
        PROVE  "close" \notin seen'
    <3>1. PICK shut : shut \subseteq OpOf(i).failShut /\ seen' = seen \cup ClosedBy(i, shut)
      BY <2>5 DEF Fail
    <3> QED BY <2>1, <3>1
  <2>6. ASSUME NEW i \in UnderWay, Succeed(i, OpOf(i))
        PROVE  "close" \notin seen'
    <3>1. \E x : seen' = seen \cup {w \in {"yank"} : x} \cup ClosedBy(i, Shuts(i, OpOf(i)))
      BY <2>6 DEF Succeed, Harm
    <3> QED BY <2>1, <2>2, <3>1
  <2>7. \/ Leave
        \/ \E n \in DOMAIN view : \E k \in 1..Len(view[n].fl) : FetchFails(ViewOf(n), k)
        \/ \E n \in DOMAIN view : Refetch(ViewOf(n))
        \/ \E n \in DOMAIN P.controls : Click(ControlOf(n))
        \/ \E i \in UnderWay : Apply(i, OpOf(i))
        \/ \E l \in later : Land(l)
        \/ UNCHANGED vars
        => seen' = seen
    BY DEF Leave, FetchFails, Refetch, Click, Apply, Land, history, vars
  <2>8. ASSUME NEW v, NEW k, FetchFlees(v, k)
        PROVE  "close" \notin seen'
    BY <2>8, FleeLeaves
  <2>9. ASSUME NEW n, StrayFails(n)
        PROVE  "close" \notin seen'
    <3>1. \E x : seen' = seen \cup {w \in {"yank"} : x}
      BY <2>9, StrayStays DEF Harm
    <3> QED BY <3>1
  <2> QED BY <2>3, <2>4, <2>5, <2>6, <2>7, <2>8, <2>9 DEF Next
<1> QED BY <1>1, <1>2, <1>3, CallsAreItsOwn, ViewsAreItsOwn, LocksHold, PTL DEF Spec

-----------------------------------------------------------------------------
(* What a view lacks. *)

\* Fetches that were overtaken come first.
Ordered(s) == \A j, k \in DOMAIN s.fl : j < k /\ s.fl[k].passed => s.fl[j].passed

\* At most one fetch is under way, and it was not overtaken.
Single(s) == Len(s.fl) <= 1 /\ \A k \in DOMAIN s.fl : ~ s.fl[k].passed

\* The first fetch is under way, or there will be no other.
Once(s) == s.fl = <<>> \/ (Len(s.fl) = 1 /\ ~ s.data)

\* Nothing is lacking, and nothing will be.
Clean(s) == s.miss = {} /\ \A k \in DOMAIN s.fl : s.fl[k].since = {}

\* The newest fetch, or what is shown when there is none, lacks only what is owed.
Current(s, owed, who) ==
    /\ \A k \in DOMAIN s.fl : k = Len(s.fl) /\ ~ s.fl[k].passed => s.fl[k].since \subseteq owed
    /\ s.fl = <<>> /\ s.data /\ ~ s.err => (s.late /\ who \in Racers) \/ s.miss \subseteq owed

\* The newest fetch has just been sent.
Anew(s) ==
    /\ s.fl # <<>>
    /\ \A k \in DOMAIN s.fl : k = Len(s.fl) => ~ s.fl[k].passed /\ s.fl[k].since = {}

\* A view that is asked for again: a fetch has been sent, after those before.
Renewed(s, t) ==
    /\ Anew(t)
    /\ Ordered(s) => Ordered(t)
    /\ Clean(s) => Clean(t)
    /\ s.fl = <<>> => Single(t)

\* A fetch that is sent now lacks nothing yet.
LEMMA NewLacks ==
    ASSUME NEW v, NEW s
    PROVE  /\ Fetch.since = {} /\ ~ Fetch.passed
           /\ Load(v, s).since = {} /\ ~ Load(v, s).passed
<1>1. Fetch = [since |-> {}, old |-> FALSE, passed |-> FALSE, fill |-> TRUE]
  BY DEF Fetch
<1>2. PICK x \in BOOLEAN : x = (v.while = "" \/ ~ s.data \/ v.while \in open)
  OBVIOUS
<1>3. Load(v, s) = [Fetch EXCEPT !.fill = x]
  BY <1>2 DEF Load
<1> QED BY <1>1, <1>3

\* What else is kept of a view whose fetches are replaced.
LEMMA NewFlRest ==
    ASSUME NEW v, NEW s, Good(v, s), NEW fl
    PROVE  [s EXCEPT !.fl = fl].miss = s.miss /\ [s EXCEPT !.fl = fl].late = s.late
BY DEF Good

\* A view with a new fetch, alone or after others.
LEMMA LoadedLacks ==
    ASSUME NEW v, NEW r, Good(v, r), NEW b \in Seq(Fetches(v)),
           NEW f \in Fetches(v), ~ f.passed, f.since = {},
           NEW fl, fl = <<f>> \/ fl = Append(b, f), NEW t, t = [r EXCEPT !.fl = fl]
    PROVE  /\ Anew(t)
           /\ (\A j, k \in DOMAIN b : j < k /\ b[k].passed => b[j].passed) => Ordered(t)
           /\ r.miss = {} /\ (\A k \in DOMAIN b : b[k].since = {}) => Clean(t)
           /\ fl = <<f>> \/ b = <<>> => Single(t)
<1>1. CASE fl = <<f>>
  <2>1. fl \in Seq(Fetches(v)) /\ fl # <<>> /\ Len(fl) = 1 /\ DOMAIN fl = {1} /\ fl[1] = f
    BY <1>1
  <2>2. t.fl = fl /\ t.miss = r.miss
    BY <2>1, NewFl, NewFlRest
  <2> HIDE DEF Good
  <2>3. DOMAIN t.fl = {1} /\ t.fl[1] = f /\ Len(t.fl) = 1 /\ t.fl # <<>>
    BY <2>1, <2>2
  <2>4. \A k \in DOMAIN t.fl : k = 1 /\ t.fl[k] = f
    BY <2>3
  <2>5. Anew(t)
    BY <2>3, <2>4 DEF Anew
  <2>6. Ordered(t)
    BY <2>4 DEF Ordered
  <2>7. r.miss = {} => Clean(t)
    BY <2>2, <2>4 DEF Clean
  <2>8. Single(t)
    <3>1. Len(t.fl) = 1 /\ DOMAIN t.fl = {1} /\ t.fl[1] = f
      BY <2>3
    <3> QED BY <3>1 DEF Single
  <2> QED BY <2>5, <2>6, <2>7, <2>8
<1>2. CASE fl = Append(b, f)
  <2>1. /\ Len(fl) = Len(b) + 1 /\ Len(b) \in Nat
        /\ DOMAIN b = 1..Len(b) /\ DOMAIN fl = 1..(Len(b) + 1)
        /\ fl[Len(b) + 1] = f
        /\ \A k \in 1..Len(b) : fl[k] = b[k]
        /\ fl \in Seq(Fetches(v)) /\ fl # <<>>
    BY <1>2
  <2>2. t.fl = fl /\ t.miss = r.miss
    BY <2>1, NewFl, NewFlRest
  <2>3. \A k \in DOMAIN t.fl : k = Len(b) + 1 \/ (k \in DOMAIN b /\ t.fl[k] = b[k])
    BY <2>1, <2>2
  <2>4. Anew(t)
    BY <2>1, <2>2 DEF Anew
  <2>5. ASSUME \A j, k \in DOMAIN b : j < k /\ b[k].passed => b[j].passed PROVE Ordered(t)
    <3>1. ASSUME NEW j \in DOMAIN t.fl, NEW k \in DOMAIN t.fl, j < k, t.fl[k].passed PROVE t.fl[j].passed
      <4>1. k # Len(b) + 1
        BY <2>1, <2>2, <3>1
      <4>2. k \in DOMAIN b /\ t.fl[k] = b[k]
        BY <2>3, <4>1
      <4>3. j \in DOMAIN b /\ t.fl[j] = b[j]
        BY <2>1, <2>2, <3>1, <4>2
      <4> QED BY <2>5, <3>1, <4>2, <4>3
    <3> QED BY <3>1 DEF Ordered
  <2>6. r.miss = {} /\ (\A k \in DOMAIN b : b[k].since = {}) => Clean(t)
    BY <2>1, <2>2, <2>3 DEF Clean
  <2>7. ASSUME b = <<>> PROVE Single(t)
    <3>1. Len(b) = 0
      BY <2>7
    <3>2. Len(t.fl) = 1 /\ DOMAIN t.fl = {1} /\ t.fl[1] = f
      BY <2>1, <2>2, <3>1
    <3> QED BY <3>2 DEF Single
  <2>8. ASSUME fl = <<f>> PROVE Single(t)
    BY <2>2, <2>8 DEF Single
  <2> QED BY <2>4, <2>5, <2>6, <2>7, <2>8
<1> QED BY <1>1, <1>2

\* The first load of a view.
LEMMA UnloadedLacks ==
    /\ Anew(Unloaded) /\ Ordered(Unloaded) /\ Clean(Unloaded) /\ Single(Unloaded) /\ Once(Unloaded)
<1>1. Unloaded.miss = {} /\ Unloaded.fl = <<Fetch>> /\ Unloaded.data = FALSE
  BY DEF Unloaded
<1>2. Fetch.since = {} /\ ~ Fetch.passed
  BY NewLacks
<1>3. Unloaded.fl # <<>> /\ Len(Unloaded.fl) = 1 /\ DOMAIN Unloaded.fl = {1} /\ Unloaded.fl[1] = Fetch
  BY <1>1
<1> QED BY <1>1, <1>2, <1>3 DEF Anew, Ordered, Clean, Single, Once

\* A view that is loaded again from the start.
LEMMA UnloadedRenews ==
    ASSUME NEW s
    PROVE  Renewed(s, Unloaded) /\ Single(Unloaded)
BY UnloadedLacks DEF Renewed

\* Invalidation asks for a view again, unless its first fetch is still under way.
LEMMA InvalidatedLacks ==
    ASSUME NEW v, NEW s, Good(v, s), NEW t, t = Invalidated(s)
    PROVE  \/ t = s /\ s.fl # <<>> /\ ~ s.data
           \/ Renewed(s, t) /\ Single(t)
<1>1. CASE s.fl = <<>> \/ s.data
  <2>2. PICK f : f = Fetch
    OBVIOUS
  <2>1. PICK fl : fl = <<f>>
    OBVIOUS
  <2>3. PICK b \in Seq(Fetches(v)) : b = <<>> /\ DOMAIN b = {}
    <3>1. <<>> \in Seq(Fetches(v)) /\ DOMAIN <<>> = {}
      OBVIOUS
    <3> QED BY <3>1, Zenon
  <2>4. /\ f \in Fetches(v) /\ ~ f.passed /\ f.since = {}
        /\ t = [s EXCEPT !.fl = fl]
    BY <1>1, <2>1, <2>2, NewFetch, NewLacks DEF Invalidated
  <2>5. /\ Anew(t)
        /\ (\A j, k \in DOMAIN b : j < k /\ b[k].passed => b[j].passed) => Ordered(t)
        /\ s.miss = {} /\ (\A k \in DOMAIN b : b[k].since = {}) => Clean(t)
        /\ fl = <<f>> \/ b = <<>> => Single(t)
    BY <2>1, <2>4, LoadedLacks
  <2>6. Ordered(t) /\ (s.miss = {} => Clean(t))
    BY <2>3, <2>5
  <2> QED BY <2>1, <2>5, <2>6 DEF Renewed, Clean
<1>2. CASE s.fl # <<>> /\ ~ s.data
  BY <1>2 DEF Invalidated
<1> QED BY <1>1, <1>2

\* A load called again asks for the view again, unless it joins one under way.
LEMMA ReloadedLacks ==
    ASSUME NEW v, NEW s, Good(v, s), NEW t, t = Reloaded(v, s)
    PROVE  \/ t = s /\ Joined(v, s)
           \/ Renewed(s, t) /\ (v.cancel => Single(t))
<1> DEFINE f == Load(v, s)
           b == s.fl
           fl == IF v.cancel THEN <<f>> ELSE Append(b, f)
           r == IF v.clears THEN Gone ELSE s
<1>1. CASE v.live
  BY <1>1, UnloadedRenews DEF Reloaded
<1>2. CASE ~ v.live /\ Joined(v, s)
  BY <1>2 DEF Reloaded
<1>3. CASE ~ v.live /\ ~ Joined(v, s)
  <2>1. t = [r EXCEPT !.fl = fl]
    BY <1>3 DEF Reloaded
  <2>2. f \in Fetches(v) /\ ~ f.passed /\ f.since = {}
    BY NewFetch, NewLacks
  <2>3. b \in Seq(Fetches(v)) /\ b = s.fl
    BY DEF Good
  <2>4. Good(v, r)
    BY FreshView
  <2>5. s.miss = {} => r.miss = {}
    BY DEF Gone, Unloaded
  <2>6. (fl = <<f>> \/ fl = Append(b, f)) /\ (v.cancel => fl = <<f>>)
    OBVIOUS
  <2> HIDE DEF f, b, fl, r
  <2>7. /\ Anew(t)
        /\ (\A j, k \in DOMAIN b : j < k /\ b[k].passed => b[j].passed) => Ordered(t)
        /\ r.miss = {} /\ (\A k \in DOMAIN b : b[k].since = {}) => Clean(t)
        /\ fl = <<f>> \/ b = <<>> => Single(t)
    BY ONLY <2>1, <2>2, <2>3, <2>4, <2>6, LoadedLacks
  <2>8. Ordered(s) => Ordered(t)
    BY <2>3, <2>7 DEF Ordered
  <2>9. Clean(s) => Clean(t)
    BY <2>3, <2>5, <2>7 DEF Clean
  <2> QED BY <2>3, <2>6, <2>7, <2>8, <2>9 DEF Renewed
<1> QED BY <1>1, <1>2, <1>3

\* So does another choice.
LEMMA RechosenLacks ==
    ASSUME NEW v, NEW s, Good(v, s), NEW t, t = Rechosen(v, s)
    PROVE  Renewed(s, t) /\ (v.cached \/ v.cancel => Single(t))
<1> DEFINE f == Load(v, s)
           older == [k \in DOMAIN s.fl |-> [s.fl[k] EXCEPT !.old = TRUE]]
           fl == IF v.cancel THEN <<f>> ELSE Append(older, f)
           kept == [s EXCEPT !.wrong = s.data, !.err = FALSE]
           r == IF v.clears THEN Gone ELSE kept
<1>1. CASE v.cached
  BY <1>1, UnloadedRenews DEF Rechosen
<1>2. CASE ~ v.cached
  <2>1. t = [r EXCEPT !.fl = fl]
    BY <1>2 DEF Rechosen
  <2>2. f \in Fetches(v) /\ ~ f.passed /\ f.since = {}
    BY NewFetch, NewLacks
  <2>3. \A k \in DOMAIN s.fl : s.fl[k] \in Fetches(v)
    BY ElementOfSeq DEF Good
  <2>4. ASSUME NEW k \in DOMAIN s.fl
        PROVE  /\ older[k] \in Fetches(v)
               /\ older[k].passed = s.fl[k].passed /\ older[k].since = s.fl[k].since
    <3>1. older[k] = [s.fl[k] EXCEPT !.old = TRUE] /\ s.fl[k] \in Fetches(v)
      BY <2>3
    <3> QED BY <3>1 DEF Fetches
  <2>5. older = [k \in DOMAIN s.fl |-> older[k]]
    OBVIOUS
  <2>6. Good(v, kept) /\ kept.miss = s.miss
    <3>1. PICK x, y : x = s.data /\ y = FALSE
      OBVIOUS
    <3>2. kept = [s EXCEPT !.wrong = x, !.err = y]
      BY <3>1
    <3> HIDE DEF kept
    <3>3. s = [data |-> s.data, miss |-> s.miss, wrong |-> s.wrong, late |-> s.late, err |-> s.err, fl |-> s.fl]
      BY DEF Good
    <3>4. kept = [data |-> s.data, miss |-> s.miss, wrong |-> x, late |-> s.late, err |-> y, fl |-> s.fl]
      BY <3>2, <3>3
    <3>5. /\ kept.fl = s.fl /\ kept.miss = s.miss
          /\ kept = [data |-> kept.data, miss |-> kept.miss, wrong |-> kept.wrong, late |-> kept.late,
                     err |-> kept.err, fl |-> kept.fl]
      BY <3>4
    <3> QED BY <3>5 DEF Good
  <2>7. Good(v, r) /\ (s.miss = {} => r.miss = {})
    <3>1. Gone.miss = {}
      BY DEF Gone, Unloaded
    <3> HIDE DEF kept
    <3> QED BY <2>6, <3>1, FreshView
  <2>8. (fl = <<f>> \/ fl = Append(older, f)) /\ (v.cancel => fl = <<f>>)
    OBVIOUS
  <2> DEFINE b == s.fl
  <2>9. b = s.fl /\ b \in Seq(Fetches(v))
    BY DEF Good
  <2> HIDE DEF f, b, fl, kept, r, older
  <2>10. older \in Seq(Fetches(v)) /\ DOMAIN older = DOMAIN b /\ (b = <<>> <=> older = <<>>)
    <3> DEFINE F == Fetches(v)
    <3>1. b \in Seq(F) /\ older = [k \in DOMAIN b |-> older[k]] /\ \A k \in DOMAIN b : older[k] \in F
      BY <2>4, <2>5, <2>9
    <3> HIDE DEF F
    <3>2. older \in Seq(F) /\ DOMAIN older = DOMAIN b /\ (b = <<>> <=> older = <<>>)
      BY <3>1, Changed
    <3> QED BY <3>2 DEF F
  <2>11. /\ Anew(t)
         /\ (\A j, k \in DOMAIN older : j < k /\ older[k].passed => older[j].passed) => Ordered(t)
         /\ r.miss = {} /\ (\A k \in DOMAIN older : older[k].since = {}) => Clean(t)
         /\ fl = <<f>> \/ older = <<>> => Single(t)
    BY <2>1, <2>2, <2>7, <2>8, <2>10, LoadedLacks
  <2>12. Ordered(s) => Ordered(t)
    BY <2>4, <2>9, <2>10, <2>11 DEF Ordered
  <2>13. Clean(s) => Clean(t)
    BY <2>4, <2>7, <2>9, <2>10, <2>11 DEF Clean
  <2> QED BY <1>2, <2>8, <2>9, <2>10, <2>11, <2>12, <2>13 DEF Renewed
<1> QED BY <1>1, <1>2

\* What the server writes is lacking until the next answer.
LEMMA WrittenLacks ==
    ASSUME NEW v, NEW s, Good(v, s), NEW ws, NEW t, t = Written(v, s, ws)
    PROVE  /\ Ordered(s) => Ordered(t)
           /\ Single(s) => Single(t)
           /\ Once(s) => Once(t)
           /\ ws \cap v.reads = {} => t = s
           /\ \A owed, more, who :
                 Current(s, owed, who) /\ owed \subseteq more /\ ws \cap v.reads \subseteq more
                    => Current(t, more, who)
<1> DEFINE g == [k \in DOMAIN s.fl |-> [s.fl[k] EXCEPT !.since = @ \cup (ws \cap v.reads)]]
           miss == IF s.data THEN s.miss \cup (ws \cap v.reads) ELSE s.miss
<1>0. s = [data |-> s.data, miss |-> s.miss, wrong |-> s.wrong, late |-> s.late, err |-> s.err, fl |-> s.fl]
  BY DEF Good
<1>1. t = [s EXCEPT !.miss = miss, !.fl = g]
  BY DEF Written, Good
<1>2. t = [data |-> s.data, miss |-> miss, wrong |-> s.wrong, late |-> s.late, err |-> s.err, fl |-> g]
  BY <1>0, <1>1, TwoParts
<1>3. t.data = s.data /\ t.miss = miss /\ t.late = s.late /\ t.err = s.err /\ t.fl = g
  BY <1>2
<1>4. /\ DOMAIN t.fl = DOMAIN s.fl /\ Len(t.fl) = Len(s.fl) /\ (t.fl = <<>> <=> s.fl = <<>>)
  BY WrittenView DEF Like
<1>5. \A k \in DOMAIN s.fl : s.fl[k] \in Fetches(v)
  BY ElementOfSeq DEF Good
<1>6. ASSUME NEW k \in DOMAIN s.fl
      PROVE  t.fl[k].passed = s.fl[k].passed /\ t.fl[k].since = s.fl[k].since \cup (ws \cap v.reads)
  <2>1. g[k] = [s.fl[k] EXCEPT !.since = @ \cup (ws \cap v.reads)]
    OBVIOUS
  <2>2. s.fl[k] \in Fetches(v) /\ t.fl = g
    BY <1>3, <1>5
  <2> HIDE DEF g
  <2> QED BY <2>1, <2>2 DEF Fetches
<1>7. t.miss = s.miss \/ t.miss = s.miss \cup (ws \cap v.reads)
  BY <1>3
<1>8. ASSUME ws \cap v.reads = {} PROVE t = s
  <2>1. miss = s.miss
    BY <1>8
  <2>2. \A k \in DOMAIN s.fl : g[k] = s.fl[k]
    <3> TAKE k \in DOMAIN s.fl
    <3>1. g[k] = [s.fl[k] EXCEPT !.since = @ \cup (ws \cap v.reads)] /\ s.fl[k] \in Fetches(v)
      BY <1>5
    <3> HIDE DEF g
    <3> QED BY <1>8, <3>1 DEF Fetches
  <2>3. g = s.fl
    <3>1. s.fl = [k \in DOMAIN s.fl |-> s.fl[k]]
      BY DEF Good
    <3> QED BY <2>2, <3>1
  <2> HIDE DEF g, miss
  <2> QED BY <1>0, <1>2, <2>1, <2>3
<1> HIDE DEF g, miss
<1>9. Ordered(s) => Ordered(t)
  BY <1>4, <1>6 DEF Ordered
<1>10. Single(s) => Single(t)
  BY <1>4, <1>6 DEF Single
<1>11. Once(s) => Once(t)
  BY <1>3, <1>4 DEF Once
<1>12. ASSUME NEW owed, NEW more, NEW who, Current(s, owed, who), owed \subseteq more, ws \cap v.reads \subseteq more
       PROVE  Current(t, more, who)
  <2>1. ASSUME NEW k \in DOMAIN t.fl, k = Len(t.fl), ~ t.fl[k].passed PROVE t.fl[k].since \subseteq more
    BY <1>4, <1>6, <1>12, <2>1 DEF Current
  <2>2. ASSUME t.fl = <<>>, t.data, ~ t.err PROVE (t.late /\ who \in Racers) \/ t.miss \subseteq more
    BY <1>3, <1>4, <1>7, <1>12, <2>2 DEF Current
  <2> QED BY <2>1, <2>2 DEF Current
<1> QED BY <1>8, <1>9, <1>10, <1>11, <1>12

\* What is at each place of a sequence without one of its elements.
LEMMA RemovedAt ==
    ASSUME NEW S, NEW fl \in Seq(S), NEW k \in DOMAIN fl
    PROVE  /\ Len(fl) \in Nat /\ DOMAIN fl = 1..Len(fl) /\ k \in 1..Len(fl)
           /\ DOMAIN RemoveAt(fl, k) = 1..(Len(fl) - 1) /\ Len(RemoveAt(fl, k)) = Len(fl) - 1
           /\ RemoveAt(fl, k) \in Seq(S)
           /\ \A j \in 1..(Len(fl) - 1) :
                 /\ j < k => RemoveAt(fl, k)[j] = fl[j]
                 /\ j >= k => RemoveAt(fl, k)[j] = fl[j + 1]
<1>1. Len(fl) \in Nat /\ DOMAIN fl = 1..Len(fl) /\ k \in 1..Len(fl)
  BY LenProperties
<1> DEFINE a == SubSeq(fl, 1, k - 1)
           b == SubSeq(fl, k + 1, Len(fl))
<1>2. /\ a \in Seq(S) /\ Len(a) = k - 1
      /\ \A j \in 1..(k - 1) : a[j] = fl[j]
  BY <1>1
<1>3. /\ b \in Seq(S) /\ Len(b) = Len(fl) - k
      /\ \A j \in 1..(Len(fl) - k) : b[j] = fl[k + j]
  BY <1>1
<1>4. RemoveAt(fl, k) = a \o b
  BY DEF RemoveAt
<1> HIDE DEF a, b
<1>5. /\ a \o b \in Seq(S)
      /\ Len(a \o b) = Len(a) + Len(b)
      /\ \A j \in 1..(Len(a) + Len(b)) :
            (a \o b)[j] = IF j <= Len(a) THEN a[j] ELSE b[j - Len(a)]
  BY <1>2, <1>3, ConcatProperties
<1>6. Len(a) + Len(b) = Len(fl) - 1
  BY <1>1, <1>2, <1>3
<1>7. DOMAIN (a \o b) = 1..(Len(fl) - 1)
  BY <1>5, <1>6, LenProperties
<1>8. ASSUME NEW j \in 1..(Len(fl) - 1), j < k PROVE (a \o b)[j] = fl[j]
  <2>1. j \in 1..(k - 1) /\ j <= Len(a) /\ j \in 1..(Len(a) + Len(b))
    BY <1>1, <1>2, <1>6, <1>8
  <2> QED BY <1>2, <1>5, <2>1
<1>9. ASSUME NEW j \in 1..(Len(fl) - 1), j >= k PROVE (a \o b)[j] = fl[j + 1]
  <2>1. ~ (j <= Len(a)) /\ j \in 1..(Len(a) + Len(b)) /\ j - Len(a) \in 1..(Len(fl) - k)
    BY <1>1, <1>2, <1>6, <1>9
  <2>2. (a \o b)[j] = b[j - Len(a)]
    BY <1>5, <2>1
  <2>3. b[j - Len(a)] = fl[k + (j - Len(a))]
    BY <1>3, <2>1
  <2>4. k + (j - Len(a)) = j + 1
    BY <1>1, <1>2
  <2> QED BY <2>2, <2>3, <2>4
<1> QED BY <1>1, <1>4, <1>5, <1>6, <1>7, <1>8, <1>9

\* The fetches that are left are those before, overtaken, and those after.
LEMMA AfterAt ==
    ASSUME NEW v, NEW fl \in Seq(Fetches(v)), NEW k \in DOMAIN fl, NEW h, h = After(fl, k)
    PROVE  /\ Len(fl) \in Nat /\ DOMAIN fl = 1..Len(fl) /\ k \in 1..Len(fl)
           /\ DOMAIN h = 1..(Len(fl) - 1) /\ Len(h) = Len(fl) - 1
           /\ \A j \in 1..(Len(fl) - 1) :
                 /\ j < k => h[j].passed /\ h[j].since = fl[j].since
                 /\ j >= k => h[j].passed = fl[j + 1].passed /\ h[j].since = fl[j + 1].since
           /\ h = <<>> <=> Len(fl) = 1
<1> DEFINE g == [j \in DOMAIN fl |-> [fl[j] EXCEPT !.passed = @ \/ j < k]]
<1>1. ASSUME NEW j \in DOMAIN fl
      PROVE  g[j] \in Fetches(v) /\ g[j].since = fl[j].since /\ g[j].passed = (fl[j].passed \/ j < k)
  <2>1. fl[j] \in Fetches(v)
    BY ElementOfSeq
  <2>2. PICK x \in BOOLEAN : x = (fl[j].passed \/ j < k)
    OBVIOUS
  <2>3. g[j] = [fl[j] EXCEPT !.passed = x]
    BY <2>1, <2>2 DEF Fetches
  <2> HIDE DEF g
  <2>4. g[j] \in Fetches(v) /\ g[j].since = fl[j].since /\ g[j].passed = x
    BY <2>1, <2>3 DEF Fetches
  <2> QED BY <2>2, <2>4
<1>2. g = [j \in DOMAIN fl |-> g[j]] /\ h = RemoveAt(g, k)
  BY DEF After
<1> DEFINE F == Fetches(v)
<1> HIDE DEF g, F
<1>3. g \in Seq(F) /\ Len(g) = Len(fl) /\ DOMAIN g = DOMAIN fl
  <2>1. fl \in Seq(F) /\ \A j \in DOMAIN fl : g[j] \in F
    BY <1>1 DEF F
  <2> QED BY <1>2, <2>1, Changed
<1>4. /\ Len(g) \in Nat /\ DOMAIN g = 1..Len(g) /\ k \in 1..Len(g)
      /\ DOMAIN h = 1..(Len(g) - 1) /\ Len(h) = Len(g) - 1
      /\ h \in Seq(F)
      /\ \A j \in 1..(Len(g) - 1) :
            /\ j < k => h[j] = g[j]
            /\ j >= k => h[j] = g[j + 1]
  <2>1. PICK x : x = RemoveAt(g, k)
    OBVIOUS
  <2>2. h = x /\ k \in DOMAIN g
    BY <1>2, <1>3, <2>1
  <2>3. /\ Len(g) \in Nat /\ DOMAIN g = 1..Len(g) /\ k \in 1..Len(g)
        /\ DOMAIN RemoveAt(g, k) = 1..(Len(g) - 1) /\ Len(RemoveAt(g, k)) = Len(g) - 1
        /\ RemoveAt(g, k) \in Seq(F)
        /\ \A j \in 1..(Len(g) - 1) :
              /\ j < k => RemoveAt(g, k)[j] = g[j]
              /\ j >= k => RemoveAt(g, k)[j] = g[j + 1]
    BY <1>3, <2>2, RemovedAt
  <2> HIDE DEF F
  <2> QED BY <2>1, <2>2, <2>3
<1>5. ASSUME NEW j \in 1..(Len(fl) - 1)
      PROVE  /\ j < k => h[j].passed /\ h[j].since = fl[j].since
             /\ j >= k => h[j].passed = fl[j + 1].passed /\ h[j].since = fl[j + 1].since
  <2>1. j \in DOMAIN fl /\ j + 1 \in DOMAIN fl /\ j \in 1..(Len(g) - 1)
    BY <1>3, <1>4
  <2>2. ASSUME j < k PROVE h[j].passed /\ h[j].since = fl[j].since
    <3>1. h[j] = g[j]
      BY <1>4, <2>1, <2>2
    <3> QED BY <1>1, <2>1, <2>2, <3>1
  <2>3. ASSUME j >= k PROVE h[j].passed = fl[j + 1].passed /\ h[j].since = fl[j + 1].since
    <3>1. h[j] = g[j + 1] /\ ~ (j + 1 < k)
      BY <1>4, <2>1, <2>3
    <3>2. g[j + 1].since = fl[j + 1].since /\ g[j + 1].passed = (fl[j + 1].passed \/ j + 1 < k)
      BY <1>1, <2>1
    <3>3. fl[j + 1].passed \in BOOLEAN
      <4>1. fl[j + 1] \in Fetches(v)
        BY <2>1, ElementOfSeq
      <4> QED BY <4>1 DEF Fetches
    <3> QED BY <3>1, <3>2, <3>3
  <2> QED BY <2>2, <2>3
<1>6. h = <<>> <=> Len(fl) = 1
  <2>1. h = <<>> <=> Len(h) = 0
    BY <1>4, EmptySeq
  <2> QED BY <1>3, <1>4, <2>1
<1> QED BY <1>3, <1>4, <1>5, <1>6

\* When a fetch has ended, the newest one left lacks no more than the newest one did.
LEMMA EndedLacks ==
    ASSUME NEW v, NEW s, Good(v, s), NEW k \in DOMAIN s.fl, NEW t, t.fl = After(s.fl, k)
    PROVE  /\ Ordered(s) => Ordered(t)
           /\ Single(s) => Single(t) /\ ~ s.fl[k].passed
           /\ Once(s) => Once(t)
           /\ (\A j \in DOMAIN s.fl : s.fl[j].since = {}) => \A j \in DOMAIN t.fl : t.fl[j].since = {}
           /\ \A owed, who : Current(s, owed, who) =>
                 /\ \A j \in DOMAIN t.fl : j = Len(t.fl) /\ ~ t.fl[j].passed => t.fl[j].since \subseteq owed
                 /\ t.fl = <<>> /\ ~ s.fl[k].passed => s.fl[k].since \subseteq owed
<1> DEFINE fl == s.fl
           h == t.fl
<1>1. fl = s.fl /\ h = t.fl /\ fl \in Seq(Fetches(v)) /\ k \in DOMAIN fl /\ h = After(fl, k)
  BY DEF Good
<1> HIDE DEF fl, h
<1>2. /\ Len(fl) \in Nat /\ DOMAIN fl = 1..Len(fl) /\ k \in 1..Len(fl)
      /\ DOMAIN h = 1..(Len(fl) - 1) /\ Len(h) = Len(fl) - 1
      /\ \A j \in 1..(Len(fl) - 1) :
            /\ j < k => h[j].passed /\ h[j].since = fl[j].since
            /\ j >= k => h[j].passed = fl[j + 1].passed /\ h[j].since = fl[j + 1].since
      /\ h = <<>> <=> Len(fl) = 1
  BY <1>1, AfterAt
<1>3. ASSUME \A i, j \in DOMAIN fl : i < j /\ fl[j].passed => fl[i].passed,
             NEW i \in DOMAIN h, NEW j \in DOMAIN h, i < j, h[j].passed
      PROVE  h[i].passed
  <2>1. CASE i < k
    BY <1>2, <2>1
  <2>2. CASE i >= k
    <3>1. j >= k /\ i + 1 \in DOMAIN fl /\ j + 1 \in DOMAIN fl /\ i + 1 < j + 1
      BY <1>2, <1>3, <2>2
    <3>2. fl[j + 1].passed
      BY <1>2, <1>3, <3>1
    <3>3. fl[i + 1].passed
      BY <1>3, <3>1, <3>2
    <3> QED BY <1>2, <2>2, <3>3
  <2> QED BY <1>2, <2>1, <2>2
<1>4. Ordered(s) => Ordered(t)
  BY <1>1, <1>3 DEF Ordered
<1>5. Single(s) => Single(t) /\ ~ fl[k].passed
  <2> SUFFICES ASSUME Single(s) PROVE Single(t) /\ ~ fl[k].passed
    OBVIOUS
  <2>1. Len(fl) <= 1 /\ ~ fl[k].passed
    BY <1>1 DEF Single
  <2>2. Len(h) = 0 /\ DOMAIN h = {}
    BY <1>2, <2>1
  <2>3. Len(t.fl) <= 1 /\ \A j \in DOMAIN t.fl : ~ t.fl[j].passed
    BY <1>1, <2>2
  <2> QED BY <2>1, <2>3 DEF Single
<1>6. Once(s) => Once(t)
  <2>1. Once(s) => Len(fl) = 1
    <3>1. fl # <<>>
      BY <1>2
    <3> QED BY <1>1, <3>1 DEF Once
  <2> QED BY <1>1, <1>2, <2>1 DEF Once
<1>7. ASSUME \A j \in DOMAIN fl : fl[j].since = {}, NEW j \in DOMAIN h
      PROVE  h[j].since = {}
  <2>1. j \in DOMAIN fl /\ j + 1 \in DOMAIN fl /\ j \in 1..(Len(fl) - 1)
    BY <1>2
  <2>2. j < k \/ j >= k
    BY <1>2
  <2> QED BY <1>2, <1>7, <2>1, <2>2
<1>8. ASSUME NEW owed, NEW who, Current(s, owed, who)
      PROVE  /\ \A j \in DOMAIN h : j = Len(h) /\ ~ h[j].passed => h[j].since \subseteq owed
             /\ h = <<>> /\ ~ fl[k].passed => fl[k].since \subseteq owed
  <2>1. \A j \in DOMAIN fl : j = Len(fl) /\ ~ fl[j].passed => fl[j].since \subseteq owed
    BY <1>1, <1>8 DEF Current
  <2>2. ASSUME NEW j \in DOMAIN h, j = Len(h), ~ h[j].passed PROVE h[j].since \subseteq owed
    <3>1. j >= k /\ j + 1 \in DOMAIN fl /\ j + 1 = Len(fl)
      BY <1>2, <2>2
    <3> QED BY <1>2, <2>1, <2>2, <3>1
  <2>3. h = <<>> => k = Len(fl)
    BY <1>2
  <2> QED BY <1>1, <2>1, <2>2, <2>3
<1> QED BY <1>1, <1>4, <1>5, <1>6, <1>7, <1>8

\* An answer is as new as the fetch it answers, or is marked as late.
LEMMA ReceivedLacks ==
    ASSUME NEW v, NEW s, Good(v, s), NEW k \in DOMAIN s.fl, NEW lacks, lacks \subseteq s.fl[k].since,
           NEW t, t.fl = After(s.fl, k), t.miss = lacks, t.late = (s.fl[k].passed /\ lacks # {})
    PROVE  /\ Clean(s) => Clean(t)
           /\ \A owed, who :
                 Current(s, owed, who) /\ (who \in Racers \/ Single(s)) => Current(t, owed, who)
<1>1. Clean(s) => Clean(t)
  BY EndedLacks DEF Clean
<1>2. ASSUME NEW owed, NEW who, Current(s, owed, who), who \in Racers \/ Single(s)
      PROVE  Current(t, owed, who)
  <2>1. /\ \A j \in DOMAIN t.fl : j = Len(t.fl) /\ ~ t.fl[j].passed => t.fl[j].since \subseteq owed
        /\ t.fl = <<>> /\ ~ s.fl[k].passed => s.fl[k].since \subseteq owed
    BY <1>2, EndedLacks
  <2>2. s.fl[k].passed => who \in Racers
    BY <1>2, EndedLacks
  <2>3. t.fl = <<>> => (t.late /\ who \in Racers) \/ t.miss \subseteq owed
    BY <2>1, <2>2
  <2> QED BY <2>1, <2>3 DEF Current
<1> QED BY <1>1, <1>2

\* An error leaves what is shown, and marks it.
LEMMA FailedLacks ==
    ASSUME NEW v, NEW s, Good(v, s), NEW k \in DOMAIN s.fl,
           NEW t, t.fl = After(s.fl, k), t.miss = s.miss, t.err
    PROVE  /\ Clean(s) => Clean(t)
           /\ \A owed, who : Current(s, owed, who) => Current(t, owed, who)
<1>1. Clean(s) => Clean(t)
  BY EndedLacks DEF Clean
<1>2. ASSUME NEW owed, NEW who, Current(s, owed, who)
      PROVE  Current(t, owed, who)
  <2>1. \A j \in DOMAIN t.fl : j = Len(t.fl) /\ ~ t.fl[j].passed => t.fl[j].since \subseteq owed
    BY <1>2, EndedLacks
  <2> QED BY <2>1 DEF Current
<1> QED BY <1>1, <1>2

\* A fetch that has just been sent lacks nothing, whatever is owed.
LEMMA AnewCurrent ==
    ASSUME NEW t, Anew(t), NEW owed, NEW who
    PROVE  Current(t, owed, who)
BY DEF Anew, Current

\* More may be owed.
LEMMA MoreOwed ==
    ASSUME NEW t, NEW owed, NEW more, NEW who, Current(t, owed, who), owed \subseteq more
    PROVE  Current(t, more, who)
BY DEF Current

\* The answer of a call, put into a list, overtakes the fetches under way.
LEMMA AnsweredLacks ==
    ASSUME NEW v, NEW s, Good(v, s), NEW op, NEW copy, NEW n,
           NEW t, t = Answered(op, copy, n, s)
    PROVE  /\ n \notin op.patches \cup op.merges => t = s
           /\ Ordered(s) => Ordered(t)
           /\ t.fl = <<>> <=> s.fl = <<>>
           /\ n \notin op.patches \ op.merges => (Once(s) => Once(t)) /\ (Clean(s) => Clean(t))
           /\ n \in op.merges => /\ t.data = s.data /\ t.late = s.late /\ t.err = s.err
                                 /\ t.miss = s.miss \ UNION Range(op.calls)
                                 /\ \A k \in DOMAIN t.fl : t.fl[k].passed
<1> DEFINE g == [k \in DOMAIN s.fl |-> [s.fl[k] EXCEPT !.passed = TRUE]]
           gone == s.miss \ UNION Range(op.calls)
<1>0. s = [data |-> s.data, miss |-> s.miss, wrong |-> s.wrong, late |-> s.late, err |-> s.err, fl |-> s.fl]
  BY DEF Good
<1>1. \A k \in DOMAIN s.fl : s.fl[k] \in Fetches(v)
  BY ElementOfSeq DEF Good
<1>2. ASSUME NEW k \in DOMAIN s.fl
      PROVE  g[k] \in Fetches(v) /\ g[k].passed /\ g[k].since = s.fl[k].since
  <2>1. g[k] = [s.fl[k] EXCEPT !.passed = TRUE] /\ s.fl[k] \in Fetches(v)
    BY <1>1
  <2> HIDE DEF g
  <2> QED BY <2>1 DEF Fetches
<1>3. DOMAIN g = DOMAIN s.fl /\ Len(g) = Len(s.fl) /\ (g = <<>> <=> s.fl = <<>>)
  <2> DEFINE b == s.fl
             F == Fetches(v)
  <2>1. b \in Seq(F) /\ g = [k \in DOMAIN b |-> g[k]] /\ \A k \in DOMAIN b : g[k] \in F
    BY <1>2 DEF Good
  <2> HIDE DEF b, F, g
  <2>2. DOMAIN g = DOMAIN b /\ Len(g) = Len(b) /\ (b = <<>> <=> g = <<>>)
    BY <2>1, Changed
  <2> QED BY <2>2 DEF b
<1>4. CASE n \in op.merges
  <2>1. t = [s EXCEPT !.miss = @ \ UNION Range(op.calls),
                      !.fl = [k \in DOMAIN @ |-> [@[k] EXCEPT !.passed = TRUE]]]
    BY <1>4 DEF Answered
  <2>2. t = [s EXCEPT !.miss = gone, !.fl = g]
    BY <1>0, <2>1
  <2> HIDE DEF g, gone
  <2>3. t = [data |-> s.data, miss |-> gone, wrong |-> s.wrong, late |-> s.late, err |-> s.err, fl |-> g]
    BY <1>0, <2>2, TwoParts
  <2>4. t.data = s.data /\ t.miss = gone /\ t.late = s.late /\ t.err = s.err /\ t.fl = g
    BY <2>3
  <2>5. gone \subseteq s.miss /\ gone = s.miss \ UNION Range(op.calls)
    BY DEF gone
  <2>6. \A k \in DOMAIN t.fl : t.fl[k].passed /\ k \in DOMAIN s.fl /\ t.fl[k].since = s.fl[k].since
    BY <1>2, <1>3, <2>4
  <2>7. t.fl = <<>> <=> s.fl = <<>>
    BY <1>3, <2>4
  <2>8. Ordered(t)
    BY <1>3, <2>4, <2>6 DEF Ordered
  <2>9. Once(s) => Once(t)
    BY <1>3, <2>4 DEF Once
  <2>10. Clean(s) => Clean(t)
    BY <2>4, <2>5, <2>6 DEF Clean
  <2> QED BY <1>4, <2>4, <2>5, <2>6, <2>7, <2>8, <2>9, <2>10
<1>5. CASE n \notin op.merges /\ n \in op.patches
  <2>1. t = [s EXCEPT !.data = TRUE, !.miss = copy[n].miss, !.wrong = copy[n].wrong,
                      !.fl = [k \in DOMAIN @ |-> [@[k] EXCEPT !.passed = TRUE]]]
    BY <1>5 DEF Answered
  <2>2. t.fl = g
    BY <1>0, <2>1
  <2> HIDE DEF g
  <2>3. \A k \in DOMAIN t.fl : t.fl[k].passed
    BY <1>2, <1>3, <2>2
  <2>4. Ordered(t)
    BY <1>3, <2>2, <2>3 DEF Ordered
  <2>5. t.fl = <<>> <=> s.fl = <<>>
    BY <1>3, <2>2
  <2> QED BY <1>5, <2>4, <2>5
<1>6. CASE n \notin op.merges /\ n \notin op.patches
  BY <1>6 DEF Answered
<1> QED BY <1>4, <1>5, <1>6

\* The end of a call asks for view v.
Asks(op, v, mine) == Hit(v, op.keys) \/ (mine /\ v.name \in op.loads)

\* A view that is asked for is fetched again, unless an earlier fetch answers for it.
LEMMA RefreshedLacks ==
    ASSUME NEW op, NEW v, Good(v, view[v.name]), NEW mine \in BOOLEAN,
           NEW t, t = Refreshed(op, v, mine)
    PROVE  /\ ~ Asks(op, v, mine) => t = view[v.name]
           /\ Asks(op, v, mine) =>
                 \/ t = view[v.name] /\ Outrun(op, v, mine)
                 \/ Renewed(view[v.name], t)
<1> DEFINE s == view[v.name]
           u == IF Hit(v, op.keys) THEN Invalidated(s) ELSE s
<1>1. t = IF ~ mine \/ v.name \notin op.loads THEN u
          ELSE IF v.cached THEN Invalidated(u) ELSE Reloaded(v, u)
  BY DEF Refreshed
<1>2. Outrun(op, v, mine) <=> Asks(op, v, mine) /\ (Joined(v, s) \/ (v.cached /\ s.fl # <<>> /\ ~ s.data))
  BY DEF Outrun, Asks, Loading
<1>3. Hit(v, op.keys) => v.cached
  BY DEF Hit
<1>4. Good(v, s)
  OBVIOUS
<1>5. Good(v, u)
  BY <1>4, InvalidatedView
<1>6. Hit(v, op.keys) => (u = s /\ s.fl # <<>> /\ ~ s.data) \/ Renewed(s, u)
  BY <1>4, InvalidatedLacks
<1>7. ~ Hit(v, op.keys) => u = s
  OBVIOUS
<1> HIDE DEF s, u
<1>8. ASSUME NEW w, w = Invalidated(u)
      PROVE  (w = u /\ u.fl # <<>> /\ ~ u.data) \/ (Renewed(u, w) /\ Single(w))
  BY <1>5, <1>8, InvalidatedLacks
<1>9. ASSUME NEW w, w = Reloaded(v, u)
      PROVE  (w = u /\ Joined(v, u)) \/ Renewed(u, w)
  BY <1>5, <1>9, ReloadedLacks
<1>10. ASSUME NEW w, Renewed(s, u), Renewed(u, w), Single(w)
       PROVE  Renewed(s, w)
  BY <1>10 DEF Renewed
<1>11. ~ Asks(op, v, mine) => t = s
  BY <1>1, <1>7 DEF Asks
<1>12. ASSUME Asks(op, v, mine), ~ mine \/ v.name \notin op.loads
       PROVE  (t = s /\ Outrun(op, v, mine)) \/ Renewed(s, t)
  BY <1>1, <1>2, <1>3, <1>6, <1>12 DEF Asks
<1>13. ASSUME mine, v.name \in op.loads, v.cached
       PROVE  (t = s /\ Outrun(op, v, mine)) \/ Renewed(s, t)
  <2>1. t = Invalidated(u)
    BY <1>1, <1>13
  <2>2. (t = u /\ u.fl # <<>> /\ ~ u.data) \/ (Renewed(u, t) /\ Single(t))
    BY <1>8, <2>1
  <2>3. u = s \/ Renewed(s, u)
    BY <1>6, <1>7
  <2>4. CASE u = s
    BY <1>2, <1>13, <2>2, <2>4 DEF Asks
  <2>5. CASE Renewed(s, u)
    BY <1>10, <2>2, <2>5
  <2> QED BY <2>3, <2>4, <2>5
<1>14. ASSUME mine, v.name \in op.loads, ~ v.cached
       PROVE  (t = s /\ Outrun(op, v, mine)) \/ Renewed(s, t)
  <2>1. u = s /\ t = Reloaded(v, u)
    BY <1>1, <1>3, <1>7, <1>14
  <2>2. (t = s /\ Joined(v, s)) \/ Renewed(s, t)
    BY <1>9, <2>1
  <2> QED BY <1>2, <1>14, <2>2 DEF Asks
<1>15. Asks(op, v, mine) => (t = s /\ Outrun(op, v, mine)) \/ Renewed(s, t)
  BY <1>12, <1>13, <1>14
<1> QED BY <1>11, <1>15 DEF s

\* It has one fetch under way afterwards, if it had and a new one replaces or joins it.
LEMMA RefreshedAlone ==
    ASSUME NEW op, NEW v, Good(v, view[v.name]), NEW mine, Single(view[v.name]),
           \/ v.cached \/ v.cancel \/ v.name \notin op.loads \/ view[v.name].fl = <<>>
           \/ v.joins /\ NoneOld(view[v.name]),
           NEW t, t = Refreshed(op, v, mine)
    PROVE  Single(t)
<1> DEFINE s == view[v.name]
           u == IF Hit(v, op.keys) THEN Invalidated(s) ELSE s
<1>1. t = u \/ (v.name \in op.loads /\ t = IF v.cached THEN Invalidated(u) ELSE Reloaded(v, u))
  BY DEF Refreshed
<1>2. Good(v, s) /\ Single(s)
  OBVIOUS
<1>3. Good(v, u) /\ Single(u)
  BY <1>2, InvalidatedView, InvalidatedLacks
<1>4. ~ v.cached => u = s
  BY DEF Hit
<1> HIDE DEF s, u
<1>5. CASE t = u
  BY <1>3, <1>5
<1>6. ASSUME v.cached, t = Invalidated(u) PROVE Single(t)
  BY <1>3, <1>6, InvalidatedLacks
<1>7. ASSUME ~ v.cached, v.name \in op.loads, t = Reloaded(v, s) PROVE Single(t)
  <2>1. (t = s /\ Joined(v, s)) \/ (Renewed(s, t) /\ (v.cancel => Single(t)))
    BY <1>2, <1>7, ReloadedLacks
  <2>2. v.cancel \/ s.fl = <<>> \/ (v.joins /\ NoneOld(s))
    BY <1>7 DEF s
  <2>3. CASE v.joins /\ NoneOld(s) /\ s.fl # <<>>
    <3>1. \E k : k \in DOMAIN s.fl
      <4> DEFINE b == s.fl
                 F == Fetches(v)
      <4>1. b \in Seq(F) /\ b # <<>>
        BY <1>2, <2>3 DEF Good
      <4> HIDE DEF b, F
      <4>2. Len(b) \in Nat /\ Len(b) # 0 /\ DOMAIN b = 1..Len(b)
        BY <4>1, EmptySeq, LenProperties
      <4>3. 1 \in DOMAIN b
        BY <4>2
      <4> QED BY <4>3 DEF b
    <3>2. Joined(v, s)
      BY <2>3, <3>1 DEF Joined, NoneOld
    <3>3. ~ v.live => t = s
      BY <1>7, <3>2 DEF Reloaded
    <3>4. v.live => t = Unloaded
      BY <1>7 DEF Reloaded
    <3> QED BY <1>2, <3>3, <3>4, UnloadedLacks
  <2>4. CASE v.cancel \/ s.fl = <<>>
    BY <1>2, <2>1, <2>4 DEF Renewed
  <2> QED BY <2>2, <2>3, <2>4
<1> QED BY <1>1, <1>4, <1>5, <1>6, <1>7

\* The call in slot j is where it was.
Rests(j) == call'[j].c = call[j].c /\ call'[j].step = call[j].step /\ call'[j].ph = call[j].ph

\* It is when only what it owns, its rank or what it has copied is replaced.
LEMMA SlotRests ==
    ASSUME CallsOK, NEW j \in Slots, NEW x, NEW y,
           \/ call'[j] = call[j]
           \/ call'[j] = [call[j] EXCEPT !.own = x]
           \/ call'[j] = [call[j] EXCEPT !.copy = x]
           \/ call'[j] = [[call[j] EXCEPT !.own = x] EXCEPT !.top = y]
           \/ call'[j] = [[call[j] EXCEPT !.own = x] EXCEPT !.copy = y]
    PROVE  Rests(j)
<1> DEFINE r == call[j]
           q == call'[j]
<1>1. Shaped(r)
  BY DEF CallsOK, Shaped
<1>2. \/ q = r
      \/ q = [r EXCEPT !.own = x]
      \/ q = [r EXCEPT !.copy = x]
      \/ q = [[r EXCEPT !.own = x] EXCEPT !.top = y]
      \/ q = [[r EXCEPT !.own = x] EXCEPT !.copy = y]
  OBVIOUS
<1> HIDE DEF r, q
<1>3. q.c = r.c /\ q.step = r.step /\ q.ph = r.ph
  <2>1. CASE q = r \/ q = [r EXCEPT !.own = x]
    BY <1>1, <2>1 DEF Shaped
  <2>2. CASE q = [r EXCEPT !.copy = x]
    BY <1>1, <2>2 DEF Shaped
  <2>3. CASE q = [[r EXCEPT !.own = x] EXCEPT !.top = y]
    BY <1>1, <2>3 DEF Shaped
  <2>4. CASE q = [[r EXCEPT !.own = x] EXCEPT !.copy = y]
    BY <1>1, <2>4 DEF Shaped
  <2> QED BY <1>2, <2>1, <2>2, <2>3, <2>4
<1> QED BY <1>3 DEF r, q, Rests

\* The server executes a call.
LEMMA ApplyCalls ==
    ASSUME CallsOK, NEW i \in UnderWay, Apply(i, OpOf(i))
    PROVE  /\ call'[i].c = call[i].c /\ call'[i].step = call[i].step /\ call'[i].ph = "applied"
           /\ \A j \in Slots \ {i} : Rests(j)
<1>1. i \in Slots /\ Shaped(call[i])
  BY DEF CallsOK, Shaped, UnderWay
<1>2. call' = [j \in Slots |->
                 IF j = i THEN [call[j] EXCEPT !.ph = "applied"]
                 ELSE [call[j] EXCEPT !.copy = Aged(@, Writes(i, OpOf(i)))]]
  BY DEF Apply
<1>3. ASSUME NEW j \in Slots \ {i} PROVE Rests(j)
  <2>1. PICK x : x = Aged(call[j].copy, Writes(i, OpOf(i)))
    OBVIOUS
  <2>2. call'[j] = [call[j] EXCEPT !.copy = x]
    BY <1>2, <2>1
  <2> QED BY <2>2, SlotRests
<1>4. call'[i] = [call[i] EXCEPT !.ph = "applied"]
  BY <1>1, <1>2
<1>5. call'[i].c = call[i].c /\ call'[i].step = call[i].step /\ call'[i].ph = "applied"
  BY <1>1, <1>4 DEF Shaped
<1> QED BY <1>3, <1>5

\* An effect comes later: the calls are where they were.
LEMMA LandCalls ==
    ASSUME CallsOK, NEW l, Land(l)
    PROVE  \A j \in Slots : Rests(j)
<1> SUFFICES ASSUME NEW j \in Slots PROVE Rests(j)
  OBVIOUS
<1>1. call'[j] = [call[j] EXCEPT !.copy = Aged(@, l.ws)]
  BY DEF Land
<1>2. PICK x : x = Aged(call[j].copy, l.ws)
  OBVIOUS
<1>3. call'[j] = [call[j] EXCEPT !.copy = x]
  BY <1>1, <1>2
<1> QED BY <1>3, SlotRests

\* The handler makes the next one of its calls.
LEMMA NextCalls ==
    ASSUME CallsOK, NEW i \in UnderWay, NextCall(i, OpOf(i))
    PROVE  /\ call'[i].c = call[i].c /\ call'[i].step = call[i].step + 1 /\ call'[i].ph = "sent"
           /\ \A j \in Slots \ {i} : Rests(j)
<1>1. i \in Slots /\ Shaped(call[i])
  BY DEF CallsOK, Shaped, UnderWay
<1>2. call' = [j \in Slots |->
                 IF j = i THEN [call[i] EXCEPT !.step = @ + 1, !.ph = "sent"]
                 ELSE IF OpOf(i).chain THEN Disown(j, Shuts(i, OpOf(i))) ELSE call[j]]
  BY DEF NextCall
<1>3. ASSUME NEW j \in Slots \ {i} PROVE Rests(j)
  <2>1. PICK x : x = call[j].own \ Shuts(i, OpOf(i))
    OBVIOUS
  <2>2. call'[j] = [call[j] EXCEPT !.own = x] \/ call'[j] = call[j]
    BY <1>2, <2>1 DEF Disown
  <2> QED BY <2>2, SlotRests
<1>4. PICK x : x = call[i].step + 1
  OBVIOUS
<1>5. call'[i] = [call[i] EXCEPT !.step = x, !.ph = "sent"]
  BY <1>1, <1>2, <1>4
<1>6. call'[i].c = call[i].c /\ call'[i].step = x /\ call'[i].ph = "sent"
  BY <1>1, <1>5 DEF Shaped
<1> QED BY <1>3, <1>4, <1>6

\* A call ends.
LEMMA EndCalls ==
    ASSUME CallsOK, NEW i \in UnderWay, NEW gone,
           call' = [j \in Slots |-> IF j = i THEN Idle ELSE Disown(j, gone)]
    PROVE  /\ UnderWay' = UnderWay \ {i}
           /\ \A j \in Slots \ {i} : Rests(j)
<1>1. i \in Slots
  BY DEF UnderWay
<1>2. ASSUME NEW j \in Slots \ {i} PROVE Rests(j)
  <2>1. PICK x : x = call[j].own \ gone
    OBVIOUS
  <2>2. call'[j] = [call[j] EXCEPT !.own = x]
    BY <2>1 DEF Disown
  <2> QED BY <2>2, SlotRests
<1>3. call'[i].ph = "idle"
  BY <1>1 DEF Idle
<1>4. UnderWay' = {j \in Slots : call'[j].ph # "idle"}
  BY DEF UnderWay
<1>5. \A j \in Slots : call'[j].ph # "idle" <=> call[j].ph # "idle" /\ j # i
  BY <1>2, <1>3 DEF Rests
<1> QED BY <1>2, <1>4, <1>5 DEF UnderWay

\* A click starts at most one call.
LEMMA ClickCalls ==
    ASSUME CallsOK, NEW m \in DOMAIN P.controls, Click(ControlOf(m))
    PROVE  \/ \A j \in Slots : Rests(j)
           \/ \E s \in Slots \ UnderWay :
                 /\ m \in Senders(page)
                 /\ call'[s].c = m /\ call'[s].step = 1 /\ call'[s].ph = "sent"
                 /\ \A j \in Slots \ {s} : Rests(j)
<1> DEFINE a == At(page, m)
<1>1. ControlOf(m) = a /\ a.op = OpAt(page, m) /\ m \in DOMAIN PageTable[page].controls
  BY DEF ControlOf, At, P, OpAt
<1>2. CASE OpAt(page, m).some
  <2>1. PICK s \in Slots \ UnderWay : call' = Started(a, s)
    BY <1>1, <1>2 DEF Click
  <2>2. m \in Senders(page) /\ a.name = m
    BY <1>1, <1>2, Named DEF Senders, CallsOK
  <2>3. ASSUME NEW j \in Slots \ {s} PROVE Rests(j)
    <3>1. call'[j] = [Disown(j, a.closes \cup a.opens) EXCEPT
                        !.top = @ /\ ~ (j \in UnderWay /\ OpOf(j).hook = a.op.hook)]
      BY <2>1 DEF Started
    <3>2. PICK x, y : /\ x = call[j].own \ (a.closes \cup a.opens)
                      /\ y = (Disown(j, a.closes \cup a.opens).top
                                /\ ~ (j \in UnderWay /\ OpOf(j).hook = a.op.hook))
      OBVIOUS
    <3>3. Disown(j, a.closes \cup a.opens) = [call[j] EXCEPT !.own = x]
      BY <3>2 DEF Disown
    <3>4. call'[j] = [[call[j] EXCEPT !.own = x] EXCEPT !.top = y]
      BY <3>1, <3>2, <3>3
    <3> QED BY <3>4, SlotRests
  <2>4. call'[s].c = m /\ call'[s].step = 1 /\ call'[s].ph = "sent"
    <3>1. \E x, y, z : call'[s] = [c |-> m, step |-> 1, ph |-> "sent", top |-> x, own |-> y, copy |-> z]
      <4>1. call'[s] =
              [c |-> m, step |-> 1, ph |-> "sent", top |-> a.op.hook # "",
               own |-> ((open \ a.closes) \cup a.opens) \cap (a.op.shut \cup a.op.failShut),
               copy |-> [n \in a.op.patches \cap DOMAIN view |->
                            [miss |-> IF view[n].data THEN view[n].miss ELSE ViewOf(n).reads,
                             wrong |-> view[n].wrong]]]
        BY <2>1, <2>2 DEF Started
      <4> QED BY <4>1
    <3>2. PICK x, y, z : call'[s] = [c |-> m, step |-> 1, ph |-> "sent", top |-> x, own |-> y, copy |-> z]
      BY <3>1
    <3> QED BY <3>2
  <2> QED BY <2>2, <2>3, <2>4
<1>3. CASE ~ OpAt(page, m).some
  <2> SUFFICES ASSUME NEW j \in Slots PROVE Rests(j)
    OBVIOUS
  <2>1. call'[j] = [Disown(j, a.closes \cup a.opens) EXCEPT !.copy = Strayed(@, a.picks)]
    BY <1>1, <1>3 DEF Click
  <2>2. PICK x, y : /\ x = call[j].own \ (a.closes \cup a.opens)
                    /\ y = Strayed(Disown(j, a.closes \cup a.opens).copy, a.picks)
    OBVIOUS
  <2>3. Disown(j, a.closes \cup a.opens) = [call[j] EXCEPT !.own = x]
    BY <2>2 DEF Disown
  <2>4. call'[j] = [[call[j] EXCEPT !.own = x] EXCEPT !.copy = y]
    BY <2>1, <2>2, <2>3
  <2> QED BY <2>4, SlotRests
<1> QED BY <1>2, <1>3

\* A call that rests is under way as before, and has as much applied.
LEMMA RestsOn ==
    ASSUME NEW j, Rests(j)
    PROVE  /\ Begun(j)' <=> Begun(j)
           /\ j \in UnderWay' <=> j \in UnderWay
BY DEF Rests, Begun, UnderWay

\* What is owed stays owed while the calls go on.
LEMMA OwedGrows ==
    ASSUME page' = page,
           \A j \in UnderWay : j \in UnderWay' /\ call'[j].c = call[j].c /\ (Begun(j) => Begun(j)'),
           NEW n
    PROVE  Owed(n) \subseteq Owed(n)'
<1> SUFFICES ASSUME NEW w \in Owed(n) PROVE w \in Owed(n)'
  OBVIOUS
<1>1. PICK j \in UnderWay : Begun(j) /\ w \in (UNION Range(OpAt(page, call[j].c).calls)) \cap ViewAt(page, n).reads
  BY DEF Owed
<1>2. j \in UnderWay' /\ Begun(j)' /\ w \in (UNION Range(OpAt(page, call'[j].c).calls)) \cap ViewAt(page, n).reads
  BY <1>1
<1>3. OpAt(page, call'[j].c) = OpAt(page, call[j].c)' /\ ViewAt(page, n)' = ViewAt(page, n)
  BY DEF OpAt, At, ViewAt
<1> QED BY <1>2, <1>3 DEF Owed

\* The calls go on when all rest.
LEMMA RestsOwe ==
    ASSUME page' = page, \A j \in UnderWay : Rests(j), NEW n
    PROVE  Owed(n) \subseteq Owed(n)'
<1>1. \A j \in UnderWay : j \in UnderWay' /\ call'[j].c = call[j].c /\ (Begun(j) => Begun(j)')
  BY RestsOn DEF Rests
<1> QED BY <1>1, OwedGrows

\* With a call ends what it owed.
LEMMA EndOwes ==
    ASSUME page' = page, NEW i \in UnderWay, \A j \in UnderWay \ {i} : Rests(j), NEW n
    PROVE  /\ Owed(n) \subseteq Owed(n)' \cup UNION Range(OpAt(page, call[i].c).calls)
           /\ ~ Begun(i) \/ ~ Touches(page, call[i].c, n) => Owed(n) \subseteq Owed(n)'
<1>1. ASSUME NEW w \in Owed(n), w \notin Owed(n)'
      PROVE  Begun(i) /\ w \in (UNION Range(OpAt(page, call[i].c).calls)) \cap ViewAt(page, n).reads
  <2>1. PICK j \in UnderWay : Begun(j) /\ w \in (UNION Range(OpAt(page, call[j].c).calls)) \cap ViewAt(page, n).reads
    BY DEF Owed
  <2>2. j # i => w \in Owed(n)'
    <3> SUFFICES ASSUME j # i PROVE w \in Owed(n)'
      OBVIOUS
    <3>1. Rests(j)
      OBVIOUS
    <3>2. j \in UnderWay' /\ Begun(j)' /\ call'[j].c = call[j].c
      BY <2>1, <3>1, RestsOn DEF Rests
    <3>3. OpAt(page, call[j].c)' = OpAt(page, call[j].c) /\ ViewAt(page, n)' = ViewAt(page, n)
      BY <3>2 DEF OpAt, At, ViewAt
    <3> QED BY <2>1, <3>2, <3>3 DEF Owed
  <2> QED BY <1>1, <2>1, <2>2
<1> QED BY <1>1 DEF Touches

\* A call that changes what a followed view reports is one for the history.
LEMMA Concerns ==
    ASSUME ViewsOK, NEW n \in DOMAIN view, NEW c, Touches(page, c, n)
    PROVE  c \in Concerning(c)
<1>1. ViewOf(n) = ViewAt(page, n)
  BY ViewIs
<1>2. ControlOf(c).op = OpAt(page, c)
  BY DEF ControlOf, P, OpAt, At
<1>3. (UNION Range(ControlOf(c).op.calls)) \cap UNION {ViewOf(x).reads : x \in DOMAIN view} # {}
  BY <1>1, <1>2 DEF Touches
<1> QED BY <1>3 DEF Concerning

\* What the server executes for a call is one of its calls.
LEMMA WritesIts ==
    ASSUME CallsOK, HistoryOK, FreshRule, NEW i \in UnderWay
    PROVE  /\ call[i].c \in Senders(page)
           /\ Writes(i, OpOf(i)) \in Range(OpAt(page, call[i].c).calls)
           /\ Writes(i, OpOf(i)) \subseteq UNION Range(OpAt(page, call[i].c).calls)
<1>1. page \in DOMAIN PageTable /\ call[i].c \in Senders(page)
  BY DEF CallsOK, UnderWay
<1>2. DOMAIN OpAt(page, call[i].c).calls = 1..Len(OpAt(page, call[i].c).calls)
  BY <1>1 DEF FreshRule
<1>3. call[i].step \in 1..Len(OpAt(page, call[i].c).calls)
  BY DEF HistoryOK
<1>4. Writes(i, OpOf(i)) = OpAt(page, call[i].c).calls[call[i].step]
  BY OpIs DEF Writes
<1> QED BY <1>1, <1>2, <1>3, <1>4 DEF Range

\* What excuses a view goes on doing so, but for an earlier fetch that is replaced.
LEMMA StillExcused ==
    ASSUME page' = page, done \subseteq done', failed \subseteq failed',
           faults \in Nat, faults' = faults \/ faults' = faults + 1, NEW n, Excused(n)
    PROVE  Excused(n)' \/ n \in early \ early'
<1>1. ViewOf(n)' = ViewOf(n)
  BY DEF ViewOf, P
<1>2. faults > 0 => faults' > 0
  OBVIOUS
<1> QED BY <1>1, <1>2 DEF Excused

-----------------------------------------------------------------------------
(* The history of the calls. *)

\* The history is kept until the user leaves, and the views with it.
LEMMA HistoryGrows ==
    ASSUME [Next]_vars
    PROVE  /\ faults' = faults \/ faults' = faults + 1
           /\ \/ mounted' = mounted /\ done \subseteq done' /\ failed \subseteq failed'
              \/ DOMAIN view' = {}
<1>1. ASSUME view' = <<>>, faults' = faults \/ faults' = faults + 1
      PROVE  DOMAIN view' = {} /\ (faults' = faults \/ faults' = faults + 1)
  BY <1>1
<1>2. CASE UNCHANGED vars
  BY <1>2 DEF vars
<1>3. ASSUME NEW n \in DOMAIN view, NEW k, Receive(ViewOf(n), k)
      PROVE  mounted' = mounted /\ faults' = faults /\ done' = done /\ failed' = failed
  BY <1>3 DEF Receive, bounds
<1>4. ASSUME NEW n \in DOMAIN view, NEW k, FetchFails(ViewOf(n), k)
      PROVE  mounted' = mounted /\ faults' = faults + 1 /\ done' = done /\ failed' = failed
  BY <1>4 DEF FetchFails, ui, history
<1>5. ASSUME NEW n \in DOMAIN view, Refetch(ViewOf(n))
      PROVE  mounted' = mounted /\ faults' = faults /\ done' = done /\ failed' = failed
  BY <1>5 DEF Refetch, ui, bounds
<1>6. ASSUME NEW m \in DOMAIN P.controls, Click(ControlOf(m))
      PROVE  /\ faults' = faults
             /\ view' = <<>> \/ (mounted' = mounted /\ done' = done /\ failed' = failed)
  BY <1>6 DEF Click, Unmount
<1>7. CASE Leave
  BY <1>1, <1>7 DEF Leave, Unmount, bounds
<1>8. ASSUME NEW i \in UnderWay, Apply(i, OpOf(i))
      PROVE  mounted' = mounted /\ faults' = faults /\ done \subseteq done' /\ failed' = failed
  BY <1>8 DEF Apply, ui, bounds
<1>9. ASSUME NEW i \in UnderWay, NextCall(i, OpOf(i))
      PROVE  mounted' = mounted /\ faults' = faults /\ done' = done /\ failed' = failed
  BY <1>9 DEF NextCall, bounds
<1>10. ASSUME NEW i \in UnderWay, Succeed(i, OpOf(i))
       PROVE  /\ faults' = faults
              /\ view' = <<>> \/ (mounted' = mounted /\ done' = done /\ failed' = failed)
  BY <1>10 DEF Succeed, Unmount, bounds
<1>11. ASSUME NEW i \in UnderWay, Fail(i, OpOf(i))
       PROVE  mounted' = mounted /\ faults' = faults + 1 /\ done' = done /\ failed \subseteq failed'
  BY <1>11 DEF Fail
<1>12. ASSUME NEW l \in later, Land(l)
       PROVE  mounted' = mounted /\ faults' = faults /\ done \subseteq done' /\ failed' = failed
  BY <1>12 DEF Land, ui, bounds
<1>13. ASSUME NEW v, NEW k, FetchFlees(v, k)
       PROVE  view' = <<>> /\ faults' = faults + 1
  BY <1>13, FleeLeaves
<1>14. ASSUME NEW n, StrayFails(n)
       PROVE  mounted' = mounted /\ faults' = faults + 1 /\ done' = done /\ failed' = failed
  BY <1>14, StrayStays
<1> HIDE DEF Next
<1>15. \/ \E n \in DOMAIN view : \E k \in 1..Len(view[n].fl) : Receive(ViewOf(n), k)
       \/ \E n \in DOMAIN view : \E k \in 1..Len(view[n].fl) : FetchFails(ViewOf(n), k)
       \/ \E n \in DOMAIN view : \E k \in 1..Len(view[n].fl) : FetchFlees(ViewOf(n), k)
       \/ \E n \in stray : StrayFails(n)
       \/ \E n \in DOMAIN view : Refetch(ViewOf(n))
       \/ \E n \in DOMAIN P.controls : Click(ControlOf(n))
       \/ Leave
       \/ \E i \in UnderWay : Apply(i, OpOf(i))
       \/ \E i \in UnderWay : NextCall(i, OpOf(i))
       \/ \E i \in UnderWay : Succeed(i, OpOf(i))
       \/ \E i \in UnderWay : Fail(i, OpOf(i))
       \/ \E l \in later : Land(l)
       \/ UNCHANGED vars
  BY DEF Next
<1> QED
  BY <1>1, <1>2, <1>3, <1>4, <1>5, <1>6, <1>7, <1>8, <1>9, <1>10, <1>11, <1>12, <1>13,
     <1>14, <1>15

\* What HistoryOK says of the call in slot i, and of an effect to come.
Counted(i) ==
    /\ call[i].step \in 1..Len(OpAt(page, call[i].c).calls)
    /\ Begun(i) => \A n \in DOMAIN view : Touches(page, call[i].c, n) => call[i].c \in done

Awaited(l) ==
    /\ l.c \in Senders(page)
    /\ l.ws \in Range(OpAt(page, l.c).calls)
    /\ OpAt(page, l.c).via = "accept" \/ \A n \in DOMAIN view : Touches(page, l.c, n) => l.c \in failed

\* A call that rests stays counted.
LEMMA RestCounted ==
    ASSUME page' = page, DOMAIN view' \subseteq DOMAIN view, done \subseteq done' \/ DOMAIN view' = {},
           NEW i, Rests(i), Counted(i)
    PROVE  Counted(i)'
<1>1. call'[i].c = call[i].c /\ call'[i].step = call[i].step /\ (Begun(i)' <=> Begun(i))
  BY RestsOn DEF Rests
<1>2. OpAt(page, call[i].c)' = OpAt(page, call[i].c)
  BY <1>1 DEF OpAt, At
<1>3. \A n : Touches(page, call[i].c, n)' <=> Touches(page, call[i].c, n)
  BY <1>1, <1>2 DEF Touches, ViewAt
<1> QED BY <1>1, <1>2, <1>3 DEF Counted

\* The calls under way stay counted.
LEMMA CountedStep ==
    ASSUME FreshRule, CallsOK, ViewsOK, HistoryOK, [Next]_vars
    PROVE  \A i \in UnderWay' : Counted(i)'
<1>1. page' = page /\ DOMAIN view' \subseteq DOMAIN view
  BY NextViews DEF ViewsMove
<1>2. done \subseteq done' \/ DOMAIN view' = {}
  BY HistoryGrows
<1>3. \A i \in UnderWay : Counted(i) /\ i \in Slots
  BY DEF HistoryOK, Counted, UnderWay
<1>4. ASSUME NEW i \in Slots, Rests(i), i \in UnderWay' PROVE Counted(i)'
  <2>1. i \in UnderWay /\ Counted(i)
    BY <1>3, <1>4, RestsOn
  <2> QED BY <1>1, <1>2, <1>4, <2>1, RestCounted
<1>5. \A i \in UnderWay' : i \in Slots
  BY DEF UnderWay
<1>6. ASSUME call' = call PROVE \A i \in Slots : Rests(i)
  BY <1>6 DEF Rests
<1>7. ASSUME \A i \in Slots : Rests(i) PROVE \A i \in UnderWay' : Counted(i)'
  BY <1>4, <1>5, <1>7
<1>8. ASSUME NEW i \in UnderWay, Apply(i, OpOf(i)) PROVE \A j \in UnderWay' : Counted(j)'
  <2>1. /\ call'[i].c = call[i].c /\ call'[i].step = call[i].step
        /\ \A j \in Slots \ {i} : Rests(j)
    BY <1>8, ApplyCalls
  <2>2. Counted(i)'
    <3>1. done' = done \cup Concerning(call[i].c)
      BY <1>8 DEF Apply
    <3>2. \A n \in DOMAIN view' : Touches(page, call[i].c, n) => call[i].c \in done'
      BY <1>1, <3>1, Concerns
    <3>3. Counted(i) /\ OpAt(page, call[i].c)' = OpAt(page, call[i].c)
      BY <1>1, <1>3, <2>1 DEF OpAt, At
    <3>4. \A n : Touches(page, call[i].c, n)' <=> Touches(page, call[i].c, n)
      BY <1>1, <3>3 DEF Touches, ViewAt
    <3> QED BY <2>1, <3>2, <3>3, <3>4 DEF Counted
  <2> QED BY <1>4, <1>5, <2>1, <2>2
<1>9. ASSUME NEW i \in UnderWay, NextCall(i, OpOf(i)) PROVE \A j \in UnderWay' : Counted(j)'
  <2>1. /\ call'[i].c = call[i].c /\ call'[i].step = call[i].step + 1
        /\ \A j \in Slots \ {i} : Rests(j)
    BY <1>9, NextCalls
  <2>2. Counted(i)'
    <3>1. call[i].ph = "applied" /\ call[i].step < Len(OpAt(page, call[i].c).calls)
      BY <1>9, OpIs DEF NextCall
    <3>2. Begun(i) /\ Counted(i)
      BY <1>3, <3>1 DEF Begun
    <3>3. OpAt(page, call[i].c)' = OpAt(page, call[i].c)
      BY <1>1, <2>1 DEF OpAt, At
    <3>4. \A n : Touches(page, call[i].c, n)' <=> Touches(page, call[i].c, n)
      BY <1>1, <3>3 DEF Touches, ViewAt
    <3>5. call[i].step + 1 \in 1..Len(OpAt(page, call[i].c).calls)
      <4>1. call[i].c \in Senders(page) /\ page \in DOMAIN PageTable
        BY DEF CallsOK, UnderWay
      <4>2. Len(OpAt(page, call[i].c).calls) \in Nat
        BY <4>1 DEF FreshRule
      <4> QED BY <3>1, <3>2, <4>2 DEF Counted
    <3> QED BY <1>1, <1>2, <2>1, <3>2, <3>3, <3>4, <3>5 DEF Counted
  <2> QED BY <1>4, <1>5, <2>1, <2>2
<1>10. ASSUME NEW i \in UnderWay, Succeed(i, OpOf(i)) \/ Fail(i, OpOf(i)) PROVE \A j \in UnderWay' : Counted(j)'
  <2>1. PICK gone : call' = [j \in Slots |-> IF j = i THEN Idle ELSE Disown(j, gone)]
    BY <1>10 DEF Succeed, Fail
  <2>2. UnderWay' = UnderWay \ {i} /\ \A j \in Slots \ {i} : Rests(j)
    BY <2>1, EndCalls
  <2> QED BY <1>4, <1>5, <2>2
<1>11. ASSUME NEW m \in DOMAIN P.controls, Click(ControlOf(m)) PROVE \A j \in UnderWay' : Counted(j)'
  <2>1. CASE \A j \in Slots : Rests(j)
    BY <1>7, <2>1
  <2>2. ASSUME NEW s \in Slots \ UnderWay,
               m \in Senders(page),
               call'[s].c = m, call'[s].step = 1, call'[s].ph = "sent",
               \A j \in Slots \ {s} : Rests(j)
        PROVE  \A j \in UnderWay' : Counted(j)'
    <3>1. ~ Begun(s)'
      BY <2>2 DEF Begun
    <3>2. Len(OpAt(page, m).calls) \in Nat \ {0}
      BY <2>2 DEF FreshRule, CallsOK
    <3>3. OpAt(page, m)' = OpAt(page, m)
      BY <1>1 DEF OpAt, At
    <3>4. call'[s].step \in 1..Len(OpAt(page, m).calls)
      BY <2>2, <3>2
    <3>5. Counted(s)'
      BY <1>1, <2>2, <3>1, <3>4 DEF Counted, OpAt, At
    <3> QED BY <1>4, <1>5, <2>2, <3>5
  <2> QED BY <1>11, <2>1, <2>2, ClickCalls
<1>12. CASE Leave
  BY <1>6, <1>7, <1>12 DEF Leave
<1>13. ASSUME NEW n \in DOMAIN view, NEW k, Receive(ViewOf(n), k) \/ FetchFails(ViewOf(n), k) \/ Refetch(ViewOf(n))
       PROVE  \A j \in UnderWay' : Counted(j)'
  BY <1>6, <1>7, <1>13 DEF Receive, FetchFails, Refetch
<1>14. ASSUME NEW l \in later, Land(l) PROVE \A j \in UnderWay' : Counted(j)'
  BY <1>7, <1>14, LandCalls
<1>15. CASE UNCHANGED vars
  BY <1>6, <1>7, <1>15 DEF vars
<1>16. ASSUME NEW v, NEW k, FetchFlees(v, k) PROVE \A j \in UnderWay' : Counted(j)'
  BY <1>6, <1>7, <1>16, FleeLeaves
<1>17. ASSUME NEW n, StrayFails(n) PROVE \A j \in UnderWay' : Counted(j)'
  BY <1>6, <1>7, <1>17, StrayStays
<1> QED BY <1>8, <1>9, <1>10, <1>11, <1>12, <1>13, <1>14, <1>15, <1>16, <1>17 DEF Next

\* So do the effects to come: a new one is one of the call's, which is answered before it
\* is executed or has failed.
LEMMA AwaitedStep ==
    ASSUME FreshRule, CallsOK, ViewsOK, HistoryOK, [Next]_vars
    PROVE  \A l \in later' : Awaited(l)'
<1>1. page' = page /\ DOMAIN view' \subseteq DOMAIN view
  BY NextViews DEF ViewsMove
<1>2. failed \subseteq failed' \/ DOMAIN view' = {}
  BY HistoryGrows
<1>3. \A l \in later : Awaited(l)
  BY DEF HistoryOK, Awaited
<1>4. ASSUME NEW l, Awaited(l) PROVE Awaited(l)'
  <2>1. OpAt(page, l.c)' = OpAt(page, l.c) /\ Senders(page)' = Senders(page)
    BY <1>1 DEF OpAt, At, Senders
  <2>2. \A n : Touches(page, l.c, n)' <=> Touches(page, l.c, n)
    BY <1>1, <2>1 DEF Touches, ViewAt
  <2> QED BY <1>1, <1>2, <1>4, <2>1, <2>2 DEF Awaited
<1>5. later' \subseteq later => \A l \in later' : Awaited(l)'
  BY <1>3, <1>4
<1>6. ASSUME NEW i \in UnderWay, NEW l, l = [c |-> call[i].c, ws |-> Writes(i, OpOf(i))],
             \/ Via(i, OpOf(i)) = "accept"
             \/ failed' = failed \cup Concerning(call[i].c)
      PROVE  Awaited(l)'
  <2>1. l.c = call[i].c /\ l.ws = Writes(i, OpOf(i))
    BY <1>6
  <2>2. l.c \in Senders(page) /\ l.ws \in Range(OpAt(page, l.c).calls)
    BY <2>1, WritesIts
  <2>3. Via(i, OpOf(i)) = "accept" => OpAt(page, l.c).via = "accept"
    BY <2>1, OpIs DEF Via
  <2>4. failed' = failed \cup Concerning(call[i].c) => \A n \in DOMAIN view' : Touches(page, l.c, n) => l.c \in failed'
    BY <1>1, <2>1, Concerns
  <2>5. OpAt(page, l.c)' = OpAt(page, l.c) /\ Senders(page)' = Senders(page)
    BY <1>1 DEF OpAt, At, Senders
  <2>6. \A n : Touches(page, l.c, n)' <=> Touches(page, l.c, n)
    BY <1>1, <2>5 DEF Touches, ViewAt
  <2> QED BY <1>6, <2>2, <2>3, <2>4, <2>5, <2>6 DEF Awaited
<1>7. ASSUME NEW i \in UnderWay, Succeed(i, OpOf(i)) PROVE \A l \in later' : Awaited(l)'
  <2>1. \/ later' = later
        \/ /\ Via(i, OpOf(i)) = "accept"
           /\ later' = later \cup {[c |-> call[i].c, ws |-> Writes(i, OpOf(i))]}
    BY <1>7 DEF Succeed
  <2> QED BY <1>3, <1>4, <1>5, <1>6, <2>1
<1>8. ASSUME NEW i \in UnderWay, Fail(i, OpOf(i)) PROVE \A l \in later' : Awaited(l)'
  <2>1. /\ failed' = failed \cup Concerning(call[i].c)
        /\ \/ later' = later
           \/ later' = later \cup {[c |-> call[i].c, ws |-> Writes(i, OpOf(i))]}
    BY <1>8 DEF Fail
  <2> QED BY <1>3, <1>4, <1>5, <1>6, <2>1
<1>9. \/ Leave
      \/ \E n \in DOMAIN view : \E k \in 1..Len(view[n].fl) : Receive(ViewOf(n), k)
      \/ \E n \in DOMAIN view : \E k \in 1..Len(view[n].fl) : FetchFails(ViewOf(n), k)
      \/ \E n \in DOMAIN view : \E k \in 1..Len(view[n].fl) : FetchFlees(ViewOf(n), k)
      \/ \E n \in stray : StrayFails(n)
      \/ \E n \in DOMAIN view : Refetch(ViewOf(n))
      \/ \E n \in DOMAIN P.controls : Click(ControlOf(n))
      \/ \E i \in UnderWay : Apply(i, OpOf(i))
      \/ \E i \in UnderWay : NextCall(i, OpOf(i))
      \/ \E l \in later : Land(l)
      \/ UNCHANGED vars
      => later' \subseteq later
  BY FleeLeaves, StrayStays DEF Leave, Receive, FetchFails, Refetch, Click, Apply, NextCall, Land, vars
<1> QED BY <1>5, <1>7, <1>8, <1>9 DEF Next

\* The history is right after every step.
LEMMA HistoryStep ==
    ASSUME FreshRule, CallsOK, ViewsOK, HistoryOK, [Next]_vars
    PROVE  HistoryOK'
<1>1. page' = page /\ DOMAIN view' \subseteq DOMAIN view
  BY NextViews DEF ViewsMove
<1>2. faults' \in Nat
  BY HistoryGrows DEF HistoryOK
<1>3. mounted' \/ DOMAIN view' = {}
  BY <1>1, HistoryGrows DEF HistoryOK
<1>4. ASSUME NEW n \in early', n \in DOMAIN view' PROVE ViewOf(n)'.cached \/ ViewOf(n)'.joins
  <2>1. ViewOf(n)' = ViewOf(n) /\ n \in DOMAIN view
    BY <1>1, <1>4 DEF ViewOf, P
  <2>2. n \in early => ViewOf(n).cached \/ ViewOf(n).joins
    BY <2>1 DEF HistoryOK
  <2>3. ASSUME NEW i \in UnderWay, Succeed(i, OpOf(i)), n \notin early
        PROVE  ViewOf(n).cached \/ ViewOf(n).joins
    <3>1. Outrun(OpOf(i), ViewOf(n), Mine(i, OpOf(i)))
      BY <1>4, <2>3 DEF Succeed, Unmount
    <3> QED BY <3>1 DEF Outrun, Joined
  <2>4. \/ Leave
        \/ \E x \in DOMAIN view : \E k \in 1..Len(view[x].fl) : Receive(ViewOf(x), k)
        \/ \E x \in DOMAIN view : \E k \in 1..Len(view[x].fl) : FetchFails(ViewOf(x), k)
        \/ \E x \in DOMAIN view : \E k \in 1..Len(view[x].fl) : FetchFlees(ViewOf(x), k)
        \/ \E x \in stray : StrayFails(x)
        \/ \E x \in DOMAIN view : Refetch(ViewOf(x))
        \/ \E x \in DOMAIN P.controls : Click(ControlOf(x))
        \/ \E i \in UnderWay : Apply(i, OpOf(i))
        \/ \E i \in UnderWay : NextCall(i, OpOf(i))
        \/ \E i \in UnderWay : Fail(i, OpOf(i))
        \/ \E l \in later : Land(l)
        \/ UNCHANGED vars
        => early' \subseteq early
    BY FleeLeaves, StrayStays
    DEF Leave, Unmount, Receive, FetchFails, Refetch, Click, Apply, NextCall, Fail, Land, history, vars
  <2> QED BY <1>4, <2>1, <2>2, <2>3, <2>4 DEF Next
<1> QED BY <1>2, <1>3, <1>4, CountedStep, AwaitedStep DEF HistoryOK, Counted, Awaited

-----------------------------------------------------------------------------
(* Views and the calls that they are told of. *)

\* What the invariants say of view n alone.
Lacking(n) ==
    /\ Ordered(view[n])
    /\ Alone(page, n) => Single(view[n])
    /\ LoadedOnce(page, n) => Once(view[n])
    /\ ~ Touched(page, n) => Clean(view[n]) \/ (ViewOf(n).swallow /\ faults > 0)
    /\ Touched(page, n) /\ ~ ViewOf(n).poll => Excused(n) \/ Current(view[n], Owed(n), <<page, n>>)

\* No call under way is disturbed by a fetch of view n.
Calm(n) == \A i \in UnderWay : Undisturbed(page, call[i].c, n) => view[n].fl = <<>>

\* The invariants of a page.
Known ==
    /\ CallsOK /\ ViewsOK /\ Locked /\ ChoiceOK
    /\ HistoryOK /\ FlightsOK /\ CleanOK /\ FreshOK

\* They say it of every followed view.
LEMMA KnownOf ==
    ASSUME FlightsOK, CleanOK, FreshOK, NEW n \in DOMAIN view
    PROVE  Lacking(n) /\ Calm(n)
<1>1. Ordered(view[n])
  BY DEF FlightsOK, Ordered
<1>2. Alone(page, n) => Single(view[n])
  BY DEF FlightsOK, Single
<1>3. LoadedOnce(page, n) => Once(view[n])
  BY DEF FlightsOK, Once
<1>4. Calm(n)
  BY DEF FlightsOK, Calm
<1>5. ~ Touched(page, n) => Clean(view[n]) \/ (ViewOf(n).swallow /\ faults > 0)
  BY DEF CleanOK, Clean
<1>6. Touched(page, n) /\ ~ ViewOf(n).poll => Excused(n) \/ Current(view[n], Owed(n), <<page, n>>)
  BY DEF FreshOK, Current
<1> QED BY <1>1, <1>2, <1>3, <1>4, <1>5, <1>6 DEF Lacking

\* And are all of it.
LEMMA OfKnown ==
    (\A n \in DOMAIN view : Lacking(n) /\ Calm(n)) => FlightsOK /\ CleanOK /\ FreshOK
<1> SUFFICES ASSUME \A n \in DOMAIN view : Lacking(n) /\ Calm(n)
             PROVE  FlightsOK /\ CleanOK /\ FreshOK
  OBVIOUS
<1>1. FlightsOK
  BY DEF Lacking, Calm, FlightsOK, Ordered, Single, Once
<1>2. CleanOK
  BY DEF Lacking, CleanOK, Clean
<1>3. FreshOK
  BY DEF Lacking, FreshOK, Current
<1> QED BY <1>1, <1>2, <1>3

\* A step that leaves the user on the page.
Onward ==
    /\ page' = page /\ mounted /\ mounted'
    /\ faults \in Nat /\ (faults' = faults \/ faults' = faults + 1)
    /\ done \subseteq done' /\ failed \subseteq failed'

\* What there is to know of a view that is still followed after a step.
LEMMA Onwards ==
    ASSUME Known, [Next]_vars, NEW n \in DOMAIN view'
    PROVE  /\ Onward /\ n \in DOMAIN view /\ Lacking(n) /\ Calm(n)
           /\ Good(ViewOf(n), view[n]) /\ ViewOf(n).name = n /\ ViewOf(n) = ViewAt(page, n)
           /\ page \in DOMAIN PageTable /\ n \in DOMAIN PageTable[page].views
<1>1. page' = page /\ n \in DOMAIN view
  BY NextViews DEF ViewsMove, Known
<1>2. mounted' = mounted /\ done \subseteq done' /\ failed \subseteq failed' /\ (faults' = faults \/ faults' = faults + 1)
  BY HistoryGrows
<1>3. mounted /\ faults \in Nat
  BY <1>1 DEF Known, HistoryOK
<1>4. Lacking(n) /\ Calm(n)
  BY <1>1, KnownOf DEF Known
<1> QED BY <1>1, <1>2, <1>3, <1>4, ViewIs DEF Onward, Known

\* The rules of a page stay the same.
LEMMA LackingIs ==
    ASSUME Onward, NEW n, Ordered(view'[n]),
           Alone(page, n) => Single(view'[n]),
           LoadedOnce(page, n) => Once(view'[n]),
           ~ Touched(page, n) => Clean(view'[n]) \/ (ViewOf(n).swallow /\ faults' > 0),
           Touched(page, n) /\ ~ ViewOf(n).poll => Excused(n)' \/ Current(view'[n], Owed(n)', <<page, n>>)
    PROVE  Lacking(n)'
<1>1. page' = page
  BY DEF Onward
<1>2. ViewOf(n)' = ViewOf(n)
  BY <1>1 DEF ViewOf, P
<1>3. Ordered(view[n])' /\ Alone(page, n)' = Alone(page, n) /\ (Single(view[n])' <=> Single(view'[n]))
  BY <1>1 DEF Ordered, Single
<1>4. (LoadedOnce(page, n)' <=> LoadedOnce(page, n)) /\ (Once(view[n])' <=> Once(view'[n]))
  BY <1>1 DEF Once
<1>5. (Touched(page, n)' <=> Touched(page, n)) /\ (Clean(view[n])' <=> Clean(view'[n]))
  BY <1>1 DEF Clean
<1>6. Current(view[n], Owed(n), <<page, n>>)' <=> Current(view'[n], Owed(n)', <<page, n>>)
  BY <1>1 DEF Current
<1> QED BY <1>2, <1>3, <1>4, <1>5, <1>6 DEF Lacking

\* A view that a step leaves alone lacks no more than before.
LEMMA LackSame ==
    ASSUME Onward, NEW n, Lacking(n), view'[n] = view[n], Owed(n) \subseteq Owed(n)', n \notin early \ early'
    PROVE  Lacking(n)'
<1>1. Excused(n) => Excused(n)'
  BY StillExcused DEF Onward
<1>2. Current(view[n], Owed(n), <<page, n>>) => Current(view'[n], Owed(n)', <<page, n>>)
  BY MoreOwed
<1>3. faults > 0 => faults' > 0
  BY DEF Onward
<1>4. Touched(page, n) /\ ~ ViewOf(n).poll => Excused(n)' \/ Current(view'[n], Owed(n)', <<page, n>>)
  BY <1>1, <1>2 DEF Lacking
<1> QED BY <1>3, <1>4, LackingIs DEF Lacking

\* Nor does one that is asked for again.
LEMMA LackAnew ==
    ASSUME Onward, NEW n, Lacking(n), Renewed(view[n], view'[n]),
           Alone(page, n) => Single(view'[n]), ~ LoadedOnce(page, n)
    PROVE  Lacking(n)'
<1>1. Ordered(view'[n]) /\ (Clean(view[n]) => Clean(view'[n]))
  BY DEF Lacking, Renewed
<1>2. Current(view'[n], Owed(n)', <<page, n>>)
  BY AnewCurrent DEF Renewed
<1>3. faults > 0 => faults' > 0
  BY DEF Onward
<1>4. ~ Touched(page, n) => Clean(view'[n]) \/ (ViewOf(n).swallow /\ faults' > 0)
  BY <1>1, <1>3 DEF Lacking
<1> QED BY <1>1, <1>2, <1>4, LackingIs

\* A step that leaves the calls, the history and view n alone.
LEMMA LackIdle ==
    ASSUME Onward, NEW n, Lacking(n), view'[n] = view[n], call' = call, n \notin early \ early'
    PROVE  Lacking(n)'
<1>1. \A j \in UnderWay : Rests(j)
  BY DEF Rests
<1>2. Owed(n) \subseteq Owed(n)'
  BY <1>1, RestsOwe DEF Onward
<1> QED BY <1>2, LackSame

\* Answers of fetches.
LEMMA LackReceive ==
    ASSUME FreshRule, Known, [Next]_vars, NEW n \in DOMAIN view',
           NEW m \in DOMAIN view, NEW k, Receive(ViewOf(m), k)
    PROVE  Lacking(n)'
<1>1. /\ Onward /\ n \in DOMAIN view /\ Lacking(n) /\ Good(ViewOf(n), view[n])
      /\ ViewOf(n) = ViewAt(page, n) /\ page \in DOMAIN PageTable /\ n \in DOMAIN PageTable[page].views
  BY Onwards
<1>2. ViewOf(m).name = m
  BY ViewIs DEF Known
<1> DEFINE s == view[m]
<1>3. /\ call' = call /\ early' = early /\ done' = done /\ failed' = failed
      /\ k \in DOMAIN s.fl
      /\ \E lacks \in SUBSET s.fl[k].since :
            view' = [view EXCEPT ![m] =
                       [data |-> TRUE, miss |-> lacks, wrong |-> s.fl[k].old,
                        late |-> s.fl[k].passed /\ lacks # {}, err |-> FALSE, fl |-> After(s.fl, k)]]
  BY <1>2 DEF Receive
<1>4. CASE n # m
  <2>1. view'[n] = view[n]
    BY <1>1, <1>3, <1>4
  <2> QED BY <1>1, <1>3, <2>1, LackIdle
<1>5. CASE n = m
  <2>1. PICK lacks \in SUBSET s.fl[k].since :
            view' = [view EXCEPT ![m] =
                       [data |-> TRUE, miss |-> lacks, wrong |-> s.fl[k].old,
                        late |-> s.fl[k].passed /\ lacks # {}, err |-> FALSE, fl |-> After(s.fl, k)]]
    BY <1>3
  <2>2. PICK t : t = view'[n]
    OBVIOUS
  <2>3. t = [data |-> TRUE, miss |-> lacks, wrong |-> s.fl[k].old,
             late |-> s.fl[k].passed /\ lacks # {}, err |-> FALSE, fl |-> After(s.fl, k)]
    BY <1>5, <2>1, <2>2 DEF Known, ViewsOK
  <2>4. t.fl = After(s.fl, k) /\ t.miss = lacks /\ t.late = (s.fl[k].passed /\ lacks # {})
    BY <2>3
  <2>5. /\ Ordered(s) => Ordered(t)
        /\ Single(s) => Single(t)
        /\ Once(s) => Once(t)
    <3>1. Good(ViewOf(n), s) /\ k \in DOMAIN s.fl
      BY <1>1, <1>3, <1>5
    <3> HIDE DEF s
    <3> QED BY <2>4, <3>1, EndedLacks
  <2>6. /\ Clean(s) => Clean(t)
        /\ \A owed, who : Current(s, owed, who) /\ (who \in Racers \/ Single(s)) => Current(t, owed, who)
    <3>1. Good(ViewOf(n), s) /\ k \in DOMAIN s.fl /\ lacks \subseteq s.fl[k].since
      BY <1>1, <1>3, <1>5, <2>1
    <3> HIDE DEF s
    <3> QED BY <2>4, <3>1, ReceivedLacks
  <2>7. Owed(n) \subseteq Owed(n)'
    <3>1. \A j \in UnderWay : Rests(j)
      BY <1>3 DEF Rests
    <3> QED BY <1>1, <3>1, RestsOwe DEF Onward
  <2>8. ASSUME Touched(page, n), ~ ViewOf(n).poll PROVE Excused(n)' \/ Current(t, Owed(n)', <<page, n>>)
    <3>1. <<page, n>> \in Racers \/ Single(s)
      BY <1>1, <1>5, <2>8 DEF FreshRule, Lacking
    <3>2. Excused(n) => Excused(n)'
      BY <1>1, <1>3, StillExcused DEF Onward
    <3>3. Current(s, Owed(n), <<page, n>>) => Current(t, Owed(n), <<page, n>>)
      BY <2>6, <3>1
    <3>4. Current(t, Owed(n), <<page, n>>) => Current(t, Owed(n)', <<page, n>>)
      BY <2>7, MoreOwed
    <3> QED BY <1>1, <1>5, <2>8, <3>2, <3>3, <3>4 DEF Lacking
  <2>9. faults > 0 => faults' > 0
    BY <1>1 DEF Onward
  <2> QED BY <1>1, <1>5, <2>2, <2>5, <2>6, <2>8, <2>9, LackingIs DEF Lacking
<1> QED BY <1>4, <1>5

\* Failures of fetches: an error is shown, or an empty answer, which excuses.
LEMMA LackFails ==
    ASSUME FreshRule, Known, [Next]_vars, NEW n \in DOMAIN view',
           NEW m \in DOMAIN view, NEW k, FetchFails(ViewOf(m), k)
    PROVE  Lacking(n)'
<1>1. Onward /\ n \in DOMAIN view /\ Lacking(n) /\ Good(ViewOf(n), view[n])
  BY Onwards
<1>2. ViewOf(m).name = m
  BY ViewIs DEF Known
<1> DEFINE s == view[m]
           v == ViewOf(m)
<1>3. /\ call' = call /\ early' = early /\ done' = done /\ failed' = failed
      /\ k \in DOMAIN s.fl /\ faults' = faults + 1
      /\ view' = [view EXCEPT ![m] =
                    IF v.swallow
                    THEN [data |-> TRUE, miss |-> v.reads, wrong |-> s.fl[k].old, late |-> FALSE,
                          err |-> FALSE, fl |-> After(s.fl, k)]
                    ELSE [s EXCEPT !.err = TRUE, !.fl = After(s.fl, k)]]
  BY <1>2 DEF FetchFails, history
<1>4. CASE n # m
  <2>1. view'[n] = view[n]
    BY <1>1, <1>3, <1>4
  <2> QED BY <1>1, <1>3, <2>1, LackIdle
<1>5. CASE n = m
  <2>1. PICK t : t = view'[n]
    OBVIOUS
  <2>2. t = IF v.swallow
            THEN [data |-> TRUE, miss |-> v.reads, wrong |-> s.fl[k].old, late |-> FALSE,
                  err |-> FALSE, fl |-> After(s.fl, k)]
            ELSE [s EXCEPT !.err = TRUE, !.fl = After(s.fl, k)]
    BY <1>3, <1>5, <2>1 DEF Known, ViewsOK
  <2>3. t.fl = After(s.fl, k) /\ (~ v.swallow => t.miss = s.miss /\ t.err)
    <3>1. CASE v.swallow
      BY <2>2, <3>1
    <3>2. CASE ~ v.swallow
      <4>1. PICK x, y : x = TRUE /\ y = After(s.fl, k)
        OBVIOUS
      <4>2. t = [s EXCEPT !.err = x, !.fl = y]
        BY <2>2, <3>2, <4>1
      <4>3. s = [data |-> s.data, miss |-> s.miss, wrong |-> s.wrong, late |-> s.late, err |-> s.err, fl |-> s.fl]
        BY <1>1, <1>5 DEF Good
      <4> HIDE DEF s
      <4>4. t = [data |-> s.data, miss |-> s.miss, wrong |-> s.wrong, late |-> s.late, err |-> x, fl |-> y]
        BY <4>2, <4>3, FailedParts
      <4> QED BY <3>2, <4>1, <4>4
    <3> QED BY <3>1, <3>2
  <2>4. Good(ViewOf(n), s) /\ k \in DOMAIN s.fl
    BY <1>1, <1>3, <1>5
  <2>5. /\ Ordered(s) => Ordered(t)
        /\ Single(s) => Single(t)
        /\ Once(s) => Once(t)
    <3> HIDE DEF s, v
    <3> QED BY <2>3, <2>4, EndedLacks
  <2>6. ~ v.swallow =>
          /\ Clean(s) => Clean(t)
          /\ \A owed, who : Current(s, owed, who) => Current(t, owed, who)
    <3> HIDE DEF s, v
    <3> QED BY <2>3, <2>4, FailedLacks
  <2>7. faults' > 0 /\ ViewOf(n)' = ViewOf(n)
    BY <1>1, <1>3 DEF Onward, ViewOf, P
  <2>8. v.swallow => Excused(n)'
    BY <1>5, <2>7 DEF Excused
  <2>9. Owed(n) \subseteq Owed(n)'
    <3>1. \A j \in UnderWay : Rests(j)
      BY <1>3 DEF Rests
    <3> QED BY <1>1, <3>1, RestsOwe DEF Onward
  <2>10. ASSUME Touched(page, n), ~ ViewOf(n).poll PROVE Excused(n)' \/ Current(t, Owed(n)', <<page, n>>)
    <3>1. Excused(n) => Excused(n)'
      BY <1>1, <1>3, StillExcused DEF Onward
    <3>2. Current(t, Owed(n), <<page, n>>) => Current(t, Owed(n)', <<page, n>>)
      BY <2>9, MoreOwed
    <3>3. Excused(n) \/ Current(s, Owed(n), <<page, n>>)
      BY <1>1, <1>5, <2>10 DEF Lacking
    <3> QED BY <2>6, <2>8, <3>1, <3>2, <3>3
  <2>11. ~ Touched(page, n) => Clean(t) \/ (ViewOf(n).swallow /\ faults' > 0)
    <3>1. ~ Touched(page, n) => Clean(s) \/ ViewOf(n).swallow
      BY <1>1, <1>5 DEF Lacking
    <3> QED BY <1>5, <2>6, <2>7, <3>1
  <2> QED BY <1>1, <1>5, <2>1, <2>5, <2>10, <2>11, LackingIs DEF Lacking
<1> QED BY <1>4, <1>5

\* A refetch.
LEMMA LackRefetch ==
    ASSUME FreshRule, Known, [Next]_vars, NEW n \in DOMAIN view',
           NEW m \in DOMAIN view, Refetch(ViewOf(m))
    PROVE  Lacking(n)'
<1>1. /\ Onward /\ n \in DOMAIN view /\ Lacking(n) /\ Good(ViewOf(n), view[n])
      /\ ViewOf(n) = ViewAt(page, n)
  BY Onwards
<1>2. ViewOf(m).name = m
  BY ViewIs DEF Known
<1>3. /\ call' = call /\ early' = early \ {m}
      /\ view' = [view EXCEPT ![m].fl = <<Fetch>>]
      /\ ViewOf(m).poll \/ ViewOf(m).cached
      /\ view[m].fl = <<>>
  BY <1>2 DEF Refetch
<1>4. CASE n # m
  <2>1. view'[n] = view[n]
    BY <1>1, <1>3, <1>4
  <2> QED BY <1>1, <1>3, <1>4, <2>1, LackIdle
<1>5. CASE n = m
  <2>1. PICK t : t = Invalidated(view[n])
    OBVIOUS
  <2>2. view'[n] = t
    BY <1>3, <1>5, <2>1 DEF Invalidated, Known, ViewsOK
  <2>3. Renewed(view[n], t) /\ Single(t)
    BY <1>1, <1>3, <1>5, <2>1, InvalidatedLacks
  <2>4. ~ LoadedOnce(page, n)
    BY <1>1, <1>3, <1>5 DEF LoadedOnce
  <2> QED BY <1>1, <2>2, <2>3, <2>4, LackAnew
<1> QED BY <1>4, <1>5

\* A click: what it asks for again waits for the fetch before, or replaces it.
LEMMA LackClick ==
    ASSUME FreshRule, Known, [Next]_vars, NEW n \in DOMAIN view',
           NEW m \in DOMAIN P.controls, Click(ControlOf(m))
    PROVE  Lacking(n)'
<1> DEFINE c == At(page, m)
           v == ViewOf(n)
           s == view[n]
<1>1. ControlOf(m) = c /\ m \in DOMAIN PageTable[page].controls
  BY DEF ControlOf, At, P
<1>2. /\ Onward /\ n \in DOMAIN view /\ Lacking(n) /\ Good(v, s)
      /\ v.name = n /\ v = ViewAt(page, n)
  BY Onwards
<1>3. ~ c.exit
  <2>1. c.exit => view' = <<>>
    BY <1>1 DEF Click, Unmount
  <2> QED BY <2>1
<1>4. /\ Usable(c, P.inline)
      /\ view' = [x \in DOMAIN view |-> Clicked(c, ViewOf(x), view[x])]
      /\ early' = early \ {x \in c.picks \cup c.again : x \in DOMAIN view /\ view'[x] # view[x]}
  BY <1>1, <1>3 DEF Click
<1>5. PICK t : t = view'[n]
  OBVIOUS
<1>6. t = Clicked(c, v, s)
  BY <1>2, <1>4, <1>5
<1>7. n \in c.off => s.fl = <<>>
  <2>1. n \in c.off => n \notin GoingOn
    BY <1>4 DEF Usable
  <2> QED BY <1>2, <2>1 DEF GoingOn, Loading
<1>8. \A j \in UnderWay : Rests(j)
  <2>1. \A j \in UnderWay : j \in Slots
    BY DEF UnderWay
  <2> QED BY <2>1, ClickCalls DEF Known
<1>9. Owed(n) \subseteq Owed(n)'
  BY <1>2, <1>8, RestsOwe DEF Onward
<1>10. CASE t = s
  <2>1. n \notin early \ early'
    BY <1>4, <1>5, <1>10
  <2> QED BY <1>2, <1>5, <1>9, <1>10, <2>1, LackSame
<1>11. Starts(page, m, n) <=> n \in c.picks \cup c.again
  BY DEF Starts
<1>12. ASSUME Starts(page, m, n), Renewed(s, t),
              v.cached \/ v.cancel \/ s.fl = <<>> => Single(t)
       PROVE  Lacking(n)'
  <2>1. ~ LoadedOnce(page, n)
    BY <1>1, <1>12 DEF LoadedOnce
  <2>2. Alone(page, n) => v.cached \/ v.cancel \/ s.fl = <<>>
    BY <1>1, <1>2, <1>7, <1>12 DEF Alone
  <2> HIDE DEF s, v
  <2>3. Alone(page, n) => Single(t)
    BY <1>12, <2>2
  <2> QED BY <1>2, <1>5, <1>12, <2>1, <2>3, LackAnew DEF s
<1>13. CASE n \in c.picks
  <2>1. t = Rechosen(v, s)
    BY <1>2, <1>6, <1>13 DEF Clicked
  <2>2. Renewed(s, t) /\ (v.cached \/ v.cancel => Single(t))
    BY <1>2, <2>1, RechosenLacks
  <2> QED BY <1>11, <1>12, <1>13, <2>2 DEF Renewed
<1>14. CASE n \notin c.picks /\ n \in c.again /\ v.cached
  <2>1. t = Invalidated(s)
    BY <1>2, <1>6, <1>14 DEF Clicked
  <2>2. t = s \/ (Renewed(s, t) /\ Single(t))
    BY <1>2, <2>1, InvalidatedLacks
  <2> QED BY <1>10, <1>11, <1>12, <1>14, <2>2
<1>15. CASE n \notin c.picks /\ n \in c.again /\ ~ v.cached
  <2>1. t = Reloaded(v, s)
    BY <1>2, <1>6, <1>15 DEF Clicked
  <2>2. t = s \/ (Renewed(s, t) /\ (v.cancel => Single(t)))
    BY <1>2, <2>1, ReloadedLacks
  <2> QED BY <1>10, <1>11, <1>12, <1>15, <2>2 DEF Renewed
<1>16. CASE n \notin c.picks /\ n \notin c.again
  <2>1. t = s
    BY <1>2, <1>6, <1>16 DEF Clicked
  <2> QED BY <1>10, <2>1
<1> QED BY <1>13, <1>14, <1>15, <1>16

\* The server executes a call: what it changes is owed from then on.
LEMMA LackApply ==
    ASSUME FreshRule, Known, [Next]_vars, NEW n \in DOMAIN view',
           NEW i \in UnderWay, Apply(i, OpOf(i))
    PROVE  Lacking(n)'
<1> DEFINE v == ViewOf(n)
           s == view[n]
           ws == Writes(i, OpOf(i))
<1>1. /\ Onward /\ n \in DOMAIN view /\ Lacking(n) /\ Good(v, s) /\ v = ViewAt(page, n)
  BY Onwards
<1>2. PICK t : t = view'[n]
  OBVIOUS
<1>3. /\ t = Written(v, s, ws)
      /\ early' = early /\ failed' = failed /\ done \subseteq done'
  BY <1>1, <1>2 DEF Apply, Touch
<1>4. /\ call[i].c \in Senders(page)
      /\ ws \subseteq UNION Range(OpAt(page, call[i].c).calls)
  BY WritesIts DEF Known
<1>5. /\ call'[i].c = call[i].c /\ call'[i].ph = "applied"
      /\ \A j \in Slots \ {i} : Rests(j)
  BY ApplyCalls DEF Known
<1>6. page' = page
  BY <1>1 DEF Onward
<1>7. /\ i \in UnderWay' /\ Begun(i)'
      /\ \A j \in UnderWay : j \in UnderWay' /\ call'[j].c = call[j].c /\ (Begun(j) => Begun(j)')
  <2>1. i \in UnderWay' /\ Begun(i)'
    BY <1>5 DEF UnderWay, Begun
  <2>2. \A j \in UnderWay : j \in Slots
    BY DEF UnderWay
  <2> QED BY <1>5, <2>1, <2>2, RestsOn DEF Rests
<1>8. Owed(n) \subseteq Owed(n)'
  BY <1>6, <1>7, OwedGrows
<1>9. ws \cap v.reads \subseteq Owed(n)'
  <2>1. OpAt(page, call[i].c)' = OpAt(page, call[i].c) /\ ViewAt(page, n)' = ViewAt(page, n)
    BY <1>5, <1>6 DEF OpAt, At, ViewAt
  <2>2. (UNION Range(OpAt(page, call[i].c).calls)) \cap ViewAt(page, n).reads \subseteq Owed(n)'
    BY <1>7, <2>1 DEF Owed
  <2>3. v.reads = ViewAt(page, n).reads
    BY <1>1
  <2> HIDE DEF v, ws
  <2> QED BY <1>4, <2>2, <2>3
<1> HIDE DEF s, v, ws
<1>10. /\ Ordered(s) => Ordered(t)
       /\ Single(s) => Single(t)
       /\ Once(s) => Once(t)
       /\ ws \cap v.reads = {} => t = s
       /\ \A owed, more, who :
             Current(s, owed, who) /\ owed \subseteq more /\ ws \cap v.reads \subseteq more
                => Current(t, more, who)
  BY <1>1, <1>3, WrittenLacks
<1>11. ~ Touched(page, n) => t = s
  <2>1. v.reads = ViewAt(page, n).reads
    BY <1>1
  <2>2. ~ Touched(page, n) => ~ Touches(page, call[i].c, n)
    BY <1>4 DEF Touched
  <2>3. ~ Touches(page, call[i].c, n) => ws \cap v.reads = {}
    <3>1. PICK u, r : u = UNION Range(OpAt(page, call[i].c).calls) /\ r = ViewAt(page, n).reads
      OBVIOUS
    <3>2. ws \subseteq u /\ v.reads = r
      BY <1>4, <2>1, <3>1
    <3>3. ~ Touches(page, call[i].c, n) => u \cap r = {}
      BY <3>1 DEF Touches
    <3> QED BY <3>2, <3>3
  <2> QED BY <1>10, <2>2, <2>3
<1>12. faults > 0 => faults' > 0
  BY <1>1 DEF Onward
<1>13. Excused(n) => Excused(n)'
  BY <1>1, <1>3, StillExcused DEF Onward
<1>14. Current(s, Owed(n), <<page, n>>) => Current(t, Owed(n)', <<page, n>>)
  BY <1>8, <1>9, <1>10
<1> QED BY <1>1, <1>2, <1>10, <1>11, <1>12, <1>13, <1>14, LackingIs DEF Lacking, s

\* A later effect: the call was answered before it, or has failed.
LEMMA LackLand ==
    ASSUME FreshRule, Known, [Next]_vars, NEW n \in DOMAIN view',
           NEW l \in later, Land(l)
    PROVE  Lacking(n)'
<1> DEFINE v == ViewOf(n)
           s == view[n]
<1>1. /\ Onward /\ n \in DOMAIN view /\ Lacking(n) /\ Good(v, s) /\ v = ViewAt(page, n)
      /\ page \in DOMAIN PageTable /\ n \in DOMAIN PageTable[page].views
  BY Onwards
<1>2. PICK t : t = view'[n]
  OBVIOUS
<1>3. /\ t = Written(v, s, l.ws)
      /\ early' = early /\ failed' = failed /\ done' = done \cup Concerning(l.c)
  BY <1>1, <1>2 DEF Land, Touch
<1>4. /\ l.c \in Senders(page)
      /\ l.ws \subseteq UNION Range(OpAt(page, l.c).calls)
      /\ OpAt(page, l.c).via = "accept" \/ (Touches(page, l.c, n) => l.c \in failed)
  BY <1>1 DEF Known, HistoryOK
<1>5. Owed(n) \subseteq Owed(n)'
  <2>1. \A j \in UnderWay : j \in Slots
    BY DEF UnderWay
  <2> QED BY <1>1, <2>1, LandCalls, RestsOwe DEF Known, Onward
<1>6. ~ Touches(page, l.c, n) => l.ws \cap v.reads = {}
  <2>1. PICK u, r : u = UNION Range(OpAt(page, l.c).calls) /\ r = ViewAt(page, n).reads
    OBVIOUS
  <2>2. l.ws \subseteq u /\ v.reads = r
    BY <1>1, <1>4, <2>1
  <2>3. ~ Touches(page, l.c, n) => u \cap r = {}
    BY <2>1 DEF Touches
  <2> HIDE DEF v
  <2> QED BY <2>2, <2>3
<1> HIDE DEF s, v
<1>7. /\ Ordered(s) => Ordered(t)
      /\ Single(s) => Single(t)
      /\ Once(s) => Once(t)
      /\ l.ws \cap v.reads = {} => t = s
  BY <1>1, <1>3, WrittenLacks
<1>8. CASE ~ Touches(page, l.c, n)
  BY <1>1, <1>2, <1>3, <1>5, <1>6, <1>7, <1>8, LackSame DEF s
<1>9. CASE Touches(page, l.c, n)
  <2>1. Touched(page, n)
    BY <1>4, <1>9 DEF Touched
  <2>2. l.c \in done'
    BY <1>1, <1>3, <1>9, Concerns DEF Known
  <2>3. ASSUME ~ ViewOf(n).poll PROVE Excused(n)'
    <3>1. <<page, l.c, n>> \in Gaps \/ Tells(page, l.c, n)
      BY <1>1, <1>4, <1>9, <2>1, <2>3 DEF FreshRule, v
    <3>2. OpAt(page, l.c).via = "accept" => <<page, l.c, n>> \in Gaps
      BY <3>1 DEF Tells
    <3>3. <<page, l.c, n>> \in Gaps \/ l.c \in failed'
      BY <1>3, <1>4, <1>9, <3>2
    <3>4. page' = page
      BY <1>1 DEF Onward
    <3> QED BY <2>2, <3>3, <3>4 DEF Excused
  <2> QED BY <1>1, <1>2, <1>7, <2>1, <2>3, LackingIs DEF Lacking, s
<1> QED BY <1>8, <1>9

\* A call that fails: if some of it was executed, its end is remembered.
LEMMA LackFail ==
    ASSUME FreshRule, Known, [Next]_vars, NEW n \in DOMAIN view',
           NEW i \in UnderWay, Fail(i, OpOf(i))
    PROVE  Lacking(n)'
<1>1. /\ Onward /\ n \in DOMAIN view /\ Lacking(n)
      /\ page \in DOMAIN PageTable /\ n \in DOMAIN PageTable[page].views
  BY Onwards
<1>2. /\ view' = view /\ early' = early /\ done' = done
      /\ failed' = failed \cup Concerning(call[i].c)
      /\ \E gone : call' = [j \in Slots |-> IF j = i THEN Idle ELSE Disown(j, gone)]
  BY DEF Fail
<1>3. \A j \in UnderWay \ {i} : Rests(j)
  <2>1. \A j \in UnderWay : j \in Slots
    BY DEF UnderWay
  <2> QED BY <1>2, <2>1, EndCalls DEF Known
<1>4. page' = page
  BY <1>1 DEF Onward
<1>5. CASE ~ Begun(i) \/ ~ Touches(page, call[i].c, n)
  <2>1. Owed(n) \subseteq Owed(n)'
    BY <1>3, <1>4, <1>5, EndOwes
  <2> QED BY <1>1, <1>2, <2>1, LackSame
<1>6. CASE Begun(i) /\ Touches(page, call[i].c, n)
  <2>1. call[i].c \in done'
    BY <1>1, <1>2, <1>6 DEF Known, HistoryOK
  <2>2. call[i].c \in failed'
    BY <1>1, <1>2, <1>6, Concerns DEF Known
  <2>3. Excused(n)'
    BY <2>1, <2>2 DEF Excused
  <2>4. faults > 0 => faults' > 0
    BY <1>1 DEF Onward
  <2> QED BY <1>1, <1>2, <2>3, <2>4, LackingIs DEF Lacking
<1> QED BY <1>5, <1>6

\* What the end of a call in slot i refreshes: a new fetch is sent, alone where one is enough.
LEMMA RefreshedHere ==
    ASSUME Known, NEW n \in DOMAIN view, NEW i \in UnderWay, NEW mine \in BOOLEAN,
           NEW r, r = Refreshed(OpOf(i), ViewOf(n), mine)
    PROVE  /\ Good(ViewOf(n), r)
           /\ ~ Asks(OpOf(i), ViewOf(n), mine) => r = view[n]
           /\ Asks(OpOf(i), ViewOf(n), mine) =>
                 (r = view[n] /\ Outrun(OpOf(i), ViewOf(n), mine)) \/ Renewed(view[n], r)
           /\ Alone(page, n) => Single(r)
           /\ LoadedOnce(page, n) => r = view[n]
<1> DEFINE v == ViewOf(n)
           s == view[n]
           op == OpOf(i)
<1>1. Good(v, s) /\ v.name = n /\ v = ViewAt(page, n)
  BY ViewIs DEF Known
<1>2. call[i].c \in Senders(page) /\ op = OpAt(page, call[i].c)
  BY OpIs DEF Known, CallsOK, UnderWay
<1>3. Lacking(n) /\ Calm(n)
  BY KnownOf DEF Known
<1>4. Good(v, view[v.name]) /\ view[v.name] = s
  BY <1>1
<1>5. Alone(page, n) => v.cached \/ v.cancel \/ n \notin op.loads \/ s.fl = <<>> \/ (v.joins /\ NoneOld(s))
  <2> SUFFICES ASSUME Alone(page, n), ~ v.cached, ~ v.cancel, n \in op.loads
               PROVE  s.fl = <<>> \/ (v.joins /\ NoneOld(s))
    OBVIOUS
  <2>1. CASE v.joins
    <3>1. KeepsChoice(page, n)
      BY <1>1 DEF Alone, KeepsChoice, Starts
    <3> QED BY <2>1, <3>1 DEF Known, ChoiceOK, NoneOld
  <2>2. CASE ~ v.joins
    <3>1. Undisturbed(page, call[i].c, n)
      BY <1>1, <1>2, <2>2 DEF Alone
    <3> QED BY <1>3, <3>1 DEF Calm
  <2> QED BY <2>1, <2>2
<1>6. LoadedOnce(page, n) => ~ v.cached /\ n \notin op.loads
  BY <1>1, <1>2 DEF LoadedOnce
<1>7. Alone(page, n) => Single(s)
  BY <1>3 DEF Lacking
<1>8. r = Refreshed(op, v, mine)
  OBVIOUS
<1> HIDE DEF v, op
<1>9. Good(v, r) /\ (~ v.cached /\ n \notin op.loads => r = s)
  BY <1>1, <1>4, <1>8, RefreshedView
<1>10. /\ ~ Asks(op, v, mine) => r = s
       /\ Asks(op, v, mine) => (r = s /\ Outrun(op, v, mine)) \/ Renewed(s, r)
  BY <1>4, <1>8, RefreshedLacks
<1>11. Alone(page, n) => Single(r)
  <2> SUFFICES ASSUME Alone(page, n) PROVE Single(r)
    OBVIOUS
  <2>1. /\ Single(view[v.name])
        /\ \/ v.cached \/ v.cancel \/ v.name \notin op.loads \/ view[v.name].fl = <<>>
           \/ v.joins /\ NoneOld(view[v.name])
    BY <1>1, <1>4, <1>5, <1>7
  <2> QED BY <1>4, <1>8, <2>1, RefreshedAlone
<1> QED BY <1>6, <1>9, <1>10, <1>11 DEF v, op

\* A handler makes its next call: the calls of others rest, and its own was begun.
LEMMA LackNextCall ==
    ASSUME FreshRule, Known, [Next]_vars, NEW n \in DOMAIN view',
           NEW i \in UnderWay, NextCall(i, OpOf(i))
    PROVE  Lacking(n)'
<1>1. Onward /\ n \in DOMAIN view /\ Lacking(n)
  BY Onwards
<1>2. early' = early
  BY DEF NextCall
<1>3. Owed(n) \subseteq Owed(n)'
  <2>1. /\ call'[i].c = call[i].c /\ call'[i].step = call[i].step + 1 /\ call'[i].ph = "sent"
        /\ \A j \in Slots \ {i} : Rests(j)
    BY NextCalls DEF Known
  <2>2. i \in UnderWay' /\ Begun(i)'
    <3>1. call[i].step \in 1..Len(OpAt(page, call[i].c).calls) /\ Len(OpAt(page, call[i].c).calls) \in Nat
      BY DEF Known, HistoryOK, FreshRule, CallsOK, UnderWay
    <3>2. call'[i].step > 1
      BY <2>1, <3>1
    <3> QED BY <2>1, <3>2 DEF UnderWay, Begun
  <2>3. \A j \in UnderWay : j \in Slots
    BY DEF UnderWay
  <2>4. \A j \in UnderWay : j \in UnderWay' /\ call'[j].c = call[j].c /\ (Begun(j) => Begun(j)')
    BY <2>1, <2>2, <2>3, RestsOn DEF Rests
  <2> QED BY <1>1, <2>4, OwedGrows DEF Onward
<1>4. CASE view'[n] = view[n]
  BY <1>1, <1>2, <1>3, <1>4, LackSame
<1>5. CASE view'[n] # view[n]
  <2>1. view' = [x \in DOMAIN view |-> Refreshed(OpOf(i), ViewOf(x), FALSE)]
    BY <1>5 DEF NextCall
  <2>2. PICK mine \in BOOLEAN : mine = FALSE
    OBVIOUS
  <2>3. PICK r : r = view'[n]
    OBVIOUS
  <2>4. r = Refreshed(OpOf(i), ViewOf(n), mine)
    BY <1>1, <2>1, <2>2, <2>3
  <2>5. /\ r = view[n] \/ Renewed(view[n], r)
        /\ Alone(page, n) => Single(r)
        /\ LoadedOnce(page, n) => r = view[n]
    BY <1>1, <2>4, RefreshedHere
  <2> QED BY <1>1, <1>5, <2>3, <2>5, LackAnew
<1> QED BY <1>4, <1>5

\* The last call of a handler succeeds: its end tells what it changed.
LEMMA LackSucceed ==
    ASSUME FreshRule, Known, [Next]_vars, NEW n \in DOMAIN view',
           NEW i \in UnderWay, Succeed(i, OpOf(i))
    PROVE  Lacking(n)'
<1> DEFINE v == ViewOf(n)
           s == view[n]
           op == OpOf(i)
           c == call[i].c
           who == <<page, n>>
<1>1. /\ Onward /\ n \in DOMAIN view /\ Lacking(n) /\ Calm(n) /\ Good(v, s) /\ v.name = n
      /\ v = ViewAt(page, n) /\ page \in DOMAIN PageTable /\ n \in DOMAIN PageTable[page].views
  BY Onwards
<1>2. c \in Senders(page) /\ op = OpAt(page, c)
  BY OpIs DEF Known, CallsOK, UnderWay
<1>3. PICK mine \in BOOLEAN : mine = Mine(i, op)
  BY DEF Mine
<1>4. /\ ~ (mine /\ op.exit)
      /\ view' = [x \in DOMAIN view |-> Answered(op, call[i].copy, x, Refreshed(op, ViewOf(x), Mine(i, op)))]
      /\ early' = (early \ {x \in DOMAIN view : view'[x] # view[x]}) \cup
                  {x \in DOMAIN view : Outrun(op, ViewOf(x), Mine(i, op))}
      /\ done' = done /\ failed' = failed
      /\ call[i].ph = "applied" \/ Via(i, op) = "accept"
  <2>1. view' # <<>>
    OBVIOUS
  <2> QED BY <1>1, <1>3, <2>1 DEF Succeed, Unmount, Onward
<1>5. PICK r : r = Refreshed(op, v, mine)
  OBVIOUS
<1>6. PICK t, copy : t = view'[n] /\ copy = call[i].copy
  OBVIOUS
<1>7. t = Answered(op, copy, n, r)
  BY <1>1, <1>3, <1>4, <1>5, <1>6
<1>8. /\ Good(v, r)
      /\ ~ Asks(op, v, mine) => r = s
      /\ Asks(op, v, mine) => (r = s /\ Outrun(op, v, mine)) \/ Renewed(s, r)
      /\ Alone(page, n) => Single(r)
      /\ LoadedOnce(page, n) => r = s
  BY <1>1, <1>5, RefreshedHere
<1>9. /\ n \notin op.patches \cup op.merges => t = r
      /\ Ordered(r) => Ordered(t)
      /\ t.fl = <<>> <=> r.fl = <<>>
      /\ n \notin op.patches \ op.merges => (Once(r) => Once(t)) /\ (Clean(r) => Clean(t))
      /\ n \in op.merges => /\ t.data = r.data /\ t.late = r.late /\ t.err = r.err
                            /\ t.miss = r.miss \ UNION Range(op.calls)
                            /\ \A k \in DOMAIN t.fl : t.fl[k].passed
  <2>1. Good(v, r) /\ t = Answered(op, copy, n, r)
    BY <1>7, <1>8
  <2> HIDE DEF v, op
  <2> QED BY <2>1, AnsweredLacks
<1>10. /\ \A j \in UnderWay \ {i} : Rests(j)
       /\ i \in UnderWay
  <2>1. call' = [j \in Slots |-> IF j = i THEN Idle ELSE Disown(j, Shuts(i, op))]
    BY DEF Succeed
  <2>2. \A j \in UnderWay : j \in Slots
    BY DEF UnderWay
  <2> QED BY <2>1, <2>2, EndCalls DEF Known
<1>11. /\ Owed(n) \subseteq Owed(n)' \cup UNION Range(op.calls)
       /\ ~ Begun(i) \/ ~ Touches(page, c, n) => Owed(n) \subseteq Owed(n)'
  BY <1>1, <1>2, <1>10, EndOwes DEF Onward
<1>12. /\ n \in early /\ n \notin early' => t # s
       /\ Outrun(op, v, mine) => n \in early'
  BY <1>1, <1>3, <1>4, <1>6
<1>13. n \in early => v.cached \/ v.joins
  BY <1>1 DEF Known, HistoryOK
<1>14. n \in op.patches => /\ Touches(page, c, n) /\ <<page, c, n>> \in Gaps
                           /\ op.via # "accept"
  BY <1>1, <1>2 DEF FreshRule
<1>15. op.via # "accept" => Begun(i)
  BY <1>4 DEF Via, Begun
<1>16. Excused(n) => Excused(n)' \/ n \in early \ early'
  BY <1>1, <1>4, StillExcused DEF Onward
<1>17. Begun(i) /\ Touches(page, c, n) /\ <<page, c, n>> \in Gaps => Excused(n)'
  <2>1. page' = page
    BY <1>1 DEF Onward
  <2>2. Begun(i) /\ Touches(page, c, n) => c \in done'
    BY <1>1, <1>4 DEF Known, HistoryOK
  <2> QED BY <2>1, <2>2 DEF Excused
<1>18. Renewed(s, r) \/ r = s
  BY <1>8
<1> HIDE DEF s, v, op, c
<1>19. Ordered(t)
  BY <1>1, <1>9, <1>18 DEF Lacking, Renewed, s
<1>20. Alone(page, n) => Single(t)
  <2> SUFFICES ASSUME Alone(page, n) PROVE Single(t)
    OBVIOUS
  <2>1. n \notin op.patches /\ (n \in op.merges => n \notin op.loads /\ Undisturbed(page, c, n))
    BY <1>2 DEF Alone
  <2>2. CASE n \in op.merges
    <3>1. ~ v.cached /\ s.fl = <<>>
      BY <1>1, <1>10, <2>1, <2>2 DEF Undisturbed, Calm, c, s
    <3>2. ~ Asks(op, v, mine)
      BY <1>1, <2>1, <2>2, <3>1 DEF Asks, Hit
    <3>3. t.fl = <<>>
      BY <1>8, <1>9, <3>1, <3>2
    <3> QED BY <3>3 DEF Single
  <2>3. CASE n \notin op.merges
    BY <1>8, <1>9, <2>1, <2>3
  <2> QED BY <2>2, <2>3
<1>21. LoadedOnce(page, n) => Once(t)
  <2>1. LoadedOnce(page, n) => n \notin op.patches
    BY <1>2 DEF LoadedOnce
  <2> QED BY <1>1, <1>8, <1>9, <2>1 DEF Lacking, s
<1>22. ~ Touched(page, n) => Clean(t) \/ (v.swallow /\ faults' > 0)
  <2>1. ~ Touched(page, n) => n \notin op.patches
    BY <1>2, <1>14 DEF Touched
  <2>2. Clean(s) => Clean(r)
    BY <1>18 DEF Renewed
  <2>3. faults > 0 => faults' > 0
    BY <1>1 DEF Onward
  <2> QED BY <1>1, <1>9, <2>1, <2>2, <2>3 DEF Lacking, s, v
<1>23. ASSUME Touched(page, n), ~ v.poll, ~ Excused(n)'
       PROVE  Current(t, Owed(n)', who)
  <2>1. n \in op.merges => ~ v.cached /\ ~ v.joins
    BY <1>1, <1>2, <1>23 DEF FreshRule
  <2>2. n \notin op.patches
    BY <1>14, <1>15, <1>17, <1>23
  <2>3. Current(s, Owed(n), who) \/ (n \in early \ early' /\ t # s /\ n \notin op.merges)
    BY <1>1, <1>12, <1>13, <1>16, <1>23, <2>1 DEF Lacking, s, v
  <2>4. Renewed(s, r) => r.fl # <<>> /\ Current(r, Owed(n)', who)
    BY AnewCurrent DEF Renewed, Anew
  <2>5. CASE Renewed(s, r)
    <3>1. n \in op.merges => Current(t, Owed(n)', who)
      BY <1>9, <2>4, <2>5 DEF Current
    <3> QED BY <1>9, <2>2, <2>4, <2>5, <3>1
  <2>6. CASE r = s /\ n \in op.merges
    <3>1. Current(r, Owed(n), who)
      BY <2>3, <2>6
    <3>2. t.fl = <<>> /\ t.data /\ ~ t.err => (t.late /\ who \in Racers) \/ r.miss \subseteq Owed(n)
      BY <1>9, <2>6, <3>1 DEF Current
    <3>3. r.miss \subseteq Owed(n) => t.miss \subseteq Owed(n)'
      BY <1>9, <1>11, <2>6
    <3> QED BY <1>9, <2>6, <3>2, <3>3 DEF Current
  <2>7. CASE r = s /\ n \notin op.merges
    <3>1. t = s /\ Current(s, Owed(n), who)
      BY <1>9, <2>2, <2>3, <2>7
    <3>2. CASE ~ Begun(i) \/ ~ Touches(page, c, n)
      BY <1>11, <3>1, <3>2, MoreOwed
    <3>3. CASE Begun(i) /\ Touches(page, c, n)
      <4>1. Tells(page, c, n)
        BY <1>1, <1>2, <1>17, <1>23, <3>3 DEF FreshRule
      <4>2. Hit(v, op.keys) \/ (Answers(page, c) /\ (op.exit \/ n \in op.loads))
        BY <1>1, <1>2, <2>7, <4>1 DEF Tells
      <4>3. Answers(page, c) => mine
        <5>1. HookLocks(page, c) => call[i].top
          BY <1>10 DEF Known, Locked, c
        <5>2. mounted
          BY <1>1 DEF Onward
        <5> QED BY <1>2, <1>3, <5>1, <5>2 DEF Answers, Mine
      <4>4. Asks(op, v, mine)
        BY <1>1, <1>4, <4>2, <4>3 DEF Asks
      <4>5. Renewed(s, r) \/ n \in early'
        BY <1>8, <1>12, <4>4
      <4> QED BY <1>23, <2>4, <2>7, <3>1, <4>5 DEF Excused
    <3> QED BY <3>2, <3>3
  <2> QED BY <1>18, <2>5, <2>6, <2>7
<1> QED BY <1>1, <1>6, <1>19, <1>20, <1>21, <1>22, <1>23, LackingIs DEF v

-----------------------------------------------------------------------------
(* Calls that a fetch would disturb. *)

\* A view without a fetch under way that neither asks by itself nor is a query gets one only
\* by a click that asks for it, or by the end of a call whose handler loads it.
LEMMA StaysIdle ==
    ASSUME Known, [Next]_vars, NEW n \in DOMAIN view', view[n].fl = <<>>,
           ~ ViewAt(page, n).cached, ~ ViewAt(page, n).poll
    PROVE  \/ view'[n].fl = <<>>
           \/ \E m \in DOMAIN P.controls : Click(ControlOf(m)) /\ Starts(page, m, n)
           \/ \E j \in UnderWay : Succeed(j, OpOf(j)) /\ n \in OpAt(page, call[j].c).loads
<1> DEFINE v == ViewOf(n)
           s == view[n]
<1>1. /\ n \in DOMAIN view /\ Good(v, s) /\ v.name = n /\ v = ViewAt(page, n)
      /\ mounted /\ mounted'
  BY Onwards DEF Onward
<1>2. ~ v.cached /\ ~ v.poll /\ s.fl = <<>>
  BY <1>1
<1>3. ASSUME view'[n] = view[n] PROVE view'[n].fl = <<>>
  BY <1>3
<1>4. ASSUME NEW m \in DOMAIN view, NEW k, Receive(ViewOf(m), k) PROVE view'[n].fl = <<>>
  <2>1. ViewOf(m).name = m
    BY ViewIs DEF Known
  <2>2. k \in DOMAIN view[m].fl /\ \E x : view' = [view EXCEPT ![m] = x]
    BY <1>4, <2>1 DEF Receive
  <2>3. m # n
    BY <2>2
  <2>4. PICK x : view' = [view EXCEPT ![m] = x]
    BY <2>2
  <2>5. view'[n] = view[n]
    BY <1>1, <2>3, <2>4
  <2> QED BY <1>3, <2>5
<1>5. ASSUME NEW m \in DOMAIN view, NEW k, FetchFails(ViewOf(m), k) PROVE view'[n].fl = <<>>
  <2>1. ViewOf(m).name = m
    BY ViewIs DEF Known
  <2>2. k \in DOMAIN view[m].fl /\ \E x : view' = [view EXCEPT ![m] = x]
    BY <1>5, <2>1 DEF FetchFails
  <2>3. m # n
    BY <2>2
  <2>4. PICK x : view' = [view EXCEPT ![m] = x]
    BY <2>2
  <2>5. view'[n] = view[n]
    BY <1>1, <2>3, <2>4
  <2> QED BY <1>3, <2>5
<1>6. ASSUME NEW m \in DOMAIN view, Refetch(ViewOf(m)) PROVE view'[n].fl = <<>>
  <2>1. ViewOf(m).name = m
    BY ViewIs DEF Known
  <2>2. m # n /\ view' = [view EXCEPT ![m].fl = <<Fetch>>]
    BY <1>2, <1>6, <2>1 DEF Refetch
  <2>3. view'[n] = view[n]
    BY <1>1, <2>2
  <2> QED BY <1>3, <2>3
<1>7. ASSUME NEW m \in DOMAIN P.controls, Click(ControlOf(m)), ~ Starts(page, m, n)
      PROVE  view'[n].fl = <<>>
  <2>1. ControlOf(m) = At(page, m)
    BY DEF ControlOf, At, P
  <2>2. ~ ControlOf(m).exit
    <3>1. ControlOf(m).exit => view' = <<>>
      BY <1>7 DEF Click, Unmount
    <3> QED BY <3>1
  <2>3. view'[n] = Clicked(ControlOf(m), ViewOf(n), view[n])
    BY <1>1, <1>7, <2>2 DEF Click
  <2>4. view'[n] = view[n]
    BY <1>1, <1>7, <2>1, <2>3 DEF Clicked, Starts
  <2> QED BY <1>3, <2>4
<1>8. ~ Leave
  BY <1>1 DEF Leave, Unmount
<1>9. ASSUME NEW ws, Touch(ws) PROVE view'[n].fl = <<>>
  <2>1. PICK t : t = view'[n]
    OBVIOUS
  <2>2. t = Written(v, s, ws)
    BY <1>1, <1>9, <2>1 DEF Touch
  <2> HIDE DEF v, s
  <2>3. t.fl = <<>> <=> s.fl = <<>>
    BY <1>1, <2>2, WrittenView DEF Like
  <2> QED BY <1>2, <2>1, <2>3
<1>10. ASSUME NEW i \in UnderWay, Apply(i, OpOf(i)) PROVE view'[n].fl = <<>>
  BY <1>9, <1>10 DEF Apply
<1>11. ASSUME NEW l \in later, Land(l) PROVE view'[n].fl = <<>>
  BY <1>9, <1>11 DEF Land
<1>12. ASSUME NEW i \in UnderWay, Fail(i, OpOf(i)) PROVE view'[n].fl = <<>>
  BY <1>3, <1>12 DEF Fail
<1>13. ASSUME NEW i \in UnderWay, NEW mine \in BOOLEAN, ~ mine \/ n \notin OpOf(i).loads
       PROVE  Refreshed(OpOf(i), v, mine) = s
  <2>1. ~ Asks(OpOf(i), v, mine)
    BY <1>1, <1>2, <1>13 DEF Asks, Hit
  <2>2. PICK r : r = Refreshed(OpOf(i), v, mine)
    OBVIOUS
  <2> QED BY <1>1, <2>1, <2>2, RefreshedHere
<1>14. ASSUME NEW i \in UnderWay, NextCall(i, OpOf(i)) PROVE view'[n].fl = <<>>
  <2>1. PICK mine \in BOOLEAN : mine = FALSE
    OBVIOUS
  <2>2. view'[n] = view[n] \/ view'[n] = Refreshed(OpOf(i), v, mine)
    BY <1>1, <1>14, <2>1 DEF NextCall
  <2> QED BY <1>3, <1>13, <2>1, <2>2
<1>15. ASSUME NEW i \in UnderWay, Succeed(i, OpOf(i)), n \notin OpAt(page, call[i].c).loads
       PROVE  view'[n].fl = <<>>
  <2>1. PICK mine \in BOOLEAN : mine = Mine(i, OpOf(i))
    BY DEF Mine
  <2>2. view'[n] = Answered(OpOf(i), call[i].copy, n, Refreshed(OpOf(i), v, mine))
    <3>1. view' # <<>>
      OBVIOUS
    <3> QED BY <1>1, <1>15, <2>1, <3>1 DEF Succeed, Unmount
  <2>3. Refreshed(OpOf(i), v, mine) = s
    BY <1>13, <1>15, OpIs
  <2>4. PICK t, op, copy : t = view'[n] /\ op = OpOf(i) /\ copy = call[i].copy
    OBVIOUS
  <2>5. t = Answered(op, copy, n, s)
    BY <2>2, <2>3, <2>4
  <2> HIDE DEF v, s
  <2>6. t.fl = <<>> <=> s.fl = <<>>
    BY <1>1, <2>5, AnsweredLacks
  <2> QED BY <1>2, <2>4, <2>6
<1>16. UNCHANGED vars => view'[n].fl = <<>>
  BY <1>3 DEF vars
<1>17. ASSUME NEW v1, NEW k, FetchFlees(v1, k) PROVE FALSE
  BY <1>1, <1>17, FleeLeaves
<1>18. ASSUME NEW m, StrayFails(m) PROVE view'[n].fl = <<>>
  BY <1>3, <1>18, StrayStays
<1> QED
  BY <1>4, <1>5, <1>6, <1>7, <1>8, <1>10, <1>11, <1>12, <1>14, <1>15, <1>16, <1>17, <1>18 DEF Next

\* No fetch goes on where it would disturb a call: the call's control waits for the last one,
\* and what would start another waits for the call.
LEMMA CalmStep ==
    ASSUME Known, [Next]_vars, NEW n \in DOMAIN view'
    PROVE  Calm(n)'
<1>1. /\ page' = page /\ n \in DOMAIN view /\ Lacking(n) /\ Calm(n) /\ ViewOf(n) = ViewAt(page, n)
      /\ page \in DOMAIN PageTable
  BY Onwards DEF Onward
<1>2. Moved
  BY NextMoves DEF Known
<1>3. SUFFICES ASSUME NEW i \in UnderWay', Undisturbed(page, call'[i].c, n) PROVE view'[n].fl = <<>>
  BY <1>1 DEF Calm
<1>4. ~ ViewAt(page, n).cached /\ ~ ViewAt(page, n).poll
  BY <1>3 DEF Undisturbed
<1>5. CASE i \in UnderWay
  <2>1. call'[i].c = call[i].c
    BY <1>2, <1>3, <1>5 DEF Moved, Kept, Begins, Ends
  <2>2. view[n].fl = <<>>
    BY <1>1, <1>3, <1>5, <2>1 DEF Calm
  <2>3. ASSUME NEW m \in DOMAIN P.controls, Click(ControlOf(m)), Starts(page, m, n) PROVE FALSE
    <3>1. ControlOf(m) = At(page, m) /\ m \in DOMAIN PageTable[page].controls
      BY DEF ControlOf, At, P
    <3>2. Blocks(page, call[i].c, m)
      BY <1>3, <2>1, <2>3, <3>1 DEF Undisturbed
    <3>3. Usable(At(page, m), P.inline)
      BY <2>3, <3>1 DEF Click
    <3> QED BY <1>5, <3>2, <3>3, Blocked DEF Known
  <2>4. ASSUME NEW j \in UnderWay, Succeed(j, OpOf(j)), n \in OpAt(page, call[j].c).loads PROVE FALSE
    <3>1. call' = [x \in Slots |-> IF x = j THEN Idle ELSE Disown(x, Shuts(j, OpOf(j)))]
      BY <2>4 DEF Succeed
    <3>2. i # j
      BY <1>3, <2>4, <3>1, EndCalls DEF Known
    <3>3. call[j].c \in Senders(page)
      BY DEF Known, CallsOK, UnderWay
    <3>4. Twins(page, call[i].c, call[j].c)
      BY <1>3, <2>1, <2>4, <3>3 DEF Undisturbed
    <3> QED BY <1>5, <3>2, <3>4, NoTwin DEF Known
  <2> QED BY <1>4, <2>2, <2>3, <2>4, StaysIdle
<1>6. CASE i \notin UnderWay
  <2>1. PICK c \in Senders(page) : Begins(c, i)
    <3>1. ~ Kept /\ \A j \in Slots : ~ Ends(j)
      BY <1>3, <1>6 DEF Kept, Ends
    <3>2. PICK c \in Senders(page), j \in Slots : Begins(c, j)
      BY <1>2, <3>1 DEF Moved
    <3>3. j = i
      BY <1>3, <1>6, <3>2 DEF Begins
    <3> QED BY <3>2, <3>3
  <2>2. call'[i].c = c /\ Usable(At(page, c), P.inline) /\ UnderWay' = UnderWay \cup {i}
    BY <2>1 DEF Begins
  <2>3. view[n].fl = <<>>
    <3>1. n \in At(page, c).off \/ (n \in At(page, c).has /\ LoadedOnce(page, n))
      BY <1>3, <2>2 DEF Undisturbed
    <3>2. CASE n \in At(page, c).off
      <4>1. n \notin GoingOn
        BY <2>2, <3>2 DEF Usable
      <4> QED BY <1>1, <4>1 DEF GoingOn, Loading
    <3>3. CASE n \in At(page, c).has /\ LoadedOnce(page, n)
      <4>1. view[n].data
        BY <1>1, <2>2, <3>3 DEF Usable
      <4> QED BY <1>1, <3>3, <4>1 DEF Lacking, Once
    <3> QED BY <3>1, <3>2, <3>3
  <2>4. ASSUME NEW m \in DOMAIN P.controls, Click(ControlOf(m)), Starts(page, m, n) PROVE FALSE
    <3>1. m = c
      <4>1. ~ Rests(i)
        BY <1>3, <1>6, RestsOn
      <4>2. i \in Slots
        BY <1>3 DEF UnderWay
      <4>3. call'[i].c = m
        BY <2>4, <4>1, <4>2, ClickCalls DEF Known
      <4> QED BY <2>2, <4>3
    <3>2. m \in DOMAIN PageTable[page].controls
      BY DEF P
    <3> QED BY <1>3, <2>2, <2>4, <3>1, <3>2 DEF Undisturbed
  <2>5. ASSUME NEW j \in UnderWay, Succeed(j, OpOf(j)) PROVE FALSE
    <3>1. call' = [x \in Slots |-> IF x = j THEN Idle ELSE Disown(x, Shuts(j, OpOf(j)))]
      BY <2>5 DEF Succeed
    <3>2. UnderWay' = UnderWay \ {j}
      BY <3>1, EndCalls DEF Known
    <3> QED BY <1>3, <1>6, <3>2
  <2> QED BY <1>4, <2>3, <2>4, <2>5, StaysIdle
<1> QED BY <1>5, <1>6

-----------------------------------------------------------------------------
(* A quiet page is fresh. *)

\* Every step leaves each followed view with what the invariants say of it.
LEMMA LackStep ==
    ASSUME FreshRule, Known, [Next]_vars, NEW n \in DOMAIN view'
    PROVE  Lacking(n)'
<1>1. Onward /\ n \in DOMAIN view /\ Lacking(n)
  BY Onwards
<1>2. ~ Leave
  BY <1>1 DEF Leave, Unmount, Onward
<1>3. UNCHANGED vars => Lacking(n)'
  <2>1. UNCHANGED vars => view'[n] = view[n] /\ call' = call /\ early' = early
    BY DEF vars
  <2> QED BY <1>1, <2>1, LackIdle
<1>4. ASSUME NEW v, NEW k, FetchFlees(v, k) PROVE FALSE
  BY <1>1, <1>4, FleeLeaves DEF Onward
<1>5. ASSUME NEW m, StrayFails(m) PROVE Lacking(n)'
  <2>1. view'[n] = view[n] /\ call' = call /\ early' = early
    BY <1>5, StrayStays
  <2> QED BY <1>1, <2>1, LackIdle
<1> QED
  BY <1>2, <1>3, <1>4, <1>5, LackReceive, LackFails, LackRefetch, LackClick, LackApply, LackNextCall,
     LackSucceed, LackFail, LackLand DEF Next

\* At first every view is being loaded, and nothing has been written.
LEMMA FreshAtFirst ==
    ASSUME Init
    PROVE  HistoryOK /\ FlightsOK /\ CleanOK /\ FreshOK
<1>1. /\ UnderWay = {} /\ later = {} /\ faults = 0 /\ mounted /\ early = {}
  BY NothingAtFirst DEF Init
<1>2. HistoryOK
  BY <1>1 DEF HistoryOK
<1>3. ASSUME NEW n \in DOMAIN view PROVE Lacking(n) /\ Calm(n)
  <2>1. view[n] = Unloaded
    BY ViewsAtFirst
  <2>2. Current(view[n], Owed(n), <<page, n>>)
    BY <2>1, UnloadedLacks, AnewCurrent
  <2> QED BY <1>1, <2>1, <2>2, UnloadedLacks DEF Lacking, Calm
<1> QED BY <1>2, <1>3, OfKnown

\* On a page that keeps FreshRule the history has the calls, fetches are where the page
\* lets them be, and what a view lacks is owed to it or excused.
THEOREM FreshnessHolds ==
    ASSUME FreshRule
    PROVE  Spec => [](HistoryOK /\ FlightsOK /\ CleanOK /\ FreshOK)
<1> DEFINE Fresh == HistoryOK /\ FlightsOK /\ CleanOK /\ FreshOK
<1>1. Init => Fresh
  BY FreshAtFirst
<1>2. Fresh /\ CallsOK /\ ViewsOK /\ Locked /\ ChoiceOK /\ [Next]_vars => Fresh'
  <2> SUFFICES ASSUME Fresh, CallsOK, ViewsOK, Locked, ChoiceOK, [Next]_vars PROVE Fresh'
    OBVIOUS
  <2>1. Known
    BY DEF Known
  <2>2. HistoryOK'
    BY HistoryStep
  <2>3. \A n \in DOMAIN view' : Lacking(n)' /\ Calm(n)'
    BY <2>1, LackStep, CalmStep
  <2>4. (\A n \in DOMAIN view : Lacking(n) /\ Calm(n))'
    BY <2>3
  <2>5. (FlightsOK /\ CleanOK /\ FreshOK)'
    BY <2>4, OfKnown, PTL
  <2> QED BY <2>2, <2>5
<1> HIDE DEF Fresh
<1>3. Spec => []Fresh
  BY <1>1, <1>2, CallsAreItsOwn, ViewsAreItsOwn, LocksHold, ChoicesHold, PTL DEF Spec
<1> QED BY <1>3 DEF Fresh

\* A page that has come to rest shows, without an error, nothing that its own calls made
\* stale, but for the causes that SettledFresh names.
THEOREM RestIsFresh ==
    ASSUME FreshRule
    PROVE  Spec => []SettledFresh
<1> DEFINE Fresh == HistoryOK /\ FlightsOK /\ CleanOK /\ FreshOK
<1>1. Fresh /\ ViewsOK => SettledFresh
  <2> SUFFICES ASSUME Fresh, ViewsOK, Quiet, NEW n \in DOMAIN view,
                      Shown(ViewOf(n)), view[ViewOf(n).name].miss # {}
               PROVE  \/ ViewOf(n).name \in early
                      \/ view[ViewOf(n).name].late /\ <<page, ViewOf(n).name>> \in Racers
                      \/ Lost(ViewOf(n)) /\ <<page, ViewOf(n).name>> \in Frozen
                      \/ ViewOf(n).swallow /\ faults > 0
                      \/ \E c \in done : c \in failed \/ <<page, c, ViewOf(n).name>> \in Gaps
    BY DEF SettledFresh, Views
  <2>1. /\ ViewOf(n).name = n /\ ViewOf(n) = ViewAt(page, n)
        /\ page \in DOMAIN PageTable /\ n \in DOMAIN PageTable[page].views
    BY ViewIs
  <2>2. /\ view[n].fl = <<>> /\ view[n].data /\ view[n].miss # {}
        /\ ~ view[n].err \/ Lost(ViewOf(n))
    BY <2>1 DEF Quiet, Views, Shown
  <2>3. CASE ~ Touched(page, n)
    BY <2>1, <2>2, <2>3 DEF CleanOK
  <2>4. CASE Touched(page, n) /\ ViewOf(n).live
    <3>1. ViewOf(n).poll /\ <<page, n>> \in Frozen
      BY <2>1, <2>4 DEF FreshRule
    <3>2. Lost(ViewOf(n))
      BY <2>1, <2>2, <3>1 DEF Quiet, Views
    <3> QED BY <2>1, <3>1, <3>2
  <2>5. CASE Touched(page, n) /\ ~ ViewOf(n).live /\ ViewOf(n).poll
    <3>1. Lost(ViewOf(n))
      BY <2>1, <2>2, <2>5 DEF Quiet, Views
    <3> QED BY <2>5, <3>1 DEF Lost
  <2>6. CASE Touched(page, n) /\ ~ ViewOf(n).live /\ ~ ViewOf(n).poll
    <3>1. ~ view[n].err
      BY <2>2, <2>6 DEF Lost
    <3>2. Owed(n) = {}
      BY DEF Quiet, Owed
    <3>3. Excused(n) \/ (view[n].late /\ <<page, n>> \in Racers) \/ view[n].miss \subseteq Owed(n)
      BY <2>2, <2>6, <3>1 DEF FreshOK
    <3>4. Excused(n) \/ (view[n].late /\ <<page, n>> \in Racers)
      BY <2>2, <3>2, <3>3
    <3> QED BY <2>1, <3>4 DEF Excused
  <2> QED BY <2>3, <2>4, <2>5, <2>6
<1>2. Spec => []Fresh
  BY FreshnessHolds
<1> QED BY <1>1, <1>2, ViewsAreItsOwn, PTL
=============================================================================
