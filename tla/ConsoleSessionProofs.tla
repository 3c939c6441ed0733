------------------------- MODULE ConsoleSessionProofs -------------------------
(***************************************************************************)
(* Proofs about ConsoleSession, for any tabs, users, functions under way,  *)
(* pairs and mishaps.                                                      *)
(***************************************************************************)
EXTENDS ConsoleSession, TLAPS

\* The pairs as they were, up to whether their access tokens are accepted.
SamePairs ==
    /\ pairs' \in Seq(Pair) /\ Len(pairs') = Len(pairs)
    /\ \A p \in 1..Len(pairs) : pairs'[p].user = pairs[p].user /\ pairs'[p].refresh = pairs[p].refresh

\* The function in slot i becomes f and nothing else changes that the invariant reads:
\* neither f nor what it was holds a pair that is not stored yet.
LEMMA QuietStep ==
  ASSUME Inv, NEW i \in Slots, NEW f \in Flows, Phased(f),
         {f.snap, f.tok, f.got} \subseteq 0..Len(pairs),
         flow' = [flow EXCEPT ![i] = f], SamePairs, UNCHANGED <<store, app, shown, mishaps, why>>,
         flow[i].ph # "pause", flow[i].ph = "rotated" => why # {},
         f.ph \notin Asking \cup {"granted", "pause", "welcome"},
         f.kind = "boot" => flow[i].kind = "boot" /\ f.tab = flow[i].tab,
         f.kind = "login" =>
            /\ app[f.tab] = "login"
            /\ \A j \in Slots : j # i /\ flow[j].kind = "login" => flow[j].tab # f.tab
  PROVE  Inv'
  <1>0. /\ flow' \in [Slots -> Flows] /\ flow'[i] = f
        /\ \A j \in Slots : j # i => flow'[j] = flow[j]
    BY DEF Inv, TypeOK
  <1>1. Len(pairs) \in Nat /\ Len(pairs') = Len(pairs) /\ pairs' \in Seq(Pair)
    <2>1. pairs \in Seq(Pair)
      BY DEF Inv, TypeOK
    <2> QED
      BY <2>1 DEF SamePairs
  <1>5. \A j \in Slots : {flow[j].snap, flow[j].tok, flow[j].got} \subseteq 0..Len(pairs)
    BY DEF Inv, TypeOK
  <1>2. TypeOK'
    <2>1. \A j \in Slots : {flow'[j].snap, flow'[j].tok, flow'[j].got} \subseteq 0..Len(pairs)
      BY <1>0, <1>5
    <2>2. /\ store' \in 0..Len(pairs') /\ app' \in [Tabs -> Screens]
          /\ shown' \in [Tabs -> Users \cup {""}] /\ mishaps' \in Nat
          /\ why' \subseteq {"lost", "late", "elsewhere"}
      BY <1>1 DEF Inv, TypeOK
    <2>3. pairs' \in Seq(Pair) /\ flow' \in [Slots -> Flows]
      BY <1>0, <1>1
    <2>4. \A j \in Slots : {flow'[j].snap, flow'[j].tok, flow'[j].got} \subseteq 0..Len(pairs')
      BY <1>1, <2>1
    <2> QED
      BY <2>2, <2>3, <2>4, Zenon DEF TypeOK
  <1>3. \A j \in Slots : Phased(flow'[j])
    BY <1>0 DEF Inv
  <1>4. \A p \in 0..Len(pairs) : p # 0 => pairs'[p].user = pairs[p].user /\ pairs'[p].refresh = pairs[p].refresh
    BY <1>1 DEF SamePairs
  <1>6. Screened'
    <2>1. \A j \in Slots :
            /\ flow'[j].kind = "boot" => app[flow'[j].tab] = "loading"
            /\ flow'[j].kind = "login" =>
                 app[flow'[j].tab] = IF flow'[j].ph = "welcome" THEN "entering" ELSE "login"
      BY <1>0 DEF Inv, Screened
    <2>2. ASSUME NEW j \in Slots, flow'[j].ph = "rotated"
          PROVE  (Owner(flow[j].got) = Owner(flow[j].tok))'
      <3>1. flow'[j] = flow[j]
        BY <1>0, <2>2 DEF Asking
      <3>2. Owner(flow[j].got) = Owner(flow[j].tok) /\ flow[j].got \in 0..Len(pairs) /\ flow[j].tok \in 0..Len(pairs)
        BY <1>5, <2>2, <3>1 DEF Inv, Screened
      <3> QED
        BY <1>4, <3>1, <3>2 DEF Owner
    <2>3. \A j, k \in Slots : j # k /\ flow'[j].kind = flow'[k].kind /\ flow'[j].kind \in {"boot", "login"}
                              => flow'[j].tab # flow'[k].tab
      <3>1. \A j, k \in Slots : j # k /\ flow[j].kind = flow[k].kind /\ flow[j].kind \in {"boot", "login"}
                                => flow[j].tab # flow[k].tab
        BY DEF Inv, Screened
      <3>2. \A j \in Slots : j # i /\ flow[j].kind = f.kind /\ f.kind \in {"boot", "login"}
                             => flow[j].tab # f.tab
        BY <3>1
      <3> QED
        BY <1>0, <3>1, <3>2
    <2> QED
      BY <2>1, <2>2, <2>3 DEF Screened
  <1>7. InSync'
    <2>1. store' # 0 => Owner(store)' = Owner(store)
      BY <1>4 DEF Inv, TypeOK, Owner
    <2>2. ASSUME NEW j \in Slots, flow'[j].ph = "pause"
          PROVE  flow'[j] = flow[j] /\ Owner(flow[j].got)' = Owner(flow[j].got)
      <3>1. flow'[j] = flow[j] /\ flow[j].got \in 0..Len(pairs)
        BY <1>0, <1>5, <2>2
      <3> QED
        BY <1>4, <3>1 DEF Owner
    <2> QED
      BY <2>1, <2>2 DEF Inv, InSync
  <1>8. Claimed'
    BY <1>0 DEF Inv, Claimed
  <1>9. Renewable'
    <2> SUFFICES ASSUME why = {}
                 PROVE  Renewable'
      BY DEF Renewable
    <2>2. \A j \in Slots : /\ flow[j].ph \in Asking => flow[j].tok # 0
                           /\ flow[j].ph \in {"rotated", "granted"} => flow[j].got # 0
      BY DEF Inv, Phased
    <2>4. store # 0 => store \in 0..Len(pairs)
      BY DEF Inv, TypeOK
    <2>5. flow[i].ph # "rotated" /\ ~f.dead
      BY DEF Phased
    <2>6. /\ HasSession /\ StoredLives
          /\ \A j \in Slots : GoesWell(j) /\ FreshPair(j)
          /\ \A j, k \in Slots : Unknown(j, k) /\ Apart(j, k)
      BY DEF Inv, Renewable
    <2>7. HasSession' /\ StoredLives'
      BY <1>0, <1>4, <2>4, <2>6 DEF HasSession, StoredLives, Asking
    <2>8. \A j \in Slots : GoesWell(j)' /\ FreshPair(j)'
      BY <1>0, <1>4, <1>5, <2>2, <2>5, <2>6 DEF GoesWell, FreshPair, Asking
    <2>9. \A j, k \in Slots : Unknown(j, k)' /\ Apart(j, k)'
      BY <1>0, <2>6 DEF Unknown, Apart, Asking
    <2> QED
      BY <2>7, <2>8, <2>9 DEF Renewable
  <1> QED
    BY <1>2, <1>3, <1>6, <1>7, <1>8, <1>9 DEF Inv

\* What the invariant says of the function in a slot.
LEMMA FlowFacts ==
  ASSUME Inv, NEW i \in Slots
  PROVE  /\ flow \in [Slots -> Flows] /\ flow[i] \in Flows /\ Phased(flow[i])
         /\ {flow[i].snap, flow[i].tok, flow[i].got} \subseteq 0..Len(pairs)
         /\ pairs \in Seq(Pair) /\ Len(pairs) \in Nat /\ store \in 0..Len(pairs)
         /\ \A p \in 0..Len(pairs) : p # 0 => p \in 1..Len(pairs) /\ pairs[p] \in Pair
  <1>1. pairs \in Seq(Pair) /\ store \in 0..Len(pairs) /\ flow \in [Slots -> Flows]
    BY DEF Inv, TypeOK
  <1>2. Len(pairs) \in Nat /\ \A p \in 1..Len(pairs) : pairs[p] \in Pair
    BY <1>1
  <1>3. Phased(flow[i]) /\ {flow[i].snap, flow[i].tok, flow[i].got} \subseteq 0..Len(pairs)
    BY DEF Inv, TypeOK
  <1>4. \A p \in 0..Len(pairs) : p # 0 => p \in 1..Len(pairs)
    BY <1>2
  <1>5. flow[i] \in Flows
    BY <1>1
  <1> QED
    BY <1>1, <1>2, <1>3, <1>4, <1>5

\* No pairs are touched.
LEMMA PairsUntouched == ASSUME Inv, UNCHANGED pairs PROVE SamePairs
  BY DEF Inv, TypeOK, SamePairs

\* A function that has ended is no function.
LEMMA IdleFits == Idle \in Flows /\ Phased(Idle) /\ Idle.kind = "idle" /\ Idle.ph = ""
                  /\ Idle.snap = 0 /\ Idle.tok = 0 /\ Idle.got = 0 /\ ~Idle.dead /\ Idle.runs = 0
  BY SessionAssumption DEF Idle, Flows, Phases, Asking, Phased

\* A function may end without effect, unless it holds a pair that was stored for it.
LEMMA EndStep ==
  ASSUME Inv, NEW i \in Slots, flow' = [flow EXCEPT ![i] = Idle],
         UNCHANGED <<pairs, store, app, shown, mishaps, why>>,
         flow[i].ph # "pause", flow[i].ph = "rotated" => why # {}
  PROVE  Inv'
  <1>1. SamePairs
    BY PairsUntouched
  <1>2. Idle.ph \notin Asking \cup {"granted", "pause", "welcome"}
    BY IdleFits DEF Asking
  <1>3. {Idle.snap, Idle.tok, Idle.got} \subseteq 0..Len(pairs)
    <2>1. 0 \in 0..Len(pairs)
      BY FlowFacts
    <2> QED
      BY <2>1, IdleFits
  <1> QED
    BY <1>1, <1>2, <1>3, IdleFits, QuietStep

\* Auth executes, refuses or does not find a call.
LEMMA ServeStep ==
  ASSUME Inv, NEW i \in Slots, Serve(i)
  PROVE  Inv'
  <1> DEFINE g == flow[i]
             p == g.snap
  <1>1. /\ g \in Flows /\ Phased(g) /\ {g.snap, g.tok, g.got} \subseteq 0..Len(pairs)
        /\ g.kind \in Kinds \cup {"boot", "mfa"} /\ g.ph = "sent"
        /\ UNCHANGED <<store, app, shown, mishaps, why>>
        /\ flow \in [Slots -> Flows] /\ pairs \in Seq(Pair) /\ Len(pairs) \in Nat
        /\ \A q \in 0..Len(pairs) : q # 0 => q \in 1..Len(pairs) /\ pairs[q] \in Pair
    BY FlowFacts DEF Serve
  <1>2. g.runs = 0 /\ ~g.dead /\ g.tab \in Tabs /\ g.kind # "login" /\ g.kind # "idle"
    BY <1>1, SessionAssumption DEF Phased, Asking
  <1>3. ASSUME NEW f \in Flows, f.kind = g.kind, f.tab = g.tab, f.ph \in {"served", "denied", "missing"},
               f.ph = "missing" => g.kind \in Kinds,
               ~f.dead, f.snap = g.snap, f.tok = g.tok, f.got = g.got,
               f.runs = IF f.ph = "served" THEN 1 ELSE 0,
               flow' = [flow EXCEPT ![i] = f], SamePairs
        PROVE  Inv'
    <2>1. Phased(f)
      BY <1>1, <1>2, <1>3, SessionAssumption DEF Phased, Asking
    <2>2. f.ph \notin Asking \cup {"granted", "pause", "welcome"}
      BY <1>3 DEF Asking
    <2> QED
      BY <1>1, <1>2, <1>3, <2>1, <2>2, QuietStep
  <1>4. CASE flow' = [flow EXCEPT ![i].ph = "served", ![i].runs = @ + 1] /\ UNCHANGED pairs
    <2> DEFINE f == [g EXCEPT !.ph = "served", !.runs = @ + 1]
    <2>1. g.runs + 1 = 1
      BY <1>2
    <2>2. /\ f \in Flows /\ f.kind = g.kind /\ f.tab = g.tab /\ f.ph = "served" /\ f.runs = g.runs + 1
          /\ f.dead = g.dead /\ f.snap = g.snap /\ f.tok = g.tok /\ f.got = g.got
      <3>1. ASSUME NEW r \in Nat PROVE [g EXCEPT !.ph = "served", !.runs = r] \in Flows
        BY <1>1 DEF Flows, Phases
      <3>2. f = [g EXCEPT !.ph = "served", !.runs = g.runs + 1]
        BY <1>1 DEF Flows
      <3>3. f.runs = g.runs + 1
        BY <1>1 DEF Flows
      <3>4. /\ f.kind = g.kind /\ f.tab = g.tab /\ f.ph = "served"
            /\ f.dead = g.dead /\ f.snap = g.snap /\ f.tok = g.tok /\ f.got = g.got
        BY <1>1 DEF Flows
      <3> HIDE DEF f, g
      <3> QED
        BY <2>1, <3>1, <3>2, <3>3, <3>4
    <2>3. flow' = [flow EXCEPT ![i] = f]
      BY <1>1, <1>4
    <2>4. f.runs = 1
      <3> HIDE DEF f, g
      <3> QED
        BY <2>1, <2>2
    <2> HIDE DEF f
    <2> QED
      BY <1>2, <1>3, <1>4, <2>2, <2>3, <2>4, PairsUntouched
  <1>5. CASE /\ flow' = [flow EXCEPT ![i].ph = "denied"]
             /\ pairs' = IF p = 0 THEN pairs ELSE [pairs EXCEPT ![p].access = FALSE]
    <2> DEFINE f == [g EXCEPT !.ph = "denied"]
    <2>1. /\ f \in Flows /\ f.kind = g.kind /\ f.tab = g.tab /\ f.ph = "denied" /\ f.runs = 0
          /\ f.dead = g.dead /\ f.snap = g.snap /\ f.tok = g.tok /\ f.got = g.got
      BY <1>1, <1>2 DEF Flows, Phases
    <2>2. flow' = [flow EXCEPT ![i] = f]
      BY <1>1, <1>5
    <2>3. SamePairs
      <3>1. CASE p = 0
        BY <1>5, <3>1, PairsUntouched
      <3>2. CASE p # 0
        <4>1. p \in 1..Len(pairs) /\ pairs[p] \in Pair
          BY <1>1, <3>2
        <4>2. [pairs[p] EXCEPT !.access = FALSE] \in Pair
          BY <4>1 DEF Pair
        <4>3. pairs' = [pairs EXCEPT ![p] = [pairs[p] EXCEPT !.access = FALSE]]
          BY <1>5, <3>2
        <4>4. pairs' \in Seq(Pair) /\ Len(pairs') = Len(pairs)
          BY <1>1, <4>1, <4>2, <4>3
        <4>5. \A q \in 1..Len(pairs) : /\ pairs'[q].user = pairs[q].user
                                       /\ pairs'[q].refresh = pairs[q].refresh
          BY <1>1, <4>1, <4>3 DEF Pair
        <4> QED
          BY <4>4, <4>5 DEF SamePairs
      <3> QED
        BY <3>1, <3>2
    <2> QED
      BY <1>2, <1>3, <2>1, <2>2, <2>3
  <1>6. CASE /\ g.kind \in {"apiFetch", "apiFetchBlob"} /\ UNCHANGED pairs
             /\ flow' = [flow EXCEPT ![i].ph = "missing"]
    <2> DEFINE f == [g EXCEPT !.ph = "missing"]
    <2>1. /\ f \in Flows /\ f.kind = g.kind /\ f.tab = g.tab /\ f.ph = "missing" /\ f.runs = 0
          /\ f.dead = g.dead /\ f.snap = g.snap /\ f.tok = g.tok /\ f.got = g.got
      BY <1>1, <1>2 DEF Flows, Phases
    <2>2. flow' = [flow EXCEPT ![i] = f]
      BY <1>1, <1>6
    <2>3. g.kind \in Kinds
      BY <1>1, <1>6
    <2> QED
      BY <1>2, <1>3, <1>6, <2>1, <2>2, <2>3, PairsUntouched
  <1> QED
    BY <1>4, <1>5, <1>6 DEF Serve

\* A login changes its phase before it holds a pair.
LEMMA LoginPhase ==
  ASSUME Inv, NEW i \in Slots, NEW x \in {"denied", "challenged", "totp"},
         flow[i].kind = "login", flow[i].ph \in {"sent", "totp", "challenged"},
         flow' = [flow EXCEPT ![i].ph = x],
         UNCHANGED <<pairs, store, app, shown, mishaps, why>>
  PROVE  Inv'
  <1> DEFINE g == flow[i]
             f == [g EXCEPT !.ph = x]
  <1>1. /\ g \in Flows /\ Phased(g) /\ {g.snap, g.tok, g.got} \subseteq 0..Len(pairs)
        /\ flow \in [Slots -> Flows]
    BY FlowFacts
  <1>2. /\ f \in Flows /\ f.kind = g.kind /\ f.tab = g.tab /\ f.ph = x /\ f.runs = g.runs
        /\ f.dead = g.dead /\ f.snap = g.snap /\ f.tok = g.tok /\ f.got = g.got /\ f.user = g.user
    BY <1>1 DEF Flows, Phases
  <1>3. flow' = [flow EXCEPT ![i] = f]
    BY <1>1
  <1> HIDE DEF f
  <1>4. Phased(f) /\ f.ph \notin Asking \cup {"granted", "pause", "welcome"}
    BY <1>1, <1>2, SessionAssumption DEF Phased, Asking
  <1>5. /\ app[f.tab] = "login"
        /\ \A j \in Slots : j # i /\ flow[j].kind = "login" => flow[j].tab # f.tab
    BY <1>2 DEF Inv, Screened
  <1>6. SamePairs
    BY PairsUntouched
  <1>7. /\ {f.snap, f.tok, f.got} \subseteq 0..Len(pairs) /\ f \in Flows /\ f.kind # "boot"
        /\ flow[i].ph # "pause" /\ flow[i].ph # "rotated"
    BY <1>1, <1>2
  <1> QED
    BY <1>3, <1>4, <1>5, <1>6, <1>7, QuietStep

\* The call without the prefix goes on where the first one was not found.
LEMMA FallbackStep ==
  ASSUME Inv, NEW i \in Slots, Fallback(i)
  PROVE  Inv'
  <1> DEFINE g == flow[i]
             n == IF g.kind = "apiFetchBlob" THEN store ELSE g.snap
             f == [g EXCEPT !.ph = "sent", !.fell = TRUE, !.snap = n]
  <1>1. /\ g \in Flows /\ Phased(g) /\ {g.snap, g.tok, g.got} \subseteq 0..Len(pairs)
        /\ flow \in [Slots -> Flows] /\ store \in 0..Len(pairs) /\ Len(pairs) \in Nat
        /\ g.ph = "missing" /\ UNCHANGED <<pairs, store, app, shown, mishaps, why>>
    BY FlowFacts DEF Fallback
  <1>2. n \in Nat /\ n \in 0..Len(pairs)
    BY <1>1
  <1>3. flow' = [flow EXCEPT ![i] = f]
    BY <1>1 DEF Fallback
  <1> HIDE DEF n
  <1>4. /\ f \in Flows /\ f.kind = g.kind /\ f.tab = g.tab /\ f.ph = "sent" /\ f.runs = g.runs
        /\ f.dead = g.dead /\ f.snap = n /\ f.tok = g.tok /\ f.got = g.got /\ f.user = g.user
    BY <1>1, <1>2 DEF Flows, Phases
  <1> HIDE DEF f
  <1>5. Phased(f) /\ f.ph \notin Asking \cup {"granted", "pause", "welcome"} /\ f.kind \notin {"login", "boot"}
    BY <1>1, <1>4, SessionAssumption DEF Phased, Asking
  <1>6. SamePairs
    BY <1>1, PairsUntouched
  <1>7. {f.snap, f.tok, f.got} \subseteq 0..Len(pairs)
    BY <1>1, <1>2, <1>4
  <1> QED
    BY <1>1, <1>3, <1>4, <1>5, <1>6, <1>7, QuietStep

\* A new call of a page, of a start or of an authenticator's set-up.
LEMMA StartFits ==
  ASSUME Inv, NEW i \in Slots, NEW kind \in Kinds \cup {"boot", "mfa"}, NEW t \in Tabs
  PROVE  /\ Start(kind, t) \in Flows /\ Phased(Start(kind, t))
         /\ Start(kind, t).kind = kind /\ Start(kind, t).tab = t /\ Start(kind, t).ph = "sent"
         /\ {Start(kind, t).snap, Start(kind, t).tok, Start(kind, t).got} \subseteq 0..Len(pairs)
         /\ Start(kind, t).snap = store
  <1>1. store \in Nat /\ store \in 0..Len(pairs) /\ 0 \in 0..Len(pairs)
    BY FlowFacts
  <1>2. /\ Start(kind, t).kind = kind /\ Start(kind, t).tab = t /\ Start(kind, t).ph = "sent"
        /\ Start(kind, t).snap = store /\ Start(kind, t).tok = 0 /\ Start(kind, t).got = 0
        /\ ~Start(kind, t).dead /\ Start(kind, t).runs = 0
    BY DEF Start, Idle
  <1>3. Start(kind, t) \in Flows
    BY <1>1 DEF Start, Idle, Flows, Phases
  <1>4. Phased(Start(kind, t))
    BY <1>2, SessionAssumption DEF Phased, Asking
  <1> QED
    BY <1>1, <1>2, <1>3, <1>4

\* A call is made from an idle slot.
LEMMA CallStep ==
  ASSUME Inv, NEW i \in Slots, NEW kind \in Kinds \cup {"mfa"}, NEW t \in Tabs, ~Busy(i),
         flow' = [flow EXCEPT ![i] = Start(kind, t)],
         UNCHANGED <<pairs, store, app, shown, mishaps, why>>
  PROVE  Inv'
  <1> DEFINE f == Start(kind, t)
  <1>1. flow[i].ph = ""
    BY FlowFacts DEF Busy, Phased
  <1>2. /\ f \in Flows /\ Phased(f) /\ f.kind = kind /\ f.tab = t /\ f.ph = "sent"
        /\ {f.snap, f.tok, f.got} \subseteq 0..Len(pairs)
    BY StartFits
  <1>3. f.kind # "boot" /\ f.kind # "login" /\ f.ph \notin Asking \cup {"granted", "pause", "welcome"}
    BY <1>2, SessionAssumption DEF Asking
  <1>4. SamePairs
    BY PairsUntouched
  <1> HIDE DEF f
  <1> QED
    BY <1>1, <1>2, <1>3, <1>4, QuietStep DEF f

\* The login form is sent once at a time.
LEMMA LoginSubmitStep ==
  ASSUME Inv, NEW i \in Slots, NEW t \in Tabs, NEW u \in Users, handleLoginSubmit(i, t, u)
  PROVE  Inv'
  <1> DEFINE f == [Start("login", t) EXCEPT !.user = u, !.snap = 0]
  <1>1. /\ ~Busy(i) /\ app[t] = "login" /\ flow' = [flow EXCEPT ![i] = f]
        /\ \A j \in Slots : flow[j].kind = "login" => flow[j].tab # t
        /\ UNCHANGED <<pairs, store, app, shown, mishaps, why>>
    BY DEF handleLoginSubmit
  <1>2. flow[i].ph = ""
    BY <1>1, FlowFacts DEF Busy, Phased
  <1>3. /\ f \in Flows /\ f.kind = "login" /\ f.tab = t /\ f.ph = "sent" /\ f.user = u
        /\ f.snap = 0 /\ f.tok = 0 /\ f.got = 0 /\ ~f.dead /\ f.runs = 0
    BY FlowFacts DEF Start, Idle, Flows, Phases
  <1> HIDE DEF f
  <1>4. Phased(f) /\ f.ph \notin Asking \cup {"granted", "pause", "welcome"}
    BY <1>3, SessionAssumption DEF Phased, Asking
  <1>5. SamePairs
    BY <1>1, PairsUntouched
  <1>6. 0 \in 0..Len(pairs)
    BY FlowFacts
  <1> QED
    BY <1>1, <1>2, <1>3, <1>4, <1>5, <1>6, QuietStep

\* The facts that a request, an answer or a lost call moves about.
LEMMA Parts ==
  ASSUME Inv
  PROVE  /\ app \in [Tabs -> Screens] /\ shown \in [Tabs -> Users \cup {""}]
         /\ mishaps \in Nat /\ why \subseteq {"lost", "late", "elsewhere"}
         /\ flow \in [Slots -> Flows] /\ pairs \in Seq(Pair) /\ Len(pairs) \in Nat
         /\ store \in 0..Len(pairs)
         /\ \A j \in Slots : Phased(flow[j])
         /\ \A j \in Slots : {flow[j].snap, flow[j].tok, flow[j].got} \subseteq 0..Len(pairs)
         /\ Screened /\ InSync /\ Claimed /\ Renewable
  <1>1. pairs \in Seq(Pair)
    BY DEF Inv, TypeOK
  <1>2. Len(pairs) \in Nat
    BY <1>1
  <1> QED
    BY <1>1, <1>2 DEF Inv, TypeOK

\* What is in range stays in range when pairs are added.
LEMMA LongerRange == ASSUME NEW a \in Nat, NEW b \in Nat, b >= a PROVE 0..a \subseteq 0..b
  OBVIOUS

\* A slot is given f: types and phases follow from those of f.
LEMMA FlowTyped ==
  ASSUME Inv, NEW i \in Slots, NEW f \in Flows, Phased(f), flow' = [flow EXCEPT ![i] = f],
         pairs' \in Seq(Pair), Len(pairs') \in Nat, Len(pairs') >= Len(pairs),
         {f.snap, f.tok, f.got} \subseteq 0..Len(pairs'), store' \in 0..Len(pairs'),
         app' \in [Tabs -> Screens], shown' \in [Tabs -> Users \cup {""}],
         mishaps' \in Nat, why' \subseteq {"lost", "late", "elsewhere"}
  PROVE  /\ TypeOK' /\ \A j \in Slots : Phased(flow'[j])
         /\ flow'[i] = f /\ \A j \in Slots : j # i => flow'[j] = flow[j]
  <1>1. /\ flow' \in [Slots -> Flows] /\ flow'[i] = f
        /\ \A j \in Slots : j # i => flow'[j] = flow[j]
    BY Parts
  <1>2. 0..Len(pairs) \subseteq 0..Len(pairs')
    <2>1. Len(pairs) \in Nat
      BY Parts
    <2> QED
      BY <2>1, LongerRange
  <1>3. \A j \in Slots : {flow'[j].snap, flow'[j].tok, flow'[j].got} \subseteq 0..Len(pairs')
    <2>1. \A j \in Slots : {flow[j].snap, flow[j].tok, flow[j].got} \subseteq 0..Len(pairs')
      BY <1>2, Parts
    <2> QED
      BY <1>1, <2>1
  <1>4. TypeOK'
    BY <1>1, <1>3 DEF TypeOK
  <1>5. \A j \in Slots : Phased(flow'[j])
    BY <1>1, Parts
  <1> QED
    BY <1>1, <1>4, <1>5

\* As many pairs are not fewer.
LEMMA NotShorter == ASSUME NEW a \in Nat, NEW b \in Nat, a = b PROVE a >= b
  OBVIOUS

\* The same while no pairs change.
LEMMA FlowTypedHere ==
  ASSUME Inv, NEW i \in Slots, NEW f \in Flows, Phased(f), flow' = [flow EXCEPT ![i] = f],
         UNCHANGED pairs, {f.snap, f.tok, f.got} \subseteq 0..Len(pairs), store' \in 0..Len(pairs),
         app' \in [Tabs -> Screens], shown' \in [Tabs -> Users \cup {""}],
         mishaps' \in Nat, why' \subseteq {"lost", "late", "elsewhere"}
  PROVE  /\ TypeOK' /\ \A j \in Slots : Phased(flow'[j])
         /\ flow'[i] = f /\ \A j \in Slots : j # i => flow'[j] = flow[j]
  <1>1. pairs' \in Seq(Pair) /\ Len(pairs') \in Nat /\ Len(pairs') = Len(pairs)
    BY Parts
  <1>2. Len(pairs') >= Len(pairs)
    <2>1. Len(pairs) \in Nat
      BY <1>1
    <2> QED
      BY <1>1, <2>1, NotShorter
  <1>3. {f.snap, f.tok, f.got} \subseteq 0..Len(pairs') /\ store' \in 0..Len(pairs')
    BY <1>1
  <1> QED
    BY <1>1, <1>2, <1>3, FlowTyped

\* Slot i is given f, which belongs to the same function or to none, while tabs, tokens
\* and owners stay: the screens and the sole functions of a tab stay as they were.
LEMMA ScreenedKept ==
  ASSUME Inv, NEW i \in Slots, NEW f, flow'[i] = f, \A j \in Slots : j # i => flow'[j] = flow[j],
         UNCHANGED app,
         \A p \in 0..Len(pairs) : p # 0 => pairs'[p].user = pairs[p].user,
         f.kind \in {"boot", "login"} => /\ f.kind = flow[i].kind /\ f.tab = flow[i].tab
                                         /\ f.ph = "welcome" <=> flow[i].ph = "welcome",
         f.ph = "rotated" => (Owner(flow[i].got) = Owner(flow[i].tok))'
  PROVE  Screened'
  <1>1. \A j \in Slots :
          /\ flow'[j].kind = "boot" => app[flow'[j].tab] = "loading"
          /\ flow'[j].kind = "login" =>
               app[flow'[j].tab] = IF flow'[j].ph = "welcome" THEN "entering" ELSE "login"
    <2>1. \A j \in Slots :
            /\ flow[j].kind = "boot" => app[flow[j].tab] = "loading"
            /\ flow[j].kind = "login" =>
                 app[flow[j].tab] = IF flow[j].ph = "welcome" THEN "entering" ELSE "login"
      BY Parts DEF Screened
    <2>2. /\ f.kind = "boot" => app[f.tab] = "loading"
          /\ f.kind = "login" =>
               app[f.tab] = IF f.ph = "welcome" THEN "entering" ELSE "login"
      BY <2>1
    <2> QED
      BY <2>1, <2>2
  <1>2. ASSUME NEW j \in Slots, flow'[j].ph = "rotated"
        PROVE  (Owner(flow[j].got) = Owner(flow[j].tok))'
    <2>1. CASE j = i
      BY <1>2, <2>1 DEF Owner
    <2>2. CASE j # i
      <3>1. /\ flow'[j] = flow[j] /\ Owner(flow[j].got) = Owner(flow[j].tok)
            /\ flow[j].got \in 0..Len(pairs) /\ flow[j].tok \in 0..Len(pairs)
        BY <1>2, <2>2, Parts DEF Screened
      <3> QED
        BY <3>1 DEF Owner
    <2> QED
      BY <2>1, <2>2
  <1>3. \A j, k \in Slots : j # k /\ flow'[j].kind = flow'[k].kind /\ flow'[j].kind \in {"boot", "login"}
                            => flow'[j].tab # flow'[k].tab
    <2>1. \A j, k \in Slots : j # k /\ flow[j].kind = flow[k].kind /\ flow[j].kind \in {"boot", "login"}
                              => flow[j].tab # flow[k].tab
      BY Parts DEF Screened
    <2> QED
      BY <2>1
  <1> QED
    BY <1>1, <1>2, <1>3 DEF Screened

\* issueLogin adds a pair that can be refreshed and keeps the others.
LEMMA IssueFacts ==
  ASSUME NEW q \in Seq(Pair), NEW u \in Users, pairs = q
  PROVE  /\ issueLogin(u) \in Seq(Pair) /\ Len(q) \in Nat /\ Len(issueLogin(u)) = Len(q) + 1
         /\ \A p \in 1..Len(q) : issueLogin(u)[p] = q[p]
         /\ issueLogin(u)[Len(q) + 1].user = u /\ issueLogin(u)[Len(q) + 1].refresh
  <1>1. [user |-> u, access |-> TRUE, refresh |-> TRUE] \in Pair
    BY DEF Pair
  <1> DEFINE e == [user |-> u, access |-> TRUE, refresh |-> TRUE]
  <1>2. e.user = u /\ e.refresh
    OBVIOUS
  <1>3. issueLogin(u) = Append(q, e)
    BY DEF issueLogin
  <1> HIDE DEF e
  <1> QED
    BY <1>1, <1>2, <1>3 DEF e

\* Revoking a refresh token changes nothing else.
LEMMA RevokeFacts ==
  ASSUME NEW q \in Seq(Pair), NEW p \in 1..Len(q)
  PROVE  LET r == [q EXCEPT ![p].refresh = FALSE] IN
         /\ r \in Seq(Pair) /\ Len(r) = Len(q)
         /\ \A k \in 1..Len(q) : r[k].user = q[k].user /\ (k # p => r[k] = q[k])
  <1> DEFINE c == [q[p] EXCEPT !.refresh = FALSE]
             r == [q EXCEPT ![p] = c]
  <1>0. q[p] \in Pair
    OBVIOUS
  <1>1. c \in Pair /\ c.user = q[p].user
    BY <1>0 DEF Pair
  <1> HIDE DEF c
  <1>2. /\ r \in Seq(Pair) /\ Len(r) = Len(q)
        /\ \A k \in 1..Len(q) : r[k].user = q[k].user /\ (k # p => r[k] = q[k])
    BY <1>1
  <1> QED
    BY <1>2 DEF c

\* A login is granted a pair that nobody knows yet.
LEMMA GrantStep ==
  ASSUME Inv, NEW i \in Slots, flow[i].kind = "login", flow[i].ph \in {"sent", "totp"},
         pairs' = issueLogin(flow[i].user),
         flow' = [flow EXCEPT ![i].ph = "granted", ![i].got = Len(pairs')],
         UNCHANGED <<store, app, shown, mishaps, why>>
  PROVE  Inv'
  <1> DEFINE g == flow[i]
             n == Len(pairs')
             f == [g EXCEPT !.ph = "granted", !.got = n]
  <1>0. /\ g \in Flows /\ Phased(g) /\ {g.snap, g.tok, g.got} \subseteq 0..Len(pairs)
        /\ g.user \in Users /\ ~g.dead /\ g.runs = 0
    BY FlowFacts DEF Phased, Asking
  <1>1. /\ pairs' \in Seq(Pair) /\ Len(pairs) \in Nat /\ n = Len(pairs) + 1
        /\ \A p \in 1..Len(pairs) : pairs'[p] = pairs[p]
        /\ pairs'[n].refresh
    <2>1. pairs \in Seq(Pair)
      BY Parts
    <2> QED
      BY <1>0, <2>1, IssueFacts
  <1>2. flow' = [flow EXCEPT ![i] = f]
    BY Parts
  <1> HIDE DEF n
  <1>3. n \in Nat /\ n # 0 /\ n \notin 0..Len(pairs) /\ 0..Len(pairs) \subseteq 0..n /\ n \in 0..n
        /\ n >= Len(pairs)
    BY <1>1
  <1>4. /\ f \in Flows /\ f.kind = "login" /\ f.tab = g.tab /\ f.ph = "granted" /\ f.runs = 0
        /\ f.dead = g.dead /\ f.snap = g.snap /\ f.tok = g.tok /\ f.got = n /\ f.user = g.user
    BY <1>0, <1>3 DEF Flows, Phases
  <1> HIDE DEF f
  <1>5. Phased(f) /\ {f.snap, f.tok, f.got} \subseteq 0..n
    BY <1>0, <1>3, <1>4, SessionAssumption DEF Phased, Asking
  <1>6. /\ TypeOK' /\ \A j \in Slots : Phased(flow'[j])
        /\ flow'[i] = f /\ \A j \in Slots : j # i => flow'[j] = flow[j]
    <2>1. /\ store' \in 0..n /\ app' \in [Tabs -> Screens] /\ shown' \in [Tabs -> Users \cup {""}]
          /\ mishaps' \in Nat /\ why' \subseteq {"lost", "late", "elsewhere"}
      BY <1>3, Parts
    <2> QED
      BY <1>1, <1>2, <1>3, <1>4, <1>5, <2>1, FlowTyped DEF n
  <1>7. \A p \in 0..Len(pairs) : p # 0 => pairs'[p] = pairs[p]
    BY <1>1
  <1>8. Screened'
    BY <1>4, <1>6, <1>7, ScreenedKept
  <1>9. InSync'
    <2>1. store' # 0 => Owner(store)' = Owner(store)
      BY <1>7, Parts DEF Owner
    <2>2. ASSUME NEW j \in Slots, flow'[j].ph = "pause"
          PROVE  flow'[j] = flow[j] /\ Owner(flow[j].got)' = Owner(flow[j].got)
      <3>1. flow'[j] = flow[j] /\ flow[j].got \in 0..Len(pairs)
        BY <1>4, <1>6, <2>2, Parts
      <3>2. flow'[j].got # 0 => pairs'[flow'[j].got].user = pairs[flow[j].got].user
        BY <1>7, <3>1
      <3> QED
        BY <3>1, <3>2 DEF Owner
    <2> QED
      BY <2>1, <2>2, Parts DEF InSync
  <1>10. Claimed'
    BY <1>4, <1>6, Parts DEF Claimed
  <1>11. Renewable'
    <2> SUFFICES ASSUME why = {} PROVE Renewable'
      BY DEF Renewable
    <2>1. \A j \in Slots : /\ flow[j].ph \in Asking => flow[j].tok # 0 /\ flow[j].tok \in 0..Len(pairs)
                           /\ flow[j].ph \in {"rotated", "granted"} =>
                                 flow[j].got # 0 /\ flow[j].got \in 0..Len(pairs)
      BY Parts DEF Phased
    <2>2. store \in 0..Len(pairs)
      BY Parts
    <2>3. ~f.dead
      BY <1>0, <1>4
    <2>4. \A j \in Slots : /\ flow[j].ph \in Asking => pairs'[flow[j].tok] = pairs[flow[j].tok]
                           /\ flow[j].ph \in {"rotated", "granted"} => pairs'[flow[j].got] = pairs[flow[j].got]
      BY <1>7, <2>1
    <2>5. /\ \A j \in Slots : flow[j].ph \in Asking => flow[j].tok # n
          /\ \A j \in Slots : flow[j].ph \in {"rotated", "granted"} => flow[j].got # n
          /\ store # n
      BY <1>3, <2>1, <2>2
    <2>6. store # 0 => pairs'[store] = pairs[store]
      BY <1>7, <2>2
    <2>7. Renewable /\ f.ph = "granted" /\ f.got = n /\ pairs'[n].refresh
      BY <1>1, <1>4, Parts
    <2>8. /\ HasSession' /\ StoredLives'
      BY <1>6, <2>2, <2>6, <2>7 DEF Renewable, HasSession, StoredLives
    <2>11. flow'[i] = f /\ \A j \in Slots : j # i => flow'[j] = flow[j]
      BY <1>6
    <2>12. \A j \in Slots : GoesWell(j) /\ FreshPair(j)
      BY <2>7 DEF Renewable
    <2>13. \A j, k \in Slots : Unknown(j, k) /\ Apart(j, k)
      BY <2>7 DEF Renewable
    <2>9. ASSUME NEW j \in Slots PROVE GoesWell(j)' /\ FreshPair(j)'
      <3>1. CASE j = i
        BY <2>3, <2>5, <2>7, <2>11, <3>1 DEF GoesWell, FreshPair
      <3>2. CASE j # i
        BY <2>4, <2>11, <2>12, <3>2 DEF GoesWell, FreshPair, Asking
      <3> QED
        BY <3>1, <3>2
    <2>10. ASSUME NEW j \in Slots, NEW k \in Slots PROVE Unknown(j, k)' /\ Apart(j, k)'
      <3>1. Unknown(j, k) /\ Apart(j, k)
        BY <2>13
      <3>2. CASE j # i /\ k # i
        BY <2>11, <3>1, <3>2 DEF Unknown, Apart
      <3>3. CASE j = i /\ k # i
        <4>1. flow'[j].ph = "granted" /\ flow'[j].got = n /\ flow'[k] = flow[k]
          BY <2>7, <2>11, <3>3
        <4>2. /\ flow[k].ph \in Asking => flow[k].tok # n
              /\ flow[k].ph \in {"rotated", "granted"} => flow[k].got # n
          BY <2>5
        <4> QED
          BY <4>1, <4>2 DEF Unknown, Apart, Asking
      <3>4. CASE j # i /\ k = i
        <4>1. flow'[k].ph = "granted" /\ flow'[k].got = n /\ flow'[j] = flow[j]
          BY <2>7, <2>11, <3>4
        <4>2. flow[j].ph \in {"rotated", "granted"} => flow[j].got # n
          BY <2>5
        <4> QED
          BY <4>1, <4>2 DEF Unknown, Apart, Asking
      <3>5. CASE j = i /\ k = i
        BY <2>7, <2>11, <3>5 DEF Unknown, Apart, Asking
      <3> QED
        BY <3>2, <3>3, <3>4, <3>5
    <2> QED
      BY <2>8, <2>9, <2>10 DEF Renewable
  <1> QED
    BY <1>6, <1>8, <1>9, <1>10, <1>11 DEF Inv

\* Slot i is given f: what is renewable stays so when the stored session, the tokens and
\* the new pairs of the other functions, and those of f, are as Renewable asks.
LEMMA RenewableKept ==
  ASSUME Inv, NEW i \in Slots, \A j \in Slots : j # i => flow'[j] = flow[j],
         why = {}, HasSession', StoredLives', ~flow'[i].dead, flow'[i].ph # "refused",
         flow'[i].ph \in {"refresh", "checked"} => pairs'[flow'[i].tok].refresh,
         flow'[i].ph \in {"rotated", "granted"} => pairs'[flow'[i].got].refresh /\ flow'[i].got # store',
         flow'[i].ph = "rotated" => flow'[i].tok # flow'[i].got,
         \A j \in Slots : j # i =>
            /\ flow[j].ph \in {"refresh", "checked"} => pairs'[flow[j].tok].refresh
            /\ flow[j].ph \in {"rotated", "granted"} => pairs'[flow[j].got].refresh /\ flow[j].got # store'
            /\ flow[j].ph \in {"rotated", "granted"} /\ flow'[i].ph \in Asking => flow[j].got # flow'[i].tok
            /\ flow[j].ph \in Asking /\ flow'[i].ph \in Asking => flow[j].tok # flow'[i].tok
            /\ flow[j].ph \in {"rotated", "granted"} /\ flow'[i].ph \in {"rotated", "granted"} => flow[j].got # flow'[i].got
            /\ flow[j].ph \in Asking /\ flow'[i].ph \in {"rotated", "granted"} => flow[j].tok # flow'[i].got
  PROVE  Renewable'
  <1>1. \A j \in Slots : GoesWell(j)
    BY Parts DEF Renewable
  <1>2. \A j, k \in Slots : Unknown(j, k) /\ Apart(j, k)
    BY Parts DEF Renewable
  <1>3. ASSUME NEW j \in Slots PROVE GoesWell(j)' /\ FreshPair(j)'
    <2>1. CASE j = i
      BY <2>1 DEF GoesWell, FreshPair
    <2>2. CASE j # i
      BY <1>1, <2>2 DEF GoesWell, FreshPair
    <2> QED
      BY <2>1, <2>2
  <1>4. ASSUME NEW j \in Slots, NEW k \in Slots PROVE Unknown(j, k)' /\ Apart(j, k)'
    <2>1. Unknown(j, k) /\ Apart(j, k)
      BY <1>2
    <2>2. CASE j # i /\ k # i
      BY <2>1, <2>2 DEF Unknown, Apart
    <2>3. CASE j = i /\ k # i
      BY <2>3 DEF Unknown, Apart
    <2>4. CASE j # i /\ k = i
      BY <2>4 DEF Unknown, Apart
    <2>5. CASE j = i /\ k = i
      BY <2>5 DEF Unknown, Apart, Asking
    <2> QED
      BY <2>2, <2>3, <2>4, <2>5
  <1> QED
    BY <1>3, <1>4 DEF Renewable

\* What Renewable says of the functions under way.
LEMMA Renewing ==
  ASSUME Inv, why = {}
  PROVE  /\ HasSession /\ StoredLives
         /\ \A j \in Slots : GoesWell(j) /\ FreshPair(j)
         /\ \A j, k \in Slots : Unknown(j, k) /\ Apart(j, k)
         /\ \A j \in Slots : /\ flow[j].ph \in Asking => flow[j].tok \in 1..Len(pairs)
                             /\ flow[j].ph \in {"rotated", "granted"} => flow[j].got \in 1..Len(pairs)
  <1>1. \A p \in 0..Len(pairs) : p # 0 => p \in 1..Len(pairs)
    <2>1. Len(pairs) \in Nat
      BY Parts
    <2> QED
      BY <2>1
  <1>2. \A j \in Slots : /\ flow[j].ph \in Asking => flow[j].tok # 0
                         /\ flow[j].ph \in {"rotated", "granted"} => flow[j].got # 0
    BY Parts DEF Phased
  <1>3. \A j \in Slots : flow[j].tok \in 0..Len(pairs) /\ flow[j].got \in 0..Len(pairs)
    BY Parts
  <1>4. \A j \in Slots : /\ flow[j].ph \in Asking => flow[j].tok \in 1..Len(pairs)
                         /\ flow[j].ph \in {"rotated", "granted"} => flow[j].got \in 1..Len(pairs)
    BY <1>1, <1>2, <1>3
  <1>5. /\ HasSession /\ StoredLives
        /\ \A j \in Slots : GoesWell(j) /\ FreshPair(j)
        /\ \A j, k \in Slots : Unknown(j, k) /\ Apart(j, k)
    BY Parts DEF Renewable
  <1> QED
    BY <1>4, <1>5

\* With the stored session, the screens and the owners as they are, the stored session
\* stays in step with what is shown.
LEMMA InSyncKept ==
  ASSUME Inv, NEW i \in Slots, NEW f, flow'[i] = f, \A j \in Slots : j # i => flow'[j] = flow[j],
         f.ph # "pause", UNCHANGED <<store, app, shown>>, why \subseteq why',
         \A p \in 0..Len(pairs) : p # 0 => pairs'[p].user = pairs[p].user
  PROVE  InSync'
  <1>1. store' # 0 => Owner(store)' = Owner(store)
    BY Parts DEF Owner
  <1>2. ASSUME NEW j \in Slots, flow'[j].ph = "pause"
        PROVE  flow'[j] = flow[j] /\ Owner(flow[j].got)' = Owner(flow[j].got)
    <2>1. flow'[j] = flow[j] /\ flow[j].got \in 0..Len(pairs)
      BY <1>2, Parts
    <2>2. flow'[j].got # 0 => pairs'[flow'[j].got].user = pairs[flow[j].got].user
      BY <2>1
    <2> QED
      BY <2>1, <2>2 DEF Owner
  <1>3. why' \cap {"late", "elsewhere"} = {} => why \cap {"late", "elsewhere"} = {}
    OBVIOUS
  <1> SUFFICES ASSUME why' \cap {"late", "elsewhere"} = {}, store' # 0
               PROVE  /\ \A t \in Tabs : app'[t] \in {"entering", "in"} => Owner(store)' = shown'[t]
                      /\ \A j \in Slots : flow'[j].ph = "pause" => Owner(store)' = Owner(flow[j].got)'
    BY DEF InSync
  <1>4. /\ \A t \in Tabs : app[t] \in {"entering", "in"} => Owner(store) = shown[t]
        /\ \A j \in Slots : flow[j].ph = "pause" => Owner(store) = Owner(flow[j].got)
    BY <1>3, Parts DEF InSync
  <1> QED
    BY <1>1, <1>2, <1>4

\* Likewise for the claim on it.
LEMMA ClaimedKept ==
  ASSUME Inv, NEW i \in Slots, NEW f, flow'[i] = f, \A j \in Slots : j # i => flow'[j] = flow[j],
         flow[i].ph = "pause" => f.ph = "pause", UNCHANGED <<store, app>>, why \subseteq why'
  PROVE  Claimed'
  BY Parts DEF Claimed

\* Refresh finds the token live.
LEMMA CheckedStep ==
  ASSUME Inv, NEW i \in Slots, flow[i].ph = "refresh", pairs[flow[i].tok].refresh,
         flow' = [flow EXCEPT ![i].ph = "checked"],
         UNCHANGED <<pairs, store, app, shown, mishaps, why>>
  PROVE  Inv'
  <1> DEFINE g == flow[i]
             f == [g EXCEPT !.ph = "checked"]
  <1>1. g \in Flows /\ Phased(g) /\ {g.snap, g.tok, g.got} \subseteq 0..Len(pairs)
    BY FlowFacts
  <1>2. flow' = [flow EXCEPT ![i] = f]
    BY Parts
  <1>3. /\ f \in Flows /\ f.kind = g.kind /\ f.tab = g.tab /\ f.ph = "checked" /\ f.runs = g.runs
        /\ f.dead = g.dead /\ f.snap = g.snap /\ f.tok = g.tok /\ f.got = g.got /\ f.user = g.user
    BY <1>1 DEF Flows, Phases, Asking
  <1> HIDE DEF f
  <1>4. Phased(f) /\ f.kind \notin {"boot", "login"}
    BY <1>1, <1>3, SessionAssumption DEF Phased, Asking
  <1>5. /\ TypeOK' /\ \A j \in Slots : Phased(flow'[j])
        /\ flow'[i] = f /\ \A j \in Slots : j # i => flow'[j] = flow[j]
    <2>1. /\ store' \in 0..Len(pairs) /\ app' \in [Tabs -> Screens] /\ shown' \in [Tabs -> Users \cup {""}]
          /\ mishaps' \in Nat /\ why' \subseteq {"lost", "late", "elsewhere"}
      BY Parts
    <2>2. {f.snap, f.tok, f.got} \subseteq 0..Len(pairs)
      BY <1>1, <1>3
    <2> QED
      BY <1>2, <1>3, <1>4, <2>1, <2>2, FlowTypedHere
  <1>6. Screened'
    BY <1>3, <1>4, <1>5, ScreenedKept
  <1>7. InSync' /\ Claimed'
    BY <1>3, <1>5, InSyncKept, ClaimedKept
  <1>8. Renewable'
    <2> SUFFICES ASSUME why = {} PROVE Renewable'
      BY DEF Renewable
    <2>1. HasSession' /\ StoredLives'
      BY <1>3, <1>5, Renewing DEF HasSession, StoredLives
    <2>2. /\ ~g.dead /\ pairs[g.tok].refresh /\ g.ph = "refresh"
          /\ \A j \in Slots : GoesWell(j) /\ FreshPair(j)
          /\ \A j \in Slots : Unknown(j, i) /\ Apart(i, j)
      BY Renewing DEF GoesWell
    <2>3. \A j \in Slots : j # i =>
            /\ flow[j].ph \in {"refresh", "checked"} => pairs'[flow[j].tok].refresh
            /\ flow[j].ph \in {"rotated", "granted"} => pairs'[flow[j].got].refresh /\ flow[j].got # store'
            /\ flow[j].ph \in {"rotated", "granted"} => flow[j].got # f.tok
            /\ flow[j].ph \in Asking => flow[j].tok # f.tok
      BY <1>3, <2>2 DEF GoesWell, FreshPair, Unknown, Apart, Asking
    <2> QED
      BY <1>3, <1>5, <2>1, <2>2, <2>3, RenewableKept
  <1> QED
    BY <1>5, <1>6, <1>7, <1>8 DEF Inv

\* A refresh fails at the server, which revokes the token: something was lost.
LEMMA RefusedStep ==
  ASSUME Inv, NEW i \in Slots, flow[i].ph \in {"refresh", "checked"},
         pairs' = [pairs EXCEPT ![flow[i].tok].refresh = FALSE],
         flow' = [flow EXCEPT ![i].ph = "refused"],
         why' \in {why, why \cup {"lost"}}, why' # {},
         UNCHANGED <<store, app, shown, mishaps>>
  PROVE  Inv'
  <1> DEFINE g == flow[i]
             f == [g EXCEPT !.ph = "refused"]
  <1>1. /\ g \in Flows /\ Phased(g) /\ {g.snap, g.tok, g.got} \subseteq 0..Len(pairs)
        /\ pairs \in Seq(Pair) /\ Len(pairs) \in Nat
    BY FlowFacts
  <1>0. g.tok \in 1..Len(pairs)
    <2>1. g.tok # 0 /\ g.tok \in 0..Len(pairs)
      BY <1>1 DEF Phased, Asking
    <2> QED
      BY <2>1, FlowFacts
  <1>2. flow' = [flow EXCEPT ![i] = f]
    BY Parts
  <1>3. /\ f \in Flows /\ f.kind = g.kind /\ f.tab = g.tab /\ f.ph = "refused" /\ f.runs = g.runs
        /\ f.dead = g.dead /\ f.snap = g.snap /\ f.tok = g.tok /\ f.got = g.got /\ f.user = g.user
    BY <1>1 DEF Flows, Phases, Asking
  <1> HIDE DEF f
  <1>4. Phased(f) /\ f.kind \notin {"boot", "login"}
    BY <1>1, <1>3, SessionAssumption DEF Phased, Asking
  <1>9. /\ pairs' \in Seq(Pair) /\ Len(pairs') = Len(pairs)
        /\ \A p \in 1..Len(pairs) : pairs'[p].user = pairs[p].user
    BY <1>0, <1>1, RevokeFacts
  <1>10. \A p \in 0..Len(pairs) : p # 0 => pairs'[p].user = pairs[p].user
    BY <1>9, FlowFacts
  <1>5. /\ TypeOK' /\ \A j \in Slots : Phased(flow'[j])
        /\ flow'[i] = f /\ \A j \in Slots : j # i => flow'[j] = flow[j]
    <2>1. /\ store' \in 0..Len(pairs') /\ app' \in [Tabs -> Screens] /\ shown' \in [Tabs -> Users \cup {""}]
          /\ mishaps' \in Nat
      BY <1>9, Parts
    <2>3. why' \subseteq {"lost", "late", "elsewhere"}
      BY Parts
    <2>4. {f.snap, f.tok, f.got} \subseteq 0..Len(pairs')
      BY <1>1, <1>3, <1>9
    <2>2. Len(pairs') \in Nat /\ Len(pairs') >= Len(pairs)
      BY <1>1, <1>9
    <2> QED
      BY <1>2, <1>3, <1>4, <1>9, <2>1, <2>2, <2>3, <2>4, FlowTyped
  <1>6. Screened'
    BY <1>3, <1>4, <1>5, <1>10, ScreenedKept
  <1>7. InSync' /\ Claimed'
    BY <1>3, <1>5, <1>10, InSyncKept, ClaimedKept
  <1>8. Renewable'
    BY DEF Renewable
  <1> QED
    BY <1>5, <1>6, <1>7, <1>8 DEF Inv

\* Refresh looks the token up.
LEMMA LookupStep ==
  ASSUME Inv, NEW i \in Slots, RefreshLookup(i)
  PROVE  Inv'
  <1>1. CASE pairs[flow[i].tok].refresh /\ flow' = [flow EXCEPT ![i].ph = "checked"] /\ UNCHANGED <<pairs, why>>
    BY <1>1, CheckedStep DEF RefreshLookup
  <1>2. CASE /\ flow' = [flow EXCEPT ![i].ph = "refused"]
             /\ pairs' = [pairs EXCEPT ![flow[i].tok].refresh = FALSE]
             /\ why' = IF pairs[flow[i].tok].refresh THEN why \cup {"lost"} ELSE why
    <2>1. flow[i].ph = "refresh" /\ UNCHANGED <<store, app, shown, mishaps>>
      BY DEF RefreshLookup
    <2>2. why = {} => pairs[flow[i].tok].refresh
      BY <2>1, Renewing DEF GoesWell
    <2>3. why' \in {why, why \cup {"lost"}} /\ why' # {}
      BY <1>2, <2>2
    <2> QED
      BY <1>2, <2>1, <2>3, RefusedStep
  <1> QED
    BY <1>1, <1>2 DEF RefreshLookup

\* Refresh revokes the token and then issues the pair that replaces it.
LEMMA RotatedStep ==
  ASSUME Inv, NEW i \in Slots, flow[i].ph = "checked",
         pairs' = [issueLogin(Owner(flow[i].tok)) EXCEPT ![flow[i].tok].refresh = FALSE],
         flow' = [flow EXCEPT ![i].ph = "rotated", ![i].got = Len(pairs')],
         UNCHANGED <<store, app, shown, mishaps, why>>
  PROVE  Inv'
  <1> DEFINE g == flow[i]
             n == Len(pairs')
             f == [g EXCEPT !.ph = "rotated", !.got = n]
             q == issueLogin(Owner(g.tok))
  <1>0. /\ g \in Flows /\ Phased(g) /\ {g.snap, g.tok, g.got} \subseteq 0..Len(pairs)
        /\ pairs \in Seq(Pair) /\ Len(pairs) \in Nat
    BY FlowFacts
  <1>1. g.tok \in 1..Len(pairs) /\ pairs[g.tok] \in Pair /\ g.tok # 0
    <2>1. g.tok # 0 /\ g.tok \in 0..Len(pairs)
      BY <1>0 DEF Phased, Asking
    <2> QED
      BY <2>1, FlowFacts
  <1>2. Owner(g.tok) = pairs[g.tok].user /\ Owner(g.tok) \in Users
    BY <1>1 DEF Owner, Pair
  <1>3. /\ q \in Seq(Pair) /\ Len(q) = Len(pairs) + 1
        /\ \A p \in 1..Len(pairs) : q[p] = pairs[p]
        /\ q[Len(pairs) + 1].user = Owner(g.tok) /\ q[Len(pairs) + 1].refresh
    BY <1>0, <1>2, IssueFacts
  <1> HIDE DEF q
  <1>4. g.tok \in 1..Len(q) /\ Len(pairs) + 1 \in 1..Len(q) /\ Len(pairs) + 1 # g.tok /\ 1..Len(pairs) \subseteq 1..Len(q)
    BY <1>0, <1>1, <1>3
  <1>5. /\ pairs' \in Seq(Pair) /\ Len(pairs') = Len(q)
        /\ \A p \in 1..Len(q) : pairs'[p].user = q[p].user /\ (p # g.tok => pairs'[p] = q[p])
    BY <1>3, <1>4, RevokeFacts DEF q
  <1>6. flow' = [flow EXCEPT ![i] = f]
    BY Parts
  <1>7. n = Len(pairs) + 1
    BY <1>3, <1>5
  <1>8. pairs'[n].user = Owner(g.tok) /\ pairs'[n].refresh
    BY <1>3, <1>4, <1>5, <1>7
  <1>9. \A p \in 1..Len(pairs) : pairs'[p].user = pairs[p].user /\ (p # g.tok => pairs'[p] = pairs[p])
    BY <1>3, <1>4, <1>5
  <1> HIDE DEF n
  <1>10. n \in Nat /\ n # 0 /\ n \notin 0..Len(pairs) /\ n \notin 1..Len(pairs)
         /\ 0..Len(pairs) \subseteq 0..n /\ n \in 0..n /\ n >= Len(pairs)
    BY <1>0, <1>7
  <1>11. /\ f \in Flows /\ f.kind = g.kind /\ f.tab = g.tab /\ f.ph = "rotated" /\ f.runs = g.runs
         /\ f.dead = g.dead /\ f.snap = g.snap /\ f.tok = g.tok /\ f.got = n /\ f.user = g.user
    BY <1>0, <1>10 DEF Flows, Phases, Asking
  <1> HIDE DEF f
  <1>12. Phased(f) /\ {f.snap, f.tok, f.got} \subseteq 0..n /\ f.kind \notin {"boot", "login"}
    BY <1>0, <1>10, <1>11, SessionAssumption DEF Phased, Asking
  <1>13. /\ TypeOK' /\ \A j \in Slots : Phased(flow'[j])
         /\ flow'[i] = f /\ \A j \in Slots : j # i => flow'[j] = flow[j]
    <2>1. /\ store' \in 0..n /\ app' \in [Tabs -> Screens] /\ shown' \in [Tabs -> Users \cup {""}]
          /\ mishaps' \in Nat /\ why' \subseteq {"lost", "late", "elsewhere"}
      BY <1>10, Parts
    <2> QED
      BY <1>5, <1>6, <1>10, <1>11, <1>12, <2>1, FlowTyped DEF n
  <1>14. \A p \in 0..Len(pairs) : p # 0 => pairs'[p].user = pairs[p].user
    BY <1>9, FlowFacts
  <1>15. Screened'
    <2>1. flow'[i].got = n /\ flow'[i].tok = g.tok
      BY <1>11, <1>13
    <2>2. pairs'[n].user = pairs'[g.tok].user /\ n # 0
      BY <1>1, <1>2, <1>8, <1>9, <1>10
    <2>3. (Owner(flow[i].got) = Owner(flow[i].tok))'
      BY <1>1, <2>1, <2>2 DEF Owner
    <2> QED
      BY <1>11, <1>12, <1>13, <1>14, <2>3, ScreenedKept
  <1>16. InSync' /\ Claimed'
    BY <1>11, <1>13, <1>14, InSyncKept, ClaimedKept
  <1>17. Renewable'
    <2> SUFFICES ASSUME why = {} PROVE Renewable'
      BY DEF Renewable
    <2>1. HasSession /\ StoredLives /\ \A j \in Slots : GoesWell(j) /\ FreshPair(j)
      BY Renewing
    <2>2. \A j \in Slots : Unknown(j, i) /\ Apart(i, j)
      BY Renewing
    <2>3. \A j \in Slots : /\ flow[j].ph \in Asking => flow[j].tok \in 1..Len(pairs)
                           /\ flow[j].ph \in {"rotated", "granted"} => flow[j].got \in 1..Len(pairs)
      BY Renewing
    <2>4. ASSUME NEW j \in Slots, j # i
          PROVE  /\ flow[j].ph \in {"refresh", "checked"} => pairs'[flow[j].tok].refresh
                 /\ flow[j].ph \in {"rotated", "granted"} => pairs'[flow[j].got].refresh /\ flow[j].got # store'
                 /\ flow[j].ph \in {"rotated", "granted"} => flow[j].got # f.tok
                 /\ flow[j].ph \in Asking => flow[j].tok # f.tok
                 /\ flow[j].ph \in {"rotated", "granted"} => flow[j].got # f.got
                 /\ flow[j].ph \in Asking => flow[j].tok # f.got
      <3>1. /\ flow[j].ph \in Asking => flow[j].tok # g.tok
            /\ flow[j].ph \in {"rotated", "granted"} => flow[j].got # g.tok
        BY <2>2, <2>4 DEF Unknown, Apart, Asking
      <3>2. /\ flow[j].ph \in {"refresh", "checked"} => pairs'[flow[j].tok] = pairs[flow[j].tok]
            /\ flow[j].ph \in {"rotated", "granted"} => pairs'[flow[j].got] = pairs[flow[j].got]
        BY <1>9, <2>3, <3>1 DEF Asking
      <3>3. GoesWell(j) /\ FreshPair(j)
        BY <2>1
      <3>4. /\ flow[j].ph \in {"rotated", "granted"} => flow[j].got # n
            /\ flow[j].ph \in Asking => flow[j].tok # n
        BY <1>10, <2>3
      <3> QED
        BY <1>11, <3>1, <3>2, <3>3, <3>4 DEF GoesWell, FreshPair
    <2>5. HasSession'
      BY <1>11, <1>13, <2>1 DEF HasSession
    <2>6. store # 0 => store \in 1..Len(pairs)
      BY FlowFacts
    <2>7. StoredLives'
      <3>1. CASE store = g.tok
        BY <1>11, <1>13, <3>1 DEF StoredLives
      <3>2. CASE store # g.tok
        <4>1. store # 0 => pairs'[store] = pairs[store]
          BY <1>9, <2>6, <3>2
        <4>2. \A j \in Slots : flow[j].ph = "rotated" => flow'[j] = flow[j]
          BY <1>13
        <4> QED
          BY <2>1, <4>1, <4>2 DEF StoredLives
      <3> QED
        BY <3>1, <3>2
    <2>8. /\ ~f.dead /\ f.ph = "rotated" /\ f.tok # f.got
          /\ pairs'[f.got].refresh /\ f.got # store'
      <3>1. ~g.dead
        BY <2>1 DEF GoesWell
      <3>2. g.tok # n /\ store # n
        BY <1>1, <1>10, Parts
      <3> QED
        BY <1>8, <1>11, <3>1, <3>2
    <2> QED
      <3>1. \A j \in Slots : j # i =>
              /\ flow[j].ph \in {"refresh", "checked"} => pairs'[flow[j].tok].refresh
              /\ flow[j].ph \in {"rotated", "granted"} => pairs'[flow[j].got].refresh /\ flow[j].got # store'
              /\ flow[j].ph \in {"rotated", "granted"} /\ flow'[i].ph \in Asking => flow[j].got # flow'[i].tok
              /\ flow[j].ph \in Asking /\ flow'[i].ph \in Asking => flow[j].tok # flow'[i].tok
              /\ flow[j].ph \in {"rotated", "granted"} /\ flow'[i].ph \in {"rotated", "granted"} => flow[j].got # flow'[i].got
              /\ flow[j].ph \in Asking /\ flow'[i].ph \in {"rotated", "granted"} => flow[j].tok # flow'[i].got
        BY <1>13, <2>4
      <3>2. \A j \in Slots : j # i => flow'[j] = flow[j]
        BY <1>13
      <3>3. /\ ~flow'[i].dead /\ flow'[i].ph # "refused"
            /\ flow'[i].ph \in {"refresh", "checked"} => pairs'[flow'[i].tok].refresh
            /\ flow'[i].ph \in {"rotated", "granted"} => pairs'[flow'[i].got].refresh /\ flow'[i].got # store'
            /\ flow'[i].ph = "rotated" => flow'[i].tok # flow'[i].got
        BY <1>13, <2>8
      <3> QED
        BY <2>5, <2>7, <3>1, <3>2, <3>3, RenewableKept
  <1> QED
    BY <1>13, <1>15, <1>16, <1>17 DEF Inv

\* Refresh issues the new pair, or fails to.
LEMMA RotateStep ==
  ASSUME Inv, NEW i \in Slots, RefreshRotate(i)
  PROVE  Inv'
  <1>1. flow[i].ph = "checked" /\ UNCHANGED <<store, app, shown, mishaps>>
    BY DEF RefreshRotate
  <1>2. CASE /\ pairs' = [issueLogin(Owner(flow[i].tok)) EXCEPT ![flow[i].tok].refresh = FALSE]
             /\ flow' = [flow EXCEPT ![i].ph = "rotated", ![i].got = Len(pairs')]
             /\ UNCHANGED why
    BY <1>1, <1>2, RotatedStep
  <1>3. CASE /\ pairs' = [pairs EXCEPT ![flow[i].tok].refresh = FALSE]
             /\ flow' = [flow EXCEPT ![i].ph = "refused"]
             /\ why' = why \cup {"lost"}
    BY <1>1, <1>3, RefusedStep
  <1> QED
    BY <1>2, <1>3 DEF RefreshRotate

\* requestWithRetry refreshes what is stored, alone or at the price of a session.
LEMMA AskStep ==
  ASSUME Inv, NEW i \in Slots, IsRequest(i), flow[i].ph = "denied", ~flow[i].dead, store # 0,
         flow' = [flow EXCEPT ![i].ph = "refresh", ![i].tok = store],
         why' = IF \E j \in Slots \ {i} : Refreshing(j) /\ flow[j].tok = store
                THEN why \cup {"lost"} ELSE why,
         UNCHANGED <<pairs, store, app, shown, mishaps>>
  PROVE  Inv'
  <1> DEFINE g == flow[i]
             f == [g EXCEPT !.ph = "refresh", !.tok = store]
  <1>1. /\ g \in Flows /\ Phased(g) /\ {g.snap, g.tok, g.got} \subseteq 0..Len(pairs)
        /\ store \in 0..Len(pairs) /\ store \in Nat
    BY FlowFacts
  <1>2. flow' = [flow EXCEPT ![i] = f]
    BY Parts
  <1>3. /\ f \in Flows /\ f.kind = g.kind /\ f.tab = g.tab /\ f.ph = "refresh" /\ f.runs = g.runs
        /\ f.dead = g.dead /\ f.snap = g.snap /\ f.tok = store /\ f.got = g.got /\ f.user = g.user
    BY <1>1 DEF Flows, Phases, Asking
  <1> HIDE DEF f
  <1>4. Phased(f) /\ f.kind \notin {"boot", "login"}
    BY <1>1, <1>3, SessionAssumption DEF Phased, Asking, IsRequest
  <1>0. why \subseteq why' /\ why' \subseteq {"lost", "late", "elsewhere"}
    BY Parts
  <1>5. /\ TypeOK' /\ \A j \in Slots : Phased(flow'[j])
        /\ flow'[i] = f /\ \A j \in Slots : j # i => flow'[j] = flow[j]
    <2>1. /\ store' \in 0..Len(pairs) /\ app' \in [Tabs -> Screens]
          /\ shown' \in [Tabs -> Users \cup {""}] /\ mishaps' \in Nat
      BY Parts
    <2>2. {f.snap, f.tok, f.got} \subseteq 0..Len(pairs)
      BY <1>1, <1>3
    <2> QED
      BY <1>0, <1>2, <1>3, <1>4, <2>1, <2>2, FlowTypedHere
  <1>6. Screened'
    BY <1>3, <1>4, <1>5, ScreenedKept
  <1>7. InSync' /\ Claimed'
    BY <1>0, <1>3, <1>5, InSyncKept, ClaimedKept
  <1>8. Renewable'
    <2> SUFFICES ASSUME why' = {} PROVE Renewable'
      BY DEF Renewable
    <2>1. why = {} /\ \A j \in Slots : j # i /\ flow[j].ph \in Asking => flow[j].tok # store
      BY DEF Refreshing
    <2>2. HasSession' /\ StoredLives'
      BY <1>3, <1>5, <2>1, Renewing DEF HasSession, StoredLives
    <2>3. pairs[store].refresh
      BY <2>1, Renewing DEF StoredLives, Asking
    <2>4. \A j \in Slots : GoesWell(j) /\ FreshPair(j)
      BY <2>1, Renewing
    <2>5. \A j \in Slots : j # i =>
            /\ flow[j].ph \in {"refresh", "checked"} => pairs'[flow[j].tok].refresh
            /\ flow[j].ph \in {"rotated", "granted"} => pairs'[flow[j].got].refresh /\ flow[j].got # store'
            /\ flow[j].ph \in {"rotated", "granted"} => flow[j].got # flow'[i].tok
            /\ flow[j].ph \in Asking => flow[j].tok # flow'[i].tok
      BY <1>3, <1>5, <2>1, <2>4 DEF GoesWell, FreshPair
    <2>6. flow'[i].ph = "refresh" /\ ~flow'[i].dead /\ pairs'[flow'[i].tok].refresh
      BY <1>3, <1>5, <2>3
    <2> QED
      BY <1>5, <2>1, <2>2, <2>5, <2>6, RenewableKept
  <1> QED
    BY <1>5, <1>6, <1>7, <1>8 DEF Inv

\* A refused request.
LEMMA DeniedStep ==
  ASSUME Inv, NEW i \in Slots, Denied(i)
  PROVE  Inv'
  <1>1. CASE flow' = [flow EXCEPT ![i] = Idle] /\ UNCHANGED why
    BY <1>1, EndStep DEF Denied
  <1>2. CASE /\ store # 0 /\ flow' = [flow EXCEPT ![i].ph = "refresh", ![i].tok = store]
             /\ why' = IF \E j \in Slots \ {i} : Refreshing(j) /\ flow[j].tok = store
                       THEN why \cup {"lost"} ELSE why
    BY <1>2, AskStep DEF Denied
  <1> QED
    BY <1>1, <1>2 DEF Denied

\* The pair that a refresh brought replaces the one it was asked for, or comes late.
LEMMA RetryStep ==
  ASSUME Inv, NEW i \in Slots, Retry(i)
  PROVE  Inv'
  <1> DEFINE g == flow[i]
             f == [g EXCEPT !.ph = "sent", !.again = TRUE, !.fell = FALSE,
                            !.snap = g.got, !.tok = 0, !.got = 0]
  <1>1. /\ g \in Flows /\ Phased(g) /\ {g.snap, g.tok, g.got} \subseteq 0..Len(pairs)
        /\ g.ph = "rotated" /\ ~g.dead /\ store' = g.got
        /\ why' = (IF store = g.tok THEN why ELSE why \cup {"late"})
        /\ UNCHANGED <<pairs, app, shown, mishaps>> /\ 0 \in 0..Len(pairs) /\ g.got \in Nat
    BY FlowFacts DEF Retry
  <1>2. flow' = [flow EXCEPT ![i] = f]
    BY Parts DEF Retry
  <1>3. /\ f \in Flows /\ f.kind = g.kind /\ f.tab = g.tab /\ f.ph = "sent" /\ f.runs = g.runs
        /\ f.dead = g.dead /\ f.snap = g.got /\ f.tok = 0 /\ f.got = 0 /\ f.user = g.user
    BY <1>1 DEF Flows, Phases
  <1> HIDE DEF f
  <1>4. Phased(f) /\ f.kind \notin {"boot", "login"} /\ g.got # 0 /\ g.tok # 0
    BY <1>1, <1>3, SessionAssumption DEF Phased, Asking
  <1>0. why \subseteq why' /\ why' \subseteq {"lost", "late", "elsewhere"}
    BY <1>1, Parts
  <1>5. /\ TypeOK' /\ \A j \in Slots : Phased(flow'[j])
        /\ flow'[i] = f /\ \A j \in Slots : j # i => flow'[j] = flow[j]
    <2>1. /\ store' \in 0..Len(pairs) /\ app' \in [Tabs -> Screens]
          /\ shown' \in [Tabs -> Users \cup {""}] /\ mishaps' \in Nat
      BY <1>1, Parts
    <2>2. {f.snap, f.tok, f.got} \subseteq 0..Len(pairs)
      BY <1>1, <1>3
    <2> QED
      BY <1>0, <1>1, <1>2, <1>3, <1>4, <2>1, <2>2, FlowTypedHere
  <1>6. Screened'
    BY <1>1, <1>3, <1>4, <1>5, ScreenedKept
  <1>9. CASE store # g.tok
    <2>1. "late" \in why'
      BY <1>1, <1>9
    <2>2. InSync' /\ Claimed' /\ Renewable'
      BY <2>1 DEF InSync, Claimed, Renewable
    <2> QED
      BY <1>5, <1>6, <2>2 DEF Inv
  <1>10. CASE store = g.tok
    <2>1. why' = why /\ store # 0 /\ store' # 0
      BY <1>1, <1>4, <1>10
    <2>2. \A j \in Slots : flow'[j].ph = "pause" => flow'[j] = flow[j]
      BY <1>3, <1>5
    <2>3. \A j \in Slots : flow[j].ph = "pause" => flow'[j] = flow[j]
      BY <1>1, <1>5
    <2>4. Claimed'
      BY <1>1, <2>1, <2>3, Parts DEF Claimed
    <2>5. InSync'
      <3>1. Owner(store)' = Owner(store)
        <4>1. Owner(g.got) = Owner(g.tok)
          BY <1>1, Parts DEF Screened
        <4>2. Owner(store)' = Owner(g.got)
          BY <1>1 DEF Owner
        <4> QED
          BY <1>10, <4>1, <4>2
      <3>2. \A j \in Slots : flow'[j].ph = "pause" => (Owner(flow[j].got)' = Owner(flow[j].got))
        BY <1>1, <2>2 DEF Owner
      <3> QED
        BY <1>1, <2>1, <2>2, <3>1, <3>2, Parts DEF InSync
    <2>6. Renewable'
      <3> SUFFICES ASSUME why = {} PROVE Renewable'
        BY <2>1 DEF Renewable
      <3>1. \A j \in Slots : GoesWell(j) /\ FreshPair(j) /\ Apart(i, j)
        BY Renewing
      <3>2. HasSession'
        BY <2>1 DEF HasSession
      <3>3. StoredLives'
        BY <1>1, <3>1 DEF StoredLives, FreshPair
      <3>4. \A j \in Slots : j # i =>
              /\ flow[j].ph \in {"refresh", "checked"} => pairs'[flow[j].tok].refresh
              /\ flow[j].ph \in {"rotated", "granted"} => pairs'[flow[j].got].refresh /\ flow[j].got # store'
        BY <1>1, <3>1 DEF GoesWell, FreshPair, Apart
      <3>5. flow'[i].ph = "sent" /\ ~flow'[i].dead
        BY <1>1, <1>3, <1>5
      <3>6. \A j \in Slots : j # i => flow'[j] = flow[j]
        BY <1>5
      <3>7. flow'[i].ph \notin Asking
        BY <3>5 DEF Asking
      <3> QED
        BY <3>2, <3>3, <3>4, <3>5, <3>6, <3>7, RenewableKept
    <2> QED
      BY <1>5, <1>6, <2>4, <2>5, <2>6 DEF Inv
  <1> QED
    BY <1>9, <1>10

\* The screen of tab t changes: the functions of the other tabs are as they were, and at
\* most one of t starts it or logs in there, and fits its new screen.
LEMMA ScreenMoved ==
  ASSUME Inv, NEW t \in Tabs, NEW x, app' = [app EXCEPT ![t] = x], UNCHANGED pairs,
         \A j \in Slots : flow'[j].kind \in {"boot", "login"} =>
            \/ flow'[j] = flow[j] /\ flow[j].tab # t
            \/ /\ flow'[j].tab = t
               /\ flow'[j].kind = "boot" => x = "loading"
               /\ flow'[j].kind = "login" => x = IF flow'[j].ph = "welcome" THEN "entering" ELSE "login",
         \A j, k \in Slots : j # k /\ {flow'[j].kind, flow'[k].kind} \subseteq {"boot", "login"}
                               => flow'[j].tab # t \/ flow'[k].tab # t,
         \A j \in Slots : flow'[j].ph = "rotated" => flow'[j] = flow[j]
  PROVE  Screened'
  <1>1. /\ \A j \in Slots : flow[j].kind # "idle" => flow[j].tab \in Tabs
        /\ app \in [Tabs -> Screens]
    BY Parts DEF Phased
  <1>2. app'[t] = x /\ \A o \in Tabs : o # t => app'[o] = app[o]
    BY <1>1
  <1>3. \A j \in Slots :
          /\ flow[j].kind = "boot" => app[flow[j].tab] = "loading"
          /\ flow[j].kind = "login" =>
               app[flow[j].tab] = IF flow[j].ph = "welcome" THEN "entering" ELSE "login"
    BY Parts DEF Screened
  <1>4. \A j \in Slots :
          /\ flow'[j].kind = "boot" => app'[flow'[j].tab] = "loading"
          /\ flow'[j].kind = "login" =>
               app'[flow'[j].tab] = IF flow'[j].ph = "welcome" THEN "entering" ELSE "login"
    BY <1>1, <1>2, <1>3
  <1>5. \A j \in Slots : flow'[j].ph = "rotated" => (Owner(flow[j].got) = Owner(flow[j].tok))'
    <2>1. \A j \in Slots : flow[j].ph = "rotated" => Owner(flow[j].got) = Owner(flow[j].tok)
      BY Parts DEF Screened
    <2> QED
      BY <2>1 DEF Owner
  <1>6. \A j, k \in Slots : j # k /\ flow'[j].kind = flow'[k].kind /\ flow'[j].kind \in {"boot", "login"}
                            => flow'[j].tab # flow'[k].tab
    <2>1. \A j, k \in Slots : j # k /\ flow[j].kind = flow[k].kind /\ flow[j].kind \in {"boot", "login"}
                              => flow[j].tab # flow[k].tab
      BY Parts DEF Screened
    <2> QED
      BY <2>1
  <1> QED
    BY <1>4, <1>5, <1>6 DEF Screened

\* A tab that starts or logs in does so in one function, and one that is in does not.
LEMMA SoleOnTab ==
  ASSUME Inv
  PROVE  /\ \A j \in Slots : flow[j].kind \in {"boot", "login"} => app[flow[j].tab] \notin {"in", "closed"}
         /\ \A i, j \in Slots : i # j /\ {flow[i].kind, flow[j].kind} \subseteq {"boot", "login"}
                                  => flow[j].tab # flow[i].tab
  BY Parts DEF Screened

\* A login changes what is stored, of its tab alone or for others too.
LEMMA LoggedInStep ==
  ASSUME Inv, NEW i \in Slots, LoggedIn(i)
  PROVE  Inv'
  <1> DEFINE g == flow[i]
             f == [g EXCEPT !.ph = "pause"]
             t == g.tab
  <1>1. /\ g \in Flows /\ Phased(g) /\ {g.snap, g.tok, g.got} \subseteq 0..Len(pairs)
        /\ g.ph = "granted" /\ ~g.dead /\ store' = g.got
        /\ why' = (IF Elsewhere(t) THEN why \cup {"elsewhere"} ELSE why)
        /\ UNCHANGED <<pairs, app, shown, mishaps>>
    BY FlowFacts DEF LoggedIn
  <1>2. flow' = [flow EXCEPT ![i] = f]
    BY Parts DEF LoggedIn
  <1>3. /\ f \in Flows /\ f.kind = g.kind /\ f.tab = t /\ f.ph = "pause" /\ f.runs = g.runs
        /\ f.dead = g.dead /\ f.snap = g.snap /\ f.tok = g.tok /\ f.got = g.got /\ f.user = g.user
    BY <1>1 DEF Flows, Phases
  <1> HIDE DEF f
  <1>4. Phased(f) /\ g.kind = "login" /\ g.got # 0 /\ t \in Tabs
    BY <1>1, <1>3, SessionAssumption DEF Phased, Asking, Flows
  <1>0. why \subseteq why' /\ why' \subseteq {"lost", "late", "elsewhere"}
    BY <1>1, Parts
  <1>5. /\ TypeOK' /\ \A j \in Slots : Phased(flow'[j])
        /\ flow'[i] = f /\ \A j \in Slots : j # i => flow'[j] = flow[j]
    <2>1. /\ store' \in 0..Len(pairs) /\ app' \in [Tabs -> Screens]
          /\ shown' \in [Tabs -> Users \cup {""}] /\ mishaps' \in Nat
      BY <1>1, Parts
    <2>2. {f.snap, f.tok, f.got} \subseteq 0..Len(pairs)
      BY <1>1, <1>3
    <2> QED
      BY <1>0, <1>1, <1>2, <1>3, <1>4, <2>1, <2>2, FlowTypedHere
  <1>6. Screened'
    BY <1>1, <1>3, <1>4, <1>5, ScreenedKept
  <1>7. Claimed'
    BY <1>3, <1>5 DEF Claimed
  <1>8. CASE Elsewhere(t)
    <2>1. "elsewhere" \in why'
      BY <1>1, <1>8
    <2>2. InSync' /\ Renewable'
      BY <2>1 DEF InSync, Renewable
    <2> QED
      BY <1>5, <1>6, <1>7, <2>2 DEF Inv
  <1>9. CASE ~Elsewhere(t)
    <2>1. why' = why /\ app[t] = "login"
      BY <1>1, <1>4, <1>9, Parts DEF Screened
    <2>2. \A o \in Tabs : app[o] \notin {"entering", "in"}
      BY <1>9, <2>1 DEF Elsewhere
    <2>3. ASSUME NEW j \in Slots, j # i PROVE flow[j].ph # "pause"
      <3>1. flow[j] \in Flows /\ Phased(flow[j])
        BY FlowFacts
      <3>2. flow[j].ph = "pause" => flow[j].kind = "login" /\ flow[j].tab \in Tabs
        BY <3>1, SessionAssumption DEF Phased, Asking, Flows
      <3>3. flow[j].kind = "login" => flow[j].tab # t
        BY <1>4, <2>3, SoleOnTab
      <3> QED
        BY <1>9, <3>2, <3>3 DEF Elsewhere
    <2>4. InSync'
      <3>1. \A j \in Slots : flow'[j].ph = "pause" => flow'[j].got = g.got
        BY <1>3, <1>5, <2>3
      <3>2. \A j \in Slots : flow'[j].ph = "pause" => (Owner(store) = Owner(flow[j].got))'
        BY <1>1, <3>1 DEF Owner
      <3>3. \A o \in Tabs : app'[o] \notin {"entering", "in"}
        BY <1>1, <2>2
      <3> QED
        BY <3>2, <3>3 DEF InSync
    <2>5. Renewable'
      <3> SUFFICES ASSUME why = {} PROVE Renewable'
        BY <2>1 DEF Renewable
      <3>1. \A j \in Slots : GoesWell(j) /\ FreshPair(j) /\ Apart(i, j)
        BY Renewing
      <3>2. HasSession'
        BY <1>1, <1>4 DEF HasSession
      <3>3. StoredLives'
        BY <1>1, <3>1 DEF StoredLives, FreshPair
      <3>4. \A j \in Slots : j # i =>
              /\ flow[j].ph \in {"refresh", "checked"} => pairs'[flow[j].tok].refresh
              /\ flow[j].ph \in {"rotated", "granted"} => pairs'[flow[j].got].refresh /\ flow[j].got # store'
        BY <1>1, <3>1 DEF GoesWell, FreshPair, Apart
      <3>5. flow'[i].ph = "pause" /\ ~flow'[i].dead
        BY <1>1, <1>3, <1>5
      <3>6. \A j \in Slots : j # i => flow'[j] = flow[j]
        BY <1>5
      <3>7. flow'[i].ph \notin Asking
        BY <3>5 DEF Asking
      <3> QED
        BY <3>2, <3>3, <3>4, <3>5, <3>6, <3>7, RenewableKept
    <2> QED
      BY <1>5, <1>6, <1>7, <2>4, <2>5 DEF Inv
  <1> QED
    BY <1>8, <1>9

\* The phases that only a login goes through.
LEMMA LoginPhases ==
  ASSUME Inv, NEW j \in Slots, flow[j].ph \in {"pause", "welcome", "challenged", "totp", "granted"}
  PROVE  flow[j].kind = "login" /\ flow[j].tab \in Tabs /\ ~flow[j].dead /\ flow[j].runs = 0
  <1>1. flow[j] \in Flows /\ Phased(flow[j])
    BY FlowFacts
  <1> QED
    BY <1>1, SessionAssumption DEF Phased, Asking, Flows

\* The owner of a pair is a user.
LEMMA OwnerTyped == ASSUME Inv, NEW p \in 0..Len(pairs) PROVE Owner(p) \in Users \cup {""}
  <1>1. p # 0 => pairs[p] \in Pair
    <2>1. pairs \in Seq(Pair) /\ Len(pairs) \in Nat
      BY Parts
    <2> QED
      BY <2>1
  <1> QED
    BY <1>1 DEF Owner, Pair

\* With what is stored as it is, a function that neither refreshes nor waits for a pair
\* takes the slot of one that does not replace the stored pair.
LEMMA RenewableQuiet ==
  ASSUME Inv, NEW i \in Slots, \A j \in Slots : j # i => flow'[j] = flow[j],
         UNCHANGED <<pairs, store>>, why = {}, HasSession', flow[i].ph # "rotated",
         flow'[i].ph \notin Asking \cup {"granted"}, ~flow'[i].dead
  PROVE  Renewable'
  <1>1. \A j \in Slots : GoesWell(j) /\ FreshPair(j)
    BY Renewing
  <1>2. \A j \in Slots : j # i =>
          /\ flow[j].ph \in {"refresh", "checked"} => pairs'[flow[j].tok].refresh
          /\ flow[j].ph \in {"rotated", "granted"} => pairs'[flow[j].got].refresh /\ flow[j].got # store'
    BY <1>1 DEF GoesWell, FreshPair
  <1>3. StoredLives'
    <2>1. StoredLives
      BY Renewing
    <2>2. \A j \in Slots : flow[j].ph = "rotated" => flow'[j] = flow[j]
      OBVIOUS
    <2> QED
      BY <2>1, <2>2 DEF StoredLives
  <1>4. flow'[i].ph \notin {"refresh", "checked", "rotated", "granted", "refused"}
    BY DEF Asking
  <1> QED
    BY <1>2, <1>3, <1>4, RenewableKept

\* The answer to a tab's start.
LEMMA BootedStep ==
  ASSUME Inv, NEW i \in Slots, Booted(i)
  PROVE  Inv'
  <1> DEFINE g == flow[i]
             p == IF g.ph = "served" THEN g.snap ELSE 0
             t == g.tab
             x == IF p = 0 THEN "login" ELSE "in"
  <1>1. /\ Phased(g) /\ {g.snap, g.tok, g.got} \subseteq 0..Len(pairs) /\ 0 \in 0..Len(pairs)
        /\ g.kind = "boot" /\ g.ph \in {"served", "denied"}
        /\ store' = p /\ shown' = [shown EXCEPT ![t] = Owner(p)] /\ app' = [app EXCEPT ![t] = x]
        /\ why' = why \cup (IF p = 0 THEN {"lost"} ELSE {})
                      \cup (IF p # 0 /\ store # p THEN {"late"} ELSE {})
        /\ flow' = [flow EXCEPT ![i] = Idle] /\ UNCHANGED <<pairs, mishaps>>
    BY FlowFacts DEF Booted
  <1>2. t \in Tabs /\ p \in 0..Len(pairs) /\ x \in Screens
    BY <1>1 DEF Phased, Screens
  <1>3. Owner(p) \in Users \cup {""}
    BY <1>2, OwnerTyped
  <1> HIDE DEF p, x
  <1>4. /\ TypeOK' /\ \A j \in Slots : Phased(flow'[j])
        /\ flow'[i] = Idle /\ \A j \in Slots : j # i => flow'[j] = flow[j]
    <2>1. /\ app' \in [Tabs -> Screens] /\ shown' \in [Tabs -> Users \cup {""}] /\ mishaps' \in Nat
      BY <1>1, <1>2, <1>3, Parts
    <2>2. why' \subseteq {"lost", "late", "elsewhere"}
      BY <1>1, Parts
    <2>3. {Idle.snap, Idle.tok, Idle.got} \subseteq 0..Len(pairs) /\ Idle \in Flows /\ Phased(Idle)
      BY <1>1, IdleFits
    <2> QED
      BY <1>1, <1>2, <2>1, <2>2, <2>3, FlowTypedHere
  <1>5. flow'[i].kind = "idle" /\ flow'[i].ph = "" /\ ~flow'[i].dead
    BY <1>4, IdleFits
  <1>6. Screened'
    <2>1. \A j \in Slots : j # i /\ flow[j].kind \in {"boot", "login"} => flow[j].tab # t
      BY <1>1, SoleOnTab
    <2>2. \A j \in Slots : flow'[j].kind \in {"boot", "login"} => flow'[j] = flow[j] /\ flow[j].tab # t
      BY <1>4, <1>5, <2>1
    <2>3. \A j \in Slots : flow'[j].ph = "rotated" => flow'[j] = flow[j]
      BY <1>4, <1>5
    <2>4. \A j, k \in Slots : j # k /\ {flow'[j].kind, flow'[k].kind} \subseteq {"boot", "login"}
                              => flow'[j].tab # t \/ flow'[k].tab # t
      BY <2>2
    <2>5. t \in Tabs /\ app' = [app EXCEPT ![t] = x] /\ UNCHANGED pairs
      BY <1>1, <1>2
    <2> HIDE DEF t
    <2> QED
      BY <2>2, <2>3, <2>4, <2>5, ScreenMoved
  <1>7. CASE p = 0
    <2>1. store' = 0 /\ "lost" \in why'
      BY <1>1, <1>7
    <2>2. InSync' /\ Claimed' /\ Renewable'
      BY <2>1 DEF InSync, Claimed, Renewable
    <2> QED
      BY <1>4, <1>6, <2>2 DEF Inv
  <1>8. CASE p # 0 /\ store # p
    <2>1. "late" \in why'
      BY <1>1, <1>8
    <2>2. InSync' /\ Claimed' /\ Renewable'
      BY <2>1 DEF InSync, Claimed, Renewable
    <2> QED
      BY <1>4, <1>6, <2>2 DEF Inv
  <1>9. CASE p # 0 /\ store = p
    <2>1. why' = why /\ store' = store /\ store # 0 /\ x = "in"
      BY <1>1, <1>9 DEF x
    <2>2. /\ app'[t] = "in" /\ \A o \in Tabs : o # t => app'[o] = app[o]
          /\ shown'[t] = Owner(store) /\ \A o \in Tabs : o # t => shown'[o] = shown[o]
      BY <1>1, <1>2, <1>9, <2>1, Parts
    <2>3. Claimed'
      BY <1>2, <2>2 DEF Claimed
    <2>4. InSync'
      <3>1. Owner(store)' = Owner(store)
        BY <1>1, <2>1 DEF Owner
      <3>3. \A j \in Slots : flow'[j].ph = "pause" => flow'[j] = flow[j]
        BY <1>4, <1>5
      <3>2. \A j \in Slots : flow'[j].ph = "pause" => flow'[j] = flow[j] /\ (Owner(flow[j].got)' = Owner(flow[j].got))
        <4>1. UNCHANGED pairs
          BY <1>1
        <4> QED
          BY <3>3, <4>1 DEF Owner
      <3> QED
        BY <1>1, <2>1, <2>2, <3>1, <3>2, Parts DEF InSync
    <2>5. Renewable'
      <3> SUFFICES ASSUME why = {} PROVE Renewable'
        BY <2>1 DEF Renewable
      <3>1. HasSession'
        BY <2>1 DEF HasSession
      <3>2. flow'[i].ph \notin Asking \cup {"granted"}
        BY <1>5 DEF Asking
      <3> QED
        BY <1>1, <1>4, <1>5, <2>1, <3>1, <3>2, RenewableQuiet
    <2> QED
      BY <1>4, <1>6, <2>3, <2>4, <2>5 DEF Inv
  <1> QED
    BY <1>7, <1>8, <1>9

\* A refresh that failed clears the store: something was lost before.
LEMMA GiveUpStep ==
  ASSUME Inv, NEW i \in Slots, GiveUp(i)
  PROVE  Inv'
  <1>1. /\ flow[i].ph = "refused" /\ store' = 0 /\ flow' = [flow EXCEPT ![i] = Idle]
        /\ UNCHANGED <<pairs, app, shown, mishaps, why>>
    BY DEF GiveUp
  <1>2. why # {}
    BY <1>1, Renewing DEF GoesWell
  <1>3. /\ TypeOK' /\ \A j \in Slots : Phased(flow'[j])
        /\ flow'[i] = Idle /\ \A j \in Slots : j # i => flow'[j] = flow[j]
    <2>1. /\ app' \in [Tabs -> Screens] /\ shown' \in [Tabs -> Users \cup {""}] /\ mishaps' \in Nat
          /\ why' \subseteq {"lost", "late", "elsewhere"}
      BY <1>1, Parts
    <2>2. 0 \in 0..Len(pairs)
      BY FlowFacts
    <2>3. {Idle.snap, Idle.tok, Idle.got} \subseteq 0..Len(pairs) /\ Idle \in Flows /\ Phased(Idle)
      BY <2>2, IdleFits
    <2> QED
      BY <1>1, <2>1, <2>2, <2>3, FlowTypedHere
  <1>4. Screened'
    BY <1>1, <1>3, IdleFits, ScreenedKept
  <1>5. InSync' /\ Claimed' /\ Renewable'
    BY <1>1, <1>2 DEF InSync, Claimed, Renewable
  <1> QED
    BY <1>3, <1>4, <1>5 DEF Inv

\* The session that was stored is shown behind the loading page.
LEMMA WelcomeStep ==
  ASSUME Inv, NEW i \in Slots, flow[i].ph = "pause", handleLogin(i)
  PROVE  Inv'
  <1> DEFINE g == flow[i]
             f == [g EXCEPT !.ph = "welcome"]
             t == g.tab
  <1>0. /\ shown' = [shown EXCEPT ![t] = Owner(g.got)] /\ app' = [app EXCEPT ![t] = "entering"]
        /\ flow' = [flow EXCEPT ![i].ph = "welcome"] /\ UNCHANGED <<pairs, store, mishaps, why>>
    BY DEF handleLogin
  <1>1. g \in Flows /\ Phased(g) /\ {g.snap, g.tok, g.got} \subseteq 0..Len(pairs)
    BY FlowFacts
  <1>2. g.kind = "login" /\ t \in Tabs /\ ~g.dead
    BY LoginPhases
  <1>3. Owner(g.got) \in Users \cup {""}
    BY <1>1, OwnerTyped
  <1>4. flow' = [flow EXCEPT ![i] = f]
    BY <1>0, Parts
  <1>5. /\ f \in Flows /\ f.kind = g.kind /\ f.tab = t /\ f.ph = "welcome" /\ f.runs = g.runs
        /\ f.dead = g.dead /\ f.snap = g.snap /\ f.tok = g.tok /\ f.got = g.got /\ f.user = g.user
    BY <1>1 DEF Flows, Phases
  <1> HIDE DEF f
  <1>6. Phased(f)
    BY <1>1, <1>2, <1>5, SessionAssumption DEF Phased, Asking
  <1>7. /\ TypeOK' /\ \A j \in Slots : Phased(flow'[j])
        /\ flow'[i] = f /\ \A j \in Slots : j # i => flow'[j] = flow[j]
    <2>1. app' \in [Tabs -> Screens]
      BY <1>0, Parts DEF Screens
    <2>2. shown' \in [Tabs -> Users \cup {""}]
      BY <1>0, <1>3, Parts
    <2>3. mishaps' \in Nat /\ why' \subseteq {"lost", "late", "elsewhere"} /\ store' \in 0..Len(pairs)
      BY <1>0, Parts
    <2>4. {f.snap, f.tok, f.got} \subseteq 0..Len(pairs)
      BY <1>1, <1>5
    <2> QED
      BY <1>0, <1>4, <1>5, <1>6, <2>1, <2>2, <2>3, <2>4, FlowTypedHere
  <1>8. /\ flow'[i].kind = "login" /\ flow'[i].tab = t /\ flow'[i].ph = "welcome" /\ ~flow'[i].dead
        /\ \A j \in Slots : j # i => flow'[j] = flow[j]
    BY <1>2, <1>5, <1>7
  <1>9. Screened'
    <2>0. PICK x : x = "entering"
      OBVIOUS
    <2>1. \A j \in Slots : j # i /\ flow[j].kind \in {"boot", "login"} => flow[j].tab # t
      BY <1>2, SoleOnTab
    <2>2. \A j \in Slots : flow'[j].kind \in {"boot", "login"} =>
            \/ flow'[j] = flow[j] /\ flow[j].tab # t
            \/ /\ flow'[j].tab = t
               /\ flow'[j].kind = "boot" => x = "loading"
               /\ flow'[j].kind = "login" =>
                     x = IF flow'[j].ph = "welcome" THEN "entering" ELSE "login"
      BY <1>8, <2>0, <2>1
    <2>3. \A j, k \in Slots : j # k /\ {flow'[j].kind, flow'[k].kind} \subseteq {"boot", "login"}
                              => flow'[j].tab # t \/ flow'[k].tab # t
      BY <1>8, <2>1
    <2>4. \A j \in Slots : flow'[j].ph = "rotated" => flow'[j] = flow[j]
      BY <1>8
    <2>5. t \in Tabs /\ app' = [app EXCEPT ![t] = x] /\ UNCHANGED pairs
      BY <1>0, <1>2, <2>0
    <2> HIDE DEF t, g
    <2> QED
      BY <2>2, <2>3, <2>4, <2>5, ScreenMoved, ZenonT(60)
  <1>10. /\ app'[t] = "entering" /\ \A o \in Tabs : o # t => app'[o] = app[o]
         /\ shown'[t] = Owner(g.got) /\ \A o \in Tabs : o # t => shown'[o] = shown[o]
    BY <1>0, <1>2, Parts
  <1>11. Claimed'
    BY <1>2, <1>10 DEF Claimed
  <1>12. InSync'
    <2>1. UNCHANGED <<pairs, store, why>>
      BY <1>0
    <2>2. Owner(store)' = Owner(store)
      BY <2>1 DEF Owner
    <2>3. \A j \in Slots : flow'[j].ph = "pause" => flow'[j] = flow[j]
      BY <1>8
    <2>4. \A j \in Slots : flow'[j].ph = "pause" => (Owner(flow[j].got)' = Owner(flow[j].got))
      BY <2>1, <2>3 DEF Owner
    <2>5. why \cap {"late", "elsewhere"} = {} /\ store # 0 =>
            /\ \A o \in Tabs : app[o] \in {"entering", "in"} => Owner(store) = shown[o]
            /\ \A j \in Slots : flow[j].ph = "pause" => Owner(store) = Owner(flow[j].got)
      BY Parts DEF InSync
    <2>6. why \cap {"late", "elsewhere"} = {} /\ store # 0 => Owner(store) = Owner(g.got)
      BY <2>5
    <2> QED
      BY <1>10, <2>1, <2>2, <2>3, <2>4, <2>5, <2>6 DEF InSync
  <1>13. Renewable'
    <2> SUFFICES ASSUME why = {} PROVE Renewable'
      BY <1>0 DEF Renewable
    <2>1. store # 0
      BY Renewing DEF HasSession
    <2>2. HasSession' /\ flow'[i].ph \notin Asking \cup {"granted"}
      BY <1>0, <1>8, <2>1 DEF HasSession, Asking
    <2> QED
      BY <1>0, <1>8, <2>2, RenewableQuiet
  <1> QED
    BY <1>7, <1>9, <1>11, <1>12, <1>13 DEF Inv

\* The console replaces the loading page.
LEMMA EnterStep ==
  ASSUME Inv, NEW i \in Slots, flow[i].ph = "welcome", handleLogin(i)
  PROVE  Inv'
  <1> DEFINE t == flow[i].tab
  <1>0. /\ app' = [app EXCEPT ![t] = "in"] /\ flow' = [flow EXCEPT ![i] = Idle]
        /\ UNCHANGED <<pairs, store, shown, mishaps, why>>
    BY DEF handleLogin
  <1>1. flow[i].kind = "login" /\ t \in Tabs
    BY LoginPhases
  <1>2. app[t] = "entering"
    BY <1>1, Parts DEF Screened
  <1>3. /\ TypeOK' /\ \A j \in Slots : Phased(flow'[j])
        /\ flow'[i] = Idle /\ \A j \in Slots : j # i => flow'[j] = flow[j]
    <2>1. app' \in [Tabs -> Screens]
      BY <1>0, Parts DEF Screens
    <2>2. /\ shown' \in [Tabs -> Users \cup {""}] /\ mishaps' \in Nat
          /\ why' \subseteq {"lost", "late", "elsewhere"} /\ store' \in 0..Len(pairs)
      BY <1>0, Parts
    <2>3. 0 \in 0..Len(pairs)
      BY FlowFacts
    <2>4. {Idle.snap, Idle.tok, Idle.got} \subseteq 0..Len(pairs) /\ Idle \in Flows /\ Phased(Idle)
      BY <2>3, IdleFits
    <2> QED
      BY <1>0, <2>1, <2>2, <2>4, FlowTypedHere
  <1>4. /\ flow'[i].kind = "idle" /\ flow'[i].ph = "" /\ ~flow'[i].dead
        /\ \A j \in Slots : j # i => flow'[j] = flow[j]
    BY <1>3, IdleFits
  <1>5. Screened'
    <2>1. \A j \in Slots : j # i /\ flow[j].kind \in {"boot", "login"} => flow[j].tab # t
      BY <1>1, SoleOnTab
    <2>2. \A j \in Slots : flow'[j].kind \in {"boot", "login"} => flow'[j] = flow[j] /\ flow[j].tab # t
      BY <1>4, <2>1
    <2>3. \A j, k \in Slots : j # k /\ {flow'[j].kind, flow'[k].kind} \subseteq {"boot", "login"}
                              => flow'[j].tab # t \/ flow'[k].tab # t
      BY <2>2
    <2>4. \A j \in Slots : flow'[j].ph = "rotated" => flow'[j] = flow[j]
      BY <1>4
    <2>5. t \in Tabs /\ app' = [app EXCEPT ![t] = "in"] /\ UNCHANGED pairs
      BY <1>0, <1>1
    <2> HIDE DEF t
    <2> QED
      BY <2>2, <2>3, <2>4, <2>5, ScreenMoved
  <1>6. app'[t] = "in" /\ \A o \in Tabs : o # t => app'[o] = app[o]
    BY <1>0, <1>1, Parts
  <1>7. Claimed'
    BY <1>1, <1>6 DEF Claimed
  <1>8. InSync'
    <2>1. UNCHANGED <<pairs, store, why, shown>>
      BY <1>0
    <2>2. Owner(store)' = Owner(store)
      BY <2>1 DEF Owner
    <2>3. \A j \in Slots : flow'[j].ph = "pause" => flow'[j] = flow[j]
      BY <1>4
    <2>4. \A j \in Slots : flow'[j].ph = "pause" => (Owner(flow[j].got)' = Owner(flow[j].got))
      BY <2>1, <2>3 DEF Owner
    <2>5. why \cap {"late", "elsewhere"} = {} /\ store # 0 =>
            /\ \A o \in Tabs : app[o] \in {"entering", "in"} => Owner(store) = shown[o]
            /\ \A j \in Slots : flow[j].ph = "pause" => Owner(store) = Owner(flow[j].got)
      BY Parts DEF InSync
    <2> QED
      BY <1>1, <1>2, <1>6, <2>1, <2>2, <2>3, <2>4, <2>5 DEF InSync
  <1>9. Renewable'
    <2> SUFFICES ASSUME why = {} PROVE Renewable'
      BY <1>0 DEF Renewable
    <2>1. store # 0
      BY <1>1, <1>2, Renewing DEF HasSession
    <2>2. HasSession' /\ flow'[i].ph \notin Asking \cup {"granted"}
      BY <1>0, <1>4, <2>1 DEF HasSession, Asking
    <2> QED
      BY <1>0, <1>4, <2>2, RenewableQuiet
  <1> QED
    BY <1>3, <1>5, <1>7, <1>8, <1>9 DEF Inv

\* Signing out clears the store, for the tabs elsewhere too.
LEMMA LogoutStep ==
  ASSUME Inv, NEW t \in Tabs, handleLogout(t)
  PROVE  Inv'
  <1>1. /\ app[t] = "in" /\ store' = 0 /\ app' = [app EXCEPT ![t] = "login"]
        /\ shown' = [shown EXCEPT ![t] = ""]
        /\ why' = (IF Elsewhere(t) THEN why \cup {"lost"} ELSE why)
        /\ UNCHANGED <<pairs, flow, mishaps>>
    BY DEF handleLogout
  <1>2. TypeOK' /\ \A j \in Slots : Phased(flow'[j])
    <2>1. app' \in [Tabs -> Screens] /\ shown' \in [Tabs -> Users \cup {""}]
      BY <1>1, Parts DEF Screens
    <2>2. why' \subseteq {"lost", "late", "elsewhere"}
      BY <1>1, Parts
    <2>3. /\ pairs' \in Seq(Pair) /\ flow' \in [Slots -> Flows] /\ mishaps' \in Nat
          /\ \A j \in Slots : {flow'[j].snap, flow'[j].tok, flow'[j].got} \subseteq 0..Len(pairs')
      BY <1>1, Parts
    <2>4. store' \in 0..Len(pairs')
      <3>1. Len(pairs) \in Nat
        BY Parts
      <3>2. 0 \in 0..Len(pairs)
        BY <3>1
      <3> QED
        BY <1>1, <3>2
    <2> QED
      BY <1>1, <2>1, <2>2, <2>3, <2>4, Parts DEF TypeOK
  <1>3. Screened'
    <2>1. \A j \in Slots : flow[j].kind \in {"boot", "login"} => flow[j].tab # t
      BY <1>1, SoleOnTab
    <2>2. flow' = flow /\ UNCHANGED pairs /\ app' = [app EXCEPT ![t] = "login"]
      BY <1>1
    <2> QED
      BY <2>1, <2>2, ScreenMoved
  <1>4. InSync' /\ Claimed'
    BY <1>1 DEF InSync, Claimed
  <1>5. Renewable'
    <2> SUFFICES ASSUME why' = {} PROVE Renewable'
      BY DEF Renewable
    <2>1. why = {} /\ ~Elsewhere(t)
      BY <1>1
    <2>2. \A o \in Tabs : app'[o] \notin {"entering", "in"}
      BY <1>1, <2>1, Parts DEF Elsewhere
    <2>3. ASSUME NEW j \in Slots PROVE flow[j].ph # "pause"
      <3>1. flow[j].ph = "pause" => flow[j].kind = "login" /\ flow[j].tab \in Tabs
        BY LoginPhases
      <3>2. flow[j].kind = "login" => flow[j].tab # t
        BY <1>1, SoleOnTab
      <3> QED
        BY <2>1, <3>1, <3>2 DEF Elsewhere
    <2>4. HasSession' /\ StoredLives'
      BY <1>1, <2>2, <2>3 DEF HasSession, StoredLives
    <2>5. \A j \in Slots : flow[j].ph \in {"rotated", "granted"} => flow[j].got # 0
      BY Parts DEF Phased
    <2>6. \A j \in Slots : GoesWell(j)' /\ FreshPair(j)'
      <3>1. \A j \in Slots : GoesWell(j) /\ FreshPair(j)
        BY <2>1, Renewing
      <3> QED
        BY <1>1, <2>5, <3>1 DEF GoesWell, FreshPair
    <2>7. \A j, k \in Slots : Unknown(j, k)' /\ Apart(j, k)'
      <3>1. \A j, k \in Slots : Unknown(j, k) /\ Apart(j, k)
        BY <2>1, Renewing
      <3> QED
        BY <1>1, <3>1 DEF Unknown, Apart
    <2> QED
      BY <2>4, <2>6, <2>7 DEF Renewable
  <1> QED
    BY <1>2, <1>3, <1>4, <1>5 DEF Inv

\* confirmMFASetup calls again with the token it read, and stores that in the end.
LEMMA MFAStep ==
  ASSUME Inv, NEW i \in Slots, MFAConfirmed(i)
  PROVE  Inv'
  <1> DEFINE g == flow[i]
  <1>1. /\ g.kind = "mfa" /\ ~g.dead /\ UNCHANGED <<pairs, app, shown, mishaps>>
    BY DEF MFAConfirmed
  <1>2. CASE g.ph = "denied" /\ flow' = [flow EXCEPT ![i] = Idle] /\ UNCHANGED <<store, why>>
    BY <1>1, <1>2, EndStep
  <1>3. CASE /\ g.ph = "served" /\ UNCHANGED <<store, why>>
             /\ flow' = [flow EXCEPT ![i].ph = "sent", ![i].again = TRUE, ![i].runs = 0]
    <2> DEFINE f == [g EXCEPT !.ph = "sent", !.again = TRUE, !.runs = 0]
    <2>1. g \in Flows /\ Phased(g) /\ {g.snap, g.tok, g.got} \subseteq 0..Len(pairs)
      BY FlowFacts
    <2>2. flow' = [flow EXCEPT ![i] = f]
      BY <1>3, Parts
    <2>3. /\ f \in Flows /\ f.kind = g.kind /\ f.tab = g.tab /\ f.ph = "sent" /\ f.runs = 0
          /\ f.dead = g.dead /\ f.snap = g.snap /\ f.tok = g.tok /\ f.got = g.got /\ f.user = g.user
      BY <2>1 DEF Flows, Phases
    <2> HIDE DEF f
    <2>4. Phased(f) /\ f.ph \notin Asking \cup {"granted", "pause", "welcome"}
      BY <1>1, <2>1, <2>3, SessionAssumption DEF Phased, Asking
    <2>5. SamePairs
      BY <1>1, PairsUntouched
    <2>6. {f.snap, f.tok, f.got} \subseteq 0..Len(pairs) /\ f.kind \notin {"boot", "login"}
      BY <1>1, <2>1, <2>3
    <2> QED
      BY <1>1, <1>3, <2>2, <2>3, <2>4, <2>5, <2>6, QuietStep
  <1>4. CASE /\ g.ph = "served" /\ store' = g.snap /\ flow' = [flow EXCEPT ![i] = Idle]
             /\ why' = (IF store = g.snap THEN why ELSE why \cup {"late"})
    <2>1. CASE store = g.snap
      BY <1>1, <1>4, <2>1, EndStep
    <2>2. CASE store # g.snap
      <3>1. "late" \in why' /\ why' \subseteq {"lost", "late", "elsewhere"}
        BY <1>4, <2>2, Parts
      <3>2. /\ TypeOK' /\ \A j \in Slots : Phased(flow'[j])
            /\ flow'[i] = Idle /\ \A j \in Slots : j # i => flow'[j] = flow[j]
        <4>1. app' \in [Tabs -> Screens] /\ shown' \in [Tabs -> Users \cup {""}] /\ mishaps' \in Nat
          BY <1>1, Parts
        <4>2. 0 \in 0..Len(pairs) /\ g.snap \in 0..Len(pairs)
          BY FlowFacts
        <4>3. {Idle.snap, Idle.tok, Idle.got} \subseteq 0..Len(pairs) /\ Idle \in Flows /\ Phased(Idle)
          BY <4>2, IdleFits
        <4> QED
          BY <1>1, <1>4, <3>1, <4>1, <4>2, <4>3, FlowTypedHere
      <3>3. Screened'
        BY <1>1, <3>2, IdleFits, ScreenedKept
      <3>4. InSync' /\ Claimed' /\ Renewable'
        BY <3>1 DEF InSync, Claimed, Renewable
      <3> QED
        BY <3>2, <3>3, <3>4 DEF Inv
    <2> QED
      BY <2>1, <2>2
  <1> QED
    BY <1>2, <1>3, <1>4 DEF MFAConfirmed

\* The server is through with a call nobody waits for.
LEMMA DiscardStep ==
  ASSUME Inv, NEW i \in Slots, Discard(i)
  PROVE  Inv'
  <1>1. /\ flow[i].dead /\ flow' = [flow EXCEPT ![i] = Idle]
        /\ UNCHANGED <<pairs, store, app, shown, mishaps, why>>
    BY DEF Discard
  <1>2. flow[i].ph # "pause"
    BY <1>1, FlowFacts DEF Phased, Asking
  <1>3. why # {}
    BY <1>1, Renewing DEF GoesWell
  <1> QED
    BY <1>1, <1>2, <1>3, EndStep

\* What is left of a function holds nothing but the token that is being refreshed.
LEMMA AbandonedFits ==
  ASSUME NEW g \in Flows, Phased(g)
  PROVE  /\ Abandoned(g) \in Flows /\ Phased(Abandoned(g))
         /\ Abandoned(g).kind \notin {"boot", "login"} /\ Abandoned(g).ph \in {"", "refresh", "checked"}
         /\ {Abandoned(g).snap, Abandoned(g).tok, Abandoned(g).got} \subseteq {0, g.snap, g.tok, g.got}
         /\ g.ph \notin {"refresh", "checked"} => Abandoned(g) = Idle
  <1>1. CASE g.ph \notin {"refresh", "checked"}
    <2>1. Abandoned(g) = Idle
      BY <1>1 DEF Abandoned
    <2> QED
      BY <2>1, IdleFits
  <1>2. CASE g.ph \in {"refresh", "checked"}
    <2> DEFINE f == [g EXCEPT !.dead = TRUE]
    <2>1. Abandoned(g) = f
      BY <1>2 DEF Abandoned
    <2>2. /\ f \in Flows /\ f.kind = g.kind /\ f.tab = g.tab /\ f.ph = g.ph /\ f.runs = g.runs
          /\ f.dead /\ f.snap = g.snap /\ f.tok = g.tok /\ f.got = g.got /\ f.user = g.user
      BY DEF Flows
    <2> HIDE DEF f
    <2>3. Phased(f) /\ f.kind \notin {"boot", "login"}
      BY <1>2, <2>2, SessionAssumption DEF Phased, Asking
    <2> QED
      BY <1>2, <2>1, <2>2, <2>3
  <1> QED
    BY <1>1, <1>2

\* A connection is lost.
LEMMA LoseStep ==
  ASSUME Inv, NEW i \in Slots, Lose(i)
  PROVE  Inv'
  <1> DEFINE g == flow[i]
             f == Abandoned(g)
  <1>1. /\ g \in Flows /\ Phased(g) /\ {g.snap, g.tok, g.got} \subseteq 0..Len(pairs)
        /\ store \in 0..Len(pairs) /\ 0 \in 0..Len(pairs)
    BY FlowFacts
  <1>2. /\ mishaps' = mishaps + 1 /\ why' = why \cup {"lost"}
        /\ store' = (IF Refreshing(i) \/ g.kind = "boot" THEN 0 ELSE store)
        /\ app' = (IF g.kind = "boot" THEN [app EXCEPT ![g.tab] = "login"] ELSE app)
        /\ flow' = [flow EXCEPT ![i] = f] /\ UNCHANGED <<pairs, shown>>
        /\ g.ph \in {"sent", "served", "denied", "missing", "totp", "granted"} \/ g.ph \in Asking
    BY DEF Lose, Refreshing
  <1>3. /\ f \in Flows /\ Phased(f) /\ f.kind \notin {"boot", "login"} /\ f.ph \in {"", "refresh", "checked"}
        /\ {f.snap, f.tok, f.got} \subseteq 0..Len(pairs)
    <2>1. {f.snap, f.tok, f.got} \subseteq {0, g.snap, g.tok, g.got}
      BY <1>1, AbandonedFits
    <2> QED
      BY <1>1, <2>1, AbandonedFits
  <1> HIDE DEF f
  <1>4. /\ TypeOK' /\ \A j \in Slots : Phased(flow'[j])
        /\ flow'[i] = f /\ \A j \in Slots : j # i => flow'[j] = flow[j]
    <2>1. app' \in [Tabs -> Screens]
      BY <1>2, Parts DEF Screens
    <2>2. mishaps' \in Nat
      <3>1. mishaps \in Nat
        BY Parts
      <3> QED
        BY <1>2, <3>1
    <2>3. shown' \in [Tabs -> Users \cup {""}] /\ why' \subseteq {"lost", "late", "elsewhere"}
      BY <1>2, Parts
    <2>4. store' \in 0..Len(pairs)
      BY <1>1, <1>2
    <2> QED
      BY <1>2, <1>3, <2>1, <2>2, <2>3, <2>4, FlowTypedHere
  <1>5. Renewable'
    BY <1>2 DEF Renewable
  <1>6. g.ph # "pause"
    BY <1>2 DEF Asking
  <1>7. CASE g.kind = "boot"
    <2> DEFINE t == g.tab
               x == "login"
    <2>1. t \in Tabs /\ app' = [app EXCEPT ![t] = x] /\ UNCHANGED pairs /\ store' = 0
      BY <1>1, <1>2, <1>7 DEF Phased
    <2>2. \A j \in Slots : j # i /\ flow[j].kind \in {"boot", "login"} => flow[j].tab # t
      BY <1>7, SoleOnTab
    <2>3. \A j \in Slots : flow'[j].kind \in {"boot", "login"} => flow'[j] = flow[j] /\ flow[j].tab # t
      BY <1>3, <1>4, <2>2
    <2>4. \A j, k \in Slots : j # k /\ {flow'[j].kind, flow'[k].kind} \subseteq {"boot", "login"}
                              => flow'[j].tab # t \/ flow'[k].tab # t
      BY <2>3
    <2>5. \A j \in Slots : flow'[j].ph = "rotated" => flow'[j] = flow[j]
      BY <1>3, <1>4
    <2> HIDE DEF t, x
    <2>6. Screened'
      BY <2>1, <2>3, <2>4, <2>5, ScreenMoved
    <2>7. InSync' /\ Claimed'
      BY <2>1 DEF InSync, Claimed
    <2> QED
      BY <1>4, <1>5, <2>6, <2>7 DEF Inv
  <1>8. CASE g.kind # "boot"
    <2>1. UNCHANGED <<pairs, app, shown>> /\ store' \in {0, store} /\ why \subseteq why'
      BY <1>2, <1>8
    <2>2. Screened'
      BY <1>3, <1>4, <2>1, ScreenedKept
    <2>3. CASE store' = 0
      <3>1. InSync' /\ Claimed'
        BY <2>3 DEF InSync, Claimed
      <3> QED
        BY <1>4, <1>5, <2>2, <3>1 DEF Inv
    <2>4. CASE store' = store
      <3>1. InSync' /\ Claimed'
        BY <1>3, <1>4, <1>6, <2>1, <2>4, InSyncKept, ClaimedKept
      <3> QED
        BY <1>4, <1>5, <2>2, <3>1 DEF Inv
    <2> QED
      BY <2>1, <2>3, <2>4
  <1> QED
    BY <1>7, <1>8

\* Tab t starts with the functions fl: the ones that started it or logged in there are
\* gone, and of its others no more is left than a refresh the server works on.
Restarts(i, t, fl) ==
    /\ bootstrap(i, t, fl) /\ UNCHANGED <<pairs, store>>
    /\ fl = [j \in Slots |-> fl[j]]
    /\ \A j \in Slots : fl[j] = flow[j] \/ (flow[j].tab = t /\ fl[j] = Abandoned(flow[j]))
    /\ \A j \in Slots : flow[j].kind \in {"boot", "login"} /\ flow[j].tab = t => fl[j] = Idle
    /\ shown' \in [Tabs -> Users \cup {""}] /\ \A o \in Tabs : o # t => shown'[o] = shown[o]
    /\ mishaps' \in Nat /\ why' \in {why, why \cup {"lost"}}
    /\ why' = {} => \A j \in Slots : fl[j] = flow[j] \/ (fl[j] = Idle /\ flow[j].ph \notin Asking)

\* The start of a tab keeps the invariant.
LEMMA BootstrapStep ==
  ASSUME Inv, NEW i \in Slots, NEW t \in Tabs, NEW fl, Restarts(i, t, fl)
  PROVE  Inv'
  <1> DEFINE x == IF store = 0 THEN "login" ELSE "loading"
             b == Start("boot", t)
  <1>1. /\ app' = [app EXCEPT ![t] = x]
        /\ store = 0 => flow' = fl
        /\ store # 0 => flow[i].kind = "idle" /\ flow' = [fl EXCEPT ![i] = b]
    BY DEF Restarts, bootstrap, Busy
  <1>2. /\ b \in Flows /\ Phased(b) /\ b.kind = "boot" /\ b.tab = t /\ b.ph = "sent"
        /\ {b.snap, b.tok, b.got} \subseteq 0..Len(pairs) /\ b.snap = store
    BY StartFits
  <1> HIDE DEF b
  <1>0. UNCHANGED <<pairs, store>> /\ why' \in {why, why \cup {"lost"}}
    BY DEF Restarts
  <1>3. /\ flow' = [j \in Slots |-> flow'[j]]
        /\ \A j \in Slots : flow'[j] = fl[j] \/ (j = i /\ store # 0 /\ flow[i].kind = "idle" /\ flow'[i] = b)
    <2>0. fl = [j \in Slots |-> fl[j]]
      BY DEF Restarts
    <2>1. CASE store = 0
      BY <1>1, <2>0, <2>1
    <2>2. CASE store # 0
      BY <1>1, <2>0, <2>2
    <2> QED
      BY <2>1, <2>2
  <1>4. \A j \in Slots : /\ fl[j] \in Flows /\ Phased(fl[j])
                         /\ {fl[j].snap, fl[j].tok, fl[j].got} \subseteq 0..Len(pairs)
                         /\ \/ fl[j] = flow[j]
                            \/ /\ flow[j].tab = t /\ fl[j].kind \notin {"boot", "login"}
                               /\ fl[j].ph \in {"", "refresh", "checked"}
    <2> TAKE j \in Slots
    <2>1. /\ flow[j] \in Flows /\ Phased(flow[j]) /\ {flow[j].snap, flow[j].tok, flow[j].got} \subseteq 0..Len(pairs)
          /\ 0 \in 0..Len(pairs)
      BY FlowFacts
    <2>2. CASE fl[j] = flow[j]
      BY <2>1, <2>2
    <2>3. CASE flow[j].tab = t /\ fl[j] = Abandoned(flow[j])
      <3>1. /\ fl[j] \in Flows /\ Phased(fl[j])
            /\ fl[j].kind \notin {"boot", "login"} /\ fl[j].ph \in {"", "refresh", "checked"}
            /\ {fl[j].snap, fl[j].tok, fl[j].got} \subseteq {0, flow[j].snap, flow[j].tok, flow[j].got}
        BY <2>1, <2>3, AbandonedFits
      <3> QED
        BY <2>1, <2>3, <3>1
    <2> QED
      BY <2>2, <2>3 DEF Restarts
  <1>5. /\ flow' \in [Slots -> Flows] /\ \A j \in Slots : Phased(flow'[j])
        /\ \A j \in Slots : {flow'[j].snap, flow'[j].tok, flow'[j].got} \subseteq 0..Len(pairs)
    <2>1. ASSUME NEW j \in Slots
          PROVE  /\ flow'[j] \in Flows /\ Phased(flow'[j])
                 /\ {flow'[j].snap, flow'[j].tok, flow'[j].got} \subseteq 0..Len(pairs)
      BY <1>2, <1>3, <1>4
    <2> QED
      BY <1>3, <2>1
  <1>6. TypeOK'
    <2>1. app' \in [Tabs -> Screens]
      BY <1>1, Parts DEF Screens
    <2>2. pairs' \in Seq(Pair) /\ store' \in 0..Len(pairs') /\ Len(pairs') = Len(pairs)
      BY <1>0, Parts
    <2>3. why' \subseteq {"lost", "late", "elsewhere"}
      BY <1>0, Parts
    <2> QED
      BY <1>5, <2>1, <2>2, <2>3 DEF TypeOK, Restarts
  <1>7. \A j \in Slots : flow'[j].ph \in {"pause", "rotated", "granted", "refused"} => flow'[j] = flow[j]
    BY <1>2, <1>3, <1>4
  <1>8. Screened'
    <2>1. \A j \in Slots : flow'[j].kind \in {"boot", "login"} =>
            \/ flow'[j] = flow[j] /\ flow[j].tab # t
            \/ flow'[j].tab = t /\ j = i /\ store # 0 /\ flow'[j].kind = "boot"
      <3>1. \A j \in Slots : fl[j].kind \in {"boot", "login"} => fl[j] = flow[j] /\ flow[j].tab # t
        BY <1>4, IdleFits DEF Restarts
      <3> QED
        BY <1>2, <1>3, <3>1
    <2>2. \A j \in Slots : flow'[j].kind \in {"boot", "login"} =>
            \/ flow'[j] = flow[j] /\ flow[j].tab # t
            \/ /\ flow'[j].tab = t
               /\ flow'[j].kind = "boot" => x = "loading"
               /\ flow'[j].kind = "login" => x = IF flow'[j].ph = "welcome" THEN "entering" ELSE "login"
      BY <2>1
    <2>3. \A j, k \in Slots : j # k /\ {flow'[j].kind, flow'[k].kind} \subseteq {"boot", "login"}
                              => flow'[j].tab # t \/ flow'[k].tab # t
      BY <2>1
    <2>4. \A j \in Slots : flow'[j].ph = "rotated" => flow'[j] = flow[j]
      BY <1>7
    <2>5. app' = [app EXCEPT ![t] = x] /\ UNCHANGED pairs
      BY <1>0, <1>1
    <2> HIDE DEF x
    <2> QED
      BY <2>5, <2>2, <2>3, <2>4, ScreenMoved
  <1>9. /\ app'[t] = x /\ \A o \in Tabs : o # t => app'[o] = app[o]
    BY <1>1, Parts
  <1>10. Claimed'
    BY <1>0, <1>9 DEF Claimed
  <1>11. InSync'
    <2>1. Owner(store)' = Owner(store)
      BY <1>0 DEF Owner
    <2>2. \A j \in Slots : flow'[j].ph = "pause" => flow'[j] = flow[j] /\ (Owner(flow[j].got)' = Owner(flow[j].got))
      BY <1>0, <1>7 DEF Owner
    <2>3. why' \cap {"late", "elsewhere"} = {} => why \cap {"late", "elsewhere"} = {}
      BY <1>0
    <2>4. \A o \in Tabs : app'[o] \in {"entering", "in"} => o # t /\ app'[o] = app[o] /\ shown'[o] = shown[o]
      BY <1>9 DEF Restarts
    <2>5. why \cap {"late", "elsewhere"} = {} /\ store # 0 =>
            /\ \A o \in Tabs : app[o] \in {"entering", "in"} => Owner(store) = shown[o]
            /\ \A j \in Slots : flow[j].ph = "pause" => Owner(store) = Owner(flow[j].got)
      BY Parts DEF InSync
    <2> QED
      BY <1>0, <2>1, <2>2, <2>3, <2>4, <2>5 DEF InSync
  <1>12. Renewable'
    <2> SUFFICES ASSUME why' = {} PROVE Renewable'
      BY DEF Renewable
    <2>1. why = {}
      BY <1>0
    <2>2. /\ \A j \in Slots : flow'[j] = flow[j] \/ (flow'[j].ph \in {"", "sent"} /\ ~flow'[j].dead)
          /\ \A j \in Slots : flow[j].ph \in Asking => flow'[j] = flow[j]
      <3>1. \A j \in Slots : fl[j] = flow[j] \/ (fl[j] = Idle /\ flow[j].ph \notin Asking)
        BY DEF Restarts
      <3>2. ~b.dead /\ flow[i].kind = "idle" => flow[i].ph \notin Asking
        BY <1>2, Parts DEF Phased, Asking
      <3>3. ~b.dead
        BY <1>2 DEF Phased, Asking
      <3> QED
        BY <1>2, <1>3, <3>1, <3>2, <3>3, IdleFits
    <2>3. HasSession' /\ StoredLives'
      <3>1. HasSession /\ StoredLives
        BY <2>1, Renewing
      <3>2. HasSession'
        BY <1>0, <1>7, <1>9, <3>1 DEF HasSession
      <3>3. StoredLives'
        BY <1>0, <2>2, <3>1 DEF StoredLives, Asking
      <3> QED
        BY <3>2, <3>3
    <2>4. ASSUME NEW j \in Slots PROVE GoesWell(j)' /\ FreshPair(j)'
      <3>1. GoesWell(j) /\ FreshPair(j)
        BY <2>1, Renewing
      <3> QED
        BY <1>0, <2>2, <3>1 DEF GoesWell, FreshPair
    <2>5. ASSUME NEW j \in Slots, NEW k \in Slots PROVE Unknown(j, k)' /\ Apart(j, k)'
      <3>1. Unknown(j, k) /\ Apart(j, k)
        BY <2>1, Renewing
      <3> QED
        BY <1>0, <2>2, <3>1 DEF Unknown, Apart, Asking
    <2> QED
      BY <2>3, <2>4, <2>5 DEF Renewable
  <1> QED
    BY <1>5, <1>6, <1>8, <1>10, <1>11, <1>12 DEF Inv

\* A tab is opened.
LEMMA OpenTabStep ==
  ASSUME Inv, NEW i \in Slots, NEW t \in Tabs, OpenTab(i, t)
  PROVE  Inv'
  <1>1. /\ app[t] = "closed" /\ bootstrap(i, t, flow)
        /\ UNCHANGED <<pairs, store, shown, mishaps, why>>
    BY DEF OpenTab
  <1>2. \A j \in Slots : flow[j].kind \in {"boot", "login"} /\ flow[j].tab = t => flow[j] = Idle
    BY <1>1, SoleOnTab
  <1>3. /\ flow = [j \in Slots |-> flow[j]] /\ shown' \in [Tabs -> Users \cup {""}] /\ mishaps' \in Nat
        /\ \A o \in Tabs : o # t => shown'[o] = shown[o]
    BY <1>1, Parts
  <1>4. Restarts(i, t, flow)
    BY <1>1, <1>2, <1>3 DEF Restarts
  <1> QED
    BY <1>4, BootstrapStep

\* A tab is reloaded.
LEMMA ReloadStep ==
  ASSUME Inv, NEW i \in Slots, NEW t \in Tabs, Reload(i, t)
  PROVE  Inv'
  <1> DEFINE fl == [j \in Slots |-> IF flow[j].tab = t THEN Abandoned(flow[j]) ELSE flow[j]]
  <1>1. /\ app[t] \notin {"closed", "loading"} /\ mishaps' = mishaps + 1
        /\ shown' = [shown EXCEPT ![t] = ""] /\ bootstrap(i, t, fl) /\ UNCHANGED <<pairs, store>>
        /\ why' = IF \E j \in Slots : flow[j].tab = t /\ Refreshing(j) THEN why \cup {"lost"} ELSE why
    BY DEF Reload
  <1>2. /\ fl = [j \in Slots |-> fl[j]]
        /\ \A j \in Slots : fl[j] = flow[j] \/ (flow[j].tab = t /\ fl[j] = Abandoned(flow[j]))
    OBVIOUS
  <1>3. \A j \in Slots : flow[j].tab = t => fl[j] = Abandoned(flow[j])
    OBVIOUS
  <1> HIDE DEF fl
  <1>4. \A j \in Slots : flow[j].kind \in {"boot", "login"} /\ flow[j].tab = t => fl[j] = Idle
    <2>1. \A j \in Slots : flow[j].kind \in {"boot", "login"} => flow[j].ph \notin {"refresh", "checked"}
      BY Parts DEF Phased
    <2> QED
      BY <1>3, <2>1 DEF Abandoned
  <1>5. why' = {} => \A j \in Slots : fl[j] = flow[j] \/ (fl[j] = Idle /\ flow[j].ph \notin Asking)
    BY <1>1, <1>2 DEF Refreshing, Abandoned, Asking
  <1>6. /\ shown' \in [Tabs -> Users \cup {""}] /\ \A o \in Tabs : o # t => shown'[o] = shown[o]
        /\ why' \in {why, why \cup {"lost"}}
    BY <1>1, Parts
  <1>7. mishaps' \in Nat
    <2>1. mishaps \in Nat /\ mishaps' = mishaps + 1
      BY <1>1, Parts
    <2> QED
      BY <2>1
  <1>8. bootstrap(i, t, fl) /\ UNCHANGED <<pairs, store>>
    BY <1>1
  <1>9. Restarts(i, t, fl)
    BY <1>2, <1>4, <1>5, <1>6, <1>7, <1>8 DEF Restarts
  <1> QED
    BY <1>9, BootstrapStep

\* A function in slot i goes on.
LEMMA FunctionStep ==
  ASSUME Inv, NEW i \in Slots, Step(i)
  PROVE  Inv'
  <1>1. CASE Login(i)
    <2>1. CASE /\ flow[i].ph \in {"sent", "totp"} /\ pairs' = issueLogin(flow[i].user)
               /\ flow' = [flow EXCEPT ![i].ph = "granted", ![i].got = Len(pairs')]
      BY <1>1, <2>1, GrantStep DEF Login
    <2>2. CASE flow[i].ph \in {"sent", "totp"} /\ flow' = [flow EXCEPT ![i].ph = "denied"] /\ UNCHANGED pairs
      BY <1>1, <2>2, LoginPhase DEF Login
    <2>3. CASE flow[i].ph = "sent" /\ flow' = [flow EXCEPT ![i].ph = "challenged"] /\ UNCHANGED pairs
      BY <1>1, <2>3, LoginPhase DEF Login
    <2> QED
      BY <1>1, <2>1, <2>2, <2>3 DEF Login
  <1>2. CASE Answer(i)
    BY <1>2, EndStep DEF Answer
  <1>3. CASE LoginRefused(i)
    BY <1>3, EndStep DEF LoginRefused
  <1>4. CASE handleLogin(i)
    BY <1>4, WelcomeStep, EnterStep DEF handleLogin
  <1> QED
    BY <1>1, <1>2, <1>3, <1>4, ServeStep, LookupStep, RotateStep, FallbackStep, DeniedStep, RetryStep,
       GiveUpStep, BootedStep, LoggedInStep, MFAStep, DiscardStep DEF Step

\* Every step keeps the invariant.
LEMMA SessionInvStep ==
  ASSUME Inv, [Next]_vars
  PROVE  Inv'
  <1>1. CASE UNCHANGED vars
    <2>1. UNCHANGED <<pairs, store, app, shown, flow, mishaps, why>>
      BY <1>1 DEF vars
    <2>2. TypeOK' /\ \A i \in Slots : Phased(flow'[i])
      BY <2>1 DEF Inv, TypeOK
    <2>3. Screened'
      BY <2>1 DEF Inv, Screened, Owner
    <2>4. InSync' /\ Claimed'
      BY <2>1 DEF Inv, InSync, Claimed, Owner
    <2>5. Renewable'
      BY <2>1 DEF Inv, Renewable, HasSession, StoredLives, GoesWell, FreshPair, Unknown, Apart
    <2> QED
      BY <2>2, <2>3, <2>4, <2>5 DEF Inv
  <1>2. ASSUME NEW i \in Slots, NEW t \in Tabs, NEW k \in Kinds, request(i, k, t) PROVE Inv'
    BY <1>2, CallStep DEF request
  <1>3. ASSUME NEW i \in Slots, NEW t \in Tabs, confirmMFASetup(i, t) PROVE Inv'
    BY <1>3, CallStep DEF confirmMFASetup
  <1>4. ASSUME NEW i \in Slots, handleTOTPSubmit(i) PROVE Inv'
    <2>1. flow[i].kind = "login"
      BY <1>4, LoginPhases DEF handleTOTPSubmit
    <2> QED
      BY <1>4, <2>1, LoginPhase DEF handleTOTPSubmit
  <1>5. CASE Next
    BY <1>2, <1>3, <1>4, <1>5, FunctionStep, LoseStep, OpenTabStep, LoginSubmitStep, LogoutStep, ReloadStep
       DEF Next
  <1> QED
    BY <1>1, <1>5

\* The initial states satisfy the invariant.
LEMMA SessionInit == Init => Inv
  <1> SUFFICES ASSUME Init PROVE Inv
    OBVIOUS
  <1>1. PICK u \in Users, ok \in BOOLEAN : pairs = <<[user |-> u, access |-> ok, refresh |-> TRUE]>>
    BY DEF Init
  <1> DEFINE c == [user |-> u, access |-> ok, refresh |-> TRUE]
  <1>2. c \in Pair /\ c.refresh
    BY DEF Pair
  <1> HIDE DEF c
  <1>3. pairs = <<c>>
    BY <1>1 DEF c
  <1>4. pairs \in Seq(Pair) /\ Len(pairs) = 1 /\ pairs[1].refresh
    BY <1>2, <1>3
  <1>5. store \in 0..Len(pairs) /\ 0 \in 0..Len(pairs) /\ store \in {0, 1}
    <2>1. store \in {0, 1} /\ Len(pairs) = 1
      BY <1>4 DEF Init
    <2> QED
      BY <2>1
  <1>6. /\ \A i \in Slots : flow[i] = Idle
        /\ \A t \in Tabs : app[t] = "closed"
        /\ why = {}
    BY DEF Init
  <1>7. \A i \in Slots : /\ flow[i].kind = "idle" /\ flow[i].ph = "" /\ ~flow[i].dead
                         /\ flow[i].snap = 0 /\ flow[i].tok = 0 /\ flow[i].got = 0
    BY <1>6, IdleFits
  <1>8. TypeOK
    <2>1. flow \in [Slots -> Flows] /\ app \in [Tabs -> Screens] /\ shown \in [Tabs -> Users \cup {""}]
      BY IdleFits DEF Init, Screens
    <2>2. \A i \in Slots : {flow[i].snap, flow[i].tok, flow[i].got} \subseteq 0..Len(pairs)
      BY <1>5, <1>7
    <2>3. mishaps \in Nat /\ why \subseteq {"lost", "late", "elsewhere"}
      BY <1>6 DEF Init
    <2> QED
      BY <1>4, <1>5, <2>1, <2>2, <2>3 DEF TypeOK
  <1>9. \A i \in Slots : Phased(flow[i])
    BY <1>6, IdleFits
  <1>10. Screened /\ InSync /\ Claimed
    BY <1>6, <1>7 DEF Screened, InSync, Claimed
  <1>11. Renewable
    BY <1>4, <1>5, <1>6, <1>7 DEF Renewable, HasSession, StoredLives, GoesWell, FreshPair, Unknown, Apart, Asking
  <1> QED
    BY <1>8, <1>9, <1>10, <1>11 DEF Inv

\* The types, phases and screens of the session's functions, and what ties them to what
\* is stored and issued, hold in every state of ConsoleSession.
THEOREM SessionInvariance == Spec => []Inv
  <1>1. Init => Inv
    BY SessionInit
  <1>2. Inv /\ [Next]_vars => Inv'
    BY SessionInvStep
  <1> QED
    BY <1>1, <1>2, PTL DEF Spec

\* requestWithRetry and apiFetchWithRetry: however often a call is sent, the server
\* executes it at most once.
THEOREM CallExecutedOnce == Spec => []ExecutedOnce
  <1>1. Inv => ExecutedOnce
    <2> SUFFICES ASSUME Inv, NEW i \in Slots PROVE flow[i].runs <= 1
      BY DEF ExecutedOnce
    <2>1. flow[i].runs \in {0, 1}
      BY Parts DEF Phased
    <2> QED
      BY <2>1
  <1> QED
    BY <1>1, SessionInvariance, PTL

\* handleLogin and bootstrap: what is stored is of the user who is shown, unless it was
\* replaced from another tab or by a late answer.
THEOREM StoredIsShown == Spec => []OneUser
  <1>1. Inv => OneUser
    BY DEF Inv, InSync, OneUser
  <1> QED
    BY <1>1, SessionInvariance, PTL

\* handleLogout: with every tab on the login page nothing is stored, unless an answer was
\* stored late.
THEOREM SignedOutForGood == Spec => []SignedOut
  <1>1. Inv => SignedOut
    <2> SUFFICES ASSUME Inv, Calm, \A t \in Tabs : app[t] \in {"login", "closed"},
                        \E t \in Tabs : app[t] = "login", store # 0, "late" \notin why
                 PROVE  FALSE
      BY DEF SignedOut
    <2>1. \A i \in Slots : flow[i].ph = ""
      BY Parts DEF Calm, Busy, Phased
    <2> QED
      BY <2>1, Parts DEF Claimed
  <1> QED
    BY <1>1, SessionInvariance, PTL

\* refreshSession: while nothing went wrong whoever is in has a stored session, and with
\* nothing under way it can be refreshed.
THEOREM SessionIsKept == Spec => []StaysSignedIn
  <1>1. Inv => StaysSignedIn
    <2> SUFFICES ASSUME Inv, why = {}
                 PROVE  /\ (\E t \in Tabs : app[t] = "in") => store # 0
                        /\ Calm /\ store # 0 => pairs[store].refresh
      BY DEF StaysSignedIn
    <2>1. (\E t \in Tabs : app[t] = "in") => store # 0
      BY Renewing DEF HasSession
    <2>2. ASSUME Calm, store # 0 PROVE pairs[store].refresh
      <3>1. \A i \in Slots : flow[i].ph = ""
        BY <2>2, Parts DEF Calm, Busy, Phased
      <3> QED
        BY <2>2, <3>1, Renewing DEF StoredLives
    <2> QED
      BY <2>1, <2>2
  <1> QED
    BY <1>1, SessionInvariance, PTL
=============================================================================
