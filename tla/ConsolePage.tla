----------------------------- MODULE ConsolePage -----------------------------
(***************************************************************************)
(* One page of the console in a browser, for any page described in the     *)
(* words of PageTerms: its views are fetched and refetched, its controls   *)
(* clicked, its calls sent, executed by the server, answered or lost, in   *)
(* every order; the user may leave while calls are under way.              *)
(*                                                                         *)
(* What the server's answer to a view contains is abstracted to what it    *)
(* lacks: the resources written after the answer was made.                 *)
(***************************************************************************)
EXTENDS PageTerms, Integers, SequencesExt

CONSTANTS
    Pages,       \* the pages, a set
    Slots,       \* calls under way at the same time
    MaxSends,    \* calls started in a behaviour
    MaxFlights,  \* fetches of one view the user can have under way
    MaxFaults,   \* failed calls and failed fetches in a behaviour
    MaxViews,    \* views of the page a behaviour follows; the others count as loaded
    \* What the pages are known to do, by page name:
    Gaps,        \* <<page, control, view>>: the call never refreshes the view
    Doubles,     \* <<page, control>>: can be sent again while under way
    Closers,     \* <<page, control>>: a late answer shuts a newer dialog
    Yankers,     \* <<page, control>> or <<page, <<"load", view>>>>: a late answer navigates
                 \* a user who left
    Wipers,      \* <<page, view>>: an arriving answer discards edits
    Racers,      \* <<page, view>>: a late answer replaces a newer one
    Frozen       \* <<page, view>>: a lost socket leaves what it last delivered

ASSUME PagesAssumption == \A p \in Pages : {"name", "views", "inline", "controls"} \subseteq DOMAIN p

VARIABLES
    page,     \* the page, by name
    mounted,  \* the user is on it
    open,     \* dialogs and panels that are open, forms that hold edits
    flags,    \* the busy flags kept in component state
    stray,    \* the fleeing loads that were under way when the user left
    view,     \* per followed view: what is shown and which fetches are under way
    call,     \* per slot: a call under way, or Idle
    later,    \* effects of accepted commands still to come
    sends, faults,   \* how much of the bounds is used up
    done,     \* history: controls whose call changed something
    failed,   \* history: controls whose call ended in an error
    early,    \* history: views asked for again while an earlier fetch answers for it
    seen      \* history: the kinds of harm late answers did, the known ones apart

vars == <<page, mounted, open, flags, stray, view, call, later, sends, faults, done, failed,
          early, seen>>
ui == <<page, mounted, open, flags, stray>>
history == <<done, failed, early, seen>>
bounds == <<sends, faults>>

-----------------------------------------------------------------------------
ByName(set) == [n \in {x.name : x \in set} |-> CHOOSE x \in set : x.name = n]
PageTable ==
    ByName({[p EXCEPT !.views = ByName(@), !.controls = ByName(@)] : p \in Pages})
P == PageTable[page]
ViewOf(n) == P.views[n]
ControlOf(n) == P.controls[n]

Idle == [c |-> <<"", "">>, step |-> 0, ph |-> "idle", top |-> FALSE, own |-> {},
         copy |-> <<>>]
UnderWay == {i \in Slots : call[i].ph # "idle"}
OpOf(i) == ControlOf(call[i].c).op

\* A fetch: what was written since it was sent, whether it is for a choice that has
\* since been changed, whether a newer answer came before its own, and whether it will
\* fill the form.
Fetch == [since |-> {}, old |-> FALSE, passed |-> FALSE, fill |-> TRUE]
Unloaded ==
    [data |-> FALSE, miss |-> {}, wrong |-> FALSE, late |-> FALSE, err |-> FALSE, fl |-> <<Fetch>>]
Gone == [Unloaded EXCEPT !.fl = <<>>]
Loading(n) == view[n].fl # <<>>

\* A load called now, by what the component knows now.
Load(v, s) == [Fetch EXCEPT !.fill = v.while = "" \/ ~ s.data \/ v.while \in open]

\* isPending of a hook is that of its latest mutation.
Pending == {OpOf(i).hook : i \in {j \in UnderWay : call[j].top}}

\* What is going on that a control's disabled attribute may name.
GoingOn == flags \cup Pending \cup {n \in DOMAIN view : Loading(n)}

\* Harm done by a control or a view that is not known to do it.
Harm(happens, what, who, known) == {w \in {what} : happens /\ <<page, who>> \notin known}

-----------------------------------------------------------------------------
(* Views. *)

\* A key is invalidated through any of its prefixes.
IsUnder(key, prefix) ==
    Len(prefix) <= Len(key) /\ SubSeq(key, 1, Len(prefix)) = prefix

Hit(v, keys) == v.cached /\ \E k \in keys : IsUnder(v.key, k)

\* invalidateQueries: an idle query is fetched, a refetch under way is replaced;
\* a first fetch goes on and its answer counts as fresh.
Invalidated(s) ==
    IF s.fl = <<>> \/ s.data THEN [s EXCEPT !.fl = <<Fetch>>] ELSE s

\* A load for the present choice is under way, which another one would join.
Joined(v, s) == v.joins /\ \E k \in DOMAIN s.fl : ~ s.fl[k].old

\* The component calls its load again; only a guarded load forgets the others.  A
\* socket switched off and on again starts with nothing.
Reloaded(v, s) ==
    IF v.live THEN Unloaded
    ELSE IF Joined(v, s) THEN s
    ELSE [(IF v.clears THEN Gone ELSE s) EXCEPT
            !.fl = IF v.cancel THEN <<Load(v, s)>> ELSE Append(s.fl, Load(v, s))]

\* The choice a view is loaded for changes: a query has another key, component
\* state keeps the data of the choice before until the new answer.
Rechosen(v, s) ==
    LET older == [k \in DOMAIN s.fl |-> [s.fl[k] EXCEPT !.old = TRUE]]
        kept == IF v.clears THEN Gone ELSE [s EXCEPT !.wrong = s.data, !.err = FALSE]
    IN  IF v.cached THEN Unloaded
        ELSE [kept EXCEPT
                !.fl = IF v.cancel THEN <<Load(v, s)>> ELSE Append(older, Load(v, s))]

\* The server changes the resources ws.
Written(v, s, ws) ==
    [s EXCEPT !.miss = IF s.data THEN @ \cup (ws \cap v.reads) ELSE @,
              !.fl = [k \in DOMAIN s.fl |->
                        [s.fl[k] EXCEPT !.since = @ \cup (ws \cap v.reads)]]]

Touch(ws) == view' = [n \in DOMAIN view |-> Written(ViewOf(n), view[n], ws)]

\* The copy of view n that a handler under way has seen ages with the rest.
Aged(copy, ws) ==
    [n \in DOMAIN copy |-> [copy[n] EXCEPT !.miss = @ \cup (ws \cap ViewOf(n).reads)]]

Strayed(copy, picked) == [n \in DOMAIN copy |-> [copy[n] EXCEPT !.wrong = @ \/ n \in picked]]

\* The end of a call asks for view n again, by its key or by the handler's refetch, and
\* is given what an earlier fetch will answer.
Outrun(op, v, mine) ==
    LET s == view[v.name]
        asked == Hit(v, op.keys) \/ (mine /\ v.name \in op.loads)
    IN  asked /\ (Joined(v, s) \/ (v.cached /\ Loading(v.name) /\ ~ s.data))

\* What the end of a call refreshes.
Refreshed(op, v, mine) ==
    LET s == IF Hit(v, op.keys) THEN Invalidated(view[v.name]) ELSE view[v.name]
    IN  IF ~ mine \/ v.name \notin op.loads THEN s
        ELSE IF v.cached THEN Invalidated(s) ELSE Reloaded(v, s)

\* What the answer of a call puts into the list n itself: its own change, into the
\* list as it is now or as it was (copy) when the call was made.
Answered(op, copy, n, s) ==
    CASE n \in op.merges -> [s EXCEPT !.miss = @ \ UNION Range(op.calls),
                                      !.fl = [k \in DOMAIN @ |-> [@[k] EXCEPT !.passed = TRUE]]]
      [] n \in op.patches \ op.merges ->
                             [s EXCEPT !.data = TRUE, !.miss = copy[n].miss, !.wrong = copy[n].wrong,
                                       !.fl = [k \in DOMAIN @ |-> [@[k] EXCEPT !.passed = TRUE]]]
      [] OTHER -> s

\* The fetches that are left when fetch k has ended, the older ones overtaken.
After(fl, k) == RemoveAt([j \in DOMAIN fl |-> [fl[j] EXCEPT !.passed = @ \/ j < k]], k)

\* Fetch k of view v answers; the answer has some of what was written meanwhile.  A
\* query whose answer is the one it has renders nothing new.
Receive(v, k) ==
    LET n == v.name
        s == view[n]
    IN  /\ mounted
        /\ k \in DOMAIN s.fl
        /\ \E lacks \in SUBSET s.fl[k].since :
              /\ view' = [view EXCEPT ![n] =
                           [data |-> TRUE, miss |-> lacks, wrong |-> s.fl[k].old,
                            late |-> s.fl[k].passed /\ lacks # {}, err |-> FALSE, fl |-> After(s.fl, k)]]
              /\ IF (v.cached /\ s.data /\ lacks = s.miss) \/ ~ s.fl[k].fill
                 THEN UNCHANGED <<open, seen>>
                 ELSE /\ open' = open \ v.fills
                      /\ seen' = seen \cup Harm(open \cap v.fills # {}, "wipe", n, Wipers)
        /\ UNCHANGED <<page, mounted, flags, stray, call, later, bounds, done, failed, early>>

\* The user leaves the page: the components and their state are dropped, and what the
\* page's calls did to its views.  Loads under way go on.
Unmount(ended) ==
    /\ mounted' = FALSE
    /\ open' = {}
    /\ flags' = {}
    /\ stray' = {n \in DOMAIN view : ViewOf(n).flees /\ Loading(n)} \ ended
    /\ view' = <<>>
    /\ done' = {}
    /\ failed' = {}
    /\ early' = {}

\* Fetch k of view v fails for good: an error is shown, or an empty answer.
FetchFails(v, k) ==
    LET n == v.name
        s == view[n]
        rest == After(s.fl, k)
    IN  /\ mounted
        /\ ~ v.flees
        /\ k \in DOMAIN s.fl
        /\ faults < MaxFaults
        /\ faults' = faults + 1
        /\ view' = [view EXCEPT ![n] =
                     IF v.swallow
                     THEN [data |-> TRUE, miss |-> v.reads, wrong |-> s.fl[k].old, late |-> FALSE,
                           err |-> FALSE, fl |-> rest]
                     ELSE [s EXCEPT !.err = TRUE, !.fl = rest]]
        /\ UNCHANGED <<ui, call, later, sends, history>>

\* Fetch k of a view that flees fails: the page is left.
FetchFlees(v, k) ==
    /\ mounted
    /\ v.flees
    /\ k \in DOMAIN view[v.name].fl
    /\ faults < MaxFaults
    /\ faults' = faults + 1
    /\ Unmount({n \in {v.name} : Len(view[n].fl) = 1})
    /\ UNCHANGED <<page, call, later, sends, seen>>

\* A load of view n fails after the user left, and navigates nevertheless.
StrayFails(n) ==
    /\ faults < MaxFaults
    /\ faults' = faults + 1
    /\ stray' = stray \ {n}
    /\ seen' = seen \cup Harm(TRUE, "yank", <<"load", n>>, Yankers)
    /\ UNCHANGED <<page, mounted, open, flags, view, call, later, sends, done, failed, early>>

\* A socket that is gone for good.
Lost(v) == v.live /\ view[v.name].err

\* The interval of a polled view, or the window getting the focus again.
Refetch(v) ==
    /\ mounted
    /\ v.poll \/ v.cached
    /\ view[v.name].fl = <<>>
    /\ view[v.name].miss # {} \/ view[v.name].err
    /\ ~ Lost(v)
    /\ view' = [view EXCEPT ![v.name].fl = <<Fetch>>]
    /\ early' = early \ {v.name}
    /\ UNCHANGED <<ui, call, later, bounds, done, failed, seen>>

-----------------------------------------------------------------------------
(* Controls. *)

\* Inline panels cover nothing; a control of the page or of such a panel is out of reach
\* under a dialog.
Usable(c, inline) ==
    /\ mounted
    /\ c.at \in {""} \cup inline => open \subseteq inline
    /\ c.at # "" => c.at \in open
    /\ c.need \subseteq open
    /\ \A n \in c.has \cap DOMAIN view : view[n].data
    /\ c.off \cap open = {}
    /\ c.off # {} => c.off \cap GoingOn = {}

\* Calls under way know which of the dialogs they will shut are still the ones they
\* were sent from.
Disown(i, gone) == [call[i] EXCEPT !.own = @ \ gone]

\* The call of control c, started in slot i, becomes its hook's latest.
Started(c, i) ==
    [j \in Slots |->
        IF j = i
        THEN [c |-> c.name, step |-> 1, ph |-> "sent", top |-> c.op.hook # "",
              own |-> ((open \ c.closes) \cup c.opens) \cap (c.op.shut \cup c.op.failShut),
              copy |-> [n \in c.op.patches \cap DOMAIN view |->
                          [miss |-> IF view[n].data THEN view[n].miss ELSE ViewOf(n).reads,
                           wrong |-> view[n].wrong]]]
        ELSE [Disown(j, c.closes \cup c.opens) EXCEPT
                !.top = @ /\ ~ (j \in UnderWay /\ OpOf(j).hook = c.op.hook)]]

\* A click that opens what is open matters when it aims it at something else, or
\* edits it further, while a call sent from it is under way.
Retargets(c) == \E i \in Slots : call[i].own \cap c.opens # {}

Clicked(c, v, s) ==
    IF v.name \in c.picks THEN Rechosen(v, s)
    ELSE IF v.name \notin c.again THEN s
    ELSE IF v.cached THEN Invalidated(s) ELSE Reloaded(v, s)

Click(c) ==
    /\ Usable(c, P.inline)
    /\ \/ c.op.some \/ c.exit \/ c.opens \ open # {} \/ c.closes \cap open # {} \/ Retargets(c)
       \/ (c.picks \cup c.again) \cap DOMAIN view # {}
    /\ c.op.some => sends < MaxSends
    /\ \A n \in (c.picks \cup c.again) \cap DOMAIN view : Len(view[n].fl) < MaxFlights
    /\ sends' = IF c.op.some THEN sends + 1 ELSE sends
    /\ IF c.op.some
       THEN \E i \in Slots \ UnderWay : call' = Started(c, i)
       ELSE call' = [i \in Slots |-> [Disown(i, c.closes \cup c.opens) EXCEPT
                                         !.copy = Strayed(@, c.picks)]]
    /\ IF c.exit
       THEN Unmount({})
       ELSE /\ open' = (open \ c.closes) \cup c.opens
            /\ flags' = IF ~ c.op.some \/ c.op.flag = "" THEN flags ELSE (flags \ c.op.lowers) \cup {c.op.flag}
            /\ view' = [n \in DOMAIN view |-> Clicked(c, ViewOf(n), view[n])]
            /\ early' = early \ {n \in c.picks \cup c.again : n \in DOMAIN view /\ view'[n] # view[n]}
            /\ UNCHANGED <<mounted, stray, done, failed>>
    /\ UNCHANGED <<page, later, faults, seen>>

Leave ==
    /\ mounted
    /\ Unmount({})
    /\ UNCHANGED <<page, call, later, bounds, seen>>

-----------------------------------------------------------------------------
(* Calls. *)

Writes(i, op) == op.calls[call[i].step]

\* Only the last call of several is answered before it is executed.
Via(i, op) == IF call[i].step = Len(op.calls) THEN op.via ELSE "sync"

\* The history keeps the controls that change something a followed view reports.
Concerning(c) ==
    {d \in {c} : (UNION Range(ControlOf(d).op.calls)) \cap UNION {ViewOf(n).reads : n \in DOMAIN view} # {}}

\* The server executes call i, of operation op.
Apply(i, op) ==
    /\ call[i].ph = "sent"
    /\ Via(i, op) # "accept"
    /\ Touch(Writes(i, op))
    /\ call' = [j \in Slots |->
                   IF j = i THEN [call[j] EXCEPT !.ph = "applied"]
                   ELSE [call[j] EXCEPT !.copy = Aged(@, Writes(i, op))]]
    /\ done' = done \cup Concerning(call[i].c)
    /\ UNCHANGED <<ui, later, bounds, failed, early, seen>>

\* The effect of a command that was answered before it was executed.
Land(l) ==
    /\ Touch(l.ws)
    /\ later' = later \ {l}
    /\ call' = [i \in Slots |-> [call[i] EXCEPT !.copy = Aged(@, l.ws)]]
    /\ done' = done \cup Concerning(l.c)
    /\ UNCHANGED <<ui, bounds, failed, early, seen>>

\* The handler's own lines run when call i ends.
Mine(i, op) == ~ op.gated \/ (mounted /\ call[i].top)

\* The dialogs and forms they shut.  Of a mutation that starts another the first one's
\* callback does.
Shuts(i, op) ==
    IF Mine(i, op) /\ (op.chain => call[i].step = 1) THEN op.shut ELSE {}

ClosedBy(i, shut) == Harm((shut \cap open) \ call[i].own # {}, "close", call[i].c, Closers)

\* Call i of several is answered and the handler makes the next one.
NextCall(i, op) ==
    /\ call[i].ph = "applied"
    /\ call[i].step < Len(op.calls)
    /\ Mine(i, op)
    /\ call' = [j \in Slots |->
                   IF j = i THEN [call[i] EXCEPT !.step = @ + 1, !.ph = "sent"]
                   ELSE IF op.chain THEN Disown(j, Shuts(i, op)) ELSE call[j]]
    /\ IF mounted /\ op.chain
       THEN /\ view' = [n \in DOMAIN view |-> Refreshed(op, ViewOf(n), FALSE)]
            /\ open' = open \ Shuts(i, op)
            /\ seen' = seen \cup ClosedBy(i, Shuts(i, op))
       ELSE UNCHANGED <<view, open, seen>>
    /\ UNCHANGED <<page, mounted, flags, stray, later, bounds, done, failed, early>>

\* A finished call takes its flag down, or all of one variable.
FlagsAfter(op) == flags \ ({op.flag} \cup op.lowers)

\* The last call succeeds: the hook's onSuccess, then the handler's own lines if
\* the call still is the page's latest.
Succeed(i, op) ==
    LET mine == Mine(i, op)
        shut == Shuts(i, op)
        c == call[i].c
    IN  /\ call[i].step = Len(op.calls) \/ ~ mine
        /\ call[i].ph = "applied" \/ Via(i, op) = "accept"
        /\ later' = IF call[i].ph = "applied" THEN later ELSE later \cup {[c |-> c, ws |-> Writes(i, op)]}
        /\ call' = [j \in Slots |-> IF j = i THEN Idle ELSE Disown(j, shut)]
        /\ seen' = seen \cup Harm(mine /\ op.exit /\ ~ mounted, "yank", c, Yankers)
                        \cup ClosedBy(i, shut)
        /\ IF mounted /\ mine /\ op.exit
           THEN Unmount({})
           ELSE /\ view' = IF mounted
                           THEN [n \in DOMAIN view |->
                                  Answered(op, call[i].copy, n, Refreshed(op, ViewOf(n), mine))]
                           ELSE view
                /\ early' = IF mounted
                            THEN (early \ {n \in DOMAIN view : view'[n] # view[n]}) \cup
                                 {n \in DOMAIN view : Outrun(op, ViewOf(n), mine)}
                            ELSE early
                /\ open' = IF mounted THEN (open \ shut) \cup (IF mine THEN op.show ELSE {}) ELSE open
                /\ flags' = FlagsAfter(op)
                /\ UNCHANGED <<mounted, stray, done, failed>>
        /\ UNCHANGED <<page, bounds>>

\* Call i fails, or its answer is lost after the server executed it, or the page
\* stops polling for a command that is executed later.
Fail(i, op) ==
    LET shut == IF Mine(i, op) /\ mounted THEN op.failShut ELSE {}
    IN  /\ faults < MaxFaults
        /\ faults' = faults + 1
        /\ \/ UNCHANGED later
           \/ /\ Via(i, op) = "poll"
              /\ call[i].ph = "sent"
              /\ later' = later \cup {[c |-> call[i].c, ws |-> Writes(i, op)]}
        /\ call' = [j \in Slots |-> IF j = i THEN Idle ELSE Disown(j, shut)]
        /\ open' = open \ shut
        /\ flags' = FlagsAfter(op)
        /\ failed' = failed \cup Concerning(call[i].c)
        /\ seen' = seen \cup ClosedBy(i, shut)
        /\ UNCHANGED <<page, mounted, stray, view, sends, done, early>>

-----------------------------------------------------------------------------
\* Views meet only in the guards of controls, so a behaviour follows a few of them.
Followed(names) ==
    {ns \in SUBSET names : Cardinality(ns) = Min({MaxViews, Cardinality(names)})}

Init ==
    /\ page \in DOMAIN PageTable
    /\ mounted = TRUE
    /\ open = {}
    /\ flags = {}
    /\ stray = {}
    /\ \E followed \in Followed(DOMAIN P.views) : view = [n \in followed |-> Unloaded]
    /\ call = [i \in Slots |-> Idle]
    /\ later = {}
    /\ sends = 0 /\ faults = 0
    /\ done = {} /\ failed = {} /\ early = {} /\ seen = {}

Next ==
    \/ \E n \in DOMAIN view : \E k \in 1..Len(view[n].fl) : Receive(ViewOf(n), k)
    \/ \E n \in DOMAIN view : \E k \in 1..Len(view[n].fl) : FetchFails(ViewOf(n), k)
    \/ \E n \in DOMAIN view : \E k \in 1..Len(view[n].fl) : FetchFlees(ViewOf(n), k)
    \/ \E n \in stray : StrayFails(n)
    \/ \E n \in DOMAIN view : Refetch(ViewOf(n))
    \/ \E n \in DOMAIN P.controls : Click(ControlOf(n))
    \/ Leave
    \/ \E i \in UnderWay : Apply(i, OpOf(i))
    \/ \E i \in UnderWay : NextCall(i, OpOf(i))
    \/ \E i \in UnderWay : Succeed(i, OpOf(i))
    \/ \E i \in UnderWay : Fail(i, OpOf(i))
    \/ \E l \in later : Land(l)

Spec == Init /\ [][Next]_vars
-----------------------------------------------------------------------------
(* Rules a page keeps: of its description alone, and enough for the property that names *)
(* the rule, however many calls, fetches and views there are.                           *)

At(p, c) == PageTable[p].controls[c]
OpAt(p, c) == At(p, c).op
ViewAt(p, n) == PageTable[p].views[n]
Senders(p) == {c \in DOMAIN PageTable[p].controls : OpAt(p, c).some}

\* The flag of control c is its own, or belongs to controls that it disables all of:
\* nothing else takes it down.
FlagLocks(p, c) ==
    LET f == OpAt(p, c).flag
    IN  /\ f # ""
        /\ \A d \in Senders(p) :
              f \in {OpAt(p, d).flag} \cup OpAt(p, d).lowers => OpAt(p, d).flag = f /\ f \in At(p, d).off

\* isPending of the hook of control c disables every control that calls the hook.
HookLocks(p, c) ==
    LET h == OpAt(p, c).hook
    IN  /\ h # ""
        /\ \A d \in Senders(p) : OpAt(p, d).hook = h => h \in At(p, d).off

OnceRule ==
    \A p \in DOMAIN PageTable : \A c \in Senders(p) :
        \/ <<p, c>> \in Doubles
        \/ UNION Range(OpAt(p, c).calls) = {}
        \/ FlagLocks(p, c) \/ HookLocks(p, c)

\* A handler that navigates is a callback of mutate, and no load navigates.
AwayRule ==
    \A p \in DOMAIN PageTable :
        /\ \A c \in Senders(p) : OpAt(p, c).exit /\ ~ OpAt(p, c).gated => <<p, c>> \in Yankers
        /\ \A n \in DOMAIN PageTable[p].views : ViewAt(p, n).flees => <<p, <<"load", n>>>> \in Yankers

\* What the answer of control c shuts, by either end.
Closing(p, c) == OpAt(p, c).shut \cup OpAt(p, c).failShut

\* Control d is disabled while a call of c is under way.
Blocks(p, c, d) ==
    \/ FlagLocks(p, c) /\ OpAt(p, c).flag \in At(p, d).off
    \/ HookLocks(p, c) /\ OpAt(p, c).hook \in At(p, d).off

\* No call of e is under way beside one of c.
Twins(p, c, e) ==
    \/ FlagLocks(p, c) /\ OpAt(p, c).flag = OpAt(p, e).flag
    \/ HookLocks(p, c) /\ OpAt(p, c).hook = OpAt(p, e).hook

\* The dialog that holds control c covers the page until the answer to its call.
Stays(p, c) ==
    LET m == At(p, c).at
    IN  /\ m \notin {""} \cup PageTable[p].inline \cup At(p, c).closes
        /\ OpAt(p, c).chain => m \notin OpAt(p, c).shut
        /\ \A d \in DOMAIN PageTable[p].controls : m \in At(p, d).closes => Blocks(p, c, d)
        /\ \A e \in Senders(p) : m \in Closing(p, e) => Twins(p, c, e)
        /\ \A n \in DOMAIN PageTable[p].views : m \notin ViewAt(p, n).fills

\* What is not open when c is used and cannot be opened until the answer.
Away(p, c) ==
    {g \in At(p, c).off \ At(p, c).opens :
        /\ \A d \in DOMAIN PageTable[p].controls : g \in At(p, d).opens => Blocks(p, c, d)
        /\ \A e \in Senders(p) : g \in OpAt(p, e).show => Twins(p, c, e)}

\* Control d is out of reach while a call of c is under way.
KeepsOut(p, c, d) ==
    \/ Blocks(p, c, d)
    \/ Stays(p, c) /\ At(p, d).at \in {""} \cup PageTable[p].inline
    \/ (({At(p, d).at} \ {""}) \cup At(p, d).need) \cap Away(p, c) # {}

\* What an answer shuts cannot be opened anew while the call is under way.
CloseRule ==
    \A p \in DOMAIN PageTable : \A c \in Senders(p) :
        \/ <<p, c>> \in Closers
        \/ /\ \A e \in Senders(p) : OpAt(p, e).show \cap Closing(p, c) # {} => Twins(p, c, e)
           /\ \A d \in DOMAIN PageTable[p].controls :
                 At(p, d).opens \cap Closing(p, c) # {} => KeepsOut(p, c, d)

\* Control c is a choice or a refresh button of view n.
Starts(p, c, n) == n \in At(p, c).picks \cup At(p, c).again

\* View n is loaded once, when the page is entered.
LoadedOnce(p, n) ==
    /\ ~ ViewAt(p, n).cached /\ ~ ViewAt(p, n).poll
    /\ \A c \in DOMAIN PageTable[p].controls : ~ Starts(p, c, n)
    /\ \A c \in Senders(p) : n \notin OpAt(p, c).loads \cup OpAt(p, c).patches

\* Besides, no form that it fills can be edited before: what opens the form waits for
\* the data or for the end of the load.
FillsOnce(p, n) ==
    LET v == ViewAt(p, n)
    IN  /\ LoadedOnce(p, n)
        /\ \A c \in DOMAIN PageTable[p].controls :
              At(p, c).opens \cap v.fills # {} => n \in At(p, c).has \cup At(p, c).off
        /\ \A c \in Senders(p) : OpAt(p, c).show \cap v.fills = {}

EditsRule ==
    \A p \in DOMAIN PageTable : \A n \in DOMAIN PageTable[p].views :
        <<p, n>> \in Wipers \/ ViewAt(p, n).fills = {} \/ FillsOnce(p, n)

\* No call puts a copy of view n back, and no answer for an earlier choice is taken: the
\* choice is part of the key, or the effect is guarded, or nothing can be chosen while a
\* load is under way.
KeepsChoice(p, n) ==
    LET v == ViewAt(p, n)
    IN  /\ \A c \in Senders(p) : n \notin OpAt(p, c).patches
        /\ \/ v.cached \/ v.cancel
           \/ \A c \in DOMAIN PageTable[p].controls : n \in At(p, c).picks => n \in At(p, c).off

\* View n can be left with the data of an earlier choice: there are choices, and a new
\* one keeps what is shown.
KeepsOld(p, n) ==
    /\ ~ ViewAt(p, n).clears /\ ~ ViewAt(p, n).cached
    /\ \E c \in DOMAIN PageTable[p].controls : n \in At(p, c).picks

ChoiceRule ==
    \A p \in DOMAIN PageTable : \A n \in DOMAIN PageTable[p].views :
        \/ <<p, n>> \in Racers
        \/ /\ KeepsChoice(p, n)
           /\ ViewAt(p, n).live => ~ KeepsOld(p, n) \/ <<p, n>> \in Frozen

\* A call of control c changes what view n reports.
Touches(p, c, n) == (UNION Range(OpAt(p, c).calls)) \cap ViewAt(p, n).reads # {}
Touched(p, n) == \E c \in Senders(p) : Touches(p, c, n)

\* No fetch of view n goes on while a call of c is under way: the control waits for the
\* last one, and what would start another waits for the call.
Undisturbed(p, c, n) ==
    /\ ~ ViewAt(p, n).cached /\ ~ ViewAt(p, n).poll
    /\ n \in At(p, c).off \/ (n \in At(p, c).has /\ LoadedOnce(p, n))
    /\ \A d \in DOMAIN PageTable[p].controls : Starts(p, d, n) => d # c /\ Blocks(p, c, d)
    /\ \A e \in Senders(p) : n \in OpAt(p, e).loads => Twins(p, c, e)

\* View n has one fetch under way at a time: a new one replaces or joins the one before,
\* or what starts it waits; and no call answers in its place.
Alone(p, n) ==
    LET v == ViewAt(p, n)
    IN  /\ \A c \in Senders(p) :
              /\ n \notin OpAt(p, c).patches
              /\ n \in OpAt(p, c).merges => n \notin OpAt(p, c).loads /\ Undisturbed(p, c, n)
        /\ \/ v.cached \/ v.cancel
           \/ /\ \A c \in DOMAIN PageTable[p].controls : Starts(p, c, n) => n \in At(p, c).off
              /\ v.joins \/ \A c \in Senders(p) : n \in OpAt(p, c).loads => Undisturbed(p, c, n)

\* The handler's own lines run when a call of control c succeeds while the page is shown.
Answers(p, c) == OpAt(p, c).gated => HookLocks(p, c)

\* When a call of control c succeeds, its effect is there and view n learns of it: by a
\* fetch, by the answer itself, or the user is taken to another page.
Tells(p, c, n) ==
    LET op == OpAt(p, c)
    IN  /\ op.via # "accept"
        /\ \/ Hit(ViewAt(p, n), op.keys) \/ n \in op.merges
           \/ Answers(p, c) /\ (op.exit \/ n \in op.loads)

\* Every call that changes what a view reports tells the view, but for those of Gaps; the
\* views that ask themselves, by an interval or a socket, need not be told.
FreshRule ==
    \A p \in DOMAIN PageTable :
        /\ \A c \in Senders(p) :
              LET calls == OpAt(p, c).calls
              IN  Len(calls) \in Nat \ {0} /\ DOMAIN calls = 1..Len(calls)
        /\ \A n \in DOMAIN PageTable[p].views :
              LET v == ViewAt(p, n)
              IN  /\ v.live => v.poll /\ (<<p, n>> \in Frozen \/ ~ Touched(p, n))
                  /\ \A c \in Senders(p) :
                        n \in OpAt(p, c).patches =>
                            Touches(p, c, n) /\ <<p, c, n>> \in Gaps /\ OpAt(p, c).via # "accept"
                  /\ Touched(p, n) /\ ~ v.poll =>
                        /\ <<p, n>> \in Racers \/ Alone(p, n)
                        /\ \A c \in Senders(p) :
                              /\ n \in OpAt(p, c).merges => ~ v.cached /\ ~ v.joins
                              /\ Touches(p, c, n) => <<p, c, n>> \in Gaps \/ Tells(p, c, n)

-----------------------------------------------------------------------------
(* What the proofs rest on. *)

\* A slot holds a call of one of the page's controls, or nothing.
CallsOK ==
    /\ page \in DOMAIN PageTable
    /\ call = [i \in Slots |-> call[i]]
    /\ \A i \in Slots :
          /\ call[i] = [c |-> call[i].c, step |-> call[i].step, ph |-> call[i].ph,
                        top |-> call[i].top, own |-> call[i].own, copy |-> call[i].copy]
          /\ call[i].top \in BOOLEAN
          /\ call[i].ph # "idle" => call[i].c \in Senders(page)

\* The flag that guards a control is up while its call is under way, and no other call
\* has it; the call that a hook's isPending guards is the hook's latest, and its only one.
Locked ==
    \A i \in UnderWay :
        /\ FlagLocks(page, call[i].c) =>
              /\ mounted => OpOf(i).flag \in flags
              /\ \A j \in UnderWay \ {i} : OpOf(j).flag # OpOf(i).flag
        /\ HookLocks(page, call[i].c) =>
              /\ call[i].top
              /\ \A j \in UnderWay \ {i} : OpOf(j).hook # OpOf(i).hook

\* What the answer of a call would shut is what the call was sent from, the dialog
\* it was sent from still covers the page, and what was to stay away is not open.
OpenOK ==
    /\ ~ mounted => open = {}
    /\ \A i \in UnderWay :
          <<page, call[i].c>> \notin Closers =>
              /\ Closing(page, call[i].c) \cap open \subseteq call[i].own
              /\ mounted /\ Stays(page, call[i].c) => At(page, call[i].c).at \in open
              /\ Away(page, call[i].c) \cap open = {}

\* A followed view is one of the page's, with the fetches under way in their order.
Fetches(v) == [since : SUBSET v.reads, old : BOOLEAN, passed : BOOLEAN, fill : BOOLEAN]

ViewsOK ==
    /\ page \in DOMAIN PageTable
    /\ view = [n \in DOMAIN view |-> view[n]]
    /\ DOMAIN view \subseteq DOMAIN P.views
    /\ \A n \in DOMAIN view :
          /\ view[n] = [data |-> view[n].data, miss |-> view[n].miss, wrong |-> view[n].wrong,
                        late |-> view[n].late, err |-> view[n].err, fl |-> view[n].fl]
          /\ view[n].fl \in Seq(Fetches(ViewOf(n)))

\* What goes on after the user left is a load that navigates when it fails.
StrayOK == \A n \in stray : n \in DOMAIN P.views /\ ViewOf(n).flees

\* The one load of a view that fills a form ends before the form holds edits.
FormsOK ==
    \A n \in DOMAIN view :
        FillsOnce(page, n) =>
            \/ view[n].fl = <<>>
            \/ Len(view[n].fl) = 1 /\ ~ view[n].data /\ open \cap ViewOf(n).fills = {}

\* What a guarded view shows of an earlier choice is being replaced, or its load failed.
ChoiceOK ==
    \A n \in DOMAIN view :
        KeepsChoice(page, n) =>
            /\ \A k \in DOMAIN view[n].fl : ~ view[n].fl[k].old
            /\ view[n].wrong => KeepsOld(page, n) /\ (view[n].fl # <<>> \/ view[n].err)

\* A call under way has something applied.
Begun(i) == call[i].ph = "applied" \/ call[i].step > 1

\* The calls are made one by one, an effect to come is one of them, and the history has
\* the controls whose call changed something a followed view reports.
HistoryOK ==
    /\ faults \in Nat
    /\ mounted \/ DOMAIN view = {}
    /\ \A i \in UnderWay :
          /\ call[i].step \in 1..Len(OpAt(page, call[i].c).calls)
          /\ Begun(i) => \A n \in DOMAIN view : Touches(page, call[i].c, n) => call[i].c \in done
    /\ \A l \in later :
          /\ l.c \in Senders(page)
          /\ l.ws \in Range(OpAt(page, l.c).calls)
          /\ \/ OpAt(page, l.c).via = "accept"
             \/ \A n \in DOMAIN view : Touches(page, l.c, n) => l.c \in failed
    /\ \A n \in early \cap DOMAIN view : ViewOf(n).cached \/ ViewOf(n).joins

\* Fetches are overtaken in their order, one is left where one is enough, and none goes on
\* where it would disturb a call.
FlightsOK ==
    \A n \in DOMAIN view :
        /\ \A j, k \in DOMAIN view[n].fl : j < k /\ view[n].fl[k].passed => view[n].fl[j].passed
        /\ Alone(page, n) => Len(view[n].fl) <= 1 /\ \A k \in DOMAIN view[n].fl : ~ view[n].fl[k].passed
        /\ LoadedOnce(page, n) => view[n].fl = <<>> \/ (Len(view[n].fl) = 1 /\ ~ view[n].data)
        /\ \A i \in UnderWay : Undisturbed(page, call[i].c, n) => view[n].fl = <<>>

\* A view that no call of the page touches lacks nothing.
CleanOK ==
    \A n \in DOMAIN view :
        ~ Touched(page, n) =>
            \/ view[n].miss = {} /\ \A k \in DOMAIN view[n].fl : view[n].fl[k].since = {}
            \/ ViewOf(n).swallow /\ faults > 0

\* What the calls under way have changed, of what view n reports: their ends will tell.
Owed(n) ==
    UNION {(UNION Range(OpAt(page, call[i].c).calls)) \cap ViewAt(page, n).reads :
              i \in {j \in UnderWay : Begun(j)}}

\* Why view n may lack more.
Excused(n) ==
    \/ n \in early
    \/ ViewOf(n).swallow /\ faults > 0
    \/ \E c \in done : c \in failed \/ <<page, c, n>> \in Gaps

\* The newest fetch of a view, or what it shows when none is under way, lacks only what
\* a call under way will tell.
FreshOK ==
    \A n \in DOMAIN view :
        Touched(page, n) /\ ~ ViewOf(n).poll =>
            \/ Excused(n)
            \/ /\ \A k \in DOMAIN view[n].fl :
                     k = Len(view[n].fl) /\ ~ view[n].fl[k].passed => view[n].fl[k].since \subseteq Owed(n)
               /\ view[n].fl = <<>> /\ view[n].data /\ ~ view[n].err =>
                     (view[n].late /\ <<page, n>> \in Racers) \/ view[n].miss \subseteq Owed(n)

-----------------------------------------------------------------------------
(* Properties. *)

\* What view v shows counts: it says nothing of an error.
Shown(v) == view[v.name].data /\ (~ view[v.name].err \/ Lost(v))

\* The views the page is followed in.
Views == {ViewOf(n) : n \in DOMAIN view}

\* Nothing is under way: no call, no fetch, no effect to come, and no view that
\* its interval will fetch again.
Quiet ==
    /\ mounted
    /\ UnderWay = {}
    /\ later = {}
    /\ \A v \in Views :
          /\ view[v.name].fl = <<>>
          /\ v.poll => Lost(v) \/ (view[v.name].miss = {} /\ ~ view[v.name].err)

\* Once a page is quiet, every view it shows without an error has what the page's
\* own calls changed, unless the call failed, an earlier fetch answered for the view
\* (see Outrun), a failed fetch is shown as an empty answer, an older answer replaced
\* a newer one in a view of Racers, a socket of Frozen was lost, or the call leaves
\* the view behind, by Gaps: each hook's onSuccess names every key its endpoint changes.
SettledFresh ==
    /\ FreshRule
    /\ Quiet =>
        \A v \in Views :
            Shown(v) /\ view[v.name].miss # {} =>
                \/ v.name \in early
                \/ view[v.name].late /\ <<page, v.name>> \in Racers
                \/ Lost(v) /\ <<page, v.name>> \in Frozen
                \/ v.swallow /\ faults > 0
                \/ \E c \in done : c \in failed \/ <<page, c, v.name>> \in Gaps

\* A quiet page shows the data of the choice the user made last, unless the view is
\* one of Racers, or of Frozen with its socket lost: a query has a key per choice, and
\* a guarded effect drops the answer of the choice before.
RightChoice ==
    /\ ChoiceRule
    /\ Quiet => \A v \in Views :
                   Shown(v) /\ view[v.name].wrong =>
                       <<page, v.name>> \in Racers \/ (Lost(v) /\ <<page, v.name>> \in Frozen)

\* A call that changes something is not sent again while it is under way, unless its
\* control is one of Doubles: the control is disabled by its flag or by its hook's isPending.
SentOnce ==
    /\ OnceRule
    /\ \A i, j \in UnderWay :
          i # j /\ call[i].c = call[j].c /\ UNION Range(OpOf(i).calls) # {}
              => <<page, call[i].c>> \in Doubles

\* An answer shuts only the dialog its call was sent from, not one the user opened
\* since, unless the control is one of Closers.
ClosesOwn == CloseRule /\ "close" \notin seen

\* An answer or a failure that arrives after the user left the page does not navigate,
\* unless the control or the load is one of Yankers: callbacks given to mutate die with
\* the page, and loads show their errors where they were called.
StaysAway == AwayRule /\ "yank" \notin seen

\* A fetch that answers while a form holds edits leaves them alone, unless the view
\* is one of Wipers.
EditsKept == EditsRule /\ "wipe" \notin seen
=============================================================================
