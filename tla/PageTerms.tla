------------------------------ MODULE PageTerms ------------------------------
(***************************************************************************)
(* The vocabulary in which the console's pages are described.              *)
(*                                                                         *)
(* A page is a record of the views it loads and the controls it offers.    *)
(* A view is a useQuery hook or a load into component state; a control is  *)
(* a button, a menu entry or a form's submit; an operation is the whole    *)
(* handler behind a control.  Resources name what the server keeps, query  *)
(* keys are sequences whose "$"-words stand for parameters.  What a page   *)
(* prints, and how it looks, is left out.                                  *)
(***************************************************************************)
EXTENDS Sequences, FiniteSets

(***************************************************************************)
(* Views.  "reads" are the resources the endpoint reports.                 *)
(***************************************************************************)

\* A useQuery hook: cached under a key, refetched when the key is invalidated.
Query(name, key, reads) ==
    [name |-> name, cached |-> TRUE, key |-> key, reads |-> reads, poll |-> FALSE,
     swallow |-> FALSE, cancel |-> TRUE, live |-> FALSE, clears |-> FALSE, joins |-> FALSE,
     fills |-> {}, while |-> "", flees |-> FALSE]

\* A load into component state that sets the state whenever it answers.
Local(name, reads) ==
    [name |-> name, cached |-> FALSE, key |-> <<>>, reads |-> reads, poll |-> FALSE,
     swallow |-> FALSE, cancel |-> FALSE, live |-> FALSE, clears |-> FALSE, joins |-> FALSE,
     fills |-> {}, while |-> "", flees |-> FALSE]

\* A view with refetchInterval, or with an interval of its own.
Polled(v) == [v EXCEPT !.poll = TRUE]

\* A load whose failure is caught and shown as an empty answer.
Swallows(v) == [v EXCEPT !.swallow = TRUE]

\* A load whose effect drops the answers of the requests it replaced.
Guarded(v) == [v EXCEPT !.cancel = TRUE]

\* A WebSocket that pushes snapshots into component state.  A new choice closes it,
\* after which it delivers nothing; once lost it is neither reported nor reopened.
Live(name, reads) == [Local(name, reads) EXCEPT !.poll = TRUE, !.cancel = TRUE, !.live = TRUE]

\* A view that drops what it shows when it is loaded for another choice.
Clears(v) == [v EXCEPT !.clears = TRUE]

\* A load that is skipped while one for the same choice is under way.
Joins(v) == [v EXCEPT !.joins = TRUE]

\* A view whose arrival resets these facts (a form filled from loaded data).
Fills(v, facts) == [v EXCEPT !.fills = facts]

\* The same for a load that fills the form only if nothing was selected when it was
\* called: before the first answer, or while the form holds a new record.
FillsWhile(v, fact, facts) == [Fills(v, facts) EXCEPT !.while = fact]

\* A load that navigates to another page when it fails, wherever the user is by then.
Flees(v) == [v EXCEPT !.flees = TRUE]

(***************************************************************************)
(* Operations: the calls a handler makes, each the set of resources it     *)
(* changes, and what the handler does when they end.                       *)
(***************************************************************************)

\* A handler that awaits its calls one after the other.  "via" is how the last one is
\* answered: when it is executed, when it is accepted, or by polling for its result.
Handler(calls) ==
    [some |-> TRUE, hook |-> "", gated |-> FALSE, flag |-> "", calls |-> calls,
     via |-> "sync", keys |-> {}, loads |-> {}, merges |-> {}, patches |-> {},
     shut |-> {}, show |-> {}, failShut |-> {}, lowers |-> {}, exit |-> FALSE, chain |-> FALSE]

\* The answer changes the list vs in place, or in the copy of it that the handler saw
\* when it was called.
Merges(vs, op) == [op EXCEPT !.merges = vs]
Patches(vs, op) == [op EXCEPT !.patches = vs]

\* A handler with a busy flag that finally takes it down.
Flagged(flag, op) == [op EXCEPT !.flag = flag]

\* The same for one of several flags kept in one variable.
OneFlag(flag, all, op) == [op EXCEPT !.flag = flag, !.lowers = all]

\* A handler that closes dialog m however it ends.
Finally(m, op) == [op EXCEPT !.shut = @ \cup {m}, !.failShut = @ \cup {m}]

\* The answer aims the form at the record the call was sent for.
Reaims(facts, op) == [op EXCEPT !.shut = @ \cup facts, !.show = @ \cup facts]

\* A control that calls nothing.
NoCall == [some |-> FALSE]

\* A useMutation hook: the resources its endpoint changes and the keys its
\* onSuccess invalidates.
Mutation(name, writes, keys) == [name |-> name, writes |-> writes, keys |-> keys]

\* hook.mutate(vars, {onSuccess}): the call's own callbacks run only while the
\* page is mounted and the call is the hook's latest.
Mutate(h) ==
    [Handler(<<h.writes>>) EXCEPT !.hook = h.name, !.gated = TRUE, !.keys = h.keys]

\* await hook.mutateAsync(vars): what follows runs wherever the user is by then.
MutateAsync(h) == [Mutate(h) EXCEPT !.gated = FALSE]

\* mutate whose onSuccess mutates again: both hooks refresh what they name.
Then(op, h) ==
    [op EXCEPT !.calls = Append(@, h.writes), !.keys = @ \cup h.keys, !.chain = TRUE]

(***************************************************************************)
(* Controls.  "at" is the dialog that holds the control ("" is the page,   *)
(* which a dialog covers), "need" the facts and "has" the loaded views it  *)
(* is rendered under, "off" what disables it: a call or a fetch that goes  *)
(* on, or a fact.                                                          *)
(***************************************************************************)

Control(name, at) ==
    [name |-> name, at |-> at, need |-> {}, has |-> {}, off |-> {}, opens |-> {},
     closes |-> {}, picks |-> {}, again |-> {}, exit |-> FALSE, op |-> NoCall]

\* The control that opens dialog or panel m.
Open(m, at) == [Control(<<"open", m>>, at) EXCEPT !.opens = {m}]

\* The control of dialog m that closes it.
Close(m) == [Control(<<"close", m>>, m) EXCEPT !.closes = {m}]

\* A control that runs operation op, disabled while one of off goes on.
Run(name, at, off, op) ==
    [Control(<<"run", name>>, at) EXCEPT !.off = off, !.op = op]

\* The confirmation dialog of the console: Cancel and Confirm wait for the call, the
\* cross in the corner does not.
ConfirmActionDialog(m, off, op) == {Close(m), Run(m, m, off, op)}

\* Form fields: editing leaves the fact that the form holds something unsaved, or
\* that some row of it does not validate.
Edits(fact, at) == [Control(<<"edit", fact>>, at) EXCEPT !.opens = {fact}]
Mends(fact, at) == [Control(<<"mend", fact>>, at) EXCEPT !.closes = {fact}]

\* Several fields of one form, by name.
Fields(names, fact, at) == {[Edits(fact, at) EXCEPT !.name = <<"edit", n>>] : n \in names}

\* A field that a handler clears when it is called: the handler runs only if it is filled in.
Consumes(fact, run) == [run EXCEPT !.need = @ \cup {fact}, !.closes = @ \cup {fact}]

\* A choice the views vs are loaded for (an environment, a namespace, a tab).
Pick(name, vs) == [Control(<<"pick", name>>, "") EXCEPT !.picks = vs]

\* A refresh button: the views vs are fetched again.
Reload(name, vs) == [Control(<<"reload", name>>, "") EXCEPT !.again = vs]

\* A link or a button that navigates to another page.
Go(name, at) == [Control(<<"go", name>>, at) EXCEPT !.exit = TRUE]

\* The same controls, rendered only once view v has answered.
Of(v, controls) == {[c EXCEPT !.has = @ \cup {v}] : c \in controls}

\* The same controls, rendered only while the facts hold.
If(facts, controls) == {[c EXCEPT !.need = @ \cup facts] : c \in controls}

\* The lists of what pages are known to do: their controls that run the named
\* operations, the views an operation leaves behind, and views by name.
Runs(p, names) == {<<p, <<"run", n>>>> : n \in names}
Leaves(p, name, views) == {<<p, <<"run", name>>, v>> : v \in views}
ViewsOf(p, views) == {<<p, v>> : v \in views}

\* A page: its views, its controls, and the panels that cover nothing.
Page(name, views, inline, controls) ==
    [name |-> name, views |-> views, inline |-> inline, controls |-> controls]
=============================================================================
