---------------------------- MODULE ConsoleSession ----------------------------
(***************************************************************************)
(* The console's session: a token pair in localStorage, shared by the tabs *)
(* of a browser and by every request they have under way, and the identity *)
(* service that issues, checks and rotates the pairs.  A request that is   *)
(* refused refreshes the pair and is sent once more; signing in and out,   *)
(* the start of a tab and the set-up of an authenticator read and write    *)
(* the same stored pair in between.                                        *)
(*                                                                         *)
(* A stored session is the index of its pair, 0 stands for none; the       *)
(* profile kept beside the tokens is left out.                             *)
(***************************************************************************)
EXTENDS Naturals, Sequences, FiniteSets

CONSTANTS Tabs, Users, Kinds, Slots,
          MaxPairs,    \* pairs issued in a behaviour
          MaxMishaps   \* connections lost and tabs reloaded

ASSUME SessionAssumption ==
    /\ Kinds \subseteq {"request", "apiFetch", "apiFetchBlob"}
    /\ {MaxPairs, MaxMishaps} \subseteq Nat

VARIABLES
    pairs,   \* server: per pair its user, and whether its tokens are accepted
    store,   \* localStorage: the stored pair
    app,     \* per tab: the screen AppContent shows
    shown,   \* per tab: the user of AppContent's session state
    flow,    \* per slot: an asynchronous function under way
    mishaps,
    why      \* history: what happened that costs a session

vars == <<pairs, store, app, shown, flow, mishaps, why>>

Idle == [kind |-> "idle", tab |-> "", ph |-> "", user |-> "", snap |-> 0, tok |-> 0, got |-> 0,
         again |-> FALSE, fell |-> FALSE, dead |-> FALSE, runs |-> 0]

Busy(i) == flow[i].kind # "idle"
IsRequest(i) == flow[i].kind \in Kinds
Asking == {"refresh", "checked", "rotated", "refused"}
Refreshing(i) == flow[i].ph \in Asking
Owner(p) == IF p = 0 THEN "" ELSE pairs[p].user
Accepts(p) == p # 0 /\ pairs[p].access

Init ==
    /\ \E u \in Users : \E ok \in BOOLEAN :
          pairs = <<[user |-> u, access |-> ok, refresh |-> TRUE]>>
    /\ store \in {0, 1}
    /\ app = [t \in Tabs |-> "closed"]
    /\ shown = [t \in Tabs |-> ""]
    /\ flow = [i \in Slots |-> Idle]
    /\ mishaps = 0
    /\ why = {}

-----------------------------------------------------------------------------
(* The identity service. *)

\* Auth: a call with an accepted token is executed, any other is refused unexecuted;
\* the token, a short-lived JWT, may have run out by then.  A path the server does not
\* know with the prefix is tried without it.
Serve(i) ==
    LET p == flow[i].snap
    IN  /\ flow[i].kind \in Kinds \cup {"boot", "mfa"}
        /\ flow[i].ph = "sent"
        /\ \/ /\ Accepts(p)
              /\ flow' = [flow EXCEPT ![i].ph = "served", ![i].runs = @ + 1]
              /\ UNCHANGED pairs
           \/ /\ flow' = [flow EXCEPT ![i].ph = "denied"]
              /\ pairs' = IF p = 0 THEN pairs ELSE [pairs EXCEPT ![p].access = FALSE]
           \/ /\ flow[i].kind \in {"apiFetch", "apiFetchBlob"}
              /\ ~ flow[i].fell
              /\ flow' = [flow EXCEPT ![i].ph = "missing"]
              /\ UNCHANGED pairs
        /\ UNCHANGED <<store, app, shown, mishaps, why>>

issueLogin(u) == Append(pairs, [user |-> u, access |-> TRUE, refresh |-> TRUE])

\* Login and VerifyLoginTOTP: a pair, a challenge to type a code, or a refusal.
Login(i) ==
    /\ flow[i].kind = "login"
    /\ \/ /\ flow[i].ph \in {"sent", "totp"}
          /\ Len(pairs) < MaxPairs
          /\ pairs' = issueLogin(flow[i].user)
          /\ flow' = [flow EXCEPT ![i].ph = "granted", ![i].got = Len(pairs')]
       \/ /\ flow[i].ph \in {"sent", "totp"}
          /\ flow' = [flow EXCEPT ![i].ph = "denied"]
          /\ UNCHANGED pairs
       \/ /\ flow[i].ph = "sent"
          /\ flow' = [flow EXCEPT ![i].ph = "challenged"]
          /\ UNCHANGED pairs
    /\ UNCHANGED <<store, app, shown, mishaps, why>>

\* Refresh looks the token up, and only then revokes it and issues another pair:
\* two calls can find the same token live.  It may have run out by then.
RefreshLookup(i) ==
    LET p == flow[i].tok
    IN  /\ flow[i].ph = "refresh"
        /\ \/ /\ pairs[p].refresh
              /\ flow' = [flow EXCEPT ![i].ph = "checked"]
              /\ UNCHANGED <<pairs, why>>
           \/ /\ flow' = [flow EXCEPT ![i].ph = "refused"]
              /\ pairs' = [pairs EXCEPT ![p].refresh = FALSE]
              /\ why' = IF pairs[p].refresh THEN why \cup {"lost"} ELSE why
        /\ UNCHANGED <<store, app, shown, mishaps>>

\* The token is revoked before the pair that replaces it is issued, which may fail.
RefreshRotate(i) ==
    LET p == flow[i].tok
    IN  /\ flow[i].ph = "checked"
        /\ \/ /\ Len(pairs) < MaxPairs
              /\ pairs' = [issueLogin(Owner(p)) EXCEPT ![p].refresh = FALSE]
              /\ flow' = [flow EXCEPT ![i].ph = "rotated", ![i].got = Len(pairs')]
              /\ UNCHANGED why
           \/ /\ pairs' = [pairs EXCEPT ![p].refresh = FALSE]
              /\ flow' = [flow EXCEPT ![i].ph = "refused"]
              /\ why' = why \cup {"lost"}
        /\ UNCHANGED <<store, app, shown, mishaps>>

-----------------------------------------------------------------------------
(* Requests of the pages. *)

Start(kind, t) == [Idle EXCEPT !.kind = kind, !.tab = t, !.ph = "sent", !.snap = store]

\* request: the stored session is read when the call is made.
request(i, kind, t) ==
    /\ ~ Busy(i)
    /\ app[t] = "in"
    /\ flow' = [flow EXCEPT ![i] = Start(kind, t)]
    /\ UNCHANGED <<pairs, store, app, shown, mishaps, why>>

\* The same call without the /api prefix; only apiFetchBlob builds its headers anew.
Fallback(i) ==
    /\ flow[i].ph = "missing"
    /\ ~ flow[i].dead
    /\ flow' = [flow EXCEPT ![i].ph = "sent", ![i].fell = TRUE,
                            ![i].snap = IF flow[i].kind = "apiFetchBlob" THEN store ELSE @]
    /\ UNCHANGED <<pairs, store, app, shown, mishaps, why>>

\* A request is answered.
Answer(i) ==
    /\ IsRequest(i)
    /\ flow[i].ph = "served"
    /\ ~ flow[i].dead
    /\ flow' = [flow EXCEPT ![i] = Idle]
    /\ UNCHANGED <<pairs, store, app, shown, mishaps, why>>

\* Mutation of Denied: the pair that was read when the call was made is refreshed.
DeniedStale(i) ==
    /\ IsRequest(i)
    /\ flow[i].ph = "denied"
    /\ ~ flow[i].dead
    /\ \/ /\ flow[i].again \/ flow[i].snap = 0
          /\ flow' = [flow EXCEPT ![i] = Idle]
          /\ UNCHANGED why
       \/ /\ ~ flow[i].again /\ flow[i].snap # 0
          /\ flow' = [flow EXCEPT ![i].ph = "refresh", ![i].tok = flow[i].snap]
          /\ why' = IF \E j \in Slots \ {i} : Refreshing(j) /\ flow[j].tok = flow[i].snap
                    THEN why \cup {"lost"} ELSE why
    /\ UNCHANGED <<pairs, store, app, shown, mishaps>>

\* requestWithRetry after a 401: the retry of a call, and a call made without a session,
\* just fail; any other refreshes what is stored by now.
Denied(i) ==
    /\ IsRequest(i)
    /\ flow[i].ph = "denied"
    /\ ~ flow[i].dead
    /\ \/ /\ flow[i].again \/ flow[i].snap = 0 \/ store = 0
          /\ flow' = [flow EXCEPT ![i] = Idle]
          /\ UNCHANGED why
       \/ /\ ~ flow[i].again /\ flow[i].snap # 0 /\ store # 0
          /\ flow' = [flow EXCEPT ![i].ph = "refresh", ![i].tok = store]
          /\ why' = IF \E j \in Slots \ {i} : Refreshing(j) /\ flow[j].tok = store
                    THEN why \cup {"lost"} ELSE why
    /\ UNCHANGED <<pairs, store, app, shown, mishaps>>

\* refreshSession succeeds: the new pair is stored, whatever is stored by now, and
\* the call is sent again.
Retry(i) ==
    /\ flow[i].ph = "rotated"
    /\ ~ flow[i].dead
    /\ store' = flow[i].got
    /\ why' = IF store = flow[i].tok THEN why ELSE why \cup {"late"}
    /\ flow' = [flow EXCEPT ![i].ph = "sent", ![i].again = TRUE, ![i].fell = FALSE,
                            ![i].snap = flow[i].got, ![i].tok = 0, ![i].got = 0]
    /\ UNCHANGED <<pairs, app, shown, mishaps>>

\* refreshSession fails: the stored session is cleared, whatever it is by now.
GiveUp(i) ==
    /\ flow[i].ph = "refused"
    /\ ~ flow[i].dead
    /\ store' = 0
    /\ flow' = [flow EXCEPT ![i] = Idle]
    /\ UNCHANGED <<pairs, app, shown, mishaps, why>>

-----------------------------------------------------------------------------
(* Signing in and out, starting a tab, setting up an authenticator. *)

\* bootstrap: with nothing stored the login page is shown at once.  fl are the functions
\* under way.
bootstrap(i, t, fl) ==
    IF store = 0
    THEN app' = [app EXCEPT ![t] = "login"] /\ flow' = fl
    ELSE /\ ~ Busy(i)
         /\ app' = [app EXCEPT ![t] = "loading"]
         /\ flow' = [fl EXCEPT ![i] = Start("boot", t)]

OpenTab(i, t) ==
    /\ app[t] = "closed"
    /\ bootstrap(i, t, flow)
    /\ UNCHANGED <<pairs, store, shown, mishaps, why>>

\* Mutation of Booted: an error of /me leaves the loading page.
BootedIfServed(i) ==
    /\ flow[i].kind = "boot"
    /\ flow[i].ph \in {"served", "denied"}
    /\ ~ flow[i].dead
    /\ LET p == flow[i].snap
           t == flow[i].tab
       IN  IF flow[i].ph = "served"
           THEN /\ store' = p
                /\ shown' = [shown EXCEPT ![t] = Owner(p)]
                /\ app' = [app EXCEPT ![t] = "in"]
           ELSE UNCHANGED <<store, shown, app>>
    /\ flow' = [flow EXCEPT ![i] = Idle]
    /\ UNCHANGED <<pairs, mishaps, why>>

\* The answer of /me: what was read at the start is stored again and shown, or on any
\* error the store is cleared.
Booted(i) ==
    /\ flow[i].kind = "boot"
    /\ flow[i].ph \in {"served", "denied"}
    /\ ~ flow[i].dead
    /\ LET p == IF flow[i].ph = "served" THEN flow[i].snap ELSE 0
           t == flow[i].tab
       IN  /\ store' = p
           /\ shown' = [shown EXCEPT ![t] = Owner(p)]
           /\ app' = [app EXCEPT ![t] = IF p = 0 THEN "login" ELSE "in"]
           /\ why' = why \cup (IF p = 0 THEN {"lost"} ELSE {})
                         \cup (IF p # 0 /\ store # p THEN {"late"} ELSE {})
    /\ flow' = [flow EXCEPT ![i] = Idle]
    /\ UNCHANGED <<pairs, mishaps>>

\* handleLoginSubmit, handleTOTPSubmit: one at a time, the form is disabled meanwhile.
handleLoginSubmit(i, t, u) ==
    /\ ~ Busy(i)
    /\ app[t] = "login"
    /\ \A j \in Slots : ~ (flow[j].kind = "login" /\ flow[j].tab = t)
    /\ flow' = [flow EXCEPT ![i] = [Start("login", t) EXCEPT !.user = u, !.snap = 0]]
    /\ UNCHANGED <<pairs, store, app, shown, mishaps, why>>

handleTOTPSubmit(i) ==
    /\ flow[i].ph = "challenged"
    /\ ~ flow[i].dead
    /\ flow' = [flow EXCEPT ![i].ph = "totp"]
    /\ UNCHANGED <<pairs, store, app, shown, mishaps, why>>

\* A refused login leaves the form.
LoginRefused(i) ==
    /\ flow[i].kind = "login"
    /\ flow[i].ph = "denied"
    /\ ~ flow[i].dead
    /\ flow' = [flow EXCEPT ![i] = Idle]
    /\ UNCHANGED <<pairs, store, app, shown, mishaps, why>>

\* Another tab than t is signed in, or about to be.
Elsewhere(t) ==
    \E o \in Tabs \ {t} :
        app[o] \in {"entering", "in"} \/ \E j \in Slots : flow[j].tab = o /\ flow[j].ph = "pause"

\* toSession stores the pair at once; the page shows it after a pause.
LoggedIn(i) ==
    /\ flow[i].ph = "granted"
    /\ ~ flow[i].dead
    /\ store' = flow[i].got
    /\ flow' = [flow EXCEPT ![i].ph = "pause"]
    /\ why' = IF Elsewhere(flow[i].tab) THEN why \cup {"elsewhere"} ELSE why
    /\ UNCHANGED <<pairs, app, shown, mishaps>>

\* Mutation of handleLogin: the user the page started with is shown.
handleLoginShowsFirst(i) ==
    /\ ~ flow[i].dead
    /\ \/ /\ flow[i].ph = "pause"
          /\ shown' = [shown EXCEPT ![flow[i].tab] = Owner(1)]
          /\ app' = [app EXCEPT ![flow[i].tab] = "entering"]
          /\ flow' = [flow EXCEPT ![i].ph = "welcome"]
       \/ /\ flow[i].ph = "welcome"
          /\ app' = [app EXCEPT ![flow[i].tab] = "in"]
          /\ flow' = [flow EXCEPT ![i] = Idle]
          /\ UNCHANGED shown
    /\ UNCHANGED <<pairs, store, mishaps, why>>

\* handleLogin: the session is shown, behind the loading page for another pause.
handleLogin(i) ==
    /\ ~ flow[i].dead
    /\ \/ /\ flow[i].ph = "pause"
          /\ shown' = [shown EXCEPT ![flow[i].tab] = Owner(flow[i].got)]
          /\ app' = [app EXCEPT ![flow[i].tab] = "entering"]
          /\ flow' = [flow EXCEPT ![i].ph = "welcome"]
       \/ /\ flow[i].ph = "welcome"
          /\ app' = [app EXCEPT ![flow[i].tab] = "in"]
          /\ flow' = [flow EXCEPT ![i] = Idle]
          /\ UNCHANGED shown
    /\ UNCHANGED <<pairs, store, mishaps, why>>

\* Mutation of handleLogout: the page forgets the session, localStorage keeps it.
handleLogoutKeeps(t) ==
    /\ app[t] = "in"
    /\ app' = [app EXCEPT ![t] = "login"]
    /\ shown' = [shown EXCEPT ![t] = ""]
    /\ UNCHANGED <<pairs, store, flow, mishaps, why>>

\* handleLogout: the server is not told.
handleLogout(t) ==
    /\ app[t] = "in"
    /\ store' = 0
    /\ app' = [app EXCEPT ![t] = "login"]
    /\ shown' = [shown EXCEPT ![t] = ""]
    /\ why' = IF Elsewhere(t) THEN why \cup {"lost"} ELSE why
    /\ UNCHANGED <<pairs, flow, mishaps>>

\* confirmMFASetup: two calls with the token read at the start, no refresh, and then
\* what was read at the start is stored again.
confirmMFASetup(i, t) ==
    /\ ~ Busy(i)
    /\ app[t] = "in"
    /\ store # 0
    /\ \A j \in Slots : ~ (flow[j].kind = "mfa" /\ flow[j].tab = t)
    /\ flow' = [flow EXCEPT ![i] = Start("mfa", t)]
    /\ UNCHANGED <<pairs, store, app, shown, mishaps, why>>

MFAConfirmed(i) ==
    /\ flow[i].kind = "mfa"
    /\ ~ flow[i].dead
    /\ \/ /\ flow[i].ph = "denied"
          /\ flow' = [flow EXCEPT ![i] = Idle]
          /\ UNCHANGED <<store, why>>
       \/ /\ flow[i].ph = "served" /\ ~ flow[i].again
          /\ flow' = [flow EXCEPT ![i].ph = "sent", ![i].again = TRUE, ![i].runs = 0]
          /\ UNCHANGED <<store, why>>
       \/ /\ flow[i].ph = "served" /\ flow[i].again
          /\ store' = flow[i].snap
          /\ why' = IF store = flow[i].snap THEN why ELSE why \cup {"late"}
          /\ flow' = [flow EXCEPT ![i] = Idle]
    /\ UNCHANGED <<pairs, app, shown, mishaps>>

-----------------------------------------------------------------------------
(* Faults. *)

\* What is left of a function whose connection or whose tab is gone: a refresh that the
\* server still works on goes on there.
Abandoned(f) == IF f.ph \in {"refresh", "checked"} THEN [f EXCEPT !.dead = TRUE] ELSE Idle

\* Mutation of Lose: a request whose answer is lost is sent again.
LoseAndResend(i) ==
    /\ mishaps < MaxMishaps
    /\ ~ flow[i].dead
    /\ IsRequest(i)
    /\ flow[i].ph \in {"sent", "served", "denied", "missing"}
    /\ mishaps' = mishaps + 1
    /\ flow' = [flow EXCEPT ![i].ph = "sent"]
    /\ why' = why \cup {"lost"}
    /\ UNCHANGED <<pairs, store, app, shown>>

\* The connection is lost before or after the server acted: fetch rejects.  A refresh
\* and a bootstrap clear the store, the other functions just fail.
Lose(i) ==
    /\ mishaps < MaxMishaps
    /\ ~ flow[i].dead
    /\ flow[i].ph \in {"sent", "served", "denied", "missing", "totp", "granted"} \/ Refreshing(i)
    /\ mishaps' = mishaps + 1
    /\ store' = IF Refreshing(i) \/ flow[i].kind = "boot" THEN 0 ELSE store
    /\ app' = IF flow[i].kind = "boot" THEN [app EXCEPT ![flow[i].tab] = "login"] ELSE app
    /\ flow' = [flow EXCEPT ![i] = Abandoned(flow[i])]
    /\ why' = why \cup {"lost"}
    /\ UNCHANGED <<pairs, shown>>

\* The user reloads tab t: its functions are gone, the server's half goes on.
Reload(i, t) ==
    /\ app[t] \notin {"closed", "loading"}
    /\ mishaps < MaxMishaps
    /\ mishaps' = mishaps + 1
    /\ shown' = [shown EXCEPT ![t] = ""]
    /\ bootstrap(i, t, [j \in Slots |-> IF flow[j].tab = t THEN Abandoned(flow[j]) ELSE flow[j]])
    /\ why' = IF \E j \in Slots : flow[j].tab = t /\ Refreshing(j) THEN why \cup {"lost"} ELSE why
    /\ UNCHANGED <<pairs, store>>

\* The server is through with a call nobody waits for.
Discard(i) ==
    /\ flow[i].dead
    /\ flow' = [flow EXCEPT ![i] = Idle]
    /\ UNCHANGED <<pairs, store, app, shown, mishaps, why>>

-----------------------------------------------------------------------------
\* The function in slot i goes on by itself, or its answer arrives.
Step(i) ==
    \/ Serve(i) \/ Login(i) \/ RefreshLookup(i) \/ RefreshRotate(i)
    \/ Fallback(i) \/ Answer(i) \/ Denied(i) \/ Retry(i) \/ GiveUp(i)
    \/ Booted(i) \/ LoginRefused(i) \/ LoggedIn(i) \/ handleLogin(i)
    \/ MFAConfirmed(i) \/ Discard(i)

Next ==
    \/ \E i \in Slots : Step(i)
    \/ \E i \in Slots : Lose(i)
    \/ \E i \in Slots, t \in Tabs, k \in Kinds : request(i, k, t)
    \/ \E i \in Slots, t \in Tabs : OpenTab(i, t)
    \/ \E i \in Slots, t \in Tabs, u \in Users : handleLoginSubmit(i, t, u)
    \/ \E i \in Slots : handleTOTPSubmit(i)
    \/ \E t \in Tabs : handleLogout(t)
    \/ \E i \in Slots, t \in Tabs : confirmMFASetup(i, t)
    \/ \E i \in Slots, t \in Tabs : Reload(i, t)

\* The server and the browser get on with what is under way.
Fairness == \A i \in Slots : WF_vars(Step(i))

Spec == Init /\ [][Next]_vars /\ Fairness
-----------------------------------------------------------------------------
(* Properties. *)

Calm == \A i \in Slots : ~ Busy(i)

\* requestWithRetry and apiFetchWithRetry send a call again, but the server executes
\* it at most once, whatever is lost or refreshed meanwhile.
ExecutedOnce == \A i \in Slots : flow[i].runs <= 1

\* A user who is in has a stored session, and while nothing is under way a stored
\* session can be refreshed, unless something was lost, a token really ran out, another
\* tab signed out, the tab was reloaded while a refresh was under way, two refreshes of
\* one token overlapped, or a function stored what it had read long before:
\* refreshSession reads the pair again, so that a request refused after another one's
\* refresh does not use the revoked token and sign the user out, and stores the pair
\* that replaces it.
StaysSignedIn ==
    \/ why # {}
    \/ /\ (\E t \in Tabs : app[t] = "in") => store # 0
       /\ Calm /\ store # 0 => pairs[store].refresh

\* With every tab on the login page and nothing under way no session is stored, unless
\* an answer was stored that was asked for under an earlier session: handleLogout
\* forgets the tokens.
SignedOut ==
    Calm /\ (\A t \in Tabs : app[t] \in {"login", "closed"}) /\ (\E t \in Tabs : app[t] = "login")
        => store = 0 \/ "late" \in why

\* The session that is stored, and so sent with every request, is of the user that
\* is shown, unless it was replaced from another tab or by a late answer.
OneUser ==
    \A t \in Tabs :
        app[t] = "in" /\ store # 0 /\ Owner(store) # shown[t]
            => why \cap {"late", "elsewhere"} # {}

-----------------------------------------------------------------------------
(* The inductive invariant behind the four properties above. *)

Screens == {"closed", "login", "loading", "entering", "in"}
Phases == Asking \cup {"", "sent", "served", "denied", "missing", "totp", "challenged",
                       "granted", "pause", "welcome"}
Flows == [kind : Kinds \cup {"idle", "boot", "mfa", "login"}, tab : Tabs \cup {""}, ph : Phases,
          user : Users \cup {""}, snap : Nat, tok : Nat, got : Nat,
          again : BOOLEAN, fell : BOOLEAN, dead : BOOLEAN, runs : Nat]

Pair == [user : Users, access : BOOLEAN, refresh : BOOLEAN]

TypeOK ==
    /\ pairs \in Seq(Pair)
    /\ store \in 0..Len(pairs)
    /\ app \in [Tabs -> Screens]
    /\ shown \in [Tabs -> Users \cup {""}]
    /\ flow \in [Slots -> Flows]
    /\ \A i \in Slots : {flow[i].snap, flow[i].tok, flow[i].got} \subseteq 0..Len(pairs)
    /\ mishaps \in Nat
    /\ why \subseteq {"lost", "late", "elsewhere"}

\* The phases each function goes through, and what it holds in them.  A call is counted
\* between its execution and its answer.
Phased(f) ==
    /\ f.kind = "idle" => f.ph = ""
    /\ f.kind # "idle" => f.tab \in Tabs
    /\ f.kind \in Kinds => f.ph \in {"sent", "served", "denied", "missing"} \cup Asking
    /\ f.kind \in {"boot", "mfa"} => f.ph \in {"sent", "served", "denied"}
    /\ f.kind = "login" => /\ f.ph \in {"sent", "totp", "challenged", "granted", "denied", "pause", "welcome"}
                           /\ f.user \in Users
    /\ f.ph \in Asking => f.tok # 0
    /\ f.ph \in {"rotated", "granted", "pause"} => f.got # 0
    /\ f.dead => f.ph \in Asking
    /\ f.runs = IF f.ph = "served" THEN 1 ELSE 0

\* What a tab shows while a function of its start or its login is under way, and that
\* it has one of each at most; a refresh gives the pair to the user it was of.
Screened ==
    /\ \A i \in Slots :
          /\ flow[i].kind = "boot" => app[flow[i].tab] = "loading"
          /\ flow[i].kind = "login" =>
                app[flow[i].tab] = IF flow[i].ph = "welcome" THEN "entering" ELSE "login"
          /\ flow[i].ph = "rotated" => Owner(flow[i].got) = Owner(flow[i].tok)
    /\ \A i, j \in Slots : i # j /\ flow[i].kind = flow[j].kind /\ flow[i].kind \in {"boot", "login"}
                             => flow[i].tab # flow[j].tab

\* While nothing was stored late or from elsewhere, the stored session is of the user
\* that is shown or about to be.
InSync ==
    why \cap {"late", "elsewhere"} = {} /\ store # 0 =>
        /\ \A t \in Tabs : app[t] \in {"entering", "in"} => Owner(store) = shown[t]
        /\ \A i \in Slots : flow[i].ph = "pause" => Owner(store) = Owner(flow[i].got)

\* While nothing was stored late, a session beside a login page belongs to another tab
\* or to a login that is about to be shown.
Claimed ==
    "late" \notin why /\ store # 0 /\ (\E t \in Tabs : app[t] = "login") =>
        \/ \E t \in Tabs : app[t] \in {"loading", "entering", "in"}
        \/ \E i \in Slots : flow[i].ph = "pause"

\* Whoever is in, or about to be, has a stored session.
HasSession ==
    (\E t \in Tabs : app[t] \in {"entering", "in"}) \/ (\E i \in Slots : flow[i].ph = "pause")
        => store # 0

\* The stored session can be refreshed, or a refresh of it is about to replace it.
StoredLives ==
    store # 0 => \/ pairs[store].refresh
                 \/ \E i \in Slots : flow[i].ph = "rotated" /\ flow[i].tok = store

\* No refresh was refused or lost its caller, and a token that is being refreshed is live.
GoesWell(i) ==
    /\ flow[i].ph # "refused" /\ ~ flow[i].dead
    /\ flow[i].ph \in {"refresh", "checked"} => pairs[flow[i].tok].refresh

\* A pair on its way to the store is live and not stored yet.
FreshPair(i) ==
    flow[i].ph \in {"rotated", "granted"} => pairs[flow[i].got].refresh /\ flow[i].got # store

\* Nobody refreshes a pair that is on its way to the store.
Unknown(i, j) ==
    flow[i].ph \in {"rotated", "granted"} /\ flow[j].ph \in Asking => flow[j].tok # flow[i].got

\* Two functions neither wait for the same pair nor refresh the same token.
Apart(i, j) ==
    i # j => /\ {flow[i].ph, flow[j].ph} \subseteq {"rotated", "granted"} => flow[j].got # flow[i].got
             /\ {flow[i].ph, flow[j].ph} \subseteq Asking => flow[j].tok # flow[i].tok

\* While nothing went wrong, a session that is in use is stored and can be renewed.
Renewable ==
    why = {} =>
        /\ HasSession /\ StoredLives
        /\ \A i \in Slots : GoesWell(i) /\ FreshPair(i)
        /\ \A i, j \in Slots : Unknown(i, j) /\ Apart(i, j)

Inv == /\ TypeOK /\ (\A i \in Slots : Phased(flow[i])) /\ Screened
       /\ InSync /\ Claimed /\ Renewable
-----------------------------------------------------------------------------
\* The loading page goes away, a login that was accepted lets the user in, and every
\* request ends, whatever answers are lost.
Settles ==
    /\ \A t \in Tabs : app[t] \in {"loading", "entering"} ~> app[t] \notin {"loading", "entering"}
    /\ \A i \in Slots : Busy(i) /\ flow[i].kind # "login" ~> ~ Busy(i)
=============================================================================
