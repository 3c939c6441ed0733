# EINFRA: a TLA+ model of the console and the agent control plane

EINFRA manages servers, Docker hosts and Kubernetes clusters from a web console
(TypeScript, `src/app`). A control plane (Go, `src/api`) keeps the state in
PostgreSQL and reaches the servers through agents, each of which keeps a
stream to it, executes commands and reports back. Two things in it are
concurrent and cannot be tested by hand: the path of a command and the
connection it travels on, and what a user sees of all this in a browser where
requests overlap, answers come late or not at all, and people click, leave,
reload and open a second tab meanwhile. The modules here model both.

In section 1 and wherever Go code is meant, paths are relative to
`src/api/internal/`; `agent/` stands for `modules/agent/`, `server/` for
`modules/server/` and `runtime/` for `platform/agentruntime/`. Paths of
`.ts` and `.tsx` files are relative to `src/app/src/`, or to `features/` in it.

## 1. Inventory

### Control plane and agent

| Component | State | Operations | Interacts with |
|---|---|---|---|
| Command dispatcher (`agent/application/command_usecase.go`) | rows of `agent_commands`, unique idempotency key | Dispatch, DispatchOperation, Cancel, HandleAgentMessage | Hub (send), command repository, projector |
| Hub (`agent/application/agent_registry.go`, `grpc_agent.go`) | `agents`, `grpcAgents`, `clients`; per gRPC connection a send queue and a send loop | Register/Unregister of both transports and of clients, SendToAgent, BroadcastToClients | every handler |
| gRPC stream server (`agent/infrastructure/grpcserver/grpc_server.go`) | the handler's own position | ConnectStream, handleEvent, syncServerSnapshot | Hub, tokens, `agent_infos`, `servers`, commands |
| Agent WebSocket handler (`agent/interfaces/agent_ws_handler.go`) | the handler's own position | HandleAgentWS, promoteServerOnline, handleHeartbeat | the same |
| Client WebSocket handler (`agent/interfaces/client_ws_handler.go`) | registration of a client | HandleClientWS | Hub |
| Server registry (`server/application/management/service.go`) | rows of `servers` (status, onboarding) | RegisterServer, UpdateServer | both agent handlers write the same row |
| Agent tokens (`agent/application/token_service.go`) | row of `agent_tokens` | Issue, Validate | both agent handlers |
| Agent gRPC client (`runtime/grpcclient/grpc_client.go`) | target index, attempt, `outCh`, running tasks | Connect, writeLoop, SendEvent, executeTask, Close | the stream server |
| Agent runtime, heartbeat, executor (`runtime/app`, `runtime/heartbeat`, `runtime/executor`) | lifetime of the process | Run, ticker, ExecuteCommand | the client's `outCh` |
| Agent updater (`runtime/updater/updater.go`) | the binary on disk, the list of targets | check, installUpdate, restart | the client's configuration |
| Projector and resource managers (`server/application/management`) | rows of services, backups, firewall rules, cron jobs | actions and refreshes, Project | dispatcher |
| Control policy, HTTP handlers, collectors, configuration | see `PROJECT.json` | | |

Hard behaviours: two requests race on one idempotency key; a result overtakes
the write of RUNNING; a bounded queue without back-pressure on either side; the
handler of a broken connection ends after the agent has come back; several
writers write back stale copies of one row; buffers are shared with a queue;
channels are closed under their senders; token rotation takes two statements;
one error code means both "go away" and "try again". `PROJECT.json` lists the
hazards line by line. What makes each part correct:

* dispatcher: a command of one key runs at most once, retries agree on it, a
  refused command never runs, and what is recorded is what happened;
* connections: no dead entry in the Hub, no `online` flag or client that
  outlives the agent, and flags that come right again after a race;
* tasks: output numbered once, in order per stream, the result last, and a dead
  link never blocks a task;
* link: bounded backoff, persistence, failover, and a token that is never lost.

### Console

| Component | State | Operations | Interacts with |
|---|---|---|---|
| Session (`authentication/api.ts`, `auth-session.ts`, `core/api-client.ts`, `App.tsx`) | a token pair in localStorage, shared by all tabs; per tab what is shown | both request functions with refresh and retry, bootstrap, sign-in, code, sign-out, authenticator set-up | IAM (`modules/iam/service.go`): Login, Refresh, the token check |
| Query cache and hooks (`*/api/use*.ts`, `main.tsx`) | per query key the last answer and a fetch under way | fetch, refetch on focus or interval, invalidate after a mutation | every page |
| Pages (`docker`, `kubernetes`, `servers`, `users_teams`, `settings`, `notifications`, `monitoring`, `dashboard`, ...) | open dialogs, forms, busy flags, lists loaded into component state | one handler per control | hooks, API, the router |
| Build operations (`docker/pages/BuildArtifactsPage.tsx`; `server/interfaces/httpapi/environment_runtime_handler.go`) | operations in the API process, their ids in sessionStorage, one streaming request each | start, stream, reconnect, cancel | API process, browser reloads |
| Onboarding wizard (`servers/pages/ServerOnboardingPage.tsx`) | form, step, submission of up to three requests, the poll for the agent | edit, next, previous, submit | server registry, tokens, the new agent |
| Docker terminal pane (`docker/components/DockerTerminalWorkspaceModal.tsx`) | socket, two timers, command mode, a line editor with history and completion | keys, socket events, answers of exec requests | exec endpoint |

Hard behaviours: an answer arrives for a choice, a dialog or a page that is no
longer there; two answers arrive in the other order; a call is sent again while
it is under way; a list is refreshed before the change it should show; a form is
filled again under the user's hands; several tabs read and write one stored
session around their requests; a rotation revokes a token another request is
about to use; operations outlive the page, the browser or the API process;
timers race the events they wait for. What makes each part correct:

* session: a user who is in stays in, as themselves, with a session that can be
  refreshed; signing out forgets it; a repeated request is executed once;
* pages: at rest every view shows what the page's own calls changed, for the
  choice made last; a call is not sent twice; an answer touches only the dialog
  it belongs to, leaves edits alone and does not move a user who went elsewhere;
* build operations: a busy flag falls when nothing is streamed; a running
  operation can be found again;
* wizard: what is submitted can be used, once, and the agent is announced;
* terminal: a shell or a prompt appears, the badge and the flag tell the truth, the
  editor never leaves its line.

## 2. Modules and how they correspond to the code

| Module | Role |
|---|---|
| `CommandDispatch` | dispatcher, command rows, send queue, agent, result handlers |
| `IdempotentExecution` | abstract promise of the command pipeline per key |
| `AgentConnections` | Hub maps, connection handlers, `agent_infos`, `servers`, clients |
| `AgentTask` | executeTask, its readers, `outCh`, sessions, shutdown, log rows |
| `AgentLink` | Connect loop, backoff, failover, token validation and rotation |
| `ConsoleSession` | stored session, requests with refresh and retry, tabs, IAM's token checks |
| `PageTerms` | the vocabulary in which pages are described: views, mutations, controls |
| `DockerHooks`, `KubernetesHooks`, `ServerHooks` | the query and mutation hooks: keys, resources, invalidations |
| `DockerPages`, `KubernetesPages`, `ServerPages`, `AdminPages` | 76 pages, each as its views and controls |
| `ConsolePage` | any page in a browser: fetches, calls, faults, leaving |
| `BuildOperations` | operations of the Build & Artifacts page and the API's registry |
| `ServerOnboarding` | the wizard, RegisterServer's lookup and insert, the agent's arrival |
| `TerminalPane` | one pane of the Docker terminal |
| `*Proofs` | theorems about the module they extend; `ConsoleComponentsProofs`: about `ServerOnboarding` and `BuildOperations` |
| `MC*` | instances for TLC |

The modules meet at the Hub and the agent's queue. `CommandDispatch` sees a
connection only as "a transport on which the agent is registered" (`link`), and
lets the handlers register, replace and unregister it at any time, also wrongly,
which is what `AgentConnections` shows they do. `CommandDispatch` sees a task as
running, ended and reported, with output that competes for `outCh`; `AgentTask`
opens that up.

### CommandDispatch

A call of `dispatch` is a thread (`pc`), split at each call of the database and
of the Hub: `Dispatch` (online check and key), `Create` (INSERT, unique index),
`FindByIdempotencyKey`, `SendToAgent`, `MarkFailed`, `MarkRunning`. Since the id
of a command is a fresh UUID, a request and the command it may create share an
identifier. `SendLoop`/`SendLoopDrop` are `GRPCAgentConn.sendLoop`; `TaskOutput`
and `Finish` the agent; `HandleEvent`, `LoseEvent`, `HandleAgentMessage` the two
result paths; `Register`/`Unregister` the handlers; `AgentCrash` the agent's
death. The constant `Faults` selects the fault classes: `db` (a statement
fails), `stream` (a stream breaks, and its handler may notice late), `agent`.
Commands over gRPC are control operations, skills and shell tasks alike: they
start, may emit output and end with an exit code. The exit code is zero or not.
An UpdateStatus whose error the code ignores is a disjunct that changes nothing.
Over the WebSocket the agent chooses the type of its message, so
`HandleAgentMessage` records either status with the code; the defaults it has for a
payload without `exit_code` (0 and 1, 249-264) are left out, since both payload types
always carry one (`agent/domain/types.go:185-197`). An INSERT that is committed although
its answer is lost is not among the faults of `Create`.

### AgentConnections

One server: every map and row is keyed by the server and no operation touches
two keys. A handler (`hpc`) is split at each access to the Hub and the
database. `snap` and `edit` are the local copies of the `servers` row that are
later written back whole; GORM's `Updates` writes every non-zero field. The
onboarding statuses `pending` and `ready` are treated alike by the code and
are one value here. Database writes are assumed to succeed in this module.

### AgentTask

One task, its two readers, and the sessions of `connectAndServe`, each with a
write loop, over the one `outCh`. A queued chunk is a slice of its reader's
buffer, so `Marshal` looks at the buffer when the write loop takes the event. A
chunk is its number in its stream, and its data the chunk from which the first
byte comes. `proc` follows `Close` (the channel is closed), a panic of a later
send, and the exit.

### AgentLink

`pc` follows one round of `Connect`: next target, dial, open, serve, fail, sleep.
`doubled` is the loop of `backoff` as a recursive function and `backoff(n)` the set
of delays with jitter. `attempt` saturates at `MaxAttempt`, from where the
delay no longer grows (`LinkAssumption` demands that). Rotations are the calls
of `Issue`, each with its own token, as a delete and an upsert. `misled` is a
history variable: a failed lookup has refused the agent.

### The pages: PageTerms, the hooks, the pages, ConsolePage

A page's behaviour in time is the same for all pages; what differs is which
views it loads, which controls it shows when, and what each handler awaits
and does afterwards. So a page is a value: a record of views and controls built from
the words of `PageTerms`, translated from its source file control by control, and
`ConsolePage` is the state machine that runs whichever page `Init` picks. The words
are those of the code: `Query`, `Local` (a load into component state), `Flees` (its failure navigates away), `Guarded` (its
effect drops older answers), `Polled`, `Live` (a socket), `Fills` (an effect copies the
answer into a form); `Mutation`, `Mutate` and `MutateAsync` (callbacks that die with
the page, and those that do not), `Flagged`, `Merges` and `Patches` (a handler
that puts its answer into the list as it is, or as it was when the handler was
called); `Open`, `Close`, `Run`, `Edits`, `Pick`, `Reload`, `Go`.

`ConsolePage` keeps the state a browser keeps: `open` (dialogs, panels and forms with
edits), `flags`, per view what is shown and the fetches under way, and per slot
a call. An answer is abstracted to what it lacks: the server's `Apply` of a write
adds the written resources to what every view, and every answer on its way, is
missing. `Click` is a control's whole handler up to its first await, `NextCall`,
`Succeed` and `Fail` what follows; `Land` is the later execution of a command the
API only accepted. `Receive` and `FetchFails` end a fetch, `Refetch` is the interval
or the focus, `Leave` the user's departure. What is left behind goes on: calls in `call`, and
in `stray` the loads whose failure navigates; `FetchFlees` is such a failure while the user is
on the page, `StrayFails` one after they left.

What the pages are known to do wrong is a parameter: `Gaps`, `Doubles`, `Closers`,
`Yankers`, `Wipers`, `Racers` and `Frozen` name the page and the control, view or load, and
the properties say that nothing else does it. `MCConsolePages` holds the lists; each
entry is necessary, so they are the exact extent of each behaviour in the code, and a
page that newly did one of these things would be reported. TLC finds a violation
without the entry under the run's bounds; for the fourteen of `SharedLocks` it takes three
sends in three slots (section 3).

The second half of the module states a rule for each of its six properties: `OnceRule`,
`AwayRule`, `CloseRule`, `EditsRule`, `ChoiceRule`, `FreshRule`. A rule speaks
of the pages' descriptions alone (`FlagLocks`: what lowers the flag of a control is
disabled by that flag; `KeepsOut`: the control is out of reach while the call is under
way; `Tells`: a successful call invalidates the query of the view it changed, loads or
answers it, or leaves the page; `Alone`: a view has one fetch under way at a time; ...) and
is what keeps the page right with any number of calls and fetches. It is a conjunct of the
property it belongs to, so the run evaluates it on all 76 pages, and it is the hypothesis
of the theorem (section 4).

### ConsoleSession

`pairs` are the token pairs IAM issued and whether their halves are still good,
`store` is localStorage, `app` and `shown` what each tab displays, and `flow` the
asynchronous functions under way, each with what it read before its last await
(`snap`, `tok`) and what it was given (`got`). `request`, `Fallback`, `Denied`, `Retry`
and `GiveUp` are the two request functions; `bootstrap` and `Booted` the start of a tab;
`handleLoginSubmit` to `handleLogin` signing in; `RefreshLookup` and `RefreshRotate` the
two halves of IAM's Refresh, which is not one transaction. `why` is a history
variable: the causes that excuse a lost or a foreign session.

### BuildOperations

`ops` are the API's operations, `stored` the sessionStorage record, `stream` the
streaming requests of the page (`again` for a reconnection, `ref` if its kind's
AbortController still belongs to it), `running` the three flags. `BuildInit` includes what
an earlier visit may have left: an operation that runs, its record, and its stream
unless the browser was reloaded.

### ServerOnboarding

`form` keeps of each field what validation and payload tell apart; `submit` is a
submission as the page sees it, with the record, the token and the script still to come;
`request` is the backend's side of it: `LookUp` (GetByIPAddress), `CreateServer` (the insert),
each a step of its own that may fail, without anything that ties them together. A request
the page gives up (`SubmitFails`, or `AddAnother`, which reloads) ends with its connection
or goes on (`Abandoned`). `loose` and `blind` are history variables: the addresses of
requests that went on, and those a failed lookup took for free. `servers` and
`up` are the registry and the agents that connected; `polls`, `health` and `announced`
the wait for the agent. `late` bounds the edits made while or after something
was submitted. Local addresses, which may be registered any number of times, are not among
`Addresses`, and there is one wizard: two users who race for an address are not modelled.

### TerminalPane

`ws`, `badge` and the timers are the socket's side; `buf`, `cur`, `hist`, `idx` and `saved`
the line editor; `cmd`, `tab` and `probe` the exec requests, each by the shell that
`execShell` is trying. A character is a letter or a space, which is all that word
deletion, trimming and completion distinguish.

## 3. Runs

| Run | Instance | Shows |
|---|---|---|
| `dispatch_safety` | 2 requests, 1 server, 1 key (or a fresh one per request), queues of 1 and 2, every fault | at most one execution per key, retries agree, rejected commands never run, recorded results are true and stable, refinement of `IdempotentExecution` |
| `dispatch_liveness` | the same, no faults, `outCh` of 1 | a command handed over has its exit code recorded, unless the full `outCh` dropped the result |
| `conn_safety` | 2 WebSocket and 2 gRPC connections, 1 client | no ghosts in the Hub, `online` never outlives the last handler, clients hear of the end |
| `conn_liveness` | one connection of each kind, user edits | reports set the flags right again |
| `task_output` | 2+1 chunks, `outCh` of 2, 2 sessions | numbers are unique, streams stay in order, the result is last, tasks end whatever the link does |
| `link_reconnect` | 2 targets, 1 reachable, 2 rotations, failing queries | backoff in bounds, persistence, tokens kept, failover |
| `console_pages` | each of 76 pages, 1 view followed at a time, 2 calls, 2 fetches, 1 fault; 2.5 million states | `SettledFresh`, `RightChoice`, `SentOnce`, `ClosesOwn`, `StaysAway`, `EditsKept` up to the exact lists of exceptions |
| `session_safety` | 2 tabs, 2 users, 2 functions under way, no lost answers; 5.4 million states | `StaysSignedIn` (in, and with a pair that can be refreshed), `SignedOut`, `OneUser` |
| `session_liveness` | 1 tab, 1 user, the three request functions, 1 lost answer or reload; 0.5 million states | `ExecutedOnce`, `Settles` |
| `build_operations` | 2 kinds, 2 environments, 2 streams, 2 operations, 1 cancellation, 1 disconnection or restart; 0.8 million states | `Remembered`, `FlagFalls` |
| `onboarding` | 1 address, 2 submissions under way, 1 fault, every path through the steps; 1.5 million states | `PayloadFits`, `OneRecord`, `AnnouncedTrue`, `AgentNoticed` |
| `terminal` | 5 keys, lines of 3, a history of 2, 2 shells, 2 errors; 0.8 million states | `TypeOK` (cursor and history index in range), `IndicatorsTrue`, `DirKept`, `Responds` |

Bounds. Two requests are what a race on a key needs (a third repeats one of
them, and the theorems hold for any number). `SendCap` 1 and `OutCap` 1 or 2 make
both queues full. Two connections of each kind give every overlap of an old
and a new handler, within and across transports; a client adds the order
of its answer and the broadcasts. Two chunks on one stream are needed to
overwrite a buffer and one on the other to race; two sessions give a
reconnection with the old write loop still there. `BackoffInitial` 5 and
`BackoffMax` 18 make the doubling overshoot the maximum (5, 10, 18) and the
jitter non-empty; `MaxAttempt` 4 goes one round beyond. `Symmetry` permutes
requests or connections of one kind in the two large safety runs, which check
no liveness.

Console bounds. Two calls (`Slots`, `MaxSends`) are what overlapping needs: the same
control twice, or one call's answer among another's steps; `Perms` exchanges the
slots, which are told apart by nothing else. Two are not always enough: where a
flag is shared by controls that it does not all disable, a second call takes the first
one's flag down and only a third is the repetition (`SharedLocks` of `MCConsolePages`).
The attempt to prove `SentOnce` showed it, which is why the properties state their rule
as well: with it nothing depends on the number of calls. `MaxFlights` 2 lets an older fetch
answer after a newer one. `MaxViews` 1: views meet only in the guards of controls and
each is followed in turn, the others count as loaded, which only enables more
controls. In `session_safety` two functions under way are one that is overtaken and
one that overtakes; faults have a run of their own because they excuse (`why`)
nearly everything the safety run is about. Two streams over two environments and
kinds give every overlap of an operation with another's end; `BuildInit` supplies the
visit before. `MaxLate` 1 lets one field change under a submission; one address is enough, since records
of different ones do not meet. Five keys reach
every line of three characters with the cursor anywhere and a history that is full;
`Shells` 2 stands for the six of the code: one that fails and one that is last.

Deadlock is not checked where the system may come to rest: requests, connections,
rotations and chunks are finite supplies there. `dispatch_safety` checks it: an
agent can always connect again.

Fairness.

* `CommandDispatch`: goroutines are scheduled; a handler that has started
  runs on, both loops drain their queues, and each process ends because
  executeTask gives it a timeout. No request has to come, no agent to connect.
* `AgentConnections`: handlers run on; the agent's heartbeat ticks for as long as
  its stream lasts. No stream has to end.
* `AgentTask`: the goroutines of the task run and the command ends. Nothing is
  assumed of the link or the control plane. Not covered: `Wait` returning late
  because a background child of the shell holds the output pipe.
* `ConsoleSession`: what is under way goes on: the server answers, the browser runs
  callbacks. Users owe nothing, and a lost answer is a failed `fetch`.
* `BuildOperations`: operations end and what the API sends arrives; no cancellation
  has to help.
* `ServerOnboarding`: requests are answered and the interval fires; the agent need
  not come.
* `TerminalPane`: timers fire and the two questions at the start of command mode are
  answered; a command may run for ever, the shell may print nothing.
* `AgentLink`: the loop runs (weak); a reachable target that is tried again and
  again is eventually reached and answers (strong, since failures interrupt it).

Each property of a passing run is paired with a mutation of the code, an operator
commented "Mutation of ..." beside the definition it replaces, under which TLC
finds that property violated. A mutation of a page may break the rule in the property and
then shows in the initial state already.

### What the code does that a reader would not expect

Met while modelling; the models do what the code does, and the properties name it as
an exception where it would violate them. Such a property does not detect the case it
excuses (`misled`, `why`, `raced`, `loose`, `blind`, the lists of pages, `told` in
`ViewAtRest`, a second server in `AnnouncedTrue`, a dropped reconnection in `Remembered`): it shows that
nothing else has the effect.

Control plane and agent:

* dispatch writes RUNNING after the send without looking at the row: a result
  recorded in between stays, but the row ends RUNNING with an exit code
  (`command_usecase.go:201`).
* Cancel answers "agent for server ... is not connected" for an agent connected over
  gRPC: it asks the WebSocket map only (`command_usecase.go:212`).
* The deferred UnregisterGRPCAgent removes whatever connection is the server's entry,
  also that of a newer stream, so a connected agent is unknown to the Hub
  (`grpc_server.go:134`), against the comment on IsGRPCOnline (`grpc_agent.go:248`).
* promoteServerOnline sets the status online and then writes its older copy of the row
  over it (`agent_ws_handler.go:214`), against its comment "Always bring the status to
  online" (`agent_ws_handler.go:197`).
* A reader fills its buffer again while the slice it queued is unsent, so what is
  stored under a chunk's number can be the bytes read later (`grpc_client.go:560`).
* One failed lookup of a valid token is answered Unauthenticated, and the agent stops
  for good (`grpc_client.go:82`), where the guide says it "reconnects until shutdown is
  requested" (`docs/AGENT_RUNTIME_SETUP.md:63`).
* `Dispatch` promises a command "in RUNNING state"; a retry returns the old
  command in the status it has (`command_usecase.go:150`).
* `RegisterGRPCAgent` says it evicts the WebSocket entry and does not
  (`grpc_agent.go:218`); an older gRPC entry is replaced without `Close`, so its
  send loop stays.
* A client that connects while the agent is on gRPC is told it is offline
  (`client_ws_handler.go:56` asks the WebSocket map only). The client is registered before
  its answer is looked up and sent, so AGENT_OFFLINE can overtake an older "online", which
  the client then keeps.
* A chunk is numbered under a lock and queued outside it, so stdout and stderr
  can arrive against their numbers (`grpc_client.go:541`); `StreamOrder`, a part of
  `OutputInOrder`, is the order that does hold.
* `Close` closes `outCh` under running tasks; a later send panics
  (`grpc_client.go:234`).

Session:

* Start-up calls `/me` without a refresh, and any error clears the store: a session
  whose access token ran out but could be refreshed is dropped (`App.tsx:42-54`).
* Two requests refused together both refresh; the second uses the token the first has
  revoked, is refused and clears the fresh session (`authentication/api.ts:125-139`).
* A sign-out, or a sign-in as somebody else, while a refresh is under way is undone by
  its answer; bootstrap and the authenticator set-up store the pair they read before.
* No tab is told when another one, or a failed refresh, clears the store.
* IAM's Refresh revokes before it issues, in separate statements.

Pages (the lists in `MCConsolePages` are complete for the behaviours they name):

* `ContainerDetailPage` and `VolumeDetailPage` invalidate on the QueryClient that
  `core/api-client.ts:5` makes, not on the one `main.tsx:9` provides.
* Hooks that change more than they refresh: useScaleStackService, useStackAction,
  useDeployStack, useSaveContainerFile, useSaveVolumeFile, useRestartDeployment (only
  the `default` namespace), useExecuteCronJob, useRestoreBackup; useApplyFirewall's
  onSuccess is empty below a comment that it keeps "firewall views fresh by default"
  (`servers/api/useServerHooks.ts:348-350`). Lists after accepted commands are fetched
  before the agent has executed them.
* Users, roles and teams: two overlapping changes lose one on screen; a load begun
  while a new record is entered discards it; an update's answer aims the form, with
  another record's values, at the saved one.
* The cross of ConfirmActionDialog works while its call is pending; several
  confirmations are given `pending={false}`, and the dialogs of volumes and networks do
  not wait.
* Saving one section of the general settings reloads and discards the edits of the
  others; one variable holds the busy flag of all sections.
* A lock that another call takes away: `isPending` is that of a hook's latest call, which
  may come from a control it does not disable (`NetworkDetailPage`, `StacksPage`,
  `ServerServices`); where one flag serves several controls, the end of the second call
  unlocks the first one's control. A third click then repeats a change that is still under
  way (`SharedLocks`).
* `EdgeComputeSettingsPage` shows its fields enabled while it loads, and the answer replaces
  what was typed (56, 140-196). `UserProfilePage` loads again after every change of theme, also
  one its own load makes, because `setTheme` is a new function then (141,
  `core/ThemeContext.tsx:47`), and fills its three forms over edits.
* `ServerCronEditorPage` goes to the list of jobs when its load fails, also when the user has
  left it (58).
* `EdgeComputeSettingsPage` can be saved before it has loaded, and `UserProfilePage`
  after a failed load it did not report: both send defaults.
* `BuildArtifactsPage`: success clears a file chosen meanwhile, a rebuild overwrites the
  build form, the poll of the history clears the tag override. `ImagesPage` clears the
  name to pull before the answer.
* Live Kubernetes lists keep the namespace before when a socket fails
  (`useKubernetesHooks.ts:384-431`); the answer of an exec is shown for whichever pod is
  selected by then.
* `ServerFirewall`'s order and default policies, `ServerBackup`'s destinations and schedule
  and the limits of a single container in `DeployContainerModal` (862-896) are never
  sent; the Refresh button of `ServersPage` has no handler. `ServerServices` confirms a
  restart of nginx alone but not in bulk.
* `CustomTemplatesPage` reads, changes and writes one localStorage record, so two tabs
  lose each other's templates.

Build operations: a cancellation that comes before contextWithCancel has run is
acknowledged and lost (`environment_runtime_handler.go:1406-1412`); its answer aborts the
page's streams of all three kinds; it is sent for the oldest stored operation of
the kind; the flags are shared by all environments.

Wizard: `RegisterServer` looks the address up and then inserts (`service.go:60-86`), no
constraint keeps addresses unique (migration 037 dropped it) and a failed lookup counts as a
free address, so a request that goes on after the page gave it up and its repetition, or one
failed lookup, register a server twice. After a failed token or script request the same address is
refused as already registered, so the user cannot go on; what was known of one agent is not reset for the
next server; Next is not disabled while the script is fetched.

Terminal: a socket that opens between the 4 s and the 8 s timer and then prints nothing
is waited for for ever (821-831, 728-732); `execShell` (69-90) repeats a command in up to
six shells after any error, and the API answers 502 for a non-zero exit, so `exit 1` or
a lost answer executes it again; the end of a command or of a completion replaces what
was typed meanwhile; a command entered while one runs is remembered and dropped;
"Ctrl+C cancel" cancels nothing; a tab closed while connecting leaves its socket.

## 4. Theorems

All are about the same definitions TLC checks, for every value of the constants
that satisfies the module's assumption.

* `CommandDispatchProofs`, from `ConstAssumption` (keys and ids differ, queues
  hold at least one, `Nil` is none of the values). `TypeCorrect` is inductive by
  itself. `AtMostOncePerKey` and the rest are not: that a command does not run
  twice depends on where it is. `Inv` follows a command: `RowsInv` (one row
  per key, and which calls have a row), `HandOverInv` (only a call that has sent
  its command has it queued or run; a queued command is queued once and has not
  run), `TaskInv` (an execution has a code exactly when it has ended), `OutInv` (a
  queued result is unique, true and not yet recorded), `ExitInv` (what a row says
  is what happened), `RetInv`. `InvStep` proves it action by action;
  `Invariance`, `AtMostOnce`, `RetriesReturnOneCommand`, `RejectedIsNeverRun`,
  `ResultIsTruthful` and the action property `ResultIsStable` follow.
* `AgentConnectionsProofs`, from `ConnAssumption`: `ConnTypeCorrect` (a handler
  about to write a copy back holds one), `ConnInvariance`, `HubIsSound`,
  `OnlineIsBacked`, `ClientsHearTheEnd`. `Inv` adds to `HubSound` and
  `OnlineHasAgent` that only accepted connections are closed, and that a client
  who sees "online" without having been answered so heard it from a handler that
  has yet to say goodbye.
* `PipelineImplements`, in the same module as `AtMostOnce`: the refinement of
  `IdempotentExecution`, step by step, under `TypeOK /\ Inv`. A step changes the abstract
  state of at most one command, and that of a key is the state of the one command
  with a row under it; `AbstractStep` has a step per action, which is an action of
  the abstract specification or, for those that only move a command, a stutter.
* `AgentTaskProofs`: `TaskInvariance`, `OutputStaysInOrder`, `ResultComesLast`. Numbers
  are drawn under a lock and queued outside it, so that order in the queue alone is
  not inductive. `Inv` has `Issued`, `OnePlace` (a number is with a reader, in the queue, on
  one wire or stored, and in one of these only), `InOrder` (what has left comes before what
  the reader still holds, and a wire before the queue) and `ResultAlone`.
* `AgentLinkProofs`, from `LinkAssumption`: `LinkInvariance`, `AgentPersists`,
  `RotationKeepsToken`, `BackoffIsExponential`. `Inv` adds that a foreign or missing row
  is the work of a rotation, that a rejection has a cause (`Explained`), and which
  retry a sleep belongs to (`Paced`). The last theorem is about what a loop computes.
  Recursion and induction on the natural numbers are derived from least elements: a set
  of naturals has a least one (`LeastNat`, from the library's `WFMin`), so a recursion that
  begins can be carried on, `doubled` and `power` satisfy their equations, and a retry
  whose delay were not min(initial * 2^n, maximum) would have a predecessor
  that is not either.
* `ConsolePageProofs`, from `PagesAssumption` (a page has the fields of a page), for
  every set of pages, slots, sends, fetches, faults and followed views. What a step can do
  to the calls (`Moved`), to one view (`Stepped`) and to the open dialogs (`Spared`) is
  shown once. Then, each from the rule of its property: `CallSentOnce`,
  `LeftIsLeft`, `DialogsAreOwn`, `TypingSurvives`, `LastChoiceShown`, `RestIsFresh`. The
  invariants beneath them hold without a rule: `CallsOK` and `ViewsOK` (types), `StrayOK` (what
  goes on after the user left is a load that flees), `Locked` (a flag or `isPending` that
  guards a control is up, and is nobody else's, while the call is under way), `FormsOK` (the
  only load of a view ends before the form it fills has edits), `ChoiceOK` (a keyed or
  guarded view shows an earlier choice only while it is being replaced or its load
  failed); with `CloseRule` also `OpenOK` (what an answer will shut is what its call was
  sent from). `RestIsFresh` is the longest: a view that lacks an effect is not wrong while
  something will still tell it, so what is kept by every step is `FreshOK`: the newest
  fetch of a view, or what it shows when none is under way, lacks only what calls still
  under way have changed (`Owed`) unless one of the causes the property names is there
  (`Excused`). It is inductive with `HistoryOK` (who has changed what, and who failed),
  `FlightsOK` (where a fetch can be under way at all) and `CleanOK` (a view no call of the
  page touches), and under `FreshRule` only (`FreshnessHolds`): the step that matters is
  the end of a call, which must tell every view what was owed until then. At rest nothing
  is owed. A hypothesis says nothing if no page satisfies it: TLC evaluates each rule to
  TRUE on the 76 pages with the lists of `MCConsolePages`.
* `ConsoleSessionProofs`: `SessionInvariance`, `CallExecutedOnce`, `StoredIsShown`,
  `SignedOutForGood`, `SessionIsKept`. `Inv` says per function which phases it
  goes through and what it holds in them (`Phased`), what its tab shows (`Screened`), and,
  while `why` has no excuse, that the store and the screens agree (`InSync`, `Claimed`) and
  that the stored pair is live or about to be replaced by one that is, which nobody else
  refreshes (`Renewable`).
* `ConsoleComponentsProofs`, about two modules: it extends `ServerOnboarding` and
  `BuildOperations` (hence the names `BuildSpec`, `BuildInv`). Of the wizard:
  `OnboardingInvariance`, `PayloadAlwaysFits`, `AddressTwiceOnlyIfLoose`,
  `AnnouncementIsTrue`. `Inv` adds that the
  effect keeps mode and credential together after every edit (`FormFits`), that the
  server on screen was added, that a submission waiting for its record has its request on
  the backend and is the only one that waits (`RequestsFit`), and that a request nobody waits
  for is in `loose` while an address found free and registered since is in `loose` or `blind`
  (`LookupsHold`): the second record of an address is created by such a request, or beside one.
  Of the Build & Artifacts page: `BuildsInvariance` and the action property
  `RecordsAreKept` (`Remembered`). `BuildInv` says that a record is of an operation the
  API has created and is stored once, and which streams have an operation. A step
  that removes a record is the end of a stream, whose only victim is its own operation
  (`ForgetKeepsOthers`): after a result that operation is done, and without one only a
  reconnect clears it. The prover has no definition of `SelectSeq`, so `Forget` takes the
  record out with `RemoveAt`; that no other record of the operation stays behind is the
  invariant `StoredOnce`.
* `TerminalPaneProofs`, from `BoundsAssumption`: `PaneInvariance`, `EditorInRange`,
  `PaneIndicatesTruth`, `DirectoryIsKept`. `Inv` adds which question is under way when
  (`Probing`), and that until it is answered the pane is where it started and every shell
  tried in vain was an error (`NotTold`).

The inductive invariants and the type invariants were checked with TLC before they were
proved; they are not repeated as invariants of the runs, which check what follows from them.

Only model-checked:

* everything live (eight modules have such a property): fairness and ENABLED are outside
  the prover's reach;
* what a recursive operator or `SelectSeq` computes for every input (induction over data):
  where a proof needs such a fact the model uses a definition without recursion, or the
  proof goes by a least counterexample (`AgentLinkProofs`, `TerminalPaneProofs`).

Every safety invariant and every action property of the runs is a theorem.

## 5. Not modelled

* Agent updater, projector and resource managers, control policy: planned (below).
* Control executor and collectors call operating-system tools; their outcome is the exit
  code that is modelled. Configuration, install scripts, generated gRPC code, the
  in-memory repositories and the HTTP decoding have no behaviour of their own. The
  skill orchestrator is not wired into the runtime; `ApplyBackpressure` is never called.
  A restart of the API process, and failing writes in `AgentConnections`, are not
  modelled yet.
* Hazards of these parts that no property covers: a crash of the updater between its
  two renames leaves no binary (`runtime/updater/updater.go:270`), and it replaces the list
  of targets without a lock while Connect indexes it (132); Shutdown waits in
  GracefulStop for streams that agents keep open (`app/app.go:389`); after a death of the API
  process `agent_infos.online` stays true (`agent_repository.go:137`); the ping goroutine of a
  WebSocket handler outlives its connection (`agent_ws_handler.go:148`); the end of a gRPC
  stream leaves `servers.status` online (`grpc_server.go:133`); results that arrive over gRPC
  never reach the projector (`grpc_server.go:288`).
* The API's Docker, Kubernetes, Harbor and notification endpoints are request/response
  code over external services; the pages see them as the resources they report and change.
* Console: layout, formatting, client-side filtering and sorting; texts of manifests,
  compose files and templates (`manifest-assistant.ts`, `createResourceConfig.ts`, the
  bodies of `DeployContainerModal` and `K8sCreateResourcePage` that only build text);
  `NotificationContext`; the tabs around the terminal panes; `K8sPodExecTerminal`;
  custom templates (synchronous localStorage).
* Code no route or import reaches: `src/app/src/pages/*` (earlier versions of the pages, on
  mock data), `TerminalModal`, `EditContainerModal`, `StackEditorModal`,
  `K8sApplyManifestModal`, `AgentTerminal` and `useAgentSocket`, `ServerListPage`,
  `AddServerPage`, the diagram pages.

## 6. Plan

Done: `CommandDispatch`, `AgentConnections`, `AgentTask`, `AgentLink`; the session, the pages
and the three stateful components of the console. Next:

1. `AgentUpdater`: installUpdate as a sequence of renames with a crash between any
   two, rollback and restart, and the unsynchronised change of the target list;
   property: there is always a binary that starts.
2. `ResourceProjection`: service actions and refreshes under fixed idempotency
   keys, optimistic status writes, Project on the WebSocket path only, composed
   with `CommandDispatch`.
3. `AgentConnections` with failing writes and a restart of the API process, and
   the shutdown order of the runtime.
