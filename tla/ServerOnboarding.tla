--------------------------- MODULE ServerOnboarding ---------------------------
(***************************************************************************)
(* The wizard that adds a server: a form spread over four steps, an effect *)
(* that keeps connection mode and credentials together, a submit that      *)
(* creates the server's record and then fetches its agent token and its    *)
(* install script, and the polling for the agent that follows.  The        *)
(* backend looks an address up before it creates the record, in two steps, *)
(* and goes on with a request that the page has given up.                  *)
(*                                                                         *)
(* Of the form's texts the model keeps whether they are filled in, and for *)
(* the address which one it is; the display name goes with the address.    *)
(* The addresses are not loopback ones, which may be registered twice.     *)
(***************************************************************************)
EXTENDS Naturals, Sequences, FiniteSets

CONSTANTS Addresses,
          Ports,       \* the port texts that are typed
          Submits,     \* numbered slots for submissions under way
          MaxLate,     \* edits once something was submitted
          MaxFaults    \* requests that fail

ASSUME OnboardingAssumption == {MaxLate, MaxFaults} \subseteq Nat

VARIABLES
    step,      \* the wizard's step
    form,      \* its form
    submit,    \* per slot: a submission under way, with the payload it sends
    request,   \* backend: per slot, the request to create the submission's server
    servers,   \* backend: the servers' records, by id
    up,        \* servers whose agent has connected
    result,    \* the server that is shown as added, 0 for none
    added,     \* the servers that were shown since the page was loaded
    health,    \* agentHealth: "unknown", "online" or "offline"
    announced, \* the server announced as online, 0 for none
    polls,     \* servers whose health is being asked for
    late,
    faults,
    loose,     \* history: addresses whose request ran on when the page had given it up
    blind      \* history: addresses whose lookup failed

page == <<step, form, result, added, health, announced, polls, late>>
backend == <<request, servers, loose, blind>>
vars == <<page, submit, backend, up, faults>>

STEPS == <<"basic", "connection", "auth", "privilege", "complete">>
Index(s) == CHOOSE i \in DOMAIN STEPS : STEPS[i] = s

Missing == "missing"
Bad == "bad"      \* an address or a port that does not validate

initialForm ==
    [address |-> Missing, os |-> "linux", mode |-> "agent", port |-> "22",
     auth |-> "agent_token", filled |-> {"login"}]

NoSubmit == [ph |-> "idle", payload |-> <<>>, id |-> 0, token |-> FALSE, script |-> FALSE]
NoRequest == [ph |-> "idle", server |-> <<>>, id |-> 0]
Busy(i) == submit[i].ph # "idle"
Used(i) == Busy(i) \/ request[i].ph # "idle"

Init ==
    /\ step = "basic"
    /\ form = initialForm
    /\ submit = [i \in Submits |-> NoSubmit]
    /\ request = [i \in Submits |-> NoRequest]
    /\ servers = <<>>
    /\ up = {}
    /\ result = 0
    /\ added = {}
    /\ health = "unknown"
    /\ announced = 0
    /\ polls = {}
    /\ late = 0
    /\ faults = 0
    /\ loose = {}
    /\ blind = {}

Systems == {"linux", "windows"}
Modes == {"agent", "ssh", "bastion"}
Fillable == {"login", "bastion", "password", "ssh_key"}

Forms == [address : Addresses \cup {Bad, Missing}, os : Systems, mode : Modes,
          port : Ports \cup {"22", "5985"},
          auth : {"agent_token", "password", "ssh_key"}, filled : SUBSET Fillable]
Payloads == [address : Addresses, os : Systems, mode : Modes, with : SUBSET Fillable]
Records == [address : Addresses, mode : Modes]
Submissions == [ph : {"idle", "sent", "agent"}, payload : Payloads \cup {<<>>},
                id : Nat, token : BOOLEAN, script : BOOLEAN]
Requests == [ph : {"idle", "asked", "free", "made", "refused"}, server : Records \cup {<<>>}, id : Nat]

TypeOK ==
    /\ step \in {"basic", "connection", "auth", "privilege", "complete"}
    /\ form \in Forms
    /\ submit \in [Submits -> Submissions]
    /\ \A i \in Submits : Busy(i) => submit[i].payload \in Payloads
    /\ request \in [Submits -> Requests]
    /\ \A i \in Submits : request[i].ph # "idle" => request[i].server \in Records
    /\ servers \in Seq(Records)
    /\ up \subseteq DOMAIN servers
    /\ result \in Nat /\ announced \in Nat
    /\ added \subseteq Nat /\ IsFiniteSet(added) /\ polls \subseteq added
    /\ health \in {"unknown", "online", "offline"}
    /\ late \in Nat /\ faults \in Nat
    /\ loose \subseteq Addresses /\ blind \subseteq Addresses

-----------------------------------------------------------------------------
(* The form. *)

\* The effect on connectionMode, os and authMethod.
Normalised(f) ==
    IF f.mode = "agent" THEN [f EXCEPT !.auth = "agent_token"]
    ELSE IF f.os = "windows"
         THEN [f EXCEPT !.auth = "password", !.port = IF @ = "22" THEN "5985" ELSE @]
         ELSE [f EXCEPT !.auth = IF @ = "agent_token" THEN "password" ELSE @]

Edited(f) ==
    /\ f # form
    /\ IF servers = <<>> /\ \A i \in Submits : ~ Used(i)
       THEN UNCHANGED late
       ELSE late < MaxLate /\ late' = late + 1
    /\ form' = IF <<f.mode, f.os, f.auth>> = <<form.mode, form.os, form.auth>> THEN f ELSE Normalised(f)
    /\ UNCHANGED <<step, result, added, health, announced, polls, submit, backend, up, faults>>

DefaultPort(os) == IF os = "windows" THEN "5985" ELSE "22"

BasicFields ==
    /\ step = "basic"
    /\ \/ \E a \in Addresses \cup {Bad} : Edited([form EXCEPT !.address = a])
       \/ Edited([form EXCEPT !.os = "linux",
                              !.port = IF form.mode = "agent" \/ @ = Missing THEN "22" ELSE @,
                              !.filled = @ \cup {"login"}])
       \/ Edited([form EXCEPT !.os = "windows", !.port = "5985", !.mode = "agent"])

ConnectionFields ==
    /\ step = "connection"
    /\ \/ \E m \in {"agent", "ssh"} :
             Edited([form EXCEPT !.mode = m, !.port = DefaultPort(form.os),
                                 !.auth = IF m = "agent" THEN "agent_token" ELSE "password"])
       \/ Edited([form EXCEPT !.mode = "bastion", !.auth = "password"])
       \/ \E p \in Ports : Edited([form EXCEPT !.port = p])
       \/ \E x \in {"login"} \cup {y \in {"bastion"} : form.mode = "bastion"} :
             \/ Edited([form EXCEPT !.filled = @ \cup {x}])
             \/ Edited([form EXCEPT !.filled = @ \ {x}])

AuthFields ==
    /\ step = "auth"
    /\ form.mode # "agent"
    /\ \/ Edited([form EXCEPT !.auth = "password"])
       \/ form.os = "linux" /\ Edited([form EXCEPT !.auth = "ssh_key"])
       \/ \E x \in {form.auth} :
             \/ Edited([form EXCEPT !.filled = @ \cup {x}])
             \/ Edited([form EXCEPT !.filled = @ \ {x}])

canGoNext ==
    CASE step = "basic" -> form.address # Missing
      [] step = "connection" -> form.port # Missing /\ (form.mode = "bastion" => "bastion" \in form.filled)
      [] step = "auth" -> form.mode = "agent" \/ form.auth \in form.filled
      [] OTHER -> TRUE

\* The button is disabled while the latest create or token request is pending; the
\* request for the install script does not count.
Pending ==
    \E i \in Submits : submit[i].ph = "sent" \/ (submit[i].ph = "agent" /\ ~ submit[i].token)

nextStep ==
    /\ step \in {"basic", "connection", "auth"}
    /\ canGoNext
    /\ ~ Pending
    /\ step' = STEPS[Index(step) + 1]
    /\ UNCHANGED <<form, result, added, health, announced, polls, late, submit, backend, up, faults>>

\* The Previous button, and the steps in the margin that are already behind: also while
\* a submission is under way, and after it is complete.
previousStep ==
    /\ \E i \in 1..(Index(step) - 1) : step' = STEPS[i]
    /\ UNCHANGED <<form, result, added, health, announced, polls, late, submit, backend, up, faults>>

-----------------------------------------------------------------------------
(* Submitting. *)

validateForm(f) ==
    {x \in {"address", "port", "login", "bastion", "password", "ssh_key"} :
        CASE x = "address" -> f.address \in {Bad, Missing}
          [] x = "port" -> f.port \in {Bad, Missing}
          [] x = "login" -> f.mode # "agent" /\ "login" \notin f.filled
          [] x = "bastion" -> f.mode = "bastion" /\ "bastion" \notin f.filled
          [] OTHER -> f.mode # "agent" /\ f.auth = x /\ x \notin f.filled}

resolveStepForErrors(errors) ==
    CASE "address" \in errors -> "basic"
      [] errors \cap {"port", "bastion", "login"} # {} -> "connection"
      [] OTHER -> "auth"

\* Mutation of Payload: whatever was filled in is sent, for a method since given up too.
PayloadWhole(f) ==
    [address |-> f.address, os |-> f.os, mode |-> f.mode, with |-> f.filled \ {"login"}]

\* What is sent of the form: the credential of its method, the bastion of its mode.
Payload(f) ==
    [address |-> f.address, os |-> f.os, mode |-> f.mode,
     with |-> f.filled \cap ({x \in {f.auth} : f.mode # "agent"} \cup {x \in {"bastion"} : f.mode = x})]

submitForm(i) ==
    /\ step = "privilege"
    /\ ~ Pending
    /\ ~ Used(i)
    /\ \A j \in Submits : j < i => Used(j)
    /\ LET errors == validateForm(form)
           payload == Payload(form)
       IN  IF errors # {}
           THEN step' = resolveStepForErrors(errors) /\ UNCHANGED <<submit, request>>
           ELSE /\ submit' = [submit EXCEPT ![i] = [NoSubmit EXCEPT !.ph = "sent", !.payload = payload]]
                /\ request' = [request EXCEPT ![i] =
                                 [NoRequest EXCEPT !.ph = "asked",
                                                   !.server = [address |-> payload.address, mode |-> payload.mode]]]
                /\ UNCHANGED step
    /\ UNCHANGED <<form, result, added, health, announced, polls, late, servers, loose, blind, up, faults>>

-----------------------------------------------------------------------------
(* RegisterServer, the backend's handler of the request. *)

\* Mutation of LookUp: the address is not looked up.
LookUpNothing(i) ==
    /\ request[i].ph = "asked"
    /\ request' = [request EXCEPT ![i].ph = "free"]
    /\ UNCHANGED <<page, submit, servers, up, faults, loose, blind>>

\* The page is told how its request ended, if it still waits for it.
Answered(i, ph, id) ==
    request' = [request EXCEPT ![i] =
                  IF submit[i].ph = "sent" THEN [@ EXCEPT !.ph = ph, !.id = id] ELSE NoRequest]

Taken(i) == \E s \in DOMAIN servers : servers[s].address = request[i].server.address

\* An address that is registered is refused; a lookup that fails counts as one that
\* found nothing.  Local addresses, which are not looked up at all, are not among Addresses.
LookUp(i) ==
    /\ request[i].ph = "asked"
    /\ \/ Taken(i) /\ Answered(i, "refused", 0) /\ UNCHANGED <<blind, faults>>
       \/ /\ \/ ~ Taken(i) /\ UNCHANGED <<blind, faults>>
             \/ /\ faults < MaxFaults
                /\ faults' = faults + 1
                /\ blind' = blind \cup {request[i].server.address}
          /\ request' = [request EXCEPT ![i].ph = "free"]
    /\ UNCHANGED <<page, submit, servers, up, loose>>

\* The record is created, whatever was registered since the lookup: no constraint of the
\* database keeps addresses unique.
CreateServer(i) ==
    /\ request[i].ph = "free"
    /\ \/ /\ servers' = Append(servers, request[i].server)
          /\ Answered(i, "made", Len(servers'))
          /\ UNCHANGED faults
       \/ /\ faults < MaxFaults
          /\ faults' = faults + 1
          /\ Answered(i, "refused", 0)
          /\ UNCHANGED servers
    /\ UNCHANGED <<page, submit, up, loose, blind>>

\* The page gives up what it waits for in slots is: a request the backend has not
\* answered ends with its connection, or goes on.
Abandoned(is) ==
    LET waiting == {i \in is : submit[i].ph = "sent"}
    IN  \E on \in SUBSET {i \in waiting : request[i].ph \in {"asked", "free"}} :
           /\ request' = [i \in Submits |-> IF i \in waiting \ on THEN NoRequest ELSE request[i]]
           /\ loose' = loose \cup {request[i].server.address : i \in on}

-----------------------------------------------------------------------------
(* What the page does with the answers. *)

\* The result is shown: setResult and setStep, from whichever step the user is on.
\* The poll starts for an agent, but what was known of another agent is kept.
Shown(i, id) ==
    /\ result' = id
    /\ added' = added \cup {id}
    /\ step' = "complete"
    /\ polls' = IF submit[i].payload.mode = "agent" THEN polls \cup {id} ELSE polls
    /\ submit' = [submit EXCEPT ![i] = NoSubmit]
    /\ UNCHANGED <<form, health, announced, late>>

\* The record is created: an agent needs its token and its install script as well.
Created(i) ==
    /\ request[i].ph = "made"
    /\ request' = [request EXCEPT ![i] = NoRequest]
    /\ IF submit[i].payload.mode = "agent"
       THEN submit' = [submit EXCEPT ![i].ph = "agent", ![i].id = request[i].id] /\ UNCHANGED page
       ELSE Shown(i, request[i].id)
    /\ UNCHANGED <<servers, up, faults, loose, blind>>

TokenIssued(i) ==
    /\ submit[i].ph = "agent"
    /\ ~ submit[i].token
    /\ IF submit[i].script THEN Shown(i, submit[i].id)
       ELSE submit' = [submit EXCEPT ![i].token = TRUE] /\ UNCHANGED page
    /\ UNCHANGED <<backend, up, faults>>

ScriptFetched(i) ==
    /\ submit[i].ph = "agent"
    /\ ~ submit[i].script
    /\ IF submit[i].token THEN Shown(i, submit[i].id)
       ELSE submit' = [submit EXCEPT ![i].script = TRUE] /\ UNCHANGED page
    /\ UNCHANGED <<backend, up, faults>>

\* The backend refuses: the answer is shown as an error.
Refused(i) ==
    /\ request[i].ph = "refused"
    /\ request' = [request EXCEPT ![i] = NoRequest]
    /\ submit' = [submit EXCEPT ![i] = NoSubmit]
    /\ UNCHANGED <<page, servers, up, faults, loose, blind>>

\* A request fails for the page: an error is shown, and what the backend did of it stays.
SubmitFails(i) ==
    /\ Busy(i)
    /\ faults < MaxFaults
    /\ faults' = faults + 1
    /\ Abandoned({i})
    /\ submit' = [submit EXCEPT ![i] = NoSubmit]
    /\ UNCHANGED <<page, servers, up, blind>>

-----------------------------------------------------------------------------
(* Waiting for the agent. *)

\* The agent of server s connects (external).
AgentConnects(s) ==
    /\ servers[s].mode = "agent"
    /\ s \notin up
    /\ up' = up \cup {s}
    /\ UNCHANGED <<page, submit, backend, faults>>

\* Mutation of Poll: an agent that was offline once is not asked for again.
PollOnce ==
    /\ result # 0
    /\ servers[result].mode = "agent"
    /\ result \notin polls
    /\ health = "unknown"
    /\ polls' = polls \cup {result}
    /\ UNCHANGED <<step, form, result, added, health, announced, late, submit, backend, up, faults>>

\* The interval of the server that is shown.
Poll ==
    /\ result # 0
    /\ servers[result].mode = "agent"
    /\ result \notin polls
    /\ polls' = polls \cup {result}
    /\ UNCHANGED <<step, form, result, added, health, announced, late, submit, backend, up, faults>>

\* Mutation of PollAnswer: an answer counts as online whatever it says.
PollAnswerOnline(s) ==
    /\ s \in polls
    /\ polls' = polls \ {s}
    /\ \/ health' = "online" /\ UNCHANGED faults
       \/ health' = "offline" /\ faults < MaxFaults /\ faults' = faults + 1
    /\ announced' = IF health' = "online" /\ announced = 0 THEN result ELSE announced
    /\ UNCHANGED <<step, form, result, added, late, submit, backend, up>>

\* An answer counts for the page whichever server it is for; the first one that is
\* online announces the server that is shown.
PollAnswer(s) ==
    /\ s \in polls
    /\ polls' = polls \ {s}
    /\ \/ health' = (IF s \in up THEN "online" ELSE "offline") /\ UNCHANGED faults
       \/ health' = "offline" /\ faults < MaxFaults /\ faults' = faults + 1
    /\ announced' = IF health' = "online" /\ announced = 0 THEN result ELSE announced
    /\ UNCHANGED <<step, form, result, added, late, submit, backend, up>>

\* "Add Another Node" reloads the page.
AddAnother ==
    /\ step = "complete"
    /\ step' = "basic" /\ form' = initialForm
    /\ submit' = [i \in Submits |-> NoSubmit]
    /\ Abandoned(Submits)
    /\ result' = 0 /\ added' = {} /\ health' = "unknown" /\ announced' = 0 /\ polls' = {}
    /\ UNCHANGED <<late, servers, up, faults, blind>>

-----------------------------------------------------------------------------

User == BasicFields \/ ConnectionFields \/ AuthFields \/ nextStep \/ previousStep \/ AddAnother
RegisterServer(i) == LookUp(i) \/ CreateServer(i)
Finish(i) == Created(i) \/ TokenIssued(i) \/ ScriptFetched(i) \/ Refused(i) \/ SubmitFails(i)

Next ==
    \/ User
    \/ Poll
    \/ \E i \in Submits : submitForm(i) \/ RegisterServer(i) \/ Finish(i)
    \/ \E s \in DOMAIN servers : AgentConnects(s) \/ PollAnswer(s)

\* Requests are answered and the interval fires; the user and the agent owe nothing.
Fairness ==
    /\ \A i \in Submits : WF_vars(RegisterServer(i)) /\ WF_vars(Finish(i))
    /\ WF_vars(Poll)
    /\ WF_vars(\E s \in DOMAIN servers : PollAnswer(s))

Spec == Init /\ [][Next]_vars /\ Fairness

-----------------------------------------------------------------------------
(* Properties. *)

Ids == DOMAIN servers

\* What is sent to create a server can be used to reach it, whatever order the steps of
\* the wizard were visited in (ServerOnboardingPage.tsx:154-176, 272-334): a real
\* address; exactly one credential unless an agent is to be installed, for Windows the
\* password; and the bastion if there is to be one.
PayloadFits ==
    \A i \in Submits : submit[i].ph = "sent" =>
        LET p == submit[i].payload
            credentials == p.with \ {"bastion"}
        IN  /\ p.address \in Addresses
            /\ Cardinality(credentials) = IF p.mode = "agent" THEN 0 ELSE 1
            /\ p.os = "windows" => credentials \subseteq {"password"}
            /\ p.mode = "bastion" <=> "bastion" \in p.with

\* An address is registered twice only if its lookup failed, or if the page had given up
\* a request for it that still ran (RegisterServer in service.go:55-86 checks, then creates).
\* Otherwise the button, which waits for the answer (ServerOnboardingPage.tsx:971-978), keeps two
\* requests from meeting, and creating again what was created before a token or a script could
\* not be fetched (381-402) is refused.
OneRecord ==
    \A s, t \in Ids :
        s # t /\ servers[s].address = servers[t].address => servers[s].address \in loose \cup blind

\* "Agent connected successfully" is said of a server whose agent did connect
\* (ServerOnboardingPage.tsx:207-227), as long as the page added one server: the answer
\* of a poll for an earlier one would be taken for the latest.
AnnouncedTrue ==
    announced # 0 => announced \in up \/ Cardinality(added) > 1

\* The effect keeps mode and credential together: an agent has its token, a Windows
\* machine without one its password.
FormFits ==
    /\ form.mode = "agent" <=> form.auth = "agent_token"
    /\ form.mode # "agent" /\ form.os = "windows" => form.auth = "password"

\* The server on screen is one of those that were shown.
ResultShown == result # 0 => result \in added

\* A submission that waits for its record has its request on the backend, and only one
\* waits at a time.
RequestsFit ==
    /\ \A i, j \in Submits : submit[i].ph = "sent" /\ submit[j].ph = "sent" => i = j
    /\ \A i \in Submits :
          /\ submit[i].ph = "sent" => request[i].ph # "idle"
          /\ submit[i].ph = "agent" => request[i].ph = "idle"
          /\ request[i].ph \in {"made", "refused"} => submit[i].ph = "sent"

\* A request nobody waits for is remembered, and the address another one found free is.
LookupsHold ==
    \A i \in Submits :
        /\ request[i].ph # "idle" /\ submit[i].ph # "sent" => request[i].server.address \in loose
        /\ request[i].ph = "free" /\ Taken(i) => request[i].server.address \in loose \cup blind

\* The inductive invariant behind PayloadFits, OneRecord and AnnouncedTrue.
PageInv == TypeOK /\ FormFits /\ ResultShown /\ PayloadFits /\ AnnouncedTrue
BackendInv == RequestsFit /\ LookupsHold /\ OneRecord
Inv == PageInv /\ BackendInv

\* An agent that connects while its server is the one on screen is announced, although
\* polls fail or answer late (ServerOnboardingPage.tsx:178-227), unless the user leaves
\* or adds another server first.
AgentNoticed ==
    (result \in up /\ added = {result}) ~> (announced # 0 \/ added # {result})
=============================================================================
