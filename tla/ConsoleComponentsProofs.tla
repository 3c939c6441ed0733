------------------------ MODULE ConsoleComponentsProofs ------------------------
(***************************************************************************)
(* Proofs about two components of the console: the wizard that adds a      *)
(* server (ServerOnboarding), for any addresses, ports, number of          *)
(* submissions under way, late edits and failures; and the Build &         *)
(* Artifacts page (BuildOperations), for any kinds, environments, streams, *)
(* operations, visits and mishaps.                                         *)
(***************************************************************************)
EXTENDS ServerOnboarding, BuildOperations, FiniteSetTheorems, SequenceTheorems, TLAPS

-----------------------------------------------------------------------------
(* The wizard. *)

\* The effect brings any form into the shape FormFits asks for.
LEMMA NormalisedFits ==
  ASSUME NEW f \in Forms
  PROVE  /\ Normalised(f) \in Forms
         /\ Normalised(f).mode = "agent" <=> Normalised(f).auth = "agent_token"
         /\ Normalised(f).mode # "agent" /\ Normalised(f).os = "windows"
            => Normalised(f).auth = "password"
  BY DEF Forms, Normalised, Systems, Modes

\* What touches neither the requests nor the records, and makes no submission wait, leaves
\* the backend's part of the invariant alone.
LEMMA BackendStays ==
  ASSUME BackendInv, UNCHANGED backend,
         \A i \in Submits : /\ submit'[i].ph = "sent" <=> submit[i].ph = "sent"
                            /\ submit'[i].ph = "agent" => request[i].ph = "idle"
  PROVE  BackendInv'
  <1>1. UNCHANGED <<request, servers, loose, blind>>
    BY DEF backend
  <1>2. RequestsFit'
    BY <1>1 DEF BackendInv, RequestsFit
  <1>3. \A i \in Submits : Taken(i)' <=> Taken(i)
    BY <1>1 DEF Taken
  <1>4. LookupsHold'
    BY <1>1, <1>3 DEF BackendInv, LookupsHold
  <1>5. OneRecord'
    BY <1>1 DEF BackendInv, OneRecord, Ids
  <1> QED
    BY <1>2, <1>4, <1>5 DEF BackendInv

\* Nor does what leaves the submissions alone as well.
LEMMA BackendRests ==
  ASSUME BackendInv, UNCHANGED <<submit, backend>>
  PROVE  BackendInv'
  BY BackendStays DEF BackendInv, RequestsFit

\* An edit of the form leaves everything but the form and the bound alone, and the
\* form fits again.
LEMMA EditedKeeps ==
  ASSUME Inv, NEW f \in Forms, Edited(f)
  PROVE  Inv'
  <1>1. /\ UNCHANGED <<step, result, added, health, announced, polls, submit, backend, up, faults>>
        /\ UNCHANGED <<request, servers, loose, blind>>
        /\ late' \in Nat
    BY OnboardingAssumption DEF Edited, Inv, PageInv, TypeOK, backend
  <1>2. form' \in Forms /\ FormFits'
    <2>1. CASE <<f.mode, f.os, f.auth>> = <<form.mode, form.os, form.auth>>
      BY <2>1 DEF Edited, Inv, PageInv, FormFits
    <2>2. CASE <<f.mode, f.os, f.auth>> # <<form.mode, form.os, form.auth>>
      <3>1. form' = Normalised(f)
        BY <2>2 DEF Edited
      <3> QED
        BY <3>1, NormalisedFits DEF FormFits
    <2> QED
      BY <2>1, <2>2
  <1>3. TypeOK'
    BY <1>1, <1>2 DEF Inv, PageInv, TypeOK, Busy
  <1>4. PageInv'
    BY <1>1, <1>2, <1>3 DEF Inv, PageInv, ResultShown, PayloadFits, AnnouncedTrue
  <1> QED
    BY <1>1, <1>4, BackendRests DEF Inv

\* The fields of the wizard write forms.
LEMMA FieldsKeep ==
  ASSUME Inv, BasicFields \/ ConnectionFields \/ AuthFields
  PROVE  Inv'
  <1> USE DEF Inv, PageInv, TypeOK
  <1>0. form \in Forms
    OBVIOUS
  <1>1. CASE BasicFields
    <2>1. \A a \in Addresses \cup {Bad} : [form EXCEPT !.address = a] \in Forms
      BY <1>0 DEF Forms
    <2>2. [form EXCEPT !.os = "linux",
                       !.port = IF form.mode = "agent" \/ @ = Missing THEN "22" ELSE @,
                       !.filled = @ \cup {"login"}] \in Forms
      BY <1>0 DEF Forms, Systems, Fillable
    <2>3. [form EXCEPT !.os = "windows", !.port = "5985", !.mode = "agent"] \in Forms
      BY <1>0 DEF Forms, Systems, Modes
    <2> QED
      BY <1>1, <2>1, <2>2, <2>3, EditedKeeps DEF BasicFields
  <1>2. CASE ConnectionFields
    <2>1. \A m \in {"agent", "ssh"} :
            [form EXCEPT !.mode = m, !.port = DefaultPort(form.os),
                         !.auth = IF m = "agent" THEN "agent_token" ELSE "password"] \in Forms
      BY <1>0 DEF Forms, Modes, DefaultPort
    <2>2. [form EXCEPT !.mode = "bastion", !.auth = "password"] \in Forms
      BY <1>0 DEF Forms, Modes
    <2>3. \A p \in Ports : [form EXCEPT !.port = p] \in Forms
      BY <1>0 DEF Forms
    <2>4. \A x \in {"login", "bastion"} : /\ [form EXCEPT !.filled = @ \cup {x}] \in Forms
                                          /\ [form EXCEPT !.filled = @ \ {x}] \in Forms
      BY <1>0 DEF Forms, Fillable
    <2> QED
      BY <1>2, <2>1, <2>2, <2>3, <2>4, EditedKeeps DEF ConnectionFields
  <1>3. CASE AuthFields
    <2>1. \A x \in {"password", "ssh_key"} : [form EXCEPT !.auth = x] \in Forms
      BY <1>0 DEF Forms
    <2>2. form.mode # "agent" => form.auth \in {"password", "ssh_key"}
      BY <1>0 DEF Forms, FormFits
    <2>3. \A x \in {"password", "ssh_key"} : /\ [form EXCEPT !.filled = @ \cup {x}] \in Forms
                                             /\ [form EXCEPT !.filled = @ \ {x}] \in Forms
      BY <1>0 DEF Forms, Fillable
    <2> QED
      BY <1>3, <2>1, <2>2, <2>3, EditedKeeps DEF AuthFields
  <1> QED
    BY <1>1, <1>2, <1>3

\* A form without errors gives a payload that fits.
LEMMA PayloadOfValidForm ==
  ASSUME form \in Forms, FormFits, validateForm(form) = {}
  PROVE  LET p == Payload(form) IN
         /\ p \in Payloads
         /\ Cardinality(p.with \ {"bastion"}) = IF p.mode = "agent" THEN 0 ELSE 1
         /\ p.os = "windows" => p.with \ {"bastion"} \subseteq {"password"}
         /\ p.mode = "bastion" <=> "bastion" \in p.with
  <1> DEFINE p == Payload(form)
  <1>1. /\ p.address = form.address /\ p.os = form.os /\ p.mode = form.mode
        /\ p.with = form.filled \cap ({x \in {form.auth} : form.mode # "agent"}
                                      \cup {x \in {"bastion"} : form.mode = x})
        /\ p = [address |-> form.address, os |-> form.os, mode |-> form.mode, with |-> p.with]
    BY DEF Payload
  <1>2. form.address \notin {Bad, Missing}
    <2>1. "address" \notin validateForm(form)
      OBVIOUS
    <2> QED
      BY <2>1 DEF validateForm
  <1>3. form.mode = "bastion" => "bastion" \in form.filled
    <2>1. "bastion" \notin validateForm(form)
      OBVIOUS
    <2> QED
      BY <2>1 DEF validateForm
  <1>4. form.mode # "agent" => form.auth \in {"password", "ssh_key"} /\ form.auth \in form.filled
    <2>1. "password" \notin validateForm(form) /\ "ssh_key" \notin validateForm(form)
      OBVIOUS
    <2>2. form.mode # "agent" => form.auth \in {"password", "ssh_key"}
      BY DEF Forms, FormFits
    <2> QED
      BY <2>1, <2>2 DEF validateForm
  <1>5. p \in Payloads
    BY <1>1, <1>2 DEF Forms, Payloads
  <1>6. p.with \ {"bastion"} = IF p.mode = "agent" THEN {} ELSE {form.auth}
    BY <1>1, <1>4
  <1>7. Cardinality(p.with \ {"bastion"}) = IF p.mode = "agent" THEN 0 ELSE 1
    BY <1>6, FS_EmptySet, FS_Singleton
  <1>8. p.os = "windows" => p.with \ {"bastion"} \subseteq {"password"}
    BY <1>1, <1>6 DEF FormFits
  <1>9. p.mode = "bastion" <=> "bastion" \in p.with
    BY <1>1, <1>3, <1>4
  <1> QED
    BY <1>5, <1>7, <1>8, <1>9

\* Showing the created server adds it to those that were shown; what was announced
\* stays justified.
LEMMA ShownKeeps ==
  ASSUME PageInv, NEW i \in Submits, NEW id \in Nat, Shown(i, id),
         UNCHANGED <<servers, up, faults, loose, blind>>,
         request' \in [Submits -> Requests],
         \A j \in Submits : request'[j].ph # "idle" => request'[j].server \in Records
  PROVE  PageInv'
  <1> USE DEF PageInv
  <1>1. submit' = [submit EXCEPT ![i] = NoSubmit]
    BY DEF Shown
  <1>2. added' = added \cup {id} /\ IsFiniteSet(added') /\ IsFiniteSet(added)
    BY FS_AddElement DEF TypeOK, Shown
  <1>3. Cardinality(added) > 1 => Cardinality(added') > 1
    <2>1. /\ Cardinality(added) <= Cardinality(added')
          /\ Cardinality(added) \in Nat /\ Cardinality(added') \in Nat
      BY <1>2, FS_Subset, FS_CardinalityType
    <2> QED
      BY <2>1
  <1>4. submit' \in [Submits -> Submissions]
        /\ (\A j \in Submits : Busy(j)' => submit'[j].payload \in Payloads)
    BY <1>1 DEF TypeOK, NoSubmit, Busy, Submissions
  <1>5. TypeOK'
    BY <1>1, <1>2, <1>4 DEF TypeOK, Shown
  <1>6. PayloadFits'
    <2>1. \A j \in Submits : submit'[j].ph = "sent" => submit'[j] = submit[j]
      BY <1>1 DEF TypeOK, NoSubmit
    <2> QED
      BY <2>1, Zenon DEF PayloadFits
  <1> QED
    BY <1>1, <1>2, <1>3, <1>5, <1>6 DEF Shown, FormFits, ResultShown, AnnouncedTrue

\* Sending the form, or going back to the step that has errors: the page's part.
LEMMA submitFormFits ==
  ASSUME PageInv, NEW i \in Submits, submitForm(i)
  PROVE  PageInv'
  <1> USE DEF PageInv
  <1>1. UNCHANGED <<form, result, added, health, announced, polls, late, servers, loose, blind, up, faults>>
    BY DEF submitForm
  <1>2. step' \in {"basic", "connection", "auth", "privilege", "complete"}
    BY DEF submitForm, resolveStepForErrors
  <1>3. CASE validateForm(form) # {}
    <2>1. UNCHANGED <<submit, request>>
      BY <1>3 DEF submitForm
    <2> QED
      BY <1>1, <1>2, <2>1 DEF TypeOK, Busy, FormFits, ResultShown, PayloadFits, AnnouncedTrue
  <1>4. CASE validateForm(form) = {}
    <2> DEFINE p == Payload(form)
               new == [NoSubmit EXCEPT !.ph = "sent", !.payload = p]
               row == [address |-> p.address, mode |-> p.mode]
               asked == [NoRequest EXCEPT !.ph = "asked", !.server = row]
    <2>1. /\ p \in Payloads
          /\ Cardinality(p.with \ {"bastion"}) = IF p.mode = "agent" THEN 0 ELSE 1
          /\ p.os = "windows" => p.with \ {"bastion"} \subseteq {"password"}
          /\ p.mode = "bastion" <=> "bastion" \in p.with
      BY <1>4, PayloadOfValidForm DEF TypeOK
    <2>2. submit' = [submit EXCEPT ![i] = new] /\ request' = [request EXCEPT ![i] = asked]
      BY <1>4 DEF submitForm
    <2>3. /\ new.ph = "sent" /\ new.payload = p
          /\ new \in [ph : {"sent"}, payload : {p}, id : Nat, token : BOOLEAN, script : BOOLEAN]
      BY DEF NoSubmit
    <2>4. asked \in Requests /\ asked.server \in Records
      BY <2>1 DEF NoRequest, Requests, Records, Payloads
    <2> HIDE DEF p, new, row, asked
    <2>5. /\ submit' \in [Submits -> Submissions]
          /\ \A j \in Submits : Busy(j)' => submit'[j].payload \in Payloads
      BY <2>1, <2>2, <2>3 DEF TypeOK, Busy, Submissions
    <2>6. /\ request' \in [Submits -> Requests]
          /\ \A j \in Submits : request'[j].ph # "idle" => request'[j].server \in Records
      BY <2>2, <2>4 DEF TypeOK
    <2>7. TypeOK'
      BY <1>1, <1>2, <2>5, <2>6 DEF TypeOK
    <2>8. p.address \in Addresses
      BY <2>1 DEF Payloads
    <2>9. PayloadFits'
      BY <2>1, <2>2, <2>3, <2>8 DEF PayloadFits, TypeOK
    <2> QED
      BY <1>1, <2>7, <2>9 DEF FormFits, ResultShown, AnnouncedTrue
  <1> QED
    BY <1>3, <1>4

\* The backend's part: the button waits for the answer, so no other submission does.
LEMMA submitFormKeeps ==
  ASSUME Inv, NEW i \in Submits, submitForm(i)
  PROVE  Inv'
  <1> USE DEF Inv, BackendInv
  <1>1. UNCHANGED <<servers, loose, blind>>
    BY DEF submitForm
  <1>2. CASE UNCHANGED <<submit, request>>
    BY <1>1, <1>2, BackendRests, submitFormFits DEF backend
  <1>3. CASE ~ UNCHANGED <<submit, request>>
    <2>1. PICK new, asked :
             /\ submit' = [submit EXCEPT ![i] = new] /\ new.ph = "sent"
             /\ request' = [request EXCEPT ![i] = asked] /\ asked.ph = "asked"
      <3> DEFINE p == Payload(form)
                 n == [NoSubmit EXCEPT !.ph = "sent", !.payload = p]
                 a == [NoRequest EXCEPT !.ph = "asked", !.server = [address |-> p.address, mode |-> p.mode]]
      <3>1. submit' = [submit EXCEPT ![i] = n] /\ request' = [request EXCEPT ![i] = a]
        BY <1>3 DEF submitForm
      <3>2. n.ph = "sent" /\ a.ph = "asked"
        BY DEF NoSubmit, NoRequest
      <3> QED
        BY <3>1, <3>2
    <2>2. \A j \in Submits : submit[j].ph # "sent"
      BY DEF submitForm, Pending
    <2>3. /\ submit'[i].ph = "sent" /\ request'[i].ph = "asked"
          /\ \A j \in Submits : j # i => submit'[j] = submit[j] /\ request'[j] = request[j]
      BY <2>1 DEF PageInv, TypeOK
    <2>4. RequestsFit'
      BY <2>2, <2>3 DEF RequestsFit
    <2>5. \A j \in Submits : j # i => (Taken(j)' <=> Taken(j))
      BY <1>1, <2>3 DEF Taken
    <2>6. LookupsHold'
      BY <1>1, <2>3, <2>5 DEF LookupsHold
    <2>7. OneRecord'
      BY <1>1 DEF OneRecord, Ids
    <2> QED
      BY <2>4, <2>6, <2>7, submitFormFits
  <1> QED
    BY <1>2, <1>3

\* What Answered writes.
LEMMA AnswerWritten ==
  ASSUME TypeOK, NEW i \in Submits, NEW ph \in {"made", "refused"}, NEW id \in Nat,
         request[i].ph # "idle", Answered(i, ph, id)
  PROVE  /\ request' \in [Submits -> Requests]
         /\ \A j \in Submits : request'[j].ph # "idle" => request'[j].server \in Records
         /\ \A j \in Submits : j # i => request'[j] = request[j]
         /\ request'[i].ph = IF submit[i].ph = "sent" THEN ph ELSE "idle"
  <1> DEFINE r == IF submit[i].ph = "sent" THEN [request[i] EXCEPT !.ph = ph, !.id = id] ELSE NoRequest
  <1>1. request' = [request EXCEPT ![i] = r]
    BY DEF Answered, TypeOK
  <1>2. /\ r \in Requests
        /\ r.ph = IF submit[i].ph = "sent" THEN ph ELSE "idle"
        /\ r.ph # "idle" => r.server \in Records
    BY DEF TypeOK, Requests, NoRequest
  <1> HIDE DEF r
  <1> QED
    BY <1>1, <1>2 DEF TypeOK

\* The backend finds the address free, fails to look it up, or refuses.
LEMMA LookUpKeeps ==
  ASSUME Inv, NEW i \in Submits, LookUp(i)
  PROVE  Inv'
  <1> USE DEF Inv, PageInv, BackendInv
  <1>1. /\ request[i].ph = "asked" /\ UNCHANGED <<page, submit, servers, up, loose>>
        /\ faults' \in Nat
        /\ blind' \in {blind, blind \cup {request[i].server.address}}
    BY DEF LookUp, TypeOK
  <1>2. request[i].server.address \in Addresses
    BY <1>1 DEF TypeOK, Records
  <1>3. /\ request' \in [Submits -> Requests]
        /\ \A j \in Submits : request'[j].ph # "idle" => request'[j].server \in Records
        /\ \A j \in Submits : j # i => request'[j] = request[j]
        /\ \/ request'[i].ph \in {"idle", "refused"} /\ (request'[i].ph = "refused" <=> submit[i].ph = "sent")
           \/ /\ request'[i].ph = "free" /\ request'[i].server = request[i].server
              /\ Taken(i) => request[i].server.address \in blind'
    <2>1. CASE Taken(i) /\ Answered(i, "refused", 0)
      BY <1>1, <2>1, AnswerWritten
    <2>2. CASE /\ request' = [request EXCEPT ![i].ph = "free"]
               /\ Taken(i) => request[i].server.address \in blind'
      <3> DEFINE r == [request[i] EXCEPT !.ph = "free"]
      <3>1. request' = [request EXCEPT ![i] = r]
        BY <2>2 DEF TypeOK
      <3>2. r \in Requests /\ r.ph = "free" /\ r.server = request[i].server /\ r.server \in Records
        BY <1>1 DEF TypeOK, Requests
      <3> HIDE DEF r
      <3> QED
        BY <2>2, <3>1, <3>2 DEF TypeOK
    <2> QED
      BY <2>1, <2>2 DEF LookUp
  <1>4. TypeOK'
    BY <1>1, <1>2, <1>3 DEF page, TypeOK, Busy
  <1>5. FormFits' /\ ResultShown' /\ PayloadFits' /\ AnnouncedTrue'
    BY <1>1 DEF page, FormFits, ResultShown, PayloadFits, AnnouncedTrue
  <1>6. RequestsFit'
    BY <1>1, <1>3 DEF RequestsFit
  <1>7. \A j \in Submits : j # i => (Taken(j)' <=> Taken(j))
    BY <1>1, <1>3 DEF Taken
  <1>8. LookupsHold'
    <2>1. ASSUME NEW j \in Submits, j # i
          PROVE  /\ request'[j].ph # "idle" /\ submit'[j].ph # "sent" => request'[j].server.address \in loose'
                 /\ request'[j].ph = "free" /\ Taken(j)' => request'[j].server.address \in loose' \cup blind'
      BY <1>1, <1>3, <1>7, <2>1 DEF LookupsHold
    <2>2. /\ request'[i].ph # "idle" /\ submit'[i].ph # "sent" => request'[i].server.address \in loose'
          /\ request'[i].ph = "free" /\ Taken(i)' => request'[i].server.address \in loose' \cup blind'
      <3>1. CASE request'[i].ph \in {"idle", "refused"} /\ (request'[i].ph = "refused" <=> submit[i].ph = "sent")
        BY <1>1, <3>1
      <3>2. CASE /\ request'[i].ph = "free" /\ request'[i].server = request[i].server
                 /\ Taken(i) => request[i].server.address \in blind'
        <4>1. Taken(i)' <=> Taken(i)
          BY <1>1, <3>2 DEF Taken
        <4> QED
          BY <1>1, <3>2, <4>1 DEF LookupsHold
      <3> QED
        BY <1>3, <3>1, <3>2
    <2> QED
      BY <2>1, <2>2 DEF LookupsHold
  <1>9. OneRecord'
    BY <1>1 DEF OneRecord, Ids
  <1> QED
    BY <1>4, <1>5, <1>6, <1>8, <1>9

\* A record that joins another one of its address was found free before that one was
\* created: one of the two requests had been given up, or a lookup had failed.
LEMMA CreateServerKeeps ==
  ASSUME Inv, NEW i \in Submits, CreateServer(i)
  PROVE  Inv'
  <1> USE DEF Inv, PageInv, BackendInv
  <1> DEFINE row == request[i].server
  <1>1. /\ request[i].ph = "free" /\ UNCHANGED <<page, submit, up, loose, blind>>
        /\ faults' \in Nat
        /\ \/ servers' = Append(servers, row) /\ Answered(i, "made", Len(servers'))
           \/ servers' = servers /\ Answered(i, "refused", 0)
    BY DEF CreateServer, TypeOK
  <1>2. row \in Records
    BY <1>1 DEF TypeOK
  <1> HIDE DEF row
  <1>3. /\ servers' \in Seq(Records) /\ Len(servers') \in Nat
        /\ DOMAIN servers \subseteq DOMAIN servers'
        /\ \A s \in DOMAIN servers : servers'[s] = servers[s]
        /\ \A s \in DOMAIN servers' \ DOMAIN servers : s = Len(servers) + 1 /\ servers'[s] = row
    <2>1. CASE servers' = servers
      BY <2>1 DEF TypeOK
    <2>2. CASE servers' = Append(servers, row)
      <3>1. /\ servers' \in Seq(Records) /\ Len(servers') \in Nat
            /\ DOMAIN servers' = DOMAIN servers \cup {Len(servers) + 1}
            /\ \A s \in DOMAIN servers : servers'[s] = servers[s]
            /\ servers'[Len(servers) + 1] = row
        BY <1>2, <2>2 DEF TypeOK
      <3> QED
        BY <3>1
    <2> QED
      BY <1>1, <2>1, <2>2
  <1>4. /\ request' \in [Submits -> Requests]
        /\ \A j \in Submits : request'[j].ph # "idle" => request'[j].server \in Records
        /\ \A j \in Submits : j # i => request'[j] = request[j]
        /\ request'[i].ph \in {"idle", "made", "refused"}
        /\ request'[i].ph # "idle" <=> submit[i].ph = "sent"
    BY <1>1, <1>3, AnswerWritten
  <1>5. TypeOK'
    BY <1>1, <1>3, <1>4 DEF page, TypeOK, Busy
  <1>6. FormFits' /\ ResultShown' /\ PayloadFits' /\ AnnouncedTrue'
    BY <1>1 DEF page, FormFits, ResultShown, PayloadFits, AnnouncedTrue
  <1>7. RequestsFit'
    BY <1>1, <1>4 DEF RequestsFit
  <1>8. LookupsHold'
    <2>1. ASSUME NEW j \in Submits, j # i, request[j].ph = "free", Taken(j)'
          PROVE  request[j].server.address \in loose \cup blind
      <3>1. PICK s \in DOMAIN servers' : servers'[s].address = request[j].server.address
        BY <1>4, <2>1 DEF Taken
      <3>2. CASE s \in DOMAIN servers
        BY <1>3, <2>1, <3>1, <3>2 DEF LookupsHold, Taken
      <3>3. CASE s \notin DOMAIN servers
        <4>1. row.address = request[j].server.address
          BY <1>3, <3>1, <3>3
        <4>2. submit[i].ph # "sent" \/ submit[j].ph # "sent"
          BY <2>1 DEF RequestsFit
        <4> QED
          BY <1>1, <2>1, <4>1, <4>2 DEF LookupsHold, row
      <3> QED
        BY <3>2, <3>3
    <2> QED
      BY <1>1, <1>4, <2>1 DEF LookupsHold
  <1>9. OneRecord'
    <2> SUFFICES ASSUME NEW s \in DOMAIN servers', NEW t \in DOMAIN servers', s # t,
                        servers'[s].address = servers'[t].address
                 PROVE  servers'[s].address \in loose \cup blind
      BY <1>1 DEF OneRecord, Ids
    <2>1. CASE s \in DOMAIN servers /\ t \in DOMAIN servers
      BY <1>3, <2>1 DEF OneRecord, Ids
    <2>2. CASE s \notin DOMAIN servers \/ t \notin DOMAIN servers
      <3>1. servers'[s].address = row.address /\ (s \in DOMAIN servers \/ t \in DOMAIN servers)
        BY <1>3, <2>2
      <3>2. Taken(i)
        BY <1>3, <3>1 DEF Taken, row
      <3> QED
        BY <1>1, <3>1, <3>2 DEF LookupsHold, row
    <2> QED
      BY <2>1, <2>2
  <1> QED
    BY <1>5, <1>6, <1>7, <1>8, <1>9

\* What giving up writes: the requests it ends are gone, the others go on and are remembered.
LEMMA AbandonedKeeps ==
  ASSUME TypeOK, BackendInv, NEW is \in SUBSET Submits, Abandoned(is),
         UNCHANGED <<servers, blind>>,
         \A i \in Submits : submit'[i].ph = IF i \in is THEN "idle" ELSE submit[i].ph
  PROVE  /\ request' \in [Submits -> Requests]
         /\ \A i \in Submits : request'[i].ph # "idle" => request'[i].server \in Records
         /\ loose' \subseteq Addresses
         /\ BackendInv'
  <1> USE DEF BackendInv
  <1> DEFINE waiting == {i \in is : submit[i].ph = "sent"}
  <1>1. PICK on \in SUBSET {i \in waiting : request[i].ph \in {"asked", "free"}} :
           /\ request' = [i \in Submits |-> IF i \in waiting \ on THEN NoRequest ELSE request[i]]
           /\ loose' = loose \cup {request[i].server.address : i \in on}
    BY DEF Abandoned
  <1>2. NoRequest \in Requests /\ NoRequest.ph = "idle"
    BY DEF NoRequest, Requests
  <1>3. \A i \in Submits : \/ request'[i] = request[i] /\ i \notin waiting \ on
                           \/ request'[i] = NoRequest /\ i \in waiting \ on
    BY <1>1
  <1>4. request' \in [Submits -> Requests]
    BY <1>1, <1>2 DEF TypeOK
  <1>5. \A i \in Submits : request'[i].ph # "idle" => request'[i].server \in Records
    BY <1>2, <1>3 DEF TypeOK
  <1>6. loose' \subseteq Addresses
    BY <1>1 DEF TypeOK, Records
  <1>7. BackendInv'
    <2>1. \A i \in Submits : /\ i \in is => submit'[i].ph = "idle"
                             /\ i \notin is => submit'[i].ph = submit[i].ph
      OBVIOUS
    <2>2. RequestsFit'
      <3>1. \A i, j \in Submits : submit'[i].ph = "sent" /\ submit'[j].ph = "sent" => i = j
        BY <2>1 DEF RequestsFit
      <3>2. \A i \in Submits : /\ submit'[i].ph = "sent" => request'[i].ph # "idle"
                               /\ submit'[i].ph = "agent" => request'[i].ph = "idle"
        BY <1>3, <2>1 DEF RequestsFit
      <3>3. \A i \in Submits : request'[i].ph \in {"made", "refused"} => submit'[i].ph = "sent"
        BY <1>1, <1>2, <1>3, <2>1 DEF RequestsFit
      <3> QED
        BY <3>1, <3>2, <3>3 DEF RequestsFit
    <2>3. ASSUME NEW i \in Submits, request'[i].ph # "idle", submit'[i].ph # "sent"
          PROVE  request'[i].server.address \in loose'
      <3>1. CASE i \in on
        BY <1>1, <1>3, <3>1
      <3>2. CASE i \notin on
        BY <1>1, <1>2, <1>3, <2>1, <2>3, <3>2 DEF LookupsHold
      <3> QED
        BY <3>1, <3>2
    <2>4. ASSUME NEW i \in Submits, request'[i].ph = "free", Taken(i)'
          PROVE  request'[i].server.address \in loose' \cup blind'
      <3>1. request'[i] = request[i]
        BY <1>2, <1>3, <2>4
      <3>2. Taken(i)
        BY <2>4, <3>1 DEF Taken
      <3> QED
        BY <1>1, <2>4, <3>1, <3>2 DEF LookupsHold
    <2>5. LookupsHold'
      BY <2>3, <2>4 DEF LookupsHold
    <2>6. OneRecord'
      BY <1>1 DEF OneRecord, Ids
    <2> QED
      BY <2>2, <2>5, <2>6
  <1> QED
    BY <1>4, <1>5, <1>6, <1>7

\* The answers to a submission: it goes on, is shown, or ends in an error.
LEMMA CreatedKeeps ==
  ASSUME Inv, NEW i \in Submits, Created(i) \/ Refused(i)
  PROVE  Inv'
  <1> USE DEF Inv, PageInv
  <1>1. /\ request[i].ph \in {"made", "refused"} /\ request' = [request EXCEPT ![i] = NoRequest]
        /\ UNCHANGED <<servers, up, faults, loose, blind>>
    BY DEF Created, Refused
  <1>2. submit[i].ph = "sent" /\ submit[i].payload \in Payloads
    BY <1>1 DEF BackendInv, RequestsFit, TypeOK, Busy
  <1>3. NoRequest \in Requests /\ NoRequest.ph = "idle"
    BY DEF NoRequest, Requests
  <1>4. /\ request' \in [Submits -> Requests] /\ request'[i].ph = "idle"
        /\ \A j \in Submits : j # i => request'[j] = request[j]
        /\ \A j \in Submits : request'[j].ph # "idle" => request'[j].server \in Records
    BY <1>1, <1>3 DEF TypeOK
  <1>5. submit'[i].ph # "sent" /\ \A j \in Submits : j # i => submit'[j] = submit[j]
    <2>1. CASE submit' = [submit EXCEPT ![i] = NoSubmit]
      BY <2>1 DEF NoSubmit, TypeOK
    <2>2. CASE submit' = [submit EXCEPT ![i].ph = "agent", ![i].id = request[i].id]
      <3> DEFINE f == [submit[i] EXCEPT !.ph = "agent", !.id = request[i].id]
      <3>1. submit' = [submit EXCEPT ![i] = f]
        BY <2>2 DEF TypeOK
      <3>2. f.ph = "agent"
        BY <1>2 DEF TypeOK, Submissions
      <3> HIDE DEF f
      <3> QED
        BY <3>1, <3>2 DEF TypeOK
    <2> QED
      BY <2>1, <2>2 DEF Created, Refused, Shown
  <1>6. PageInv'
    <2>1. CASE Shown(i, request[i].id)
      <3>1. request[i].id \in Nat
        BY DEF TypeOK, Requests
      <3> QED
        BY <1>1, <1>4, <2>1, <3>1, ShownKeeps
    <2>2. ASSUME UNCHANGED page, NEW f \in Submissions, submit' = [submit EXCEPT ![i] = f],
                 f.ph # "sent", f.ph # "idle" => f.payload \in Payloads
          PROVE  PageInv'
      <3>1. /\ submit' \in [Submits -> Submissions]
            /\ \A j \in Submits : Busy(j)' => submit'[j].payload \in Payloads
        BY <2>2 DEF TypeOK, Busy
      <3>2. TypeOK'
        BY <1>1, <1>4, <2>2, <3>1 DEF page, TypeOK
      <3>3. \A j \in Submits : submit'[j].ph = "sent" => submit'[j] = submit[j]
        BY <1>5
      <3>4. PayloadFits'
        BY <3>3, Zenon DEF PayloadFits
      <3> QED
        BY <1>1, <2>2, <3>2, <3>4 DEF page, FormFits, ResultShown, AnnouncedTrue
    <2>3. CASE submit' = [submit EXCEPT ![i] = NoSubmit] /\ UNCHANGED page
      <3>1. NoSubmit \in Submissions /\ NoSubmit.ph = "idle"
        BY DEF NoSubmit, Submissions
      <3> QED
        BY <2>2, <2>3, <3>1
    <2>4. CASE submit' = [submit EXCEPT ![i].ph = "agent", ![i].id = request[i].id] /\ UNCHANGED page
      <3> DEFINE f == [submit[i] EXCEPT !.ph = "agent", !.id = request[i].id]
      <3>1. f \in Submissions /\ f.ph = "agent" /\ f.payload \in Payloads
        BY <1>2 DEF TypeOK, Submissions, Requests
      <3>2. submit' = [submit EXCEPT ![i] = f]
        BY <2>4 DEF TypeOK
      <3> HIDE DEF f
      <3> QED
        BY <2>2, <2>4, <3>1, <3>2
    <2> QED
      BY <2>1, <2>3, <2>4 DEF Created, Refused
  <1>7. BackendInv'
    <2> USE DEF BackendInv
    <2>1. RequestsFit'
      BY <1>3, <1>4, <1>5 DEF RequestsFit
    <2>2. \A j \in Submits : j # i => (Taken(j)' <=> Taken(j))
      BY <1>1, <1>4 DEF Taken
    <2>3. LookupsHold'
      BY <1>1, <1>4, <1>5, <2>2 DEF LookupsHold
    <2>4. OneRecord'
      BY <1>1 DEF OneRecord, Ids
    <2> QED
      BY <2>1, <2>3, <2>4
  <1> QED
    BY <1>6, <1>7

\* The token and the script of an agent.
LEMMA TokenOrScriptKeeps ==
  ASSUME Inv, NEW i \in Submits, TokenIssued(i) \/ ScriptFetched(i)
  PROVE  Inv'
  <1> USE DEF Inv, PageInv
  <1>1. submit[i].ph = "agent" /\ UNCHANGED <<backend, up, faults>>
    BY DEF TokenIssued, ScriptFetched
  <1>2. UNCHANGED <<request, servers, loose, blind>>
    BY <1>1 DEF backend
  <1>3. submit[i] \in Submissions /\ submit[i].payload \in Payloads
    BY <1>1 DEF TypeOK, Busy
  <1>4. CASE Shown(i, submit[i].id)
    <2>1. submit[i].id \in Nat
      BY <1>3 DEF Submissions
    <2>2. PageInv'
      BY <1>1, <1>2, <1>4, <2>1, ShownKeeps DEF TypeOK
    <2>3. submit'[i].ph = "idle" /\ \A j \in Submits : j # i => submit'[j] = submit[j]
      BY <1>4 DEF Shown, NoSubmit, TypeOK
    <2>4. BackendInv'
      BY <1>1, <2>3, BackendStays DEF BackendInv, RequestsFit
    <2> QED
      BY <2>2, <2>4
  <1>5. ASSUME UNCHANGED page, NEW f \in Submissions, submit' = [submit EXCEPT ![i] = f],
               f.ph = "agent", f.payload \in Payloads
        PROVE  Inv'
    <2>1. /\ submit' \in [Submits -> Submissions]
          /\ \A j \in Submits : Busy(j)' => submit'[j].payload \in Payloads
          /\ submit'[i].ph = "agent" /\ \A j \in Submits : j # i => submit'[j] = submit[j]
      BY <1>5 DEF TypeOK, Busy
    <2>2. TypeOK'
      BY <1>1, <1>2, <1>5, <2>1 DEF page, TypeOK
    <2>3. \A j \in Submits : submit'[j].ph = "sent" => submit'[j] = submit[j]
      BY <2>1
    <2>4. PayloadFits'
      BY <2>3, Zenon DEF PayloadFits
    <2>5. FormFits' /\ ResultShown' /\ AnnouncedTrue'
      BY <1>1, <1>5 DEF page, FormFits, ResultShown, AnnouncedTrue
    <2>6. BackendInv'
      BY <1>1, <2>1, BackendStays DEF BackendInv, RequestsFit
    <2> QED
      BY <2>2, <2>4, <2>5, <2>6
  <1>6. CASE submit' = [submit EXCEPT ![i].token = TRUE] /\ UNCHANGED page
    <2> DEFINE f == [submit[i] EXCEPT !.token = TRUE]
    <2>1. f \in Submissions /\ f.ph = "agent" /\ f.payload \in Payloads
      BY <1>1, <1>3 DEF Submissions
    <2>2. submit' = [submit EXCEPT ![i] = f]
      BY <1>6 DEF TypeOK
    <2> HIDE DEF f
    <2> QED
      BY <1>5, <1>6, <2>1, <2>2
  <1>7. CASE submit' = [submit EXCEPT ![i].script = TRUE] /\ UNCHANGED page
    <2> DEFINE f == [submit[i] EXCEPT !.script = TRUE]
    <2>1. f \in Submissions /\ f.ph = "agent" /\ f.payload \in Payloads
      BY <1>1, <1>3 DEF Submissions
    <2>2. submit' = [submit EXCEPT ![i] = f]
      BY <1>7 DEF TypeOK
    <2> HIDE DEF f
    <2> QED
      BY <1>5, <1>7, <2>1, <2>2
  <1> QED
    BY <1>4, <1>6, <1>7 DEF TokenIssued, ScriptFetched

\* A request that fails for the page may run on.
LEMMA SubmitFailsKeeps ==
  ASSUME Inv, NEW i \in Submits, SubmitFails(i)
  PROVE  Inv'
  <1> USE DEF Inv, PageInv
  <1>1. /\ Abandoned({i}) /\ UNCHANGED <<page, servers, up, blind>> /\ faults' \in Nat
        /\ submit' = [submit EXCEPT ![i] = NoSubmit]
    BY DEF SubmitFails, TypeOK
  <1>2. NoSubmit \in Submissions /\ NoSubmit.ph = "idle"
    BY DEF NoSubmit, Submissions
  <1>3. /\ submit' \in [Submits -> Submissions] /\ submit'[i].ph = "idle"
        /\ \A j \in Submits : j # i => submit'[j] = submit[j]
        /\ \A j \in Submits : Busy(j)' => submit'[j].payload \in Payloads
    BY <1>1, <1>2 DEF TypeOK, Busy
  <1>4. /\ request' \in [Submits -> Requests]
        /\ \A j \in Submits : request'[j].ph # "idle" => request'[j].server \in Records
        /\ loose' \subseteq Addresses
        /\ BackendInv'
    BY <1>1, <1>3, AbandonedKeeps
  <1>5. TypeOK'
    BY <1>1, <1>3, <1>4 DEF page, TypeOK
  <1>6. \A j \in Submits : submit'[j].ph = "sent" => submit'[j] = submit[j]
    BY <1>3
  <1>7. PayloadFits'
    BY <1>6, Zenon DEF PayloadFits
  <1> QED
    BY <1>1, <1>4, <1>5, <1>7 DEF page, FormFits, ResultShown, AnnouncedTrue

\* An answer for another server than the one on screen announces the wrong one only
\* when the page has shown two.
LEMMA PollAnswerKeeps ==
  ASSUME Inv, NEW s, PollAnswer(s)
  PROVE  Inv'
  <1> USE DEF Inv, PageInv
  <1>1. /\ s \in polls /\ polls' = polls \ {s}
        /\ UNCHANGED <<step, form, result, added, late, submit, backend, up>>
        /\ UNCHANGED <<request, servers, loose, blind>>
        /\ announced' = IF health' = "online" /\ announced = 0 THEN result ELSE announced
        /\ health' = "online" => s \in up
        /\ health' \in {"unknown", "online", "offline"} /\ faults' \in Nat
    BY DEF PollAnswer, TypeOK, backend
  <1>2. TypeOK'
    BY <1>1 DEF TypeOK, Busy
  <1>3. AnnouncedTrue'
    <2>1. CASE announced' = announced
      BY <1>1, <2>1 DEF AnnouncedTrue
    <2>2. CASE announced' # announced
      <3>1. announced' = result /\ s \in up
        BY <1>1, <2>2
      <3>2. CASE result = s \/ result = 0
        BY <1>1, <3>1, <3>2 DEF AnnouncedTrue
      <3>3. CASE result # s /\ result # 0
        <4>1. {s, result} \subseteq added /\ IsFiniteSet(added)
          BY <1>1, <3>3 DEF TypeOK, ResultShown
        <4>2. Cardinality({s, result}) = 2
          <5>1. {s, result} = {s} \cup {result} /\ result \notin {s}
            BY <3>3
          <5>2. IsFiniteSet({s}) /\ Cardinality({s}) = 1
            BY FS_Singleton
          <5> QED
            BY <5>1, <5>2, FS_AddElement
        <4>3. Cardinality(added) >= 2
          <5>1. Cardinality({s, result}) <= Cardinality(added)
            BY <4>1, FS_Subset
          <5>2. Cardinality(added) \in Nat
            BY <4>1, FS_CardinalityType
          <5> QED
            BY <4>2, <5>1, <5>2
        <4>4. Cardinality(added) \in Nat
          BY <4>1, FS_CardinalityType
        <4> QED
          BY <1>1, <4>3, <4>4 DEF AnnouncedTrue
      <3> QED
        BY <3>2, <3>3
    <2> QED
      BY <2>1, <2>2
  <1>4. FormFits' /\ ResultShown' /\ PayloadFits'
    BY <1>1 DEF FormFits, ResultShown, PayloadFits
  <1> QED
    BY <1>1, <1>2, <1>3, <1>4, BackendRests

\* The buttons move between the steps of the wizard.
LEMMA StepsAreSteps ==
  /\ \A i \in 1 .. 5 : STEPS[i] \in {"basic", "connection", "auth", "privilege", "complete"}
  /\ \A s \in {"basic", "connection", "auth", "privilege", "complete"} : Index(s) \in 1 .. 5
  /\ \A s \in {"basic", "connection", "auth"} : Index(s) + 1 \in 1 .. 5
  <1>1. DOMAIN STEPS = 1 .. 5
    BY DEF STEPS
  <1>2. \A i \in 1 .. 5 : STEPS[i] \in {"basic", "connection", "auth", "privilege", "complete"}
    BY DEF STEPS
  <1>3. \A s \in {"basic", "connection", "auth", "privilege", "complete"} :
           \E i \in 1 .. 5 : STEPS[i] = s
    <2>1. /\ STEPS[1] = "basic" /\ STEPS[2] = "connection" /\ STEPS[3] = "auth"
          /\ STEPS[4] = "privilege" /\ STEPS[5] = "complete"
      BY DEF STEPS
    <2> QED
      BY <2>1
  <1>4. \A s \in {"basic", "connection", "auth", "privilege", "complete"} :
           Index(s) \in 1 .. 5 /\ STEPS[Index(s)] = s
    BY <1>1, <1>3 DEF Index
  <1>5. STEPS[5] = "complete"
    BY DEF STEPS
  <1>6. \A s \in {"basic", "connection", "auth"} : Index(s) # 5
    BY <1>4, <1>5
  <1> QED
    BY <1>2, <1>4, <1>6

\* Every step of the wizard, of the backend and of the agents preserves the invariant.
LEMMA OnboardingInvStep == Inv /\ [Next]_vars => Inv'
  <1> SUFFICES ASSUME Inv, [Next]_vars PROVE Inv'
    OBVIOUS
  <1> USE DEF Inv, PageInv
  <1>1. CASE BasicFields \/ ConnectionFields \/ AuthFields
    BY <1>1, FieldsKeep
  <1>2. CASE nextStep \/ previousStep
    <2>1. /\ UNCHANGED <<form, result, added, health, announced, polls, late, submit, backend, up, faults>>
          /\ UNCHANGED <<request, servers, loose, blind>>
      BY <1>2 DEF nextStep, previousStep, backend
    <2>2. step' \in {"basic", "connection", "auth", "privilege", "complete"}
      <3>1. CASE nextStep
        BY <3>1, StepsAreSteps DEF nextStep
      <3>2. CASE previousStep
        <4>1. PICK k \in 1 .. (Index(step) - 1) : step' = STEPS[k]
          BY <3>2 DEF previousStep
        <4>2. Index(step) \in 1 .. 5
          BY StepsAreSteps DEF TypeOK
        <4>3. k \in 1 .. 5
          BY <4>1, <4>2
        <4> QED
          BY <4>1, <4>3, StepsAreSteps
      <3> QED
        BY <1>2, <3>1, <3>2
    <2>3. TypeOK'
      BY <2>1, <2>2 DEF TypeOK, Busy
    <2>4. FormFits' /\ ResultShown' /\ PayloadFits' /\ AnnouncedTrue'
      BY <2>1 DEF FormFits, ResultShown, PayloadFits, AnnouncedTrue
    <2> QED
      BY <2>1, <2>3, <2>4, BackendRests
  <1>3. CASE AddAnother
    <2>1. /\ step' = "basic" /\ form' = initialForm /\ submit' = [i \in Submits |-> NoSubmit]
          /\ result' = 0 /\ added' = {} /\ health' = "unknown" /\ announced' = 0 /\ polls' = {}
          /\ Abandoned(Submits) /\ UNCHANGED <<late, servers, up, faults, blind>>
      BY <1>3 DEF AddAnother
    <2>2. form' \in Forms /\ FormFits'
      BY <2>1 DEF initialForm, Forms, Systems, Modes, Fillable, FormFits
    <2>3. /\ submit' \in [Submits -> Submissions]
          /\ \A i \in Submits : submit'[i].ph = "idle"
      BY <2>1 DEF NoSubmit, Submissions
    <2>4. /\ request' \in [Submits -> Requests]
          /\ \A j \in Submits : request'[j].ph # "idle" => request'[j].server \in Records
          /\ loose' \subseteq Addresses
          /\ BackendInv'
      BY <2>1, <2>3, AbandonedKeeps
    <2>5. TypeOK'
      BY <2>1, <2>2, <2>3, <2>4, FS_EmptySet DEF TypeOK, Busy
    <2>6. PayloadFits'
      BY <2>3 DEF PayloadFits
    <2> QED
      BY <2>1, <2>2, <2>4, <2>5, <2>6 DEF ResultShown, AnnouncedTrue
  <1>4. CASE Poll
    <2>1. /\ UNCHANGED <<step, form, result, added, health, announced, late, submit, backend, up, faults>>
          /\ UNCHANGED <<request, servers, loose, blind>>
      BY <1>4 DEF Poll, backend
    <2>2. TypeOK'
      BY <1>4, <2>1 DEF Poll, TypeOK, Busy, ResultShown
    <2>3. FormFits' /\ ResultShown' /\ PayloadFits' /\ AnnouncedTrue'
      BY <2>1 DEF FormFits, ResultShown, PayloadFits, AnnouncedTrue
    <2> QED
      BY <2>1, <2>2, <2>3, BackendRests
  <1>5. ASSUME NEW i \in Submits, submitForm(i) \/ RegisterServer(i) \/ Finish(i) PROVE Inv'
    BY <1>5, submitFormKeeps, LookUpKeeps, CreateServerKeeps, CreatedKeeps, TokenOrScriptKeeps,
       SubmitFailsKeeps DEF RegisterServer, Finish
  <1>6. ASSUME NEW s \in DOMAIN servers, AgentConnects(s) PROVE Inv'
    <2>1. /\ UNCHANGED <<page, submit, backend, faults>> /\ UNCHANGED <<request, servers, loose, blind>>
          /\ up' = up \cup {s}
      BY <1>6 DEF AgentConnects, backend
    <2>2. TypeOK'
      BY <2>1 DEF page, TypeOK, Busy
    <2>3. FormFits' /\ ResultShown' /\ PayloadFits' /\ AnnouncedTrue'
      BY <2>1 DEF page, FormFits, ResultShown, PayloadFits, AnnouncedTrue
    <2> QED
      BY <2>1, <2>2, <2>3, BackendRests
  <1>7. ASSUME NEW s \in DOMAIN servers, PollAnswer(s) PROVE Inv'
    BY <1>7, PollAnswerKeeps
  <1>8. CASE UNCHANGED vars
    <2>1. UNCHANGED <<page, submit, backend, up, faults>> /\ UNCHANGED <<request, servers, loose, blind>>
      BY <1>8 DEF vars, backend
    <2>2. TypeOK'
      BY <2>1 DEF page, TypeOK, Busy
    <2>3. FormFits' /\ ResultShown' /\ PayloadFits' /\ AnnouncedTrue'
      BY <2>1 DEF page, FormFits, ResultShown, PayloadFits, AnnouncedTrue
    <2> QED
      BY <2>1, <2>2, <2>3, BackendRests
  <1> QED
    BY <1>1, <1>2, <1>3, <1>4, <1>5, <1>6, <1>7, <1>8 DEF Next, User

\* The invariant holds in every state of the wizard and the backend.
THEOREM OnboardingInvariance == Spec => []Inv
  <1>1. Init => Inv
    <2> SUFFICES ASSUME Init PROVE Inv
      OBVIOUS
    <2>1. form \in Forms /\ FormFits
      BY DEF Init, initialForm, Forms, Systems, Modes, Fillable, FormFits
    <2>2. /\ submit \in [Submits -> Submissions]
          /\ \A i \in Submits : submit[i].ph = "idle"
      BY DEF Init, NoSubmit, Submissions
    <2>3. /\ request \in [Submits -> Requests]
          /\ \A i \in Submits : request[i].ph = "idle"
      BY DEF Init, NoRequest, Requests
    <2>4. TypeOK
      BY <2>1, <2>2, <2>3, FS_EmptySet DEF Init, TypeOK, Busy
    <2>5. PayloadFits
      BY <2>2 DEF PayloadFits
    <2>6. BackendInv
      BY <2>2, <2>3 DEF Init, BackendInv, RequestsFit, LookupsHold, OneRecord, Ids
    <2> QED
      BY <2>1, <2>4, <2>5, <2>6 DEF Init, Inv, PageInv, ResultShown, AnnouncedTrue
  <1> QED
    BY <1>1, OnboardingInvStep, PTL DEF Spec

\* What submitForm sends can be used to reach the server, whatever order the steps of
\* the wizard were visited in.
THEOREM PayloadAlwaysFits == Spec => []PayloadFits
  <1>1. Inv => PayloadFits
    BY DEF Inv, PageInv
  <1> QED
    BY <1>1, OnboardingInvariance, PTL

\* Two records of one address are there only if a lookup of it failed or a request for it
\* ran on after the page had given it up: RegisterServer alone, which looks up and then
\* creates, and the button that waits for its answer admit no other way.
THEOREM AddressTwiceOnlyIfLoose == Spec => []OneRecord
  <1>1. Inv => OneRecord
    BY DEF Inv, BackendInv
  <1> QED
    BY <1>1, OnboardingInvariance, PTL

\* The page announces an agent that did connect, unless it has shown two servers and
\* took the answer of a poll for one for the other.
THEOREM AnnouncementIsTrue == Spec => []AnnouncedTrue
  <1>1. Inv => AnnouncedTrue
    BY DEF Inv, PageInv
  <1> QED
    BY <1>1, OnboardingInvariance, PTL

-----------------------------------------------------------------------------
(* The Build & Artifacts page. *)

\* Without the element at i, a sequence has the others, in their order.
LEMMA Without ==
  ASSUME NEW S, NEW q \in Seq(S), NEW i \in DOMAIN q,
         NEW t, t = RemoveAt(q, i)
  PROVE  /\ t \in Seq(S)
         /\ DOMAIN t = 1..(Len(q) - 1)
         /\ \A j \in DOMAIN t : t[j] = IF j < i THEN q[j] ELSE q[j + 1]
<1> DEFINE a == SubSeq(q, 1, i - 1)
           b == SubSeq(q, i + 1, Len(q))
<1>1. i \in 1..Len(q) /\ Len(q) \in Nat
  OBVIOUS
<1>2. a \in Seq(S) /\ Len(a) = i - 1 /\ \A j \in 1..(i - 1) : a[j] = q[j]
  <2>1. \A j \in 1..(i - 1) : j \in 1..Len(q)
    BY <1>1
  <2> QED BY <1>1, <2>1, SubSeqProperties
<1>3. b \in Seq(S) /\ Len(b) = Len(q) - i /\ \A j \in 1..(Len(q) - i) : b[j] = q[i + j]
  <2>1. \A j \in (i + 1)..Len(q) : j \in 1..Len(q)
    BY <1>1
  <2> QED BY <1>1, <2>1, SubSeqProperties
<1> HIDE DEF a, b
<1>4. a \o b \in Seq(S) /\ Len(a \o b) = Len(q) - 1
  BY <1>1, <1>2, <1>3
<1>5. ASSUME NEW j \in 1..(Len(q) - 1)
      PROVE  (a \o b)[j] = IF j < i THEN q[j] ELSE q[j + 1]
  <2>1. CASE j < i
    BY <1>1, <1>2, <1>3, <1>5, <2>1
  <2>2. CASE ~ j < i
    <3>1. (a \o b)[j] = b[j - Len(a)]
      <4>1. a \in Seq(S) /\ b \in Seq(S) /\ Len(a) \in Nat /\ Len(b) \in Nat
        BY <1>2, <1>3
      <4>2. j \in Int /\ Len(a) < j /\ j <= Len(a) + Len(b)
        BY <1>1, <1>2, <1>3, <1>5, <2>2
      <4>3. j \in 1..(Len(a) + Len(b)) /\ ~ j <= Len(a)
        BY <4>1, <4>2
      <4> QED BY <4>1, <4>3, ConcatProperties
    <3>2. j - (i - 1) \in 1..(Len(q) - i) /\ i + (j - (i - 1)) = j + 1
      BY <1>1, <1>5, <2>2
    <3> QED BY <1>2, <1>3, <2>2, <3>1, <3>2
  <2> QED BY <2>1, <2>2
<1>6. t = a \o b
  BY DEF RemoveAt, a, b
<1>7. DOMAIN t = 1..(Len(q) - 1)
  BY <1>4, <1>6
<1> QED BY <1>4, <1>5, <1>6, <1>7

\* To forget an operation is to keep the others, each once; this one is then
\* nowhere in the store.
LEMMA ForgetKeepsOthers ==
  ASSUME NEW S, stored \in Seq(S), StoredOnce, NEW o,
         NEW t, t = Forget(o)
  PROVE  /\ t \in Seq(S)
         /\ ToSet(t) = ToSet(stored) \ {o}
         /\ \A i, j \in DOMAIN t : t[i] = t[j] => i = j
<1>1. CASE o \notin ToSet(stored)
  BY <1>1 DEF Forget, StoredOnce
<1>2. CASE o \in ToSet(stored)
  <2>1. PICK k : /\ k \in DOMAIN stored /\ stored[k] = o
                 /\ t = RemoveAt(stored, k)
    BY <1>2 DEF Forget, ToSet
  <2>2. /\ t \in Seq(S)
        /\ DOMAIN t = 1..(Len(stored) - 1)
        /\ \A j \in DOMAIN t : t[j] = IF j < k THEN stored[j] ELSE stored[j + 1]
    BY <2>1, Without
  <2>3. DOMAIN stored = 1..Len(stored) /\ Len(stored) \in Nat /\ k \in 1..Len(stored)
    BY <2>1
  <2> DEFINE at(j) == IF j < k THEN j ELSE j + 1
  <2>4. \A j \in DOMAIN t : at(j) \in DOMAIN stored /\ at(j) # k /\ t[j] = stored[at(j)]
    BY <2>2, <2>3
  <2>5. ASSUME NEW i \in DOMAIN stored, i # k
        PROVE  \E j \in DOMAIN t : t[j] = stored[i]
    <3>1. CASE i < k
      <4>1. i \in DOMAIN t /\ t[i] = stored[i]
        BY <2>2, <2>3, <2>5, <3>1
      <4> QED BY <4>1
    <3>2. CASE k < i
      <4>1. i - 1 \in DOMAIN t /\ ~ (i - 1 < k) /\ (i - 1) + 1 = i
        BY <2>2, <2>3, <2>5, <3>2
      <4>2. t[i - 1] = stored[i]
        BY <2>2, <4>1
      <4> QED BY <4>1, <4>2
    <3> QED BY <2>3, <2>5, <3>1, <3>2
  <2>6. \A i \in DOMAIN stored : stored[i] = o => i = k
    BY <2>1 DEF StoredOnce
  <2>7. ToSet(t) = ToSet(stored) \ {o}
    <3>1. ASSUME NEW x \in ToSet(t)
          PROVE  x \in ToSet(stored) \ {o}
      <4>1. PICK j \in DOMAIN t : x = t[j]
        BY DEF ToSet
      <4>2. at(j) \in DOMAIN stored /\ at(j) # k /\ x = stored[at(j)]
        BY <2>4, <4>1
      <4> HIDE DEF at
      <4> QED BY <2>6, <4>2 DEF ToSet
    <3>2. ASSUME NEW x \in ToSet(stored) \ {o}
          PROVE  x \in ToSet(t)
      <4>1. PICK i \in DOMAIN stored : x = stored[i]
        BY DEF ToSet
      <4>2. i # k
        BY <2>1, <4>1
      <4> QED BY <2>5, <4>1, <4>2 DEF ToSet
    <3> QED BY <3>1, <3>2
  <2>8. ASSUME NEW i \in DOMAIN t, NEW j \in DOMAIN t, t[i] = t[j]
        PROVE  i = j
    <3>1. at(i) = at(j)
      <4> HIDE DEF at
      <4> QED BY <2>4, <2>8 DEF StoredOnce
    <3>2. i \in Int /\ j \in Int /\ k \in Int
      BY <2>2, <2>3
    <3> QED BY <3>1, <3>2
  <2> QED BY <2>2, <2>7, <2>8
<1> QED BY <1>1, <1>2

\* What is left in the store are records of operations, each once.
LEMMA ForgetKeeps ==
  ASSUME BuildTypeOK, StoredOnce, NEW o, stored' = Forget(o)
  PROVE  /\ stored' \in Seq(Ops)
         /\ StoredOnce'
         /\ \A x \in ToSet(stored) : x \notin ToSet(stored') => x = o
<1>1. stored \in Seq(Ops)
  BY DEF BuildTypeOK
<1> QED BY <1>1, ForgetKeepsOthers DEF StoredOnce

\* To remember an operation is to forget nothing.
LEMMA RememberKeeps ==
  ASSUME BuildTypeOK, StoredOnce, NEW o \in Ops, stored' = Remember(o)
  PROVE  /\ stored' \in Seq(Ops)
         /\ StoredOnce'
         /\ ToSet(stored) \subseteq ToSet(stored')
<1> DEFINE t == Forget(o)
<1>1. /\ t \in Seq(Ops)
      /\ ToSet(t) = ToSet(stored) \ {o}
      /\ \A i, j \in DOMAIN t : t[i] = t[j] => i = j
  <2>1. stored \in Seq(Ops)
    BY DEF BuildTypeOK
  <2> QED BY <2>1, ForgetKeepsOthers
<1>2. stored' = Append(t, o)
  BY DEF Remember
<1> HIDE DEF t
<1>3. /\ stored' \in Seq(Ops)
      /\ DOMAIN stored' = 1..(Len(t) + 1) /\ DOMAIN t = 1..Len(t) /\ Len(t) \in Nat
      /\ \A i \in DOMAIN t : stored'[i] = t[i]
      /\ stored'[Len(t) + 1] = o
  BY <1>1, <1>2
<1>4. o \notin ToSet(t)
  BY <1>1
<1>5. \A i \in DOMAIN t : t[i] # o
  BY <1>4 DEF ToSet
<1>6. StoredOnce'
  <2> SUFFICES ASSUME NEW i \in DOMAIN stored', NEW j \in DOMAIN stored', stored'[i] = stored'[j]
               PROVE  i = j
    BY DEF StoredOnce
  <2>1. \A k \in DOMAIN stored' : k \in DOMAIN t \/ k = Len(t) + 1
    BY <1>3
  <2> QED BY <1>1, <1>3, <1>5, <2>1
<1>7. ASSUME NEW x \in ToSet(stored)
      PROVE  x \in ToSet(stored')
  <2>1. CASE x = o
    <3>1. Len(t) + 1 \in DOMAIN stored'
      BY <1>3
    <3> QED BY <1>3, <2>1, <3>1 DEF ToSet
  <2>2. CASE x # o
    <3>1. x \in ToSet(t)
      BY <1>1, <2>2
    <3>2. PICK i \in DOMAIN t : x = t[i]
      BY <3>1 DEF ToSet
    <3>3. i \in DOMAIN stored' /\ stored'[i] = x
      BY <1>3, <3>2
    <3> QED BY <3>3 DEF ToSet
  <2> QED BY <2>1, <2>2
<1> QED BY <1>3, <1>6, <1>7

\* A stream goes on with the operation it has, or its slot is free.
GoesOn(s) ==
    \/ stream'[s].ph = "free" /\ ~ stream'[s].again
    \/ /\ stream'[s].kind = stream[s].kind /\ stream'[s].env = stream[s].env
       /\ stream'[s].op = stream[s].op /\ stream'[s].again = stream[s].again
       /\ stream'[s].ph = stream[s].ph

LEMMA GoingOn ==
  ASSUME StreamsOK, Ops \subseteq Ops', \A s \in Streams : GoesOn(s)
  PROVE  StreamsOK'
  BY DEF StreamsOK, Live, GoesOn

LEMMA FreeIsStream == Free \in Stream
  BY DEF Free, Stream, None

\* A stream that gets on is still a stream.
LEMMA PhaseKeeps ==
  ASSUME BuildTypeOK, NEW s \in Streams, NEW p \in {"free", "sent", "open", "told"},
         NEW n \in Nat,
         \/ stream' = [stream EXCEPT ![s].ph = p]
         \/ stream' = [stream EXCEPT ![s].ph = p, ![s].op = n]
  PROVE  stream' \in [Streams -> Stream]
<1>1. stream \in [Streams -> Stream]
  BY DEF BuildTypeOK
<1>2. stream[s] \in Stream
  BY <1>1
<1>3. /\ [stream[s] EXCEPT !.ph = p] \in Stream
      /\ [stream[s] EXCEPT !.ph = p, !.op = n] \in Stream
  BY <1>2 DEF Stream
<1>4. PICK x \in Stream : stream' = [stream EXCEPT ![s] = x]
  <2>1. CASE stream' = [stream EXCEPT ![s].ph = p]
    <3>1. stream' = [stream EXCEPT ![s] = [stream[s] EXCEPT !.ph = p]]
      BY <2>1
    <3> QED BY <1>3, <3>1
  <2>2. CASE stream' = [stream EXCEPT ![s].ph = p, ![s].op = n]
    <3>1. stream' = [stream EXCEPT ![s] = [stream[s] EXCEPT !.ph = p, !.op = n]]
      BY <1>1, <2>2
    <3> QED BY <1>3, <3>1
  <2> QED BY <2>1, <2>2
<1> QED BY <1>1, <1>4

\* The end of a stream frees its slot and lets the others go on.
LEMMA ClosedKeeps ==
  ASSUME BuildTypeOK, NEW s \in Streams, stream' = Closed(s)
  PROVE  /\ stream' \in [Streams -> Stream]
         /\ \A x \in Streams : GoesOn(x)
         /\ stream'[s].ph = "free"
<1>1. ASSUME NEW x \in Streams
      PROVE  stream'[x] \in Stream /\ GoesOn(x)
  <2>1. CASE x = s
    BY <2>1, FreeIsStream DEF Closed, Free, GoesOn
  <2>2. CASE x # s
    <3>1. PICK b \in BOOLEAN : stream'[x] = [stream[x] EXCEPT !.ref = b]
      <4> DEFINE b == stream[x].ref /\ (stream[s].again \/ stream[x].kind # stream[s].kind
                                                        \/ stream[x].by # stream[s].by)
      <4>1. stream'[x] = [stream[x] EXCEPT !.ref = b] /\ b \in BOOLEAN
        BY <2>2 DEF Closed
      <4> QED BY <4>1
    <3>2. stream[x] \in Stream
      BY DEF BuildTypeOK
    <3> QED BY <3>1, <3>2 DEF Stream, GoesOn
  <2> QED BY <2>1, <2>2
<1>2. stream' = [x \in Streams |-> stream'[x]]
  BY DEF Closed
<1>3. stream'[s] = Free
  BY DEF Closed
<1> QED BY <1>1, <1>2, <1>3 DEF Free

LEMMA LoweredType ==
  ASSUME BuildTypeOK, NEW s \in Streams
  PROVE  Lowered(s) \in [Kinds -> BOOLEAN]
  BY DEF BuildTypeOK, Lowered

\* Which records a step removes: none of an operation that runs, but by the end of a
\* reconnect to it.
Kept ==
    \A o \in ToSet(stored) :
        Running(o) /\ o \notin ToSet(stored') =>
            \E s \in Streams : /\ stream[s].again
                               /\ stream[s].op = o
                               /\ stream'[s].ph = "free"

LEMMA EndedKeeps ==
  ASSUME BuildInv, NEW s \in Streams, Ended(s), UNCHANGED <<ops, visit, env>>,
         mishaps' \in Nat
  PROVE  BuildInv' /\ Kept
<1> USE DEF BuildInv
<1>1. /\ stream' \in [Streams -> Stream]
      /\ StreamsOK'
      /\ stream'[s].ph = "free"
  BY ClosedKeeps, GoingOn DEF Ended, Ops
<1>2. running' \in [Kinds -> BOOLEAN]
  BY LoweredType DEF Ended
<1>3. CASE stream[s].again
  <2>1. stored' = Forget(stream[s].op)
    BY <1>3 DEF Ended
  <2> QED BY <1>1, <1>2, <1>3, <2>1, ForgetKeeps DEF BuildTypeOK, Ops, Operation, Kept
<1>4. CASE ~ stream[s].again
  <2>1. stored' = stored
    BY <1>4 DEF Ended
  <2> QED BY <1>1, <1>2, <2>1 DEF BuildTypeOK, StoredOnce, Ops, Operation, Kept
<1> QED BY <1>3, <1>4

\* A finite set can be listed.
LEMMA Listed ==
  ASSUME NEW S, IsFiniteSet(S), NEW q, q = SetToSeq(S)
  PROVE  /\ q \in [1..Cardinality(S) -> S]
         /\ Cardinality(S) \in Nat
<1>1. PICK f : f \in Bijection(1..Cardinality(S), S)
  BY FS_CardinalityType DEF ExistsBijection
<1>2. f \in [1..Cardinality(S) -> S] /\ IsInjective(f)
  BY <1>1 DEF Bijection, Injection
<1>3. q \in [1..Cardinality(S) -> S]
  BY <1>2 DEF SetToSeq
<1> QED BY <1>3, FS_CardinalityType

LEMMA StoredAreOps ==
  ASSUME BuildTypeOK, NEW e
  PROVE  StoredIn(e) \subseteq Ops /\ IsFiniteSet(StoredIn(e))
<1>1. ToSet(stored) \subseteq Ops
  BY DEF BuildTypeOK, ToSet
<1>2. Ops = 1..Len(ops) /\ Len(ops) \in Int
  BY DEF BuildTypeOK, Ops
<1>3. IsFiniteSet(Ops)
  BY <1>2, FS_Interval
<1>4. StoredIn(e) \in SUBSET Ops
  BY <1>1 DEF StoredIn
<1> QED BY <1>3, <1>4, FS_Subset

\* The effect on the environment streams operations of the store; the rest goes on.
LEMMA ReconnectKeeps ==
  ASSUME BuildTypeOK, StreamsOK, NEW e \in Envs, NEW v \in Nat,
         Reconnect(e, v), UNCHANGED ops
  PROVE  stream' \in [Streams -> Stream] /\ StreamsOK'
<1> DEFINE again == SetToSeq(StoredIn(e))
           slots == SetToSeq({s \in Streams : ~ Live(s)})
           told(s) == \E i \in DOMAIN again : slots[i] = s
           op(s) == again[CHOOSE i \in DOMAIN again : slots[i] = s]
<1>1. again \in [1..Cardinality(StoredIn(e)) -> StoredIn(e)]
  BY StoredAreOps, Listed
<1>2. /\ stream' = [s \in Streams |-> stream'[s]]
      /\ \A s \in Streams :
            stream'[s] = IF told(s)
                         THEN [Free EXCEPT !.ph = "sent", !.op = op(s), !.kind = ops[op(s)].kind,
                                                  !.env = e, !.by = v, !.again = TRUE]
                         ELSE stream[s]
  BY DEF Reconnect
<1> HIDE DEF again, slots
<1>3. ASSUME NEW s \in Streams, told(s)
      PROVE  op(s) \in Ops
  BY <1>1, <1>3, StoredAreOps
<1>4. \A o \in Ops : o \in Nat /\ ops[o].kind \in Kinds
  <2>1. ops \in Seq(Operation)
    BY DEF BuildTypeOK
  <2>2. \A o \in Ops : o \in Nat /\ ops[o] \in Operation
    BY <2>1 DEF Ops
  <2> QED BY <2>2 DEF Operation
<1> HIDE DEF told, op
<1>5. ASSUME NEW s \in Streams
      PROVE  /\ stream'[s] \in Stream
             /\ Live(s)' => stream'[s].kind \in Kinds /\ stream'[s].env \in Envs
             /\ stream'[s].ph \in {"open", "told"} \/ stream'[s].again => stream'[s].op \in Ops
  <2>1. CASE told(s)
    <3>1. stream'[s] = [ph |-> "sent", op |-> op(s), kind |-> ops[op(s)].kind, env |-> e, by |-> v,
                        ref |-> FALSE, again |-> TRUE]
      BY <1>2, <2>1 DEF Free
    <3> QED BY <1>3, <1>4, <2>1, <3>1 DEF Stream, Live
  <2>2. CASE ~ told(s)
    <3>1. stream'[s] = stream[s]
      BY <1>2, <2>2
    <3> QED BY <3>1 DEF BuildTypeOK, StreamsOK, Live
  <2> QED BY <2>1, <2>2
<1> QED BY <1>2, <1>5 DEF StreamsOK, Ops

LEMMA RaisedType ==
  ASSUME NEW e, NEW flags \in [Kinds -> BOOLEAN]
  PROVE  Raised(e, flags) \in [Kinds -> BOOLEAN]
  BY DEF Raised

\* Opening the page and selecting an environment.
LEMMA VisitKeeps ==
  ASSUME BuildInv, NEW e \in Envs, Visit(e) \/ Select(e)
  PROVE  BuildInv' /\ Kept
<1> USE DEF BuildInv
<1>1. /\ UNCHANGED <<ops, stored, mishaps>>
      /\ visit' \in Nat
      /\ env' = e
      /\ Reconnect(e, visit')
  <2>1. visit \in Nat
    BY DEF BuildTypeOK
  <2>2. CASE Visit(e)
    BY <2>1, <2>2 DEF Visit
  <2>3. CASE Select(e)
    <3>1. visit' = visit /\ Reconnect(e, visit)
      BY <2>3 DEF Select
    <3>2. Reconnect(e, visit')
      BY <3>1
    <3> QED BY <2>1, <2>3, <3>1, <3>2 DEF Select
  <2> QED BY <2>2, <2>3
<1>2. running' \in [Kinds -> BOOLEAN]
  <2>1. CASE Visit(e)
    <3>1. [k \in Kinds |-> FALSE] \in [Kinds -> BOOLEAN]
      OBVIOUS
    <3>2. running' = Raised(e, [k \in Kinds |-> FALSE])
      BY <2>1 DEF Visit
    <3> QED BY <3>1, <3>2, RaisedType
  <2>2. CASE Select(e)
    <3>1. running \in [Kinds -> BOOLEAN] /\ running' = Raised(e, running)
      BY <2>2 DEF Select, BuildTypeOK
    <3> QED BY <3>1, RaisedType
  <2> QED BY <2>1, <2>2
<1>3. stream' \in [Streams -> Stream] /\ StreamsOK'
  BY <1>1, ReconnectKeeps
<1> QED BY <1>1, <1>2, <1>3 DEF BuildTypeOK, StoredOnce, Ops, Operation, Kept

LEMMA LeaveKeeps ==
  ASSUME BuildInv, NEW reload \in BOOLEAN, Leave(reload)
  PROVE  BuildInv' /\ Kept
<1> USE DEF BuildInv
<1>1. /\ UNCHANGED <<ops, visit, stored, mishaps>>
      /\ env' = None
      /\ running' \in [Kinds -> BOOLEAN]
  BY DEF Leave
<1>2. stream' = stream \/ stream' = [s \in Streams |-> Free]
  BY DEF Leave
<1>3. stream' \in [Streams -> Stream]
  BY <1>2, FreeIsStream DEF BuildTypeOK
<1>4. \A s \in Streams : GoesOn(s)
  BY <1>2 DEF GoesOn, Free
<1>5. StreamsOK'
  BY <1>1, <1>4, GoingOn DEF Ops
<1> QED BY <1>1, <1>3, <1>5 DEF BuildTypeOK, StoredOnce, Ops, Operation, Kept

\* A build, an import or a rebuild is started.
LEMMA RunKeeps ==
  ASSUME BuildInv, NEW s \in Streams, NEW k \in Kinds, run(s, k)
  PROVE  BuildInv' /\ Kept
<1> USE DEF BuildInv
<1>1. /\ UNCHANGED <<ops, visit, env, stored, mishaps>>
      /\ env \in Envs
      /\ running' \in [Kinds -> BOOLEAN]
  BY DEF run, BuildTypeOK, Here
<1>2. ASSUME NEW x \in Streams
      PROVE  /\ stream'[x] \in Stream
             /\ Live(x)' => stream'[x].kind \in Kinds /\ stream'[x].env \in Envs
             /\ stream'[x].ph \in {"open", "told"} \/ stream'[x].again => stream'[x].op \in Ops
  <2>1. CASE x = s
    <3>1. stream'[x] = [ph |-> "sent", op |-> 0, kind |-> k, env |-> env, by |-> visit,
                        ref |-> TRUE, again |-> FALSE]
      BY <2>1 DEF run, Free
    <3> QED BY <1>1, <3>1 DEF Stream, BuildTypeOK
  <2>2. CASE x # s
    <3>1. PICK b \in BOOLEAN : stream'[x] = [stream[x] EXCEPT !.ref = b]
      <4> DEFINE b == stream[x].ref /\ ~ (stream[x].kind = k /\ stream[x].by = visit)
      <4>1. stream'[x] = [stream[x] EXCEPT !.ref = b] /\ b \in BOOLEAN
        BY <2>2 DEF run
      <4> QED BY <4>1
    <3>2. stream[x] \in Stream
      BY DEF BuildTypeOK
    <3> QED BY <3>1, <3>2 DEF Stream, StreamsOK, Live
  <2> QED BY <2>1, <2>2
<1>3. stream' = [x \in Streams |-> stream'[x]]
  BY DEF run
<1> QED BY <1>1, <1>2, <1>3
      DEF BuildTypeOK, StreamsOK, StoredOnce, Ops, Operation, Kept

\* The id of an operation is read off its stream and stored.
LEMMA MetaKeeps ==
  ASSUME BuildInv, NEW s \in Streams, Meta(s)
  PROVE  BuildInv' /\ Kept
<1> USE DEF BuildInv
<1>1. /\ UNCHANGED <<ops, visit, env, running, mishaps>>
      /\ stream' = [stream EXCEPT ![s].ph = "told"]
      /\ stored' = Remember(stream[s].op)
      /\ stream[s].ph = "open"
  BY DEF Meta
<1>2. stream[s].op \in Ops
  BY <1>1 DEF StreamsOK
<1>3. /\ stored' \in Seq(Ops)
      /\ StoredOnce'
      /\ ToSet(stored) \subseteq ToSet(stored')
  BY <1>1, <1>2, RememberKeeps
<1>4. stream' \in [Streams -> Stream]
  BY <1>1, PhaseKeeps
<1>5. StreamsOK'
  BY <1>1, <1>2 DEF BuildTypeOK, StreamsOK, Live, Stream, Ops
<1> QED BY <1>1, <1>3, <1>4, <1>5 DEF BuildTypeOK, Ops, Operation, Kept

\* The result of an operation arrives: it does not run any more.
LEMMA ResultKeeps ==
  ASSUME BuildInv, NEW s \in Streams, Result(s)
  PROVE  BuildInv' /\ Kept
<1> USE DEF BuildInv
<1>1. /\ UNCHANGED <<ops, visit, env, mishaps>>
      /\ stream' = Closed(s)
      /\ stored' = Forget(stream[s].op)
      /\ running' = Lowered(s)
      /\ ops[stream[s].op].st = "done"
  BY DEF Result
<1>2. stream' \in [Streams -> Stream] /\ StreamsOK'
  BY <1>1, ClosedKeeps, GoingOn DEF Ops
<1>3. running' \in [Kinds -> BOOLEAN]
  BY <1>1, LoweredType
<1>4. /\ stored' \in Seq(Ops)
      /\ StoredOnce'
      /\ \A x \in ToSet(stored) : x \notin ToSet(stored') => x = stream[s].op
  BY <1>1, ForgetKeeps
<1>5. Kept
  BY <1>1, <1>4 DEF Kept, Running
<1> QED BY <1>1, <1>2, <1>3, <1>4, <1>5 DEF BuildTypeOK, Ops, Operation

\* The streams that end without a result.
LEMMA EndKeeps ==
  ASSUME BuildInv, NEW s \in Streams,
         Disconnect(s) \/ Refuse(s) \/ HangUp(s) \/ streamDockerOperation(s)
  PROVE  BuildInv' /\ Kept
<1> USE DEF BuildInv
<1>1. UNCHANGED <<ops, visit, env>> /\ mishaps' \in Nat
  BY DEF Disconnect, Refuse, HangUp, streamDockerOperation, BuildTypeOK
<1>2. CASE Ended(s)
  BY <1>1, <1>2, EndedKeeps
<1>3. CASE ~ Ended(s)
  <2>1. /\ UNCHANGED <<running, stored>>
        /\ stream' = [stream EXCEPT ![s].ph = "open"]
        /\ stream[s].again /\ stream[s].ph = "sent"
    BY <1>3 DEF Disconnect, Refuse, HangUp, streamDockerOperation
  <2>2. stream' \in [Streams -> Stream]
    BY <2>1, PhaseKeeps
  <2>3. StreamsOK'
    BY <1>1, <2>1 DEF BuildTypeOK, StreamsOK, Live, Stream, Ops
  <2> QED BY <1>1, <2>1, <2>2, <2>3 DEF BuildTypeOK, StoredOnce, Ops, Operation, Kept
<1> QED BY <1>2, <1>3

\* Cancelling asks the API, or ends the stream of a start that has no record.
LEMMA CancelKeeps ==
  ASSUME BuildInv, NEW k \in Kinds, cancelOperation(k)
  PROVE  BuildInv' /\ Kept
<1> USE DEF BuildInv
<1> DEFINE own == {s \in Streams : stream[s].ref /\ stream[s].kind = k /\ stream[s].by = visit}
<1>1. UNCHANGED <<ops, visit, env, mishaps>> /\ mishaps' \in Nat
  BY DEF cancelOperation, BuildTypeOK
<1>2. CASE own # {} /\ Ended(CHOOSE s \in own : TRUE)
  <2>1. PICK s \in Streams : Ended(s)
    <3>1. (CHOOSE s \in own : TRUE) \in Streams
      BY <1>2
    <3> HIDE DEF own
    <3> QED BY <1>2, <3>1
  <2> QED BY <1>1, <2>1, EndedKeeps
<1>3. CASE UNCHANGED <<stream, running, stored>>
  BY <1>1, <1>3
  DEF BuildTypeOK, StreamsOK, Live, StoredOnce, Ops, Operation, Kept
<1> QED BY <1>2, <1>3 DEF cancelOperation

LEMMA CancelledKeeps ==
  ASSUME BuildInv, NEW c, cancelDockerOperation(c)
  PROVE  BuildInv' /\ Kept
<1> USE DEF BuildInv
<1>1. UNCHANGED <<ops, visit, env, stored, mishaps>>
  BY DEF cancelDockerOperation
<1>2. running' \in [Kinds -> BOOLEAN]
  BY DEF cancelDockerOperation, BuildTypeOK
<1>3. PICK cut : stream' = [s \in Streams |-> IF s \in cut THEN Free ELSE stream[s]]
  BY DEF cancelDockerOperation
<1>4. stream' \in [Streams -> Stream]
  BY <1>3, FreeIsStream DEF BuildTypeOK
<1>5. \A s \in Streams : GoesOn(s)
  BY <1>3 DEF GoesOn, Free
<1>6. StreamsOK'
  BY <1>1, <1>5, GoingOn DEF Ops
<1> QED BY <1>1, <1>2, <1>4, <1>6 DEF BuildTypeOK, StoredOnce, Ops, Operation, Kept

\* What the operations do in the API leaves the store alone.
LEMMA OpsKeep ==
  ASSUME BuildTypeOK, StoredOnce, UNCHANGED <<visit, env, running, stored>>,
         ops' \in Seq(Operation), Ops \subseteq Ops',
         stream' \in [Streams -> Stream], StreamsOK', mishaps' \in Nat
  PROVE  BuildInv' /\ Kept
<1>1. stored' \in Seq(Ops')
  <2>1. stored \in Seq(Ops) /\ stored' = stored
    BY DEF BuildTypeOK
  <2> QED BY <2>1
<1>2. BuildTypeOK'
  BY <1>1 DEF BuildTypeOK, Operation, Stream
<1>3. StoredOnce' /\ Kept
  BY DEF StoredOnce, Kept
<1> QED BY <1>2, <1>3 DEF BuildInv

LEMMA NewKeeps ==
  ASSUME BuildInv, NEW s \in Streams, newRuntimeOperation(s)
  PROVE  BuildInv' /\ Kept
<1> USE DEF BuildInv
<1> DEFINE o == [env |-> stream[s].env, kind |-> stream[s].kind, st |-> "running"]
<1>1. /\ UNCHANGED <<visit, env, running, stored, mishaps>>
      /\ ops' = Append(ops, o)
      /\ stream' = [stream EXCEPT ![s].ph = "open", ![s].op = Len(ops')]
      /\ stream[s].ph = "sent" /\ ~ stream[s].again
  BY DEF newRuntimeOperation
<1>2. o \in Operation
  BY <1>1 DEF StreamsOK, Live, Operation
<1>3. ops \in Seq(Operation)
  BY DEF BuildTypeOK
<1> HIDE DEF o
<1>4. /\ ops' \in Seq(Operation)
      /\ Len(ops') \in Nat /\ Len(ops') \in DOMAIN ops' /\ DOMAIN ops \subseteq DOMAIN ops'
  BY <1>1, <1>2, <1>3
<1>5. stream' \in [Streams -> Stream]
  BY <1>1, <1>4, PhaseKeeps
<1>6. StreamsOK'
  BY <1>1, <1>4 DEF BuildTypeOK, StreamsOK, Live, Stream, Ops
<1>7. mishaps' \in Nat
  BY <1>1 DEF BuildTypeOK
<1> QED BY <1>1, <1>4, <1>5, <1>6, <1>7, OpsKeep DEF Ops

\* An operation ends, or the API forgets them all.
LEMMA EndsKeep ==
  ASSUME BuildInv, Restart \/ \E o \in Ops : finish(o)
  PROVE  BuildInv' /\ Kept
<1> USE DEF BuildInv
<1>1. UNCHANGED <<visit, env, running, stored, stream>> /\ mishaps' \in Nat
  BY DEF Restart, finish, BuildTypeOK
<1>2. ops \in Seq(Operation) /\ DOMAIN ops = 1..Len(ops) /\ Len(ops) \in Nat
  BY DEF BuildTypeOK
<1>3. /\ ops' = [o \in 1..Len(ops) |-> ops'[o]]
      /\ \A o \in 1..Len(ops) : ops'[o] \in Operation
  <2>1. \A o \in 1..Len(ops) : ops[o] \in Operation
    BY <1>2
  <2>2. CASE Restart
    BY <1>2, <2>1, <2>2 DEF Restart, Ops, Operation
  <2>3. ASSUME NEW o \in Ops, finish(o)
        PROVE  <1>3
    BY <1>2, <2>1, <2>3 DEF finish, Operation
  <2> QED BY <2>2, <2>3
<1>4. ops' \in Seq(Operation) /\ DOMAIN ops' = DOMAIN ops
  BY <1>2, <1>3
<1>5. StreamsOK' /\ stream' \in [Streams -> Stream]
  BY <1>1, <1>4 DEF StreamsOK, Live, Ops, BuildTypeOK
<1> QED BY <1>1, <1>4, <1>5, OpsKeep DEF Ops

LEMMA InitKeeps == BuildInit => BuildInv
<1> SUFFICES ASSUME BuildInit PROVE BuildInv
  OBVIOUS
<1>1. /\ visit = 0 /\ env = None /\ mishaps = 0
      /\ running \in [Kinds -> BOOLEAN]
  BY DEF BuildInit
<1>2. CASE /\ ops = <<>> /\ stored = <<>>
           /\ stream = [s \in Streams |-> Free]
  BY <1>1, <1>2, FreeIsStream
  DEF BuildInv, BuildTypeOK, StreamsOK, StoredOnce, Live, Free
<1>3. ASSUME NEW e \in Envs, NEW k \in Kinds, NEW live,
             ops = <<[env |-> e, kind |-> k, st |-> "running"]>>, stored = << 1 >>,
             stream = [s \in Streams |->
                          IF s \in live
                          THEN [Free EXCEPT !.ph = "told", !.op = 1, !.kind = ops[1].kind,
                                                   !.env = ops[1].env, !.ref = TRUE]
                          ELSE Free]
      PROVE  BuildInv
  <2>1. ops \in Seq(Operation) /\ Ops = {1} /\ ops[1].kind = k /\ ops[1].env = e
    BY <1>3 DEF Operation, Ops
  <2>2. stored \in Seq(Ops) /\ DOMAIN stored = {1}
    BY <1>3, <2>1
  <2>3. \A s \in Streams :
          \/ stream[s] = Free
          \/ stream[s] = [ph |-> "told", op |-> 1, kind |-> k, env |-> e, by |-> 0, ref |-> TRUE,
                          again |-> FALSE]
    BY <1>3, <2>1 DEF Free
  <2>4. /\ stream = [s \in Streams |-> stream[s]]
        /\ \A s \in Streams : stream[s] \in Stream
    BY <1>3, <2>3, FreeIsStream DEF Stream
  <2>5. StreamsOK
    BY <2>1, <2>3 DEF StreamsOK, Live, Free
  <2> QED BY <1>1, <2>1, <2>2, <2>4, <2>5 DEF BuildInv, BuildTypeOK, StoredOnce
<1> QED BY <1>2, <1>3 DEF BuildInit

LEMMA BuildStep ==
  ASSUME BuildInv, [BuildNext]_buildVars
  PROVE  BuildInv' /\ Kept
<1>1. CASE UNCHANGED buildVars
  BY <1>1 DEF buildVars, BuildInv, BuildTypeOK, StreamsOK, Live,
              StoredOnce, Ops, Operation, Kept
<1>2. CASE BuildNext
  <2>1. ASSUME NEW s \in Streams, Follow(s) \/ Disconnect(s)
        PROVE  BuildInv' /\ Kept
    BY <2>1, NewKeeps, EndKeeps, MetaKeeps, ResultKeeps DEF Follow
  <2> QED BY <1>2, <2>1, VisitKeeps, LeaveKeeps, RunKeeps, CancelKeeps, CancelledKeeps, EndsKeep
          DEF BuildNext
<1> QED BY <1>1, <1>2

\* For any kinds, environments, streams, operations and mishaps: every record is of an
\* operation the API has created, once, and every stream of the operation it was told.
THEOREM BuildsInvariance == BuildSpec => []BuildInv
<1>1. BuildInv /\ [BuildNext]_buildVars => BuildInv'
  BY BuildStep
<1> QED BY <1>1, InitKeeps, PTL DEF BuildSpec

\* The record of an operation that runs is removed only by the end of a reconnect to it.
THEOREM RecordsAreKept == BuildSpec => Remembered
<1>1. BuildInv /\ [BuildNext]_buildVars => [Kept]_buildVars
  BY BuildStep
<1> QED BY <1>1, BuildsInvariance, PTL DEF BuildSpec, Remembered, Kept
=============================================================================
