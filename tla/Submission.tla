------------------------------ MODULE Submission ------------------------------
(***************************************************************************)
(* From the lead file a user drops on the compose form to the rows and jobs *)
(* of a campaign: the asynchronous read of the file, parseLeads, the submit *)
(* and what the form does with the answer, and POST /campaigns with its     *)
(* transaction and its enqueue as separate steps.                           *)
(*                                                                         *)
(* A token of a file is its address, how it is written and what the two     *)
(* validations make of it.  What becomes of the rows is SendPipeline's.     *)
(***************************************************************************)
EXTENDS Naturals, Sequences, SequencesExt

CONSTANTS
  Boxes,        \* addresses, however they are written
  Contents,     \* what a dropped file may hold: sequences of tokens
  ScriptBodies, \* recipients that scripts post directly
  MaxBody,      \* recipients that fit the body limit of express.json()
  MaxDrops,     \* bound: files dropped
  MaxRequests,  \* bound: requests posted
  Budget        \* how many faults of each kind a behaviour may contain

(* A database call, a Redis call or the connection fails, the API dies, the *)
(* user reloads the page.                                                   *)
FaultKinds == {"db", "redis", "net", "crash", "reload"}

(* "address" passes EMAIL_RE and Zod's email(), "loose" only the former,    *)
(* "broken" has an @ and passes neither, "word" has none.                   *)
Kinds == {"address", "loose", "broken", "word"}

Tokens == [box : Boxes, upper : BOOLEAN, kind : Kinds]

ASSUME SubmissionAssumption ==
  /\ MaxBody \in Nat /\ MaxDrops \in Nat /\ MaxRequests \in Nat
  /\ Budget \in [FaultKinds -> Nat]
  /\ Contents \subseteq Seq(Tokens) /\ ScriptBodies \subseteq Seq(Tokens)

Drops == 1 .. MaxDrops
Requests == 1 .. MaxRequests

VARIABLES
  texts,    \* the tokens of the files dropped, in order
  reading,  \* drops whose file.text() has not resolved yet
  fileName, \* the drop whose name the form shows, 0 for none
  leads,    \* the parsed leads, with the drop they come from
  pending,  \* the request the form waits for, 0 for none
  request,  \* per request: its origin, its body, its stage, what the user was told
  rows,     \* per request: the recipients of the rows it committed, in seq order
  jobs,     \* per request: how many of its rows have been enqueued
  left      \* faults still allowed

formVars == <<reading, fileName, leads, pending>>
vars == <<texts, formVars, request, rows, jobs, left>>

NoLeads == [drop |-> 0, valid |-> << >>, invalid |-> 0, duplicates |-> 0]
NoRequest == [drop |-> 0, recipients |-> << >>, stage |-> "none", told |-> "nothing"]

Stages == {"none", "posted", "lost", "refused", "committed", "enqueued", "created", "error"}

TypeOK ==
  /\ texts \in Seq(Contents)
  /\ reading \subseteq DOMAIN texts
  /\ fileName \in {0} \cup DOMAIN texts
  /\ leads \in [drop : {0} \cup DOMAIN texts, valid : Seq(Tokens), invalid : Nat,
               duplicates : Nat]
  /\ pending \in Requests \cup {0}
  /\ request \in [Requests -> [drop : {0} \cup DOMAIN texts, recipients : Seq(Tokens),
                               stage : Stages, told : {"nothing", "success", "error"}]]
  /\ rows \in [Requests -> Seq(Tokens)]
  /\ jobs \in [Requests -> Nat] /\ \A r \in Requests : jobs[r] <= Len(rows[r])
  /\ left \in [FaultKinds -> Nat]

Init ==
  /\ texts = << >>
  /\ reading = {}
  /\ fileName = 0
  /\ leads = NoLeads
  /\ pending = 0
  /\ request = [r \in Requests |-> NoRequest]
  /\ rows = [r \in Requests |-> << >>]
  /\ jobs = [r \in Requests |-> 0]
  /\ left = Budget

Fault(k) == left[k] > 0 /\ left' = [left EXCEPT ![k] = @ - 1]

Stage(r, stage) == request' = [request EXCEPT ![r].stage = stage]

-----------------------------------------------------------------------------
(* parseLeads *)

Lowered(t) == [t EXCEPT !.upper = FALSE]

\* Variant: the set of addresses seen holds them as they are written.
AddTokenAsWritten(p, t) ==
  CASE t.kind = "word" -> p
    [] t.kind = "broken" -> [p EXCEPT !.invalid = @ + 1]
    [] OTHER -> IF Contains(p.valid, t)
                THEN [p EXCEPT !.duplicates = @ + 1]
                ELSE [p EXCEPT !.valid = Append(@, t)]

AddToken(p, t) ==
  CASE t.kind = "word" -> p
    [] t.kind = "broken" -> [p EXCEPT !.invalid = @ + 1]
    [] OTHER -> IF Contains(p.valid, Lowered(t))
                THEN [p EXCEPT !.duplicates = @ + 1]
                ELSE [p EXCEPT !.valid = Append(@, Lowered(t))]

ParseLeads(d) == FoldLeft(AddToken, [NoLeads EXCEPT !.drop = d], texts[d])

-----------------------------------------------------------------------------
(* The compose form *)

\* onFiles: the name is shown at once, the text read in the background.
DropFile(d, text) ==
  /\ d = Len(texts) + 1
  /\ texts' = Append(texts, text)
  /\ fileName' = d
  /\ reading' = reading \cup {d}
  /\ UNCHANGED <<leads, pending, request, rows, jobs, left>>

FileRead(d) ==
  /\ d \in reading
  /\ reading' = reading \ {d}
  /\ leads' = ParseLeads(d)
  /\ UNCHANGED <<texts, fileName, pending, request, rows, jobs, left>>

Post(r, d, recipients) ==
  /\ request[r].stage = "none" /\ \A q \in 1 .. r - 1 : request[q].stage # "none"
  /\ request' = [request EXCEPT ![r] = [drop |-> d, recipients |-> recipients,
                                        stage |-> "posted", told |-> "nothing"]]

\* Variant: the button does not know of the pending request.
SubmitWhilePending(r) ==
  /\ leads.valid # << >>
  /\ Post(r, leads.drop, leads.valid)
  /\ pending' = r
  /\ UNCHANGED <<texts, reading, fileName, leads, rows, jobs, left>>

\* submit: the button is disabled while a request is pending, and validate lets
\* only a form with leads pass (its other fields are taken as valid).
Submit(r) ==
  /\ pending = 0
  /\ leads.valid # << >>
  /\ Post(r, leads.drop, leads.valid)
  /\ pending' = r
  /\ UNCHANGED <<texts, reading, fileName, leads, rows, jobs, left>>

\* Variant: the modal is closed and the form kept.
FormSucceedsUnreset(r) ==
  /\ pending = r /\ request[r].stage = "created"
  /\ request' = [request EXCEPT ![r].told = "success"]
  /\ pending' = 0
  /\ UNCHANGED <<texts, reading, fileName, leads, rows, jobs, left>>

\* A 201: the user is told how many were scheduled and the form is reset.
FormSucceeds(r) ==
  /\ pending = r /\ request[r].stage = "created"
  /\ request' = [request EXCEPT ![r].told = "success"]
  /\ pending' = 0
  /\ fileName' = 0
  /\ leads' = NoLeads
  /\ UNCHANGED <<texts, reading, rows, jobs, left>>

\* Any other answer: a toast, and the form stays as it is.
FormFails(r) ==
  /\ pending = r /\ request[r].stage \in {"refused", "error"}
  /\ request' = [request EXCEPT ![r].told = "error"]
  /\ pending' = 0
  /\ UNCHANGED <<texts, reading, fileName, leads, rows, jobs, left>>

\* The connection breaks before the request has arrived, or before the answer has.
ConnectionBreaks(r) ==
  /\ pending = r
  /\ Fault("net")
  /\ \E stage \in {request[r].stage} \cup {s \in {"lost"} : request[r].stage = "posted"} :
       request' = [request EXCEPT ![r].told = "error", ![r].stage = stage]
  /\ pending' = 0
  /\ UNCHANGED <<texts, reading, fileName, leads, rows, jobs>>

\* The page is loaded anew; a posted request goes on without it.
Reload ==
  /\ Fault("reload")
  /\ reading' = {} /\ fileName' = 0 /\ leads' = NoLeads /\ pending' = 0
  /\ UNCHANGED <<texts, request, rows, jobs>>

\* A script posts recipients of its own.
ScriptPost(r, recipients) ==
  /\ Post(r, 0, recipients)
  /\ UNCHANGED <<texts, formVars, rows, jobs, left>>

-----------------------------------------------------------------------------
(* POST /campaigns *)

\* express.json() and createCampaignSchema.
Accepts(recipients) ==
  /\ Len(recipients) \in 1 .. MaxBody
  /\ \A i \in 1 .. Len(recipients) : recipients[i].kind = "address"

\* Variant: the array is inserted as it was posted.
DedupeNever(recipients) == recipients

AddRecipient(kept, to) == IF Contains(kept, to) THEN kept ELSE Append(kept, to)

\* new Set of the recipients, which keeps the first of each.
Dedupe(recipients) == FoldLeft(AddRecipient, << >>, recipients)

Refuse(r) ==
  /\ request[r].stage = "posted" /\ ~Accepts(request[r].recipients)
  /\ Stage(r, "refused")
  /\ UNCHANGED <<texts, formVars, rows, jobs, left>>

\* createCampaignWithEmails: one transaction.
CreateCampaign(r) ==
  /\ request[r].stage = "posted" /\ Accepts(request[r].recipients)
  /\ rows' = [rows EXCEPT ![r] = Dedupe(request[r].recipients)]
  /\ Stage(r, "committed")
  /\ UNCHANGED <<texts, formVars, jobs, left>>

\* The transaction fails, or its commit succeeds and the reply is lost.
CreateCampaignFails(r) ==
  /\ request[r].stage = "posted" /\ Accepts(request[r].recipients)
  /\ Fault("db")
  /\ rows' = [rows EXCEPT ![r] = Dedupe(request[r].recipients)] \/ UNCHANGED rows
  /\ Stage(r, "error")
  /\ UNCHANGED <<texts, formVars, jobs>>

\* Variant: a job per posted recipient.
EnqueueEmailSendsOfBody(r) ==
  /\ request[r].stage = "committed"
  /\ jobs' = [jobs EXCEPT ![r] = Len(request[r].recipients)]
  /\ Stage(r, "enqueued")
  /\ UNCHANGED <<texts, formVars, rows, left>>

EnqueueEmailSends(r) ==
  /\ request[r].stage = "committed"
  /\ jobs' = [jobs EXCEPT ![r] = Len(rows[r])]
  /\ Stage(r, "enqueued")
  /\ UNCHANGED <<texts, formVars, rows, left>>

\* Variant: a failed enqueue is logged, as that of the index jobs is.
EnqueueEmailSendsSwallowed(r) ==
  /\ request[r].stage = "committed"
  /\ Fault("redis")
  /\ \E n \in 0 .. Len(rows[r]) : jobs' = [jobs EXCEPT ![r] = n]
  /\ Stage(r, "enqueued")
  /\ UNCHANGED <<texts, formVars, rows>>

\* A chunk fails after those before it, and the handler rejects.
EnqueueEmailSendsFails(r) ==
  /\ request[r].stage = "committed"
  /\ Fault("redis")
  /\ \E n \in 0 .. Len(rows[r]) : jobs' = [jobs EXCEPT ![r] = n]
  /\ Stage(r, "error")
  /\ UNCHANGED <<texts, formVars, rows>>

\* The index jobs are enqueued, or that fails and is only logged; the answer is 201.
Respond(r) ==
  /\ request[r].stage = "enqueued"
  /\ Stage(r, "created")
  /\ UNCHANGED <<texts, formVars, rows, jobs, left>>

\* The API process dies with its requests.
ApiCrash ==
  /\ Fault("crash")
  /\ request' = [r \in Requests |->
       IF request[r].stage \in {"posted", "committed", "enqueued"}
       THEN [request[r] EXCEPT !.stage = "error"] ELSE request[r]]
  /\ UNCHANGED <<texts, formVars, rows, jobs>>

-----------------------------------------------------------------------------

Compose(r) ==
  \/ Submit(r) \/ FormSucceeds(r) \/ FormFails(r) \/ ConnectionBreaks(r)
  \/ \E recipients \in ScriptBodies : ScriptPost(r, recipients)

Campaigns(r) ==
  \/ Refuse(r) \/ CreateCampaign(r) \/ CreateCampaignFails(r)
  \/ EnqueueEmailSends(r) \/ EnqueueEmailSendsFails(r) \/ Respond(r)

Next ==
  \/ \E d \in Drops : FileRead(d) \/ \E text \in Contents : DropFile(d, text)
  \/ \E r \in Requests : Compose(r) \/ Campaigns(r)
  \/ Reload \/ ApiCrash

Spec == Init /\ [][Next]_vars

-----------------------------------------------------------------------------
(* Properties *)

\* What parseLeads promises of a file, stated without its loop: "Deduped,
\* lowercased, valid addresses", every other valid token counted as a duplicate
\* and every token with an @ that is no address as invalid.
LeadsCorrect ==
  leads.drop # 0 =>
    LET text == texts[leads.drop]
        passing == {i \in 1 .. Len(text) : text[i].kind \in {"address", "loose"}}
    IN /\ ToSet(leads.valid) = {Lowered(text[i]) : i \in passing}
       /\ Len(leads.valid) = Cardinality(ToSet(leads.valid))
       /\ leads.duplicates = Cardinality(passing) - Len(leads.valid)
       /\ leads.invalid = Cardinality({i \in 1 .. Len(text) : text[i].kind = "broken"})

\* "Duplicate recipients are collapsed so the UNIQUE(campaign_id, recipient)
\* constraint can't 500 a request", whoever posted them; and a campaign of the
\* form has one row for an address however often and in whatever case the file
\* names it.
OneRowPerRecipient ==
  \A r \in Requests : \A i, j \in 1 .. Len(rows[r]) :
    i # j => /\ rows[r][i] # rows[r][j]
             /\ request[r].drop # 0 => rows[r][i].box # rows[r][j].box

\* The toast "Scheduled n email(s)." is true: the campaign holds exactly the
\* leads that were submitted, in their order, and a job of each is in Redis.
SuccessMeansScheduled ==
  \A r \in Requests :
    request[r].told = "success" =>
      rows[r] = request[r].recipients /\ jobs[r] = Len(rows[r])

\* A file becomes a second campaign only when its user was told that the first
\* attempt had failed: neither a double click nor a form left standing does it.
ResubmittedOnlyAfterError ==
  \A q, r \in Requests :
    q < r /\ request[r].stage # "none" /\ request[r].drop # 0
          /\ request[r].drop = request[q].drop => request[q].told = "error"

\* "Re-submitting the same CSV can't create a second row."
ResubmissionAddsNoRow ==
  \A q, r \in Requests :
    q # r /\ request[q].drop # 0 /\ request[q].drop = request[r].drop =>
      rows[q] = << >> \/ rows[r] = << >>

\* The compose UI shows "a trustworthy count before submit": once no file is
\* being read, the count next to a file's name is that file's.
CountMatchesFile ==
  fileName # 0 /\ reading = {} =>
    Len(leads.valid) = Len(ParseLeads(fileName).valid)

===============================================================================
