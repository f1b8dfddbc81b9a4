------------------------------ MODULE Screening ------------------------------
(***************************************************************************)
(* Sanctions screening before a transfer: the SendETH form, POST and GET   *)
(* /api/screen of the web app with its SQLite tables, and the enclave app  *)
(* that asks Chainalysis and signs the answer (apps/web, apps/tvc-app).    *)
(*                                                                         *)
(* A request gives way at each of its awaits: other requests run in        *)
(* between, the sanctions list changes, a call fails, and the web server   *)
(* may restart and forget every request but not the tables.  A form whose  *)
(* connection is lost is free again while its request goes on, so a tab    *)
(* may have several requests at once.                                      *)
(*                                                                         *)
(* Chainalysis, the boot proof query and Turnkey's wallet are outside src/.*)
(***************************************************************************)
EXTENDS Naturals, Sequences, FiniteSets, SequencesExt

CONSTANTS
  Tab,               \* pages with the form
  Post,              \* bound: requests that run at once
  Org,               \* sub-organizations, one for each person
  OrgOf,             \* whose session a tab has
  Destination,
  Listable,          \* bound: addresses Chainalysis ever lists
  Replica,           \* enclave replicas, by their ephemeral keys
  HISTORY_LIMIT,     \* rows GET returns (50)
  MaxIntents,        \* bound: transactions recorded
  None

ASSUME ScreeningConstants ==
  /\ OrgOf \in [Tab -> Org]
  /\ HISTORY_LIMIT \in Nat
  /\ MaxIntents \in Nat
  /\ Listable \subseteq Destination
  /\ None \notin Destination \cup Replica \cup Post

VARIABLES
  listed,            \* addresses Chainalysis lists now
  form,              \* form[t]: SendETH of tab t, and the request its open
                     \* connection is for; wasClean (history): its
                     \* destination was off the list since it was submitted
  task,              \* task[p]: a POST, as far as it is
  users, transactions, screenings,   \* the tables
  sent               \* transfers handed to Turnkey

tables == <<users, transactions, screenings>>
vars == <<listed, form, task, tables, sent>>

Intents == 1..MaxIntents
IdleForm == [status |-> "idle", to |-> None, post |-> None, intent |-> 0, wasClean |-> FALSE]
LostForm == [IdleForm EXCEPT !.status = "screening"]   \* waits, and nobody answers
NoTask == [pc |-> "idle", org |-> None, to |-> None, user |-> 0, intent |-> 0,
           sanctioned |-> FALSE, appProof |-> None, bootKey |-> None, bootProof |-> None]

Init ==
  /\ listed \in SUBSET Listable
  /\ form = [t \in Tab |-> IdleForm]
  /\ task = [p \in Post |-> NoTask]
  /\ users = {}
  /\ transactions = {}
  /\ screenings = <<>>
  /\ sent = {}

At(p, pc) == task[p].pc = pc
GoTo(p, pc) == task' = [task EXCEPT ![p].pc = pc]

(* Wrong variant: the connection stays open and nothing is answered.       *)
FailUnseen(p) == task' = [task EXCEPT ![p] = NoTask] /\ UNCHANGED form

(* The request ends in an error; the form that has its connection is told  *)
(* and ready for another attempt.                                          *)
Fail(p) ==
  /\ task' = [task EXCEPT ![p] = NoTask]
  /\ form' = [t \in Tab |-> IF form[t].post = p THEN IdleForm ELSE form[t]]

-----------------------------------------------------------------------------
(* POST /api/screen                                                        *)

Unrecorded == {p \in Post : task[p].pc \in {"finding", "creating", "recording"}}
Free == {p \in Post : At(p, "idle")}

(* handleSubmit of a well-formed address; the form is disabled from here   *)
(* until the attempt is over.                                              *)
Submit(t, to) ==
  LET p == CHOOSE p \in Free : TRUE
  IN  /\ form[t].status = "idle"
      /\ Free # {}
      /\ Cardinality(transactions) + Cardinality(Unrecorded) < MaxIntents
      /\ form' = [form EXCEPT ![t] = [IdleForm EXCEPT !.status = "screening", !.to = to,
                                          !.post = p, !.wasClean = (to \notin listed)]]
      /\ task' = [task EXCEPT ![p] = [NoTask EXCEPT !.pc = "finding", !.org = OrgOf[t],
                                                    !.to = to]]
      /\ UNCHANGED <<listed, tables, sent>>

UsersOf(org) == {user \in users : user.org = org}

(* findOrCreateUser: the select.                                           *)
FindUser(p) ==
  /\ At(p, "finding")
  /\ \/ \E user \in UsersOf(task[p].org) :
          task' = [task EXCEPT ![p].pc = "recording", ![p].user = user.id]
     \/ /\ UsersOf(task[p].org) = {}
        /\ GoTo(p, "creating")
  /\ UNCHANGED <<listed, form, tables, sent>>

NewUserId == Cardinality(users) + 1

(* Wrong variant: the table has no unique columns.                         *)
CreateAnotherUser(p) ==
  /\ At(p, "creating")
  /\ users' = users \cup {[id |-> NewUserId, org |-> task[p].org]}
  /\ task' = [task EXCEPT ![p].pc = "recording", ![p].user = NewUserId]
  /\ UNCHANGED <<listed, form, transactions, screenings, sent>>

(* findOrCreateUser: the insert, which the unique columns refuse when      *)
(* another request has inserted the same person meanwhile.                 *)
CreateUser(p) ==
  /\ At(p, "creating")
  /\ IF UsersOf(task[p].org) = {}
     THEN /\ users' = users \cup {[id |-> NewUserId, org |-> task[p].org]}
          /\ task' = [task EXCEPT ![p].pc = "recording", ![p].user = NewUserId]
          /\ UNCHANGED form
     ELSE /\ Fail(p)
          /\ UNCHANGED users
  /\ UNCHANGED <<listed, transactions, screenings, sent>>

(* The intent exists whatever the screening says.                          *)
RecordIntent(p) ==
  LET id == Cardinality(transactions) + 1
  IN  /\ At(p, "recording")
      /\ id \in Intents
      /\ transactions' = transactions \cup
           {[id |-> id, user |-> task[p].user, to |-> task[p].to, status |-> "pending"]}
      /\ task' = [task EXCEPT ![p].pc = "screening", ![p].intent = id]
      /\ UNCHANGED <<listed, form, users, screenings, sent>>

(* ChainalysisClient.CheckAddress that gets an answer: no identifications  *)
(* means clean.                                                            *)
Sanctioned(to) == to \in listed

(* signScreening: a signature by the replica's key over address and answer. *)
SignScreening(replica, to, sanctioned) ==
  [publicKey |-> replica, over |-> [address |-> to, sanctioned |-> sanctioned]]

(* What comes with an answer: nothing from a replica without a key file,   *)
(* else the key to look its boot proof up with, and a proof unless signing *)
(* fails.                                                                  *)
ProofsOf(to, sanctioned) ==
  {[appProof |-> None, bootKey |-> None]}
    \cup {[appProof |-> None, bootKey |-> replica] : replica \in Replica}
    \cup {[appProof |-> SignScreening(replica, to, sanctioned), bootKey |-> replica] :
             replica \in Replica}

Checked(p, sanctioned) ==
  \E proofs \in ProofsOf(task[p].to, sanctioned) :
    task' = [task EXCEPT ![p].pc = "checked",
                         ![p].sanctioned = sanctioned,
                         ![p].appProof = proofs.appProof,
                         ![p].bootKey = proofs.bootKey]

(* Wrong variant: an error of the API counts as no identifications.        *)
CheckOrAssumeClean(p) ==
  /\ At(p, "screening")
  /\ Checked(p, Sanctioned(task[p].to)) \/ Checked(p, FALSE)
  /\ UNCHANGED <<listed, form, tables, sent>>

(* handleScreen in the enclave: Chainalysis answers about the address, and *)
(* the answer is signed unless the replica has no ephemeral key.           *)
CheckAddress(p) ==
  /\ At(p, "screening")
  /\ Checked(p, Sanctioned(task[p].to))
  /\ UNCHANGED <<listed, form, tables, sent>>

(* Wrong variant: the error is swallowed and nobody is answered.           *)
RequestHangs(p) ==
  /\ task[p].pc \notin {"idle", "replying"}
  /\ GoTo(p, "hung")
  /\ UNCHANGED <<listed, form, tables, sent>>

(* A statement on the tables throws, Chainalysis or the enclave fails, or  *)
(* the enclave's answer is lost: what has been written stays.              *)
RequestFails(p) ==
  /\ task[p].pc \notin {"idle", "replying"}
  /\ Fail(p)
  /\ UNCHANGED <<listed, tables, sent>>

(* The boot proof of the replica that answered is fetched if its key is    *)
(* known; doing without it is no error.                                    *)
FetchBootProof(p) ==
  /\ At(p, "checked")
  /\ \E bootProof \in {None, task[p].bootKey} :
       task' = [task EXCEPT ![p].pc = "persisting", ![p].bootProof = bootProof,
                            ![p].bootKey = None]
  /\ UNCHANGED <<listed, form, tables, sent>>

ScreeningRow(p) ==
  [intent |-> task[p].intent, user |-> task[p].user, to |-> task[p].to,
   sanctioned |-> task[p].sanctioned,
   appProof |-> task[p].appProof, bootProof |-> task[p].bootProof]

(* Wrong variant: the answer is sent without waiting for the insert.       *)
PersistLater(p) ==
  /\ At(p, "persisting")
  /\ screenings' \in {screenings, Append(screenings, ScreeningRow(p))}
  /\ GoTo(p, IF task[p].sanctioned THEN "blocking" ELSE "replying")
  /\ UNCHANGED <<listed, form, users, transactions, sent>>

PersistScreening(p) ==
  /\ At(p, "persisting")
  /\ screenings' = Append(screenings, ScreeningRow(p))
  /\ GoTo(p, IF task[p].sanctioned THEN "blocking" ELSE "replying")
  /\ UNCHANGED <<listed, form, users, transactions, sent>>

SetStatus(chosen, s) ==
  {IF tx \in chosen THEN [tx EXCEPT !.status = s] ELSE tx : tx \in transactions}

(* Wrong variant: the update goes by the destination.                      *)
BlockDestination(p) ==
  /\ At(p, "blocking")
  /\ transactions' = SetStatus({tx \in transactions : tx.to = task[p].to}, "blocked")
  /\ GoTo(p, "replying")
  /\ UNCHANGED <<listed, form, users, screenings, sent>>

BlockIntent(p) ==
  /\ At(p, "blocking")
  /\ transactions' = SetStatus({tx \in transactions : tx.id = task[p].intent}, "blocked")
  /\ GoTo(p, "replying")
  /\ UNCHANGED <<listed, form, users, screenings, sent>>

(* What handleSubmit goes on with after the answer.                        *)
Answered(f, k) ==
  IF k.sanctioned
  THEN [IdleForm EXCEPT !.status = "sanctioned"]
  ELSE [f EXCEPT !.status = "sending", !.post = None, !.intent = k.intent]

(* The answer, for the form that still waits for it.                       *)
Reply(p) ==
  /\ At(p, "replying")
  /\ task' = [task EXCEPT ![p] = NoTask]
  /\ form' = [t \in Tab |->
       IF form[t].post = p THEN Answered(form[t], task[p]) ELSE form[t]]
  /\ UNCHANGED <<listed, tables, sent>>

(* The web server goes down: its requests and their connections are gone,  *)
(* the tables are not.                                                     *)
ServerRestarts ==
  /\ \E p \in Post : ~At(p, "idle")
  /\ task' = [p \in Post |-> NoTask]
  /\ form' = [t \in Tab |-> IF form[t].post = None THEN form[t] ELSE LostForm]
  /\ UNCHANGED <<listed, tables, sent>>

(* The connection of a form is lost; the request goes on without it.       *)
LoseConnection(t) ==
  /\ form[t].post # None
  /\ form' = [form EXCEPT ![t] = LostForm]
  /\ UNCHANGED <<listed, task, tables, sent>>

(* The browser finds the connection lost, or the page is loaded again.     *)
NoticeLoss(t) ==
  /\ form[t] = LostForm
  /\ form' = [form EXCEPT ![t] = IdleForm]
  /\ UNCHANGED <<listed, task, tables, sent>>

-----------------------------------------------------------------------------
(* After the answer                                                        *)

(* handleSendTransaction: the transfer reaches Turnkey or not, and the     *)
(* form hears of it or sees an error and is ready for another attempt.     *)
SendTransfer(t) ==
  /\ form[t].status = "sending"
  /\ \E reached, heard \in BOOLEAN :
       /\ heard => reached
       /\ sent' = IF reached
                  THEN sent \cup {[intent |-> form[t].intent, to |-> form[t].to]}
                  ELSE sent
       /\ form' = [form EXCEPT ![t] = IF heard THEN [IdleForm EXCEPT !.status = "sent"]
                                              ELSE IdleForm]
  /\ UNCHANGED <<listed, task, tables>>

(* "Try a different address", "Send again"                                 *)
ResetToIdle(t) ==
  /\ form[t].status \in {"sanctioned", "sent"}
  /\ form' = [form EXCEPT ![t] = IdleForm]
  /\ UNCHANGED <<listed, task, tables, sent>>

(* An address is listed or taken off the list.                             *)
ListChanges ==
  /\ \E a \in Listable : listed' = IF a \in listed THEN listed \ {a} ELSE listed \cup {a}
  /\ form' = [t \in Tab |->
       IF form[t].post # None /\ form[t].to \notin listed'
       THEN [form[t] EXCEPT !.wasClean = TRUE] ELSE form[t]]
  /\ UNCHANGED <<task, tables, sent>>

(* Wrong variant: the join goes by the user.                               *)
JoinedByUser(row, tx) == tx.user = row.user

(* The transaction a row of GET is joined with.                            *)
Joined(row, tx) == tx.id = row.intent

(* What a row shows: the transaction's destination, the screening's        *)
(* answer and proofs.                                                      *)
Shown(row) ==
  LET tx == CHOOSE tx \in transactions : Joined(row, tx)
  IN  [intent |-> row.intent, toAddress |-> tx.to, isSanctioned |-> row.sanctioned,
       appProof |-> row.appProof, bootProof |-> row.bootProof]

(* GET's inner joins: the rows of an organization, by their places.        *)
RowsOf(org) ==
  {i \in DOMAIN screenings :
     /\ \E user \in users : user.id = screenings[i].user /\ user.org = org
     /\ \E tx \in transactions : Joined(screenings[i], tx)}

(* GET: oldest first, cut off.  Rows of one second may come in any order,  *)
(* which is left out.                                                      *)
History(org) ==
  {Shown(screenings[i]) :
     i \in {j \in RowsOf(org) : Cardinality({k \in RowsOf(org) : k < j}) < HISTORY_LIMIT}}

(* ProofBadge: the app proof's key is the one the boot proof attests.      *)
KeysMatch(shown) == shown.bootProof = shown.appProof.publicKey

Serve(p) ==
  \/ FindUser(p)
  \/ CreateUser(p)
  \/ RecordIntent(p)
  \/ CheckAddress(p)
  \/ RequestFails(p)
  \/ FetchBootProof(p)
  \/ PersistScreening(p)
  \/ BlockIntent(p)
  \/ Reply(p)

Use(t) ==
  \/ \E to \in Destination : Submit(t, to)
  \/ LoseConnection(t)
  \/ NoticeLoss(t)
  \/ SendTransfer(t)
  \/ ResetToIdle(t)

Next ==
  \/ \E p \in Post : Serve(p)
  \/ \E t \in Tab : Use(t)
  \/ ServerRestarts
  \/ ListChanges

(* The request awaits the enclave or Turnkey's boot proof query: fetches   *)
(* without a time limit.                                                   *)
CallsOut(p) == At(p, "screening") \/ (At(p, "checked") /\ task[p].bootKey # None)

(* What the server does by itself gets done.  No call to the outside has   *)
(* to end, and no lost connection to be noticed.                           *)
Spec == Init /\ [][Next]_vars /\ \A p \in Post : WF_vars(~CallsOut(p) /\ Serve(p))

-----------------------------------------------------------------------------
(* Properties                                                              *)

(* The shape of the state: ids are given in sequence, whichever requests   *)
(* race, and an intent is of a user there is; an open connection is that   *)
(* of a form that waits, to a request that runs and is about the form's    *)
(* destination, however many requests of the tab are still running.        *)
TypeOK ==
  /\ listed \subseteq Destination
  /\ users \subseteq [id : 1..Cardinality(users), org : Org]
  /\ transactions \subseteq [id : 1..Cardinality(transactions), user : 1..Cardinality(users),
                             to : Destination, status : {"pending", "blocked"}]
  /\ \A t \in Tab : form[t].post # None =>
       /\ form[t].status = "screening"
       /\ form[t].post \in Post
       /\ ~At(form[t].post, "idle")
       /\ task[form[t].post].to = form[t].to

(* However two first requests of a person race, there is one row for the   *)
(* person, and every other row refers to rows that exist and agree with    *)
(* it: GET's inner joins drop nothing.  An intent is marked as blocked     *)
(* only on a screening of its own that says so, across failures, restarts  *)
(* and other requests for the destination.                                 *)
TablesAgree ==
  /\ \A org \in Org : Cardinality(UsersOf(org)) <= 1
  /\ \A tx \in transactions : \E user \in users : user.id = tx.user
  /\ \A i \in DOMAIN screenings : \E tx \in transactions :
       /\ tx.id = screenings[i].intent
       /\ tx.user = screenings[i].user
       /\ tx.to = screenings[i].to
  /\ \A tx \in transactions : tx.status = "blocked" =>
       \E row \in ToSet(screenings) : row.intent = tx.id /\ row.sanctioned

(* Nothing is sent that the audit log does not show as allowed, even if    *)
(* the server restarts between the answer and the transfer.                *)
SentIsOnRecord ==
  \A transfer \in sent : \E row \in ToSet(screenings) :
    row.intent = transfer.intent /\ row.to = transfer.to /\ ~row.sanctioned

(* A transfer is under way only if its destination was off the list at     *)
(* some moment since the user asked for it: no failure and no earlier      *)
(* answer stands in for the check.                                         *)
SendingWasClean ==
  \A t \in Tab : form[t].status = "sending" => form[t].wasClean

Disabled(t) == form[t].status \in {"screening", "sending"}

(* Turnkey's wallet, a lost connection, or what the request waits for      *)
WaitsForOutside(t) ==
  \/ form[t].status = "sending"
  \/ form[t] = LostForm
  \/ form[t].post # None /\ CallsOut(form[t].post)

(* Only a call to the outside that never ends keeps the form disabled: no  *)
(* failure, restart or other request does, and no step of the server.      *)
ScreeningEnds ==
  \A t \in Tab : []<>~Disabled(t) \/ <>[]WaitsForOutside(t)

(* The badge of a row never lends it another row's proof: what the enclave *)
(* signed is this verdict on the destination shown, and the boot proof, if *)
(* there is one, is that of the replica that signed, however requests of   *)
(* several tabs and replicas interleave and whichever of them fail.        *)
ShownProofIsOfRow ==
  \A org \in Org : \A shown \in History(org) :
    shown.appProof # None =>
      /\ shown.appProof.over = [address |-> shown.toAddress, sanctioned |-> shown.isSanctioned]
      /\ shown.bootProof # None => KeysMatch(shown)

(* The history shows what has been screened last.                          *)
HistoryShowsLatest ==
  \A p \in Post : At(p, "replying") =>
    \E row \in History(task[p].org) : row.intent = task[p].intent
=============================================================================
