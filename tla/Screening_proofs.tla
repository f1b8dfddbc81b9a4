-------------------------- MODULE Screening_proofs --------------------------
(***************************************************************************)
(* Theorems about the screening of transfers, for any number of tabs,      *)
(* requests, persons, destinations, replicas and transactions.             *)
(***************************************************************************)
EXTENDS Screening, SequenceTheorems, FiniteSetTheorems, TLAPS

-----------------------------------------------------------------------------
(* The inductive invariant                                                 *)

Form ==
  [status : {"idle", "screening", "sanctioned", "sending", "sent"},
   to : Destination \cup {None}, post : Post \cup {None}, intent : Nat, wasClean : BOOLEAN]

Proof == [publicKey : Replica, over : [address : Destination, sanctioned : BOOLEAN]]

Task ==
  [pc : {"idle", "finding", "creating", "recording", "screening", "checked", "persisting",
         "blocking", "replying"},
   org : Org \cup {None}, to : Destination \cup {None}, user : Nat, intent : Nat,
   sanctioned : BOOLEAN, appProof : Proof \cup {None},
   bootKey : Replica \cup {None}, bootProof : Replica \cup {None}]

User == [id : Nat, org : Org]
Transaction ==
  [id : Nat, user : Nat, to : Destination, status : {"pending", "blocked"}]
Row ==
  [intent : Nat, user : Nat, to : Destination, sanctioned : BOOLEAN,
   appProof : Proof \cup {None}, bootProof : Replica \cup {None}]

(* The audit log holds this verdict on this intent.                        *)
OnRecord(intent, to, sanctioned) ==
  \E row \in ToSet(screenings) :
    row.intent = intent /\ row.to = to /\ row.sanctioned = sanctioned

(* An intent of a user to send to a destination is in the table.           *)
Intended(intent, user, to) ==
  \E tx \in transactions : tx.id = intent /\ tx.user = user /\ tx.to = to

UserFound == {"recording", "screening", "checked", "persisting", "blocking", "replying"}
IntentRecorded == UserFound \ {"recording"}
HasVerdict == {"checked", "persisting", "blocking", "replying"}

(* What is true of a request k, whoever still waits for it.                *)
TaskSound(k) ==
  /\ k.pc # "idle" => k.org \in Org /\ k.to \in Destination
  /\ k.pc \in UserFound => \E user \in users : user.id = k.user /\ user.org = k.org
  /\ k.pc \in IntentRecorded => Intended(k.intent, k.user, k.to)
  /\ k.pc \in {"blocking", "replying"} => OnRecord(k.intent, k.to, k.sanctioned)
  /\ k.pc = "blocking" => k.sanctioned

(* What is true of a form f.                                               *)
FormSound(f) ==
  /\ f.post # None => f.status = "screening" /\ (f.to \notin listed => f.wasClean)
  /\ f.status = "sending" => OnRecord(f.intent, f.to, FALSE) /\ f.wasClean

(* What a form f and the request k it waits for owe each other.            *)
Linked(f, k) ==
  /\ k.pc # "idle"
  /\ k.to = f.to
  /\ k.pc \in HasVerdict => k.sanctioned \/ f.wasClean

RequestsSound ==
  /\ form \in [Tab -> Form]
  /\ task \in [Post -> Task]
  /\ \A t \in Tab : FormSound(form[t])
  /\ \A p \in Post : TaskSound(task[p])
  /\ \A t \in Tab : form[t].post # None => Linked(form[t], task[form[t].post])

TablesSound ==
  /\ users \subseteq User
  /\ IsFiniteSet(users)
  /\ transactions \subseteq Transaction
  /\ screenings \in Seq(Row)
  /\ \A u, v \in users : u.org = v.org => u = v
  /\ \A tx \in transactions : \E user \in users : user.id = tx.user
  /\ \A row \in ToSet(screenings) : Intended(row.intent, row.user, row.to)
  /\ \A tx \in transactions : tx.status = "blocked" =>
       \E row \in ToSet(screenings) : row.intent = tx.id /\ row.sanctioned

SentSound == \A transfer \in sent : OnRecord(transfer.intent, transfer.to, FALSE)

Inv == RequestsSound /\ TablesSound /\ SentSound

-----------------------------------------------------------------------------
(* The tables only grow                                                    *)

TablesGrow ==
  /\ users \subseteq users'
  /\ ToSet(screenings) \subseteq ToSet(screenings')
  /\ \A tx \in transactions : \E later \in transactions' :
       later.id = tx.id /\ later.user = tx.user /\ later.to = tx.to

LEMMA TaskStays ==
  ASSUME TablesGrow, NEW k, TaskSound(k)
  PROVE  TaskSound(k)'
<1>1. \A i, to, s : OnRecord(i, to, s) => OnRecord(i, to, s)'
  BY DEF OnRecord, TablesGrow
<1>2. \A i, u, to : Intended(i, u, to) => Intended(i, u, to)'
  BY DEF Intended, TablesGrow
<1>3. \A u, org : (\E user \in users : user.id = u /\ user.org = org)
                    => (\E user \in users' : user.id = u /\ user.org = org)
  BY DEF TablesGrow
<1> QED  BY <1>1, <1>2, <1>3 DEF TaskSound

LEMMA FormStays ==
  ASSUME TablesGrow, listed' = listed, NEW f, FormSound(f)
  PROVE  FormSound(f)'
BY DEF FormSound, OnRecord, TablesGrow

LEMMA SentStays ==
  ASSUME Inv, TablesGrow, sent' = sent PROVE SentSound'
BY DEF Inv, SentSound, OnRecord, TablesGrow

LEMMA SameTables == UNCHANGED tables => TablesGrow
BY DEF tables, TablesGrow

LEMMA TablesStay == Inv /\ UNCHANGED tables => TablesSound'
BY DEF Inv, TablesSound, tables, Intended

(* What appending a row does.                                              *)
LEMMA AppendRow ==
  ASSUME screenings \in Seq(Row), NEW row \in Row, screenings' = Append(screenings, row)
  PROVE  screenings' \in Seq(Row) /\ ToSet(screenings') = ToSet(screenings) \cup {row}
<1>1. screenings' \in Seq(Row)
  BY AppendProperties
<1>2. /\ Len(screenings) \in Nat
      /\ DOMAIN screenings = 1..Len(screenings)
      /\ DOMAIN screenings' = 1..(Len(screenings) + 1)
      /\ \A i \in 1..Len(screenings) : screenings'[i] = screenings[i]
      /\ screenings'[Len(screenings) + 1] = row
  BY AppendProperties, LenProperties
<1>3. \A i \in DOMAIN screenings' : i \in DOMAIN screenings \/ i = Len(screenings) + 1
  BY <1>2
<1>4. DOMAIN screenings \subseteq DOMAIN screenings' /\ Len(screenings) + 1 \in DOMAIN screenings'
  BY <1>2
<1>5. ToSet(screenings') = ToSet(screenings) \cup {row}
  BY <1>2, <1>3, <1>4 DEF ToSet
<1> QED  BY <1>1, <1>5

-----------------------------------------------------------------------------
(* Steps                                                                   *)

(* The forms and the requests are sound after a step if each of them is.   *)
LEMMA EachSound ==
  ASSUME form' \in [Tab -> Form], task' \in [Post -> Task],
         \A t \in Tab : \E f \in Form :
           /\ form'[t] = f
           /\ FormSound(f)'
           /\ f.post # None => Linked(f, task'[f.post]),
         \A p \in Post : \E k \in Task : task'[p] = k /\ TaskSound(k)'
  PROVE  RequestsSound'
<1>1. ASSUME NEW t \in Tab
      PROVE  /\ FormSound(form[t])'
             /\ form'[t].post # None => Linked(form[t], task[form[t].post])'
  <2>1. PICK f \in Form : /\ form'[t] = f
                          /\ FormSound(f)'
                          /\ f.post # None => Linked(f, task'[f.post])
    OBVIOUS
  <2>2. FormSound(form[t])'
    BY <2>1 DEF FormSound, OnRecord
  <2>3. form'[t].post # None => Linked(form[t], task[form[t].post])'
    BY <2>1 DEF Linked
  <2> QED  BY <2>2, <2>3
<1>2. ASSUME NEW p \in Post
      PROVE  TaskSound(task[p])'
  <2>1. PICK k \in Task : task'[p] = k /\ TaskSound(k)'
    OBVIOUS
  <2> QED  BY <2>1 DEF TaskSound, Intended, OnRecord
<1> QED  BY <1>1, <1>2 DEF RequestsSound

(* What the invariant says of one request.                                 *)
LEMMA OfPost ==
  ASSUME Inv, NEW p \in Post
  PROVE  task[p] \in Task /\ TaskSound(task[p]) /\ task \in [Post -> Task]
BY DEF Inv, RequestsSound

(* What the invariant says of one tab.                                     *)
LEMMA OfTab ==
  ASSUME Inv, NEW t \in Tab
  PROVE  /\ form[t] \in Form /\ FormSound(form[t]) /\ form \in [Tab -> Form]
         /\ form[t].post # None => /\ form[t].post \in Post
                                   /\ Linked(form[t], task[form[t].post])
BY DEF Inv, RequestsSound, Form

(* A request goes on to k; the forms stay as they are.                     *)
LEMMA RequestMoves ==
  ASSUME Inv, TablesGrow, listed' = listed, NEW p \in Post, NEW k \in Task,
         form' = form, task' = [task EXCEPT ![p] = k], TaskSound(k)',
         k.pc # "idle", k.to = task[p].to,
         k.pc \in HasVerdict => \/ task[p].pc \in HasVerdict /\ k.sanctioned = task[p].sanctioned
                              \/ k.sanctioned
                              \/ k.to \notin listed
  PROVE  RequestsSound'
<1>1. form' \in [Tab -> Form] /\ task' \in [Post -> Task]
  BY DEF Inv, RequestsSound
<1>2. ASSUME NEW t \in Tab
      PROVE  \E f \in Form : /\ form'[t] = f
                             /\ FormSound(f)'
                             /\ f.post # None => Linked(f, task'[f.post])
  <2>1. PICK f \in Form : form[t] = f /\ FormSound(f)
    BY OfTab
  <2>2. FormSound(f)'
    BY <2>1, FormStays
  <2>3. ASSUME f.post # None
        PROVE  Linked(f, task'[f.post])
    <3>1. f.post \in Post /\ Linked(f, task[f.post])
      BY <2>1, <2>3, OfTab
    <3>2. CASE f.post = p
      <4>1. task'[f.post] = k /\ k.to = f.to
        BY <3>1, <3>2, OfPost DEF Linked
      <4>2. ASSUME k.pc \in HasVerdict PROVE k.sanctioned \/ f.wasClean
        <5>1. f.to \notin listed => f.wasClean
          BY <2>1, <2>3 DEF FormSound
        <5> QED  BY <3>1, <3>2, <4>1, <4>2, <5>1 DEF Linked
      <4> QED  BY <4>1, <4>2 DEF Linked
    <3>3. CASE f.post # p
      BY <3>1, <3>3, OfPost
    <3> QED  BY <3>2, <3>3
  <2> QED  BY <2>1, <2>2, <2>3
<1>3. ASSUME NEW q \in Post
      PROVE  \E j \in Task : task'[q] = j /\ TaskSound(j)'
  <2>1. CASE q = p
    BY <2>1, OfPost
  <2>2. CASE q # p
    <3>1. PICK j \in Task : task[q] = j /\ TaskSound(j)
      BY OfPost
    <3> QED  BY <2>2, <3>1, OfPost, TaskStays
  <2> QED  BY <2>1, <2>2
<1> QED  BY <1>1, <1>2, <1>3, EachSound

(* The same, when what is said of k is true in the tables as they were.    *)
LEMMA RequestMovesNow ==
  ASSUME Inv, UNCHANGED <<listed, tables, sent>>, NEW p \in Post, NEW k \in Task,
         form' = form, task' = [task EXCEPT ![p] = k], TaskSound(k),
         k.pc # "idle", k.to = task[p].to,
         k.pc \in HasVerdict => \/ task[p].pc \in HasVerdict /\ k.sanctioned = task[p].sanctioned
                              \/ k.sanctioned
                              \/ k.to \notin listed
  PROVE  Inv'
<1>1. TablesGrow /\ TaskSound(k)'
  BY SameTables, TaskStays
<1>2. RequestsSound'
  BY <1>1, RequestMoves
<1> QED  BY <1>1, <1>2, TablesStay, SentStays DEF Inv

LEMMA IdleIsSound ==
  /\ IdleForm \in Form /\ FormSound(IdleForm) /\ IdleForm.post = None
  /\ LostForm \in Form /\ FormSound(LostForm) /\ LostForm.post = None
  /\ NoTask \in Task /\ TaskSound(NoTask) /\ NoTask.pc = "idle"
BY DEF IdleForm, LostForm, NoTask, Form, Task, FormSound, TaskSound, UserFound,
       IntentRecorded

(* A request is over: the form that waited for it goes on without one.     *)
LEMMA RequestEnds ==
  ASSUME Inv, UNCHANGED <<listed, tables, sent>>, NEW p \in Post,
         task' = [task EXCEPT ![p] = NoTask], form' \in [Tab -> Form],
         \A t \in Tab : \/ form[t].post # p /\ form'[t] = form[t]
                        \/ \E f \in Form : form'[t] = f /\ FormSound(f) /\ f.post = None
  PROVE  Inv'
<1>1. task' \in [Post -> Task] /\ TablesGrow
  BY OfPost, IdleIsSound, SameTables
<1>2. ASSUME NEW t \in Tab
      PROVE  \E f \in Form : /\ form'[t] = f
                             /\ FormSound(f)'
                             /\ f.post # None => Linked(f, task'[f.post])
  <2>1. CASE form[t].post # p /\ form'[t] = form[t]
    <3>1. PICK f \in Form : form[t] = f /\ FormSound(f)
      BY OfTab
    <3>2. FormSound(f)'
      BY <1>1, <3>1, FormStays
    <3>3. f.post # None => Linked(f, task'[f.post])
      BY <2>1, <3>1, OfTab, OfPost
    <3> QED  BY <2>1, <3>1, <3>2, <3>3
  <2>2. CASE \E f \in Form : form'[t] = f /\ FormSound(f) /\ f.post = None
    BY <1>1, <2>2, FormStays
  <2> QED  BY <2>1, <2>2
<1>3. ASSUME NEW q \in Post
      PROVE  \E j \in Task : task'[q] = j /\ TaskSound(j)'
  <2>1. \E j \in Task : task'[q] = j /\ TaskSound(j)
    BY OfPost, IdleIsSound
  <2> QED  BY <1>1, <2>1, TaskStays
<1>4. RequestsSound'
  BY <1>1, <1>2, <1>3, EachSound
<1> QED  BY <1>1, <1>4, TablesStay, SentStays DEF Inv

(* A form goes on without a request.                                       *)
LEMMA FormMoves ==
  ASSUME Inv, UNCHANGED <<listed, task, tables>>, NEW t \in Tab, NEW f \in Form,
         form' = [form EXCEPT ![t] = f], FormSound(f), f.post = None
  PROVE  RequestsSound' /\ TablesSound'
<1>1. task' \in [Post -> Task] /\ TablesGrow /\ form' \in [Tab -> Form]
  BY OfTab, SameTables DEF Inv, RequestsSound
<1>2. ASSUME NEW q \in Tab
      PROVE  \E g \in Form : /\ form'[q] = g
                             /\ FormSound(g)'
                             /\ g.post # None => Linked(g, task'[g.post])
  <2>1. CASE q = t
    BY <1>1, <2>1, OfTab, FormStays
  <2>2. CASE q # t
    <3>1. PICK g \in Form : form[q] = g /\ FormSound(g)
      BY OfTab
    <3> QED  BY <1>1, <2>2, <3>1, OfTab, FormStays
  <2> QED  BY <2>1, <2>2
<1>3. ASSUME NEW p \in Post
      PROVE  \E k \in Task : task'[p] = k /\ TaskSound(k)'
  BY <1>1, OfPost, TaskStays
<1>4. RequestsSound'
  BY <1>1, <1>2, <1>3, EachSound
<1> QED  BY <1>4, TablesStay

LEMMA FailKeepsInv ==
  ASSUME Inv, UNCHANGED <<listed, tables, sent>>, NEW p \in Post, Fail(p) PROVE Inv'
<1>1. form' \in [Tab -> Form]
  BY OfTab, IdleIsSound DEF Fail
<1>2. \A t \in Tab : \/ form[t].post # p /\ form'[t] = form[t]
                     \/ \E f \in Form : form'[t] = f /\ FormSound(f) /\ f.post = None
  BY IdleIsSound DEF Fail
<1> QED  BY <1>1, <1>2, RequestEnds DEF Fail

LEMMA SubmitKeepsInv ==
  ASSUME Inv, NEW t \in Tab, NEW to \in Destination, Submit(t, to) PROVE Inv'
<1> DEFINE p == CHOOSE p \in Free : TRUE
           f == [IdleForm EXCEPT !.status = "screening", !.to = to, !.post = p,
                                 !.wasClean = (to \notin listed)]
           k == [NoTask EXCEPT !.pc = "finding", !.org = OrgOf[t], !.to = to]
<1>1. /\ p \in Post /\ task[p].pc = "idle"
      /\ form' = [form EXCEPT ![t] = f] /\ task' = [task EXCEPT ![p] = k]
      /\ UNCHANGED <<listed, tables, sent>>
  BY DEF Submit, Free, At
<1> HIDE DEF p
<1>2. f \in Form
  BY <1>1 DEF Form, IdleForm
<1>3. k \in Task /\ k.pc = "finding" /\ k.to = to /\ k.org = OrgOf[t]
  BY ScreeningConstants DEF Task, NoTask
<1>4. /\ f.status = "screening" /\ f.to = to /\ f.post = p
      /\ to \notin listed => f.wasClean
  BY DEF IdleForm
<1> HIDE DEF f, k
<1>5. FormSound(f) /\ TaskSound(k) /\ Linked(f, k)
  BY <1>3, <1>4, ScreeningConstants DEF FormSound, TaskSound, Linked, UserFound,
     IntentRecorded, HasVerdict
<1>6. form' \in [Tab -> Form] /\ task' \in [Post -> Task] /\ TablesGrow
  BY <1>1, <1>2, <1>3, SameTables DEF Inv, RequestsSound
<1>7. ASSUME NEW q \in Tab
      PROVE  \E g \in Form : /\ form'[q] = g
                             /\ FormSound(g)'
                             /\ g.post # None => Linked(g, task'[g.post])
  <2>1. CASE q = t
    <3>1. PICK g \in Form : g = f
      BY <1>2
    <3>2. form'[q] = g /\ task'[g.post] = k /\ FormSound(g)
      BY <1>1, <1>4, <1>5, <2>1, <3>1, OfTab, OfPost
    <3>3. FormSound(g)' /\ Linked(g, task'[g.post])
      BY <1>1, <1>5, <1>6, <3>1, <3>2, FormStays
    <3> QED  BY <3>2, <3>3
  <2>2. CASE q # t
    <3>1. PICK g \in Form : form[q] = g /\ FormSound(g)
      BY OfTab
    <3>2. form'[q] = g /\ FormSound(g)'
      BY <1>1, <1>6, <2>2, <3>1, FormStays
    <3>3. g.post # None => g.post # p /\ Linked(g, task'[g.post])
      BY <1>1, <3>1, OfTab, OfPost DEF Linked
    <3> QED  BY <3>2, <3>3
  <2> QED  BY <2>1, <2>2
<1>8. ASSUME NEW q \in Post
      PROVE  \E j \in Task : task'[q] = j /\ TaskSound(j)'
  <2>1. \E j \in Task : task'[q] = j /\ TaskSound(j)
    BY <1>1, <1>3, <1>5, OfPost
  <2> QED  BY <1>6, <2>1, TaskStays
<1>9. RequestsSound'
  BY <1>6, <1>7, <1>8, EachSound
<1> QED  BY <1>1, <1>6, <1>9, TablesStay, SentStays DEF Inv

LEMMA FindUserKeepsInv ==
  ASSUME Inv, NEW p \in Post, FindUser(p) PROVE Inv'
<1>1. /\ task[p] \in Task /\ TaskSound(task[p]) /\ task[p].pc = "finding"
      /\ form' = form /\ UNCHANGED <<listed, tables, sent>>
  BY OfPost DEF FindUser, At
<1>2. ASSUME \E user \in UsersOf(task[p].org) :
               task' = [task EXCEPT ![p].pc = "recording", ![p].user = user.id]
      PROVE  Inv'
  <2> PICK user \in UsersOf(task[p].org) :
             task' = [task EXCEPT ![p].pc = "recording", ![p].user = user.id]
    BY <1>2
  <2> DEFINE k == [task[p] EXCEPT !.pc = "recording", !.user = user.id]
  <2>1. user \in users /\ user.org = task[p].org /\ user.id \in Nat
    BY DEF UsersOf, Inv, TablesSound, User
  <2>2. k \in Task
    BY <1>1, <2>1 DEF Task
  <2>3. k.pc = "recording" /\ k.user = user.id /\ k.to = task[p].to /\ k.org = task[p].org
    BY <1>1 DEF Task
  <2>4. task' = [task EXCEPT ![p] = k]
    BY OfPost DEF Task
  <2> HIDE DEF k
  <2>5. TaskSound(k)
    BY <1>1, <2>1, <2>3 DEF TaskSound, UserFound, IntentRecorded
  <2> QED  BY <1>1, <2>2, <2>3, <2>4, <2>5, RequestMovesNow DEF HasVerdict
<1>3. ASSUME GoTo(p, "creating")
      PROVE  Inv'
  <2> DEFINE k == [task[p] EXCEPT !.pc = "creating"]
  <2>1. k \in Task /\ k.pc = "creating" /\ k.to = task[p].to /\ k.org = task[p].org
    BY <1>1 DEF Task
  <2>2. task' = [task EXCEPT ![p] = k]
    BY <1>3, OfPost DEF Task, GoTo
  <2> HIDE DEF k
  <2>3. TaskSound(k)
    BY <1>1, <2>1 DEF TaskSound, UserFound, IntentRecorded
  <2> QED  BY <1>1, <2>1, <2>2, <2>3, RequestMovesNow DEF HasVerdict
<1> QED  BY <1>2, <1>3 DEF FindUser

LEMMA CreateUserKeepsInv ==
  ASSUME Inv, NEW p \in Post, CreateUser(p) PROVE Inv'
<1>1. /\ task[p] \in Task /\ TaskSound(task[p]) /\ task[p].pc = "creating"
      /\ UNCHANGED <<listed, transactions, screenings, sent>>
  BY OfPost DEF CreateUser, At
<1>2. CASE UsersOf(task[p].org) = {}
  <2> DEFINE new == [id |-> NewUserId, org |-> task[p].org]
             k == [task[p] EXCEPT !.pc = "recording", !.user = NewUserId]
  <2>1. /\ users' = users \cup {new} /\ form' = form
        /\ task' = [task EXCEPT ![p].pc = "recording", ![p].user = NewUserId]
    BY <1>2 DEF CreateUser
  <2>2. NewUserId \in Nat
    BY FS_CardinalityType DEF NewUserId, Inv, TablesSound
  <2>3. new \in User /\ new.id = NewUserId /\ new.org = task[p].org
    BY <1>1, <2>2 DEF User, TaskSound
  <2>4. k \in Task
    BY <1>1, <2>2 DEF Task
  <2>5. k.pc = "recording" /\ k.user = new.id /\ k.to = task[p].to /\ k.org = task[p].org
    BY <1>1, <2>3 DEF Task
  <2>6. task' = [task EXCEPT ![p] = k]
    BY <2>1, OfPost DEF Task
  <2> HIDE DEF new, k
  <2>7. TablesGrow
    BY <1>1, <2>1 DEF TablesGrow
  <2>9. RequestsSound'
    <3>1. PICK j \in Task : j = k
      BY <2>4
    <3>2. \E user \in users' : user.id = j.user /\ user.org = j.org
      BY <2>1, <2>3, <2>5, <3>1
    <3>3. TaskSound(j)'
      BY <1>1, <2>5, <3>1, <3>2 DEF TaskSound, UserFound, IntentRecorded
    <3> QED  BY <1>1, <2>1, <2>5, <2>6, <2>7, <3>1, <3>3, RequestMoves DEF HasVerdict
  <2>10. TablesSound'
    <3>1. users' \subseteq User /\ IsFiniteSet(users')
      BY <2>1, <2>3, FS_AddElement DEF Inv, TablesSound
    <3>2. \A u, v \in users' : u.org = v.org => u = v
      BY <1>2, <2>1, <2>3 DEF Inv, TablesSound, UsersOf
    <3> QED  BY <1>1, <2>1, <3>1, <3>2 DEF Inv, TablesSound, Intended
  <2> QED  BY <1>1, <2>7, <2>9, <2>10, SentStays DEF Inv
<1>3. CASE Fail(p) /\ UNCHANGED users
  <2>1. UNCHANGED tables
    BY <1>1, <1>3 DEF tables
  <2> QED  BY <1>1, <1>3, <2>1, FailKeepsInv
<1> QED  BY <1>2, <1>3 DEF CreateUser

LEMMA RecordIntentKeepsInv ==
  ASSUME Inv, NEW p \in Post, RecordIntent(p) PROVE Inv'
<1> DEFINE id == Cardinality(transactions) + 1
           new == [id |-> id, user |-> task[p].user, to |-> task[p].to, status |-> "pending"]
           k == [task[p] EXCEPT !.pc = "screening", !.intent = id]
<1>1. /\ task[p] \in Task /\ TaskSound(task[p]) /\ task[p].pc = "recording"
      /\ transactions' = transactions \cup {new}
      /\ task' = [task EXCEPT ![p].pc = "screening", ![p].intent = id]
      /\ form' = form /\ UNCHANGED <<listed, users, screenings, sent>>
  BY OfPost DEF RecordIntent, At
<1>2. id \in Nat
  BY DEF RecordIntent, Intents
<1>3. /\ task[p].to \in Destination /\ task[p].org \in Org
      /\ \E user \in users : user.id = task[p].user /\ user.org = task[p].org
  BY <1>1 DEF TaskSound, UserFound
<1>4. /\ new \in Transaction /\ new.id = id /\ new.user = task[p].user /\ new.to = task[p].to
      /\ new.status = "pending"
  BY <1>1, <1>2, <1>3 DEF Transaction, Task
<1>5. k \in Task
  BY <1>1, <1>2 DEF Task
<1>6. /\ k.pc = "screening" /\ k.intent = new.id /\ k.user = new.user /\ k.to = new.to
      /\ k.to = task[p].to /\ k.org = task[p].org /\ k.user = task[p].user
  BY <1>1, <1>4 DEF Task
<1>7. task' = [task EXCEPT ![p] = k]
  BY <1>1, OfPost DEF Task
<1> HIDE DEF id, new, k
<1>8. TablesGrow
  BY <1>1 DEF TablesGrow
<1>10. RequestsSound'
  <2>1. PICK j \in Task : j = k
    BY <1>5
  <2>2. Intended(j.intent, j.user, j.to)'
    BY <1>1, <1>4, <1>6, <2>1 DEF Intended
  <2>3. \E user \in users' : user.id = j.user /\ user.org = j.org
    BY <1>1, <1>3, <1>6, <2>1
  <2>4. TaskSound(j)'
    BY <1>3, <1>6, <2>1, <2>2, <2>3 DEF TaskSound, UserFound, IntentRecorded
  <2> QED  BY <1>1, <1>6, <1>7, <1>8, <2>1, <2>4, RequestMoves DEF HasVerdict
<1>11. TablesSound'
  <2>1. transactions' \subseteq Transaction
    BY <1>1, <1>4 DEF Inv, TablesSound
  <2>2. \A tx \in transactions' : \E user \in users' : user.id = tx.user
    BY <1>1, <1>3, <1>4 DEF Inv, TablesSound
  <2>3. \A row \in ToSet(screenings') : Intended(row.intent, row.user, row.to)'
    BY <1>1 DEF Inv, TablesSound, Intended
  <2>4. \A tx \in transactions' : tx.status = "blocked" =>
          \E row \in ToSet(screenings') : row.intent = tx.id /\ row.sanctioned
    BY <1>1, <1>4 DEF Inv, TablesSound
  <2> QED  BY <1>1, <2>1, <2>2, <2>3, <2>4 DEF Inv, TablesSound
<1> QED  BY <1>1, <1>8, <1>10, <1>11, SentStays DEF Inv

(* The verdict is what the list says at this moment, so a clean one means  *)
(* that the destination is off it.                                         *)
LEMMA CheckAddressKeepsInv ==
  ASSUME Inv, NEW p \in Post, CheckAddress(p) PROVE Inv'
<1>1. /\ task[p] \in Task /\ TaskSound(task[p]) /\ task[p].pc = "screening"
      /\ form' = form /\ UNCHANGED <<listed, tables, sent>>
  BY OfPost DEF CheckAddress, At
<1> DEFINE verdict == Sanctioned(task[p].to)
<1>2. verdict \in BOOLEAN /\ (verdict \/ task[p].to \notin listed) /\ task[p].to \in Destination
  BY <1>1 DEF Sanctioned, TaskSound
<1> HIDE DEF verdict
<1>3. PICK proofs \in ProofsOf(task[p].to, verdict) :
        task' = [task EXCEPT ![p].pc = "checked",
                             ![p].sanctioned = verdict,
                             ![p].appProof = proofs.appProof,
                             ![p].bootKey = proofs.bootKey]
  BY DEF CheckAddress, Checked, verdict
<1>4. proofs.appProof \in Proof \cup {None} /\ proofs.bootKey \in Replica \cup {None}
  BY <1>2 DEF ProofsOf, SignScreening, Proof
<1> DEFINE k == [task[p] EXCEPT !.pc = "checked", !.sanctioned = verdict,
                                !.appProof = proofs.appProof, !.bootKey = proofs.bootKey]
<1>5. k \in Task
  BY <1>1, <1>2, <1>4 DEF Task
<1>6. /\ k.pc = "checked" /\ k.user = task[p].user /\ k.intent = task[p].intent
      /\ k.to = task[p].to /\ k.org = task[p].org /\ k.sanctioned = verdict
  BY <1>1 DEF Task
<1>7. task' = [task EXCEPT ![p] = k]
  BY <1>3, OfPost DEF Task
<1> HIDE DEF k
<1>8. TaskSound(k)
  BY <1>1, <1>6 DEF TaskSound, UserFound, IntentRecorded
<1>9. k.sanctioned \/ k.to \notin listed
  BY <1>2, <1>6
<1> QED  BY <1>1, <1>5, <1>6, <1>7, <1>8, <1>9, RequestMovesNow

LEMMA FetchBootProofKeepsInv ==
  ASSUME Inv, NEW p \in Post, FetchBootProof(p) PROVE Inv'
<1>1. /\ task[p] \in Task /\ TaskSound(task[p]) /\ task[p].pc = "checked"
      /\ form' = form /\ UNCHANGED <<listed, tables, sent>>
  BY OfPost DEF FetchBootProof, At
<1>2. PICK bootProof \in {None, task[p].bootKey} :
        task' = [task EXCEPT ![p].pc = "persisting", ![p].bootProof = bootProof,
                             ![p].bootKey = None]
  BY DEF FetchBootProof
<1> DEFINE k == [task[p] EXCEPT !.pc = "persisting", !.bootProof = bootProof,
                                !.bootKey = None]
<1>3. k \in Task
  BY <1>1, <1>2 DEF Task
<1>4. /\ k.pc = "persisting" /\ k.user = task[p].user /\ k.intent = task[p].intent
      /\ k.to = task[p].to /\ k.org = task[p].org /\ k.sanctioned = task[p].sanctioned
  BY <1>1 DEF Task
<1>5. task' = [task EXCEPT ![p] = k]
  BY <1>2, OfPost DEF Task
<1> HIDE DEF k
<1>6. TaskSound(k)
  BY <1>1, <1>4 DEF TaskSound, UserFound, IntentRecorded
<1>7. task[p].pc \in HasVerdict
  BY <1>1 DEF HasVerdict
<1> QED  BY <1>1, <1>3, <1>4, <1>5, <1>6, <1>7, RequestMovesNow

LEMMA PersistScreeningKeepsInv ==
  ASSUME Inv, NEW p \in Post, PersistScreening(p) PROVE Inv'
<1> DEFINE row == ScreeningRow(p)
           pc == IF task[p].sanctioned THEN "blocking" ELSE "replying"
           k == [task[p] EXCEPT !.pc = pc]
<1>1. /\ task[p] \in Task /\ TaskSound(task[p]) /\ task[p].pc = "persisting"
      /\ screenings' = Append(screenings, row)
      /\ GoTo(p, pc)
      /\ form' = form /\ UNCHANGED <<listed, users, transactions, sent>>
  BY OfPost DEF PersistScreening, At
<1>2. /\ task[p].to \in Destination /\ task[p].org \in Org
      /\ Intended(task[p].intent, task[p].user, task[p].to)
      /\ task[p].sanctioned \in BOOLEAN
  BY <1>1 DEF TaskSound, IntentRecorded, UserFound, Task
<1>3. /\ row \in Row /\ row.intent = task[p].intent /\ row.user = task[p].user
      /\ row.to = task[p].to /\ row.sanctioned = task[p].sanctioned
  BY <1>1, <1>2 DEF ScreeningRow, Row, Task
<1>4. /\ k \in Task /\ k.pc = pc /\ k.intent = task[p].intent /\ k.user = task[p].user
      /\ k.to = task[p].to /\ k.org = task[p].org /\ k.sanctioned = task[p].sanctioned
  BY <1>1 DEF Task
<1>5. task' = [task EXCEPT ![p] = k]
  BY <1>1, OfPost DEF GoTo, Task
<1>6. k.pc \in {"blocking", "replying"} /\ (k.pc = "blocking" => task[p].sanctioned)
  BY <1>4
<1> HIDE DEF row, pc, k
<1>7. screenings' \in Seq(Row) /\ ToSet(screenings') = ToSet(screenings) \cup {row}
  BY <1>1, <1>3, AppendRow DEF Inv, TablesSound
<1>8. TablesGrow
  BY <1>1, <1>7 DEF TablesGrow
<1>9. RequestsSound'
  <2>1. PICK j \in Task : j = k
    BY <1>4
  <2>2. OnRecord(j.intent, j.to, j.sanctioned)'
    BY <1>3, <1>4, <1>7, <2>1 DEF OnRecord
  <2>3. Intended(j.intent, j.user, j.to)'
    BY <1>1, <1>2, <1>4, <2>1 DEF Intended
  <2>4. \E user \in users' : user.id = j.user /\ user.org = j.org
    BY <1>1, <1>4, <2>1 DEF TaskSound, UserFound
  <2>5. /\ j.pc \in {"blocking", "replying"} /\ (j.pc = "blocking" => j.sanctioned)
        /\ j.to = task[p].to /\ j.sanctioned = task[p].sanctioned
    BY <1>4, <1>6, <2>1
  <2>6. TaskSound(j)'
    BY <1>2, <1>4, <2>1, <2>2, <2>3, <2>4, <2>5 DEF TaskSound, UserFound, IntentRecorded
  <2>7. task[p].pc \in HasVerdict /\ j.pc # "idle"
    BY <1>1, <2>5 DEF HasVerdict
  <2> QED  BY <1>1, <1>5, <1>8, <2>1, <2>5, <2>6, <2>7, RequestMoves
<1>10. TablesSound'
  <2>1. \A r \in ToSet(screenings') : Intended(r.intent, r.user, r.to)'
    BY <1>1, <1>2, <1>3, <1>7 DEF Inv, TablesSound, Intended
  <2>2. \A tx \in transactions' : tx.status = "blocked" =>
          \E r \in ToSet(screenings') : r.intent = tx.id /\ r.sanctioned
    BY <1>1, <1>7 DEF Inv, TablesSound
  <2> QED  BY <1>1, <1>7, <2>1, <2>2 DEF Inv, TablesSound
<1> QED  BY <1>1, <1>8, <1>9, <1>10, SentStays DEF Inv

(* The update touches the intents with the request's id and nothing but    *)
(* their status, and there is a row that says why.                         *)
LEMMA BlockIntentKeepsInv ==
  ASSUME Inv, NEW p \in Post, BlockIntent(p) PROVE Inv'
<1> DEFINE chosen == {tx \in transactions : tx.id = task[p].intent}
           k == [task[p] EXCEPT !.pc = "replying"]
<1>1. /\ task[p] \in Task /\ TaskSound(task[p]) /\ task[p].pc = "blocking"
      /\ transactions' = SetStatus(chosen, "blocked")
      /\ GoTo(p, "replying")
      /\ form' = form /\ UNCHANGED <<listed, users, screenings, sent>>
  BY OfPost DEF BlockIntent, At
<1>2. transactions \subseteq Transaction
  BY DEF Inv, TablesSound
<1>3. \A tx \in transactions :
        /\ [tx EXCEPT !.status = "blocked"] \in Transaction
        /\ [tx EXCEPT !.status = "blocked"].id = tx.id
        /\ [tx EXCEPT !.status = "blocked"].user = tx.user
        /\ [tx EXCEPT !.status = "blocked"].to = tx.to
  BY <1>2 DEF Transaction
<1>4. \A tx \in transactions : \E later \in transactions' :
        later.id = tx.id /\ later.user = tx.user /\ later.to = tx.to
  BY <1>1, <1>3 DEF SetStatus
<1>5. \A later \in transactions' :
        /\ later \in Transaction
        /\ \E tx \in transactions :
             /\ later.id = tx.id /\ later.user = tx.user /\ later.to = tx.to
             /\ later = tx \/ tx.id = task[p].intent
  BY <1>1, <1>2, <1>3 DEF SetStatus
<1>6. TablesGrow
  BY <1>1, <1>4 DEF TablesGrow
<1>7. /\ k \in Task /\ k.pc = "replying" /\ k.intent = task[p].intent
      /\ k.user = task[p].user /\ k.to = task[p].to /\ k.org = task[p].org
      /\ k.sanctioned = task[p].sanctioned
  BY <1>1 DEF Task
<1>8. task' = [task EXCEPT ![p] = k]
  BY <1>1, OfPost DEF GoTo, Task
<1> HIDE DEF chosen, k
<1>9. TaskSound(k) /\ task[p].pc \in HasVerdict
  BY <1>1, <1>7 DEF TaskSound, UserFound, IntentRecorded, HasVerdict
<1>10. RequestsSound'
  <2>1. PICK j \in Task : j = k
    BY <1>7
  <2>2. TaskSound(j)'
    BY <1>6, <1>9, <2>1, TaskStays
  <2> QED  BY <1>1, <1>6, <1>7, <1>8, <1>9, <2>1, <2>2, RequestMoves
<1>11. TablesSound'
  <2>1. transactions' \subseteq Transaction
        /\ \A tx \in transactions' : \E user \in users' : user.id = tx.user
    BY <1>1, <1>5 DEF Inv, TablesSound
  <2>2. \A row \in ToSet(screenings') : Intended(row.intent, row.user, row.to)'
    BY <1>1, <1>4 DEF Inv, TablesSound, Intended
  <2>3. \E row \in ToSet(screenings) : row.intent = task[p].intent /\ row.sanctioned
    BY <1>1 DEF TaskSound, OnRecord
  <2>4. \A tx \in transactions' : tx.status = "blocked" =>
          \E row \in ToSet(screenings') : row.intent = tx.id /\ row.sanctioned
    BY <1>1, <1>5, <2>3 DEF Inv, TablesSound
  <2> QED  BY <1>1, <2>1, <2>2, <2>4 DEF Inv, TablesSound
<1> QED  BY <1>1, <1>6, <1>10, <1>11, SentStays DEF Inv

(* Only the form that waits for this request hears the verdict, and it is  *)
(* the verdict on its own destination.                                     *)
LEMMA ReplyKeepsInv ==
  ASSUME Inv, NEW p \in Post, Reply(p) PROVE Inv'
<1>1. /\ task[p] \in Task /\ TaskSound(task[p]) /\ task[p].pc = "replying"
      /\ task' = [task EXCEPT ![p] = NoTask]
      /\ UNCHANGED <<listed, tables, sent>>
  BY OfPost DEF Reply, At
<1>2. ASSUME NEW t \in Tab
      PROVE  \/ form[t].post # p /\ form'[t] = form[t]
             \/ \E f \in Form : form'[t] = f /\ FormSound(f) /\ f.post = None
  <2>1. CASE form[t].post # p
    BY <2>1 DEF Reply
  <2>2. CASE form[t].post = p /\ task[p].sanctioned
    <3> DEFINE f == [IdleForm EXCEPT !.status = "sanctioned"]
    <3>1. form'[t] = f
      BY <2>2 DEF Reply, Answered
    <3>2. f \in Form /\ FormSound(f) /\ f.post = None
      BY DEF IdleForm, Form, FormSound
    <3> QED  BY <3>1, <3>2
  <2>3. CASE form[t].post = p /\ ~task[p].sanctioned
    <3> DEFINE f == [form[t] EXCEPT !.status = "sending", !.post = None,
                                    !.intent = task[p].intent]
    <3>1. form'[t] = f /\ form[t] \in Form
      BY <2>3, OfTab DEF Reply, Answered
    <3>2. form[t].post # None /\ Linked(form[t], task[p])
      BY <2>3, OfTab, ScreeningConstants
    <3>3. f \in Form
      BY <1>1, <3>1 DEF Form, Task
    <3>4. /\ f.status = "sending" /\ f.post = None /\ f.to = form[t].to
          /\ f.intent = task[p].intent /\ f.wasClean = form[t].wasClean
      BY <3>1 DEF Form
    <3> HIDE DEF f
    <3>5. OnRecord(task[p].intent, task[p].to, task[p].sanctioned)
          /\ task[p].to = form[t].to /\ form[t].wasClean
      BY <1>1, <2>3, <3>2 DEF TaskSound, Linked, HasVerdict
    <3>6. task[p].sanctioned = FALSE
      BY <1>1, <2>3 DEF Task
    <3>7. FormSound(f)
      BY <3>4, <3>5, <3>6 DEF FormSound
    <3> QED  BY <3>1, <3>3, <3>4, <3>7
  <2> QED  BY <2>1, <2>2, <2>3
<1>3. form' \in [Tab -> Form]
  <2>1. \A t \in Tab : form'[t] \in Form
    BY <1>2, OfTab
  <2> QED  BY <2>1 DEF Reply
<1> QED  BY <1>1, <1>2, <1>3, RequestEnds

(* A transfer goes out only for a form whose screening is on record.       *)
LEMMA SendTransferKeepsInv ==
  ASSUME Inv, NEW t \in Tab, SendTransfer(t) PROVE Inv'
<1>1. /\ form[t] \in Form /\ FormSound(form[t]) /\ form[t].status = "sending"
      /\ UNCHANGED <<listed, task, tables>>
  BY OfTab DEF SendTransfer
<1>2. OnRecord(form[t].intent, form[t].to, FALSE)
  BY <1>1 DEF FormSound
<1>3. PICK heard \in BOOLEAN :
        form' = [form EXCEPT ![t] = IF heard THEN [IdleForm EXCEPT !.status = "sent"]
                                             ELSE IdleForm]
  BY DEF SendTransfer
<1> DEFINE f == IF heard THEN [IdleForm EXCEPT !.status = "sent"] ELSE IdleForm
<1>4. f \in Form /\ FormSound(f) /\ f.post = None
  BY DEF IdleForm, Form, FormSound
<1>5. form' = [form EXCEPT ![t] = f]
  BY <1>3
<1> HIDE DEF f
<1>6. RequestsSound' /\ TablesSound'
  BY <1>1, <1>4, <1>5, FormMoves
<1>7. SentSound'
  <2>1. sent' \subseteq sent \cup {[intent |-> form[t].intent, to |-> form[t].to]}
    BY DEF SendTransfer
  <2>2. ASSUME NEW transfer \in sent'
        PROVE  OnRecord(transfer.intent, transfer.to, FALSE)
    <3>1. CASE transfer \in sent
      BY <3>1 DEF Inv, SentSound
    <3>2. CASE transfer = [intent |-> form[t].intent, to |-> form[t].to]
      <4>1. transfer.intent = form[t].intent /\ transfer.to = form[t].to
        BY <3>2
      <4> QED  BY <1>2, <4>1
    <3> QED  BY <2>1, <3>1, <3>2
  <2> QED  BY <1>1, <2>2 DEF SentSound, OnRecord, tables
<1> QED  BY <1>6, <1>7 DEF Inv

(* The form forgets what it waited for or was told.                        *)
LEMMA ForgetKeepsInv ==
  ASSUME Inv, NEW t \in Tab, LoseConnection(t) \/ NoticeLoss(t) \/ ResetToIdle(t) PROVE Inv'
<1>1. UNCHANGED <<listed, task, tables, sent>>
  BY DEF LoseConnection, NoticeLoss, ResetToIdle
<1>2. PICK f \in {IdleForm, LostForm} : form' = [form EXCEPT ![t] = f]
  BY DEF LoseConnection, NoticeLoss, ResetToIdle
<1>3. f \in Form /\ FormSound(f) /\ f.post = None
  BY <1>2, IdleIsSound
<1> QED  BY <1>1, <1>2, <1>3, FormMoves, SentStays, SameTables DEF Inv

(* A restart takes the requests and the connections, not the rows.         *)
LEMMA RestartKeepsInv ==
  ASSUME Inv, ServerRestarts PROVE Inv'
<1>1. /\ task' = [p \in Post |-> NoTask]
      /\ form' = [t \in Tab |-> IF form[t].post = None THEN form[t] ELSE LostForm]
      /\ UNCHANGED <<listed, tables, sent>>
  BY DEF ServerRestarts
<1>2. task' \in [Post -> Task] /\ form' \in [Tab -> Form] /\ TablesGrow
  BY <1>1, OfTab, IdleIsSound, SameTables
<1>3. ASSUME NEW t \in Tab
      PROVE  \E f \in Form : /\ form'[t] = f
                             /\ FormSound(f)'
                             /\ f.post # None => Linked(f, task'[f.post])
  <2>1. \E f \in Form : form'[t] = f /\ FormSound(f) /\ f.post = None
    BY <1>1, OfTab, IdleIsSound
  <2> QED  BY <1>1, <1>2, <2>1, FormStays
<1>4. ASSUME NEW p \in Post
      PROVE  \E k \in Task : task'[p] = k /\ TaskSound(k)'
  <2>1. \E k \in Task : task'[p] = k /\ TaskSound(k)
    BY <1>1, IdleIsSound
  <2> QED  BY <1>2, <2>1, TaskStays
<1>5. RequestsSound'
  BY <1>2, <1>3, <1>4, EachSound
<1> QED  BY <1>1, <1>2, <1>5, TablesStay, SentStays DEF Inv

(* A change of the list is noted by the forms that wait.                   *)
LEMMA ListChangesKeepsInv ==
  ASSUME Inv, ListChanges PROVE Inv'
<1>1. /\ form' = [t \in Tab |->
           IF form[t].post # None /\ form[t].to \notin listed'
           THEN [form[t] EXCEPT !.wasClean = TRUE] ELSE form[t]]
      /\ UNCHANGED <<task, tables, sent>>
  BY DEF ListChanges
<1>2. ASSUME NEW t \in Tab
      PROVE  \E f \in Form : /\ form'[t] = f
                             /\ FormSound(f)'
                             /\ f.post # None => Linked(f, task'[f.post])
  <2>1. PICK g \in Form : form[t] = g /\ FormSound(g)
    BY OfTab
  <2>2. PICK f \in Form :
          /\ form'[t] = f
          /\ f.status = g.status /\ f.to = g.to /\ f.intent = g.intent /\ f.post = g.post
          /\ g.wasClean => f.wasClean
          /\ g.post # None /\ g.to \notin listed' => f.wasClean
    <3>1. CASE g.post # None /\ g.to \notin listed'
      <4> DEFINE f == [g EXCEPT !.wasClean = TRUE]
      <4>1. form'[t] = f
        BY <1>1, <2>1, <3>1
      <4>2. /\ f \in Form /\ f.status = g.status /\ f.to = g.to /\ f.intent = g.intent
            /\ f.post = g.post /\ f.wasClean
        BY DEF Form
      <4> QED  BY <4>1, <4>2
    <3>2. CASE ~(g.post # None /\ g.to \notin listed')
      BY <1>1, <2>1, <3>2
    <3> QED  BY <3>1, <3>2
  <2>3. FormSound(f)'
    BY <1>1, <2>1, <2>2 DEF FormSound, OnRecord, tables
  <2>4. f.post # None => Linked(f, task'[f.post])
    BY <1>1, <2>1, <2>2, OfTab DEF Linked
  <2> QED  BY <2>2, <2>3, <2>4
<1>3. task' \in [Post -> Task] /\ TablesGrow /\ form' \in [Tab -> Form]
  <2>1. \A t \in Tab : form'[t] \in Form
    BY <1>2
  <2>2. form' \in [Tab -> Form]
    BY <1>1, <2>1
  <2>3. task' \in [Post -> Task] /\ TablesGrow
    BY <1>1, SameTables DEF Inv, RequestsSound
  <2> QED  BY <2>2, <2>3
<1>4. ASSUME NEW p \in Post
      PROVE  \E k \in Task : task'[p] = k /\ TaskSound(k)'
  BY <1>1, <1>3, OfPost, TaskStays
<1>5. RequestsSound'
  BY <1>2, <1>3, <1>4, EachSound
<1> QED  BY <1>1, <1>3, <1>5, TablesStay, SentStays DEF Inv

-----------------------------------------------------------------------------

(* The tables, the forms and the requests tell the same story in every     *)
(* reachable state, whoever still waits for a request.                     *)
THEOREM ScreeningInvariant == Spec => []Inv
<1>1. Init => Inv
  <2> SUFFICES ASSUME Init PROVE Inv
    OBVIOUS
  <2>1. RequestsSound
    BY IdleIsSound DEF Init, RequestsSound
  <2>2. ToSet(screenings) = {}
    BY EmptySeq DEF Init, ToSet
  <2>3. TablesSound
    BY <2>2, EmptySeq, FS_EmptySet DEF Init, TablesSound
  <2> QED  BY <2>1, <2>3 DEF Init, Inv, SentSound
<1>2. Inv /\ [Next]_vars => Inv'
  <2> SUFFICES ASSUME Inv, [Next]_vars PROVE Inv'
    OBVIOUS
  <2>1. ASSUME NEW p \in Post, Serve(p) PROVE Inv'
    <3>1. ASSUME RequestFails(p) PROVE Inv'
      BY <3>1, FailKeepsInv DEF RequestFails
    <3> QED
      BY <2>1, <3>1, FindUserKeepsInv, CreateUserKeepsInv, RecordIntentKeepsInv,
         CheckAddressKeepsInv, FetchBootProofKeepsInv, PersistScreeningKeepsInv,
         BlockIntentKeepsInv, ReplyKeepsInv DEF Serve
  <2>2. ASSUME NEW t \in Tab, Use(t) PROVE Inv'
    BY <2>2, SubmitKeepsInv, SendTransferKeepsInv, ForgetKeepsInv DEF Use
  <2>3. CASE UNCHANGED vars
    <3>1. UNCHANGED <<listed, form, task, users, transactions, screenings, sent>>
      BY <2>3 DEF vars, tables
    <3> QED  BY <3>1 DEF Inv, RequestsSound, TablesSound, SentSound, TaskSound, FormSound,
                         Linked, Intended, OnRecord
  <2> QED  BY <2>1, <2>2, <2>3, RestartKeepsInv, ListChangesKeepsInv DEF Next
<1> QED  BY <1>1, <1>2, PTL DEF Spec

(* Nothing is sent that the audit log does not show as allowed, whatever   *)
(* fails or restarts between the answer and the transfer.                  *)
THEOREM RecordedBeforeSent == Spec => []SentIsOnRecord
<1>1. Inv => SentIsOnRecord
  BY DEF Inv, SentSound, SentIsOnRecord, OnRecord
<1> QED  BY <1>1, ScreeningInvariant, PTL

(* Nothing is sent to a destination that was on the list all the time      *)
(* since the user asked for it.                                            *)
THEOREM CleanBeforeSent == Spec => []SendingWasClean
<1>1. Inv => SendingWasClean
  BY DEF Inv, RequestsSound, FormSound, SendingWasClean
<1> QED  BY <1>1, ScreeningInvariant, PTL

(* However first requests of a person race, and whatever fails, there is   *)
(* one row for the person, the rows refer to each other, and only a        *)
(* screening of its own blocks an intent.                                  *)
THEOREM TablesFit == Spec => []TablesAgree
<1>1. Inv => TablesAgree
  <2> SUFFICES ASSUME Inv PROVE TablesAgree
    OBVIOUS
  <2>1. ASSUME NEW org \in Org
        PROVE  Cardinality(UsersOf(org)) <= 1
    <3>1. CASE UsersOf(org) = {}
      BY <3>1, FS_EmptySet
    <3>2. CASE UsersOf(org) # {}
      <4>1. PICK user : user \in UsersOf(org)
        BY <3>2
      <4>2. UsersOf(org) = {user}
        BY <4>1 DEF UsersOf, Inv, TablesSound
      <4> QED  BY <4>2, FS_Singleton
    <3> QED  BY <3>1, <3>2
  <2>2. ASSUME NEW i \in DOMAIN screenings
        PROVE  \E tx \in transactions : /\ tx.id = screenings[i].intent
                                        /\ tx.user = screenings[i].user
                                        /\ tx.to = screenings[i].to
    <3>1. screenings[i] \in ToSet(screenings)
      BY DEF ToSet
    <3> QED  BY <3>1 DEF Inv, TablesSound, Intended
  <2> QED  BY <2>1, <2>2 DEF Inv, TablesSound, TablesAgree
<1> QED  BY <1>1, ScreeningInvariant, PTL
-----------------------------------------------------------------------------
(* Ids and proofs: a second inductive invariant, beside the first          *)

(* Ids are given in sequence and belong to one row each.                   *)
Numbered(table) ==
  /\ IsFiniteSet(table)
  /\ \A row \in table : row.id \in 1..Cardinality(table)
  /\ \A row, other \in table : row.id = other.id => row = other

IdsSound ==
  /\ listed \subseteq Destination
  /\ Numbered(users)
  /\ Numbered(transactions)

(* What the enclave signed is this verdict on this destination.            *)
SignedFor(appProof, to, sanctioned) ==
  appProof # None => appProof.over = [address |-> to, sanctioned |-> sanctioned]

(* A request has the proof of the verdict it was given, and looks the boot *)
(* proof up by the key of the replica that gave it.                        *)
ProofSound(k) ==
  /\ k.pc \in {"checked", "persisting"} => SignedFor(k.appProof, k.to, k.sanctioned)
  /\ k.pc = "checked" /\ k.appProof # None => k.bootKey = k.appProof.publicKey
  /\ k.pc = "persisting" /\ k.appProof # None =>
       k.bootProof \in {None, k.appProof.publicKey}

RowSound(row) ==
  /\ SignedFor(row.appProof, row.to, row.sanctioned)
  /\ row.appProof # None /\ row.bootProof # None => row.bootProof = row.appProof.publicKey

ProofsSound ==
  /\ \A p \in Post : ProofSound(task[p])
  /\ \A row \in ToSet(screenings) : RowSound(row)

(* The next id is of no row yet.                                           *)
LEMMA AddNumbered ==
  ASSUME NEW table, Numbered(table), NEW row, row.id = Cardinality(table) + 1
  PROVE  Numbered(table \cup {row})
<1>1. IsFiniteSet(table) /\ Cardinality(table) \in Nat
  BY FS_CardinalityType DEF Numbered
<1>2. row \notin table
  BY <1>1 DEF Numbered
<1>3. IsFiniteSet(table \cup {row}) /\ Cardinality(table \cup {row}) = Cardinality(table) + 1
  BY <1>1, <1>2, FS_AddElement
<1>4. \A other \in table : other.id \in 1..(Cardinality(table) + 1) /\ other.id # row.id
  BY <1>1 DEF Numbered
<1>5. row.id \in 1..(Cardinality(table) + 1)
  BY <1>1
<1> QED  BY <1>3, <1>4, <1>5 DEF Numbered

(* An update of the status neither drops an intent nor makes two of one.   *)
LEMMA SetStatusNumbered ==
  ASSUME Numbered(transactions), transactions \subseteq Transaction, NEW chosen
  PROVE  Numbered(SetStatus(chosen, "blocked"))
<1> DEFINE Set(tx) == IF tx \in chosen THEN [tx EXCEPT !.status = "blocked"] ELSE tx
           f == [tx \in transactions |-> Set(tx)]
           later == SetStatus(chosen, "blocked")
<1>1. later = {Set(tx) : tx \in transactions}
  BY DEF SetStatus
<1>2. \A tx \in transactions : Set(tx).id = tx.id
  BY DEF Transaction
<1>3. f \in Bijection(transactions, later)
  <2>1. f \in [transactions -> later] /\ \A tx \in transactions : f[tx] = Set(tx)
    BY <1>1
  <2>2. \A a, b \in transactions : f[a] = f[b] => a = b
    <3> SUFFICES ASSUME NEW a \in transactions, NEW b \in transactions, f[a] = f[b]
                 PROVE  a = b
      OBVIOUS
    <3>1. Set(a) = Set(b)
      BY <2>1
    <3> HIDE DEF Set
    <3>2. a.id = b.id
      BY <1>2, <3>1
    <3> QED  BY <3>2 DEF Numbered
  <2>3. \A x \in later : \E tx \in transactions : f[tx] = x
    BY <1>1, <2>1
  <2> HIDE DEF f, later
  <2> QED  BY <2>1, <2>2, <2>3 DEF Bijection, Injection, Surjection, IsInjective
<1>4. IsFiniteSet(later) /\ Cardinality(later) = Cardinality(transactions)
  <2> HIDE DEF f, later
  <2> QED  BY <1>3, FS_Bijection DEF Numbered, ExistsBijection
<1>5. \A x \in later : \E tx \in transactions : x.id = tx.id
  BY <1>1, <1>2
<1>6. \A x, y \in later : x.id = y.id => x = y
  <2> SUFFICES ASSUME NEW a \in transactions, NEW b \in transactions, Set(a).id = Set(b).id
               PROVE  Set(a) = Set(b)
    BY <1>1
  <2> QED  BY <1>2 DEF Numbered
<1> HIDE DEF later
<1>7. \A x \in later : x.id \in 1..Cardinality(later)
  BY <1>4, <1>5 DEF Numbered
<1>8. Numbered(later)
  BY <1>4, <1>6, <1>7 DEF Numbered
<1> QED  BY <1>8 DEF later

LEMMA IdsStaySound ==
  ASSUME Inv, IdsSound, [Next]_vars PROVE IdsSound'
<1>1. listed' \subseteq Destination
  <2>1. CASE UNCHANGED listed
    BY <2>1 DEF IdsSound
  <2>2. CASE ListChanges
    BY <2>2, ScreeningConstants DEF IdsSound, ListChanges
  <2> QED  BY <2>1, <2>2
           DEF Next, vars, Serve, Use, Submit, FindUser, CreateUser, RecordIntent, CheckAddress,
               RequestFails, FetchBootProof, PersistScreening, BlockIntent, Reply,
               LoseConnection, NoticeLoss, SendTransfer, ResetToIdle, ServerRestarts
<1>2. CASE UNCHANGED <<users, transactions>>
  BY <1>1, <1>2 DEF IdsSound, Numbered
<1>3. ASSUME NEW p \in Post, CreateUser(p) PROVE IdsSound'
  <2>1. UNCHANGED transactions
    BY <1>3 DEF CreateUser
  <2>2. CASE UNCHANGED users
    BY <1>2, <2>1, <2>2
  <2>3. CASE users' = users \cup {[id |-> NewUserId, org |-> task[p].org]}
    <3>1. Numbered(users')
      BY <2>3, AddNumbered DEF IdsSound, NewUserId
    <3> QED  BY <1>1, <2>1, <3>1 DEF IdsSound, Numbered
  <2> QED  BY <1>3, <2>2, <2>3 DEF CreateUser
<1>4. ASSUME NEW p \in Post, RecordIntent(p) PROVE IdsSound'
  <2>1. Numbered(transactions')
    BY <1>4, AddNumbered DEF RecordIntent, IdsSound
  <2>2. UNCHANGED users
    BY <1>4 DEF RecordIntent
  <2> QED  BY <1>1, <2>1, <2>2 DEF IdsSound, Numbered
<1>5. ASSUME NEW p \in Post, BlockIntent(p) PROVE IdsSound'
  <2>1. Numbered(transactions')
    BY <1>5, SetStatusNumbered DEF BlockIntent, IdsSound, Inv, TablesSound
  <2>2. UNCHANGED users
    BY <1>5 DEF BlockIntent
  <2> QED  BY <1>1, <2>1, <2>2 DEF IdsSound, Numbered
<1> QED  BY <1>2, <1>3, <1>4, <1>5
         DEF Next, vars, tables, Serve, Use, Submit, FindUser, CheckAddress,
             RequestFails, FetchBootProof, PersistScreening, Reply, LoseConnection,
             NoticeLoss, SendTransfer, ResetToIdle, ServerRestarts, ListChanges

(* Nothing has been signed for a request yet, or it is on record already.  *)
LEMMA NothingToProve ==
  ASSUME NEW k, k.pc \notin {"checked", "persisting"} PROVE ProofSound(k)
BY DEF ProofSound

(* A step that changes one request and leaves the audit log alone.         *)
LEMMA OneRequestMoves ==
  ASSUME ProofsSound, NEW p \in Post, screenings' = screenings,
         \A q \in Post : q # p => task'[q] = task[q],
         ProofSound(task'[p])
  PROVE  ProofsSound'
<1>1. \A q \in Post : ProofSound(task'[q])
  BY DEF ProofsSound
<1> QED  BY <1>1 DEF ProofsSound

(* A step that signs nothing.                                              *)
LEMMA NothingSigned ==
  ASSUME Inv, ProofsSound, screenings' = screenings,
         \A p \in Post : task'[p] = task[p] \/ task'[p].pc \notin {"checked", "persisting"}
  PROVE  ProofsSound'
<1>1. \A p \in Post : ProofSound(task'[p])
  BY NothingToProve DEF ProofsSound
<1> QED  BY <1>1 DEF ProofsSound

(* What a verdict comes with was signed for it.                            *)
LEMMA ProofsOfVerdict ==
  ASSUME NEW to, NEW sanctioned, NEW proofs \in ProofsOf(to, sanctioned)
  PROVE  /\ SignedFor(proofs.appProof, to, sanctioned)
         /\ proofs.appProof # None => proofs.bootKey = proofs.appProof.publicKey
BY DEF ProofsOf, SignedFor, SignScreening

LEMMA CheckAddressKeepsProofs ==
  ASSUME Inv, ProofsSound, NEW p \in Post, CheckAddress(p) PROVE ProofsSound'
<1> DEFINE verdict == Sanctioned(task[p].to)
<1>1. task \in [Post -> Task] /\ task[p] \in Task /\ screenings' = screenings
  BY OfPost DEF CheckAddress, tables
<1>2. PICK proofs \in ProofsOf(task[p].to, verdict) :
        task' = [task EXCEPT ![p].pc = "checked",
                             ![p].sanctioned = verdict,
                             ![p].appProof = proofs.appProof,
                             ![p].bootKey = proofs.bootKey]
  BY DEF CheckAddress, Checked
<1> HIDE DEF verdict
<1>3. /\ task'[p].pc = "checked" /\ task'[p].sanctioned = verdict /\ task'[p].to = task[p].to
      /\ task'[p].appProof = proofs.appProof /\ task'[p].bootKey = proofs.bootKey
  BY <1>1, <1>2 DEF Task
<1>4. ProofSound(task'[p])
  BY <1>3, ProofsOfVerdict DEF ProofSound
<1>5. \A q \in Post : q # p => task'[q] = task[q]
  BY <1>1, <1>2
<1> QED  BY <1>1, <1>4, <1>5, OneRequestMoves

LEMMA FetchBootProofKeepsProofs ==
  ASSUME Inv, ProofsSound, NEW p \in Post, FetchBootProof(p) PROVE ProofsSound'
<1>1. /\ task \in [Post -> Task] /\ task[p] \in Task /\ task[p].pc = "checked"
      /\ screenings' = screenings /\ ProofSound(task[p])
  BY OfPost DEF FetchBootProof, tables, At, ProofsSound
<1>2. PICK bootProof \in {None, task[p].bootKey} :
        task' = [task EXCEPT ![p].pc = "persisting", ![p].bootProof = bootProof,
                             ![p].bootKey = None]
  BY DEF FetchBootProof
<1>3. /\ task'[p].pc = "persisting" /\ task'[p].bootProof = bootProof
      /\ task'[p].sanctioned = task[p].sanctioned /\ task'[p].to = task[p].to
      /\ task'[p].appProof = task[p].appProof
  BY <1>1, <1>2 DEF Task
<1>4. ProofSound(task'[p])
  BY <1>1, <1>2, <1>3 DEF ProofSound
<1>5. \A q \in Post : q # p => task'[q] = task[q]
  BY <1>1, <1>2
<1> QED  BY <1>1, <1>4, <1>5, OneRequestMoves

LEMMA PersistScreeningKeepsProofs ==
  ASSUME Inv, ProofsSound, NEW p \in Post, PersistScreening(p) PROVE ProofsSound'
<1> DEFINE row == ScreeningRow(p)
<1>1. /\ task \in [Post -> Task] /\ task[p] \in Task
      /\ task[p].pc = "persisting" /\ task[p].to \in Destination
      /\ screenings' = Append(screenings, row)
      /\ ProofSound(task[p])
  BY OfPost DEF PersistScreening, At, ProofsSound, TaskSound
<1>2. /\ row \in Row /\ row.to = task[p].to /\ row.sanctioned = task[p].sanctioned
      /\ row.appProof = task[p].appProof /\ row.bootProof = task[p].bootProof
  BY <1>1 DEF ScreeningRow, Row, Task
<1> HIDE DEF row
<1>3. ToSet(screenings') = ToSet(screenings) \cup {row}
  BY <1>1, <1>2, AppendRow DEF Inv, TablesSound
<1>4. RowSound(row)
  BY <1>1, <1>2 DEF RowSound, ProofSound
<1>5. \A r \in ToSet(screenings') : RowSound(r)
  BY <1>3, <1>4 DEF ProofsSound
<1>6. task'[p].pc \in {"blocking", "replying"}
      /\ \A q \in Post : q # p => task'[q] = task[q]
  BY <1>1 DEF PersistScreening, GoTo, Task
<1>7. \A q \in Post : ProofSound(task'[q])
  BY <1>6, NothingToProve DEF ProofsSound
<1> QED  BY <1>5, <1>7 DEF ProofsSound

LEMMA ProofsStaySound ==
  ASSUME Inv, ProofsSound, [Next]_vars PROVE ProofsSound'
<1>1. task \in [Post -> Task]
  BY DEF Inv, RequestsSound
<1>2. ASSUME NEW p \in Post,
             \/ FindUser(p) \/ CreateUser(p) \/ RecordIntent(p) \/ RequestFails(p)
             \/ BlockIntent(p) \/ Reply(p)
      PROVE  ProofsSound'
  <2>1. screenings' = screenings
    BY <1>2 DEF FindUser, CreateUser, RecordIntent, RequestFails, BlockIntent, Reply, tables
  <2>2. task[p] \in Task /\ \A q \in Post : q # p => task'[q] = task[q]
    BY <1>1, <1>2 DEF FindUser, CreateUser, RecordIntent, RequestFails, BlockIntent, Reply,
                      Fail, GoTo
  <2>3. task'[p].pc \in {"recording", "creating", "screening", "replying", "idle"}
    BY <1>1, <1>2, <2>2 DEF FindUser, CreateUser, RecordIntent, RequestFails, BlockIntent,
                            Reply, Fail, GoTo, NoTask, Task
  <2> QED  BY <2>1, <2>2, <2>3, NothingSigned
<1>3. ASSUME NEW p \in Post, Serve(p) PROVE ProofsSound'
  BY <1>2, <1>3, CheckAddressKeepsProofs, FetchBootProofKeepsProofs,
     PersistScreeningKeepsProofs DEF Serve
<1>4. ASSUME NEW t \in Tab, NEW to \in Destination, Submit(t, to) PROVE ProofsSound'
  <2> DEFINE p == CHOOSE p \in Free : TRUE
             k == [NoTask EXCEPT !.pc = "finding", !.org = OrgOf[t], !.to = to]
  <2>1. p \in Post /\ task' = [task EXCEPT ![p] = k] /\ screenings' = screenings
    BY <1>4 DEF Submit, Free, tables
  <2>2. k.pc = "finding"
    BY DEF NoTask
  <2> HIDE DEF p, k
  <2>3. \A q \in Post : task'[q] = task[q] \/ task'[q].pc = "finding"
    BY <1>1, <2>1, <2>2
  <2> QED  BY <2>1, <2>3, NothingSigned
<1>5. ASSUME NEW t \in Tab,
             LoseConnection(t) \/ NoticeLoss(t) \/ SendTransfer(t) \/ ResetToIdle(t)
      PROVE  ProofsSound'
  <2>1. screenings' = screenings /\ task' = task
    BY <1>5 DEF LoseConnection, NoticeLoss, SendTransfer, ResetToIdle, tables
  <2> QED  BY <2>1 DEF ProofsSound
<1>6. CASE ServerRestarts
  <2>1. screenings' = screenings /\ \A p \in Post : task'[p].pc = "idle"
    BY <1>6 DEF ServerRestarts, NoTask, tables
  <2> QED  BY <2>1, NothingSigned
<1>7. CASE ListChanges \/ UNCHANGED vars
  <2>1. screenings' = screenings /\ task' = task
    BY <1>7 DEF ListChanges, tables, vars
  <2> QED  BY <2>1 DEF ProofsSound
<1> QED  BY <1>3, <1>4, <1>5, <1>6, <1>7 DEF Next, Use

LEMMA IdsAndProofsInvariant == Spec => [](IdsSound /\ ProofsSound)
<1>1. Init => IdsSound /\ ProofsSound
  <2> SUFFICES ASSUME Init PROVE IdsSound /\ ProofsSound
    OBVIOUS
  <2>1. IdsSound
    BY FS_EmptySet, ScreeningConstants DEF Init, IdsSound, Numbered
  <2>2. ToSet(screenings) = {}
    BY EmptySeq DEF Init, ToSet
  <2>3. \A p \in Post : task[p].pc = "idle"
    BY DEF Init, NoTask
  <2>4. ProofsSound
    BY <2>2, <2>3, NothingToProve DEF ProofsSound
  <2> QED  BY <2>1, <2>4
<1>2. Inv /\ (IdsSound /\ ProofsSound) /\ [Next]_vars => (IdsSound /\ ProofsSound)'
  BY IdsStaySound, ProofsStaySound
<1> QED  BY <1>1, <1>2, ScreeningInvariant, PTL DEF Spec

(* Ids are given in sequence whichever requests race and whatever fails,   *)
(* and an open connection is to a request about the form's destination.    *)
THEOREM ScreeningTypeCorrect == Spec => []TypeOK
<1>1. Inv /\ IdsSound => TypeOK
  <2> SUFFICES ASSUME Inv, IdsSound PROVE TypeOK
    OBVIOUS
  <2>1. users \subseteq [id : 1..Cardinality(users), org : Org]
    BY DEF Inv, TablesSound, User, IdsSound, Numbered
  <2>2. \A tx \in transactions : /\ tx \in Transaction
                                 /\ tx.id \in 1..Cardinality(transactions)
                                 /\ tx.user \in 1..Cardinality(users)
    BY DEF Inv, TablesSound, IdsSound, Numbered
  <2>3. transactions \subseteq [id : 1..Cardinality(transactions), user : 1..Cardinality(users),
                               to : Destination, status : {"pending", "blocked"}]
    BY <2>2 DEF Transaction
  <2>4. \A t \in Tab : form[t].post # None =>
          /\ form[t].status = "screening" /\ form[t].post \in Post
          /\ ~At(form[t].post, "idle") /\ task[form[t].post].to = form[t].to
    BY OfTab DEF FormSound, Linked, At
  <2> QED  BY <2>1, <2>3, <2>4 DEF TypeOK, IdsSound
<1> QED  BY <1>1, ScreeningInvariant, IdsAndProofsInvariant, PTL

(* The join finds the one transaction the screening was made for.          *)
LEMMA ShownDestination ==
  ASSUME Inv, IdsSound, NEW row \in ToSet(screenings)
  PROVE  Shown(row) = [intent |-> row.intent, toAddress |-> row.to,
                       isSanctioned |-> row.sanctioned,
                       appProof |-> row.appProof, bootProof |-> row.bootProof]
<1>1. PICK tx \in transactions : tx.id = row.intent /\ tx.to = row.to
  BY DEF Inv, TablesSound, Intended
<1>2. \A other \in transactions : Joined(row, other) => other = tx
  BY <1>1 DEF Joined, IdsSound, Numbered
<1>3. (CHOOSE other \in transactions : Joined(row, other)) = tx
  BY <1>1, <1>2 DEF Joined
<1> QED  BY <1>1, <1>3 DEF Shown

(* The history never lends a row another row's proof: the enclave signed   *)
(* this verdict on the destination shown, and the boot proof is that of    *)
(* the replica that signed.                                                *)
THEOREM HistoryShowsOwnProofs == Spec => []ShownProofIsOfRow
<1>1. Inv /\ (IdsSound /\ ProofsSound) => ShownProofIsOfRow
  <2> SUFFICES ASSUME Inv, IdsSound, ProofsSound,
                      NEW org \in Org, NEW shown \in History(org), shown.appProof # None
               PROVE  /\ shown.appProof.over =
                           [address |-> shown.toAddress, sanctioned |-> shown.isSanctioned]
                      /\ shown.bootProof # None => KeysMatch(shown)
    BY DEF ShownProofIsOfRow
  <2>1. PICK i \in DOMAIN screenings : shown = Shown(screenings[i])
    BY DEF History, RowsOf
  <2>2. screenings[i] \in ToSet(screenings)
    BY DEF ToSet
  <2>3. PICK row \in ToSet(screenings) : row = screenings[i]
    BY <2>2
  <2>4. RowSound(row)
    BY DEF ProofsSound
  <2>5. /\ shown.toAddress = row.to /\ shown.isSanctioned = row.sanctioned
        /\ shown.appProof = row.appProof /\ shown.bootProof = row.bootProof
    BY <2>1, <2>3, ShownDestination
  <2> QED  BY <2>4, <2>5 DEF RowSound, SignedFor, KeysMatch
<1> QED  BY <1>1, ScreeningInvariant, IdsAndProofsInvariant, PTL
=============================================================================
