---------------------------- MODULE Provisioning ----------------------------
(***************************************************************************)
(* Where the accounts come from.  Several ledgerd processes start on one   *)
(* database (cmd/ledgerd: Migrate, EnsureInfra, ListenAndServe), may stop  *)
(* at any statement, and start again; the clients of those that serve      *)
(* create accounts of any name (POST /accounts).  The operations of        *)
(* Posting and LedgerCore find the FX and payout accounts by name.         *)
(***************************************************************************)
EXTENDS Naturals, Sequences, FiniteSets

CONSTANTS
  Server,        \* ledgerd processes
  NoServer,      \* no process
  Client,        \* callers of POST /accounts
  Currencies,    \* the list EnsureInfra is called with
  ClientName,    \* the names clients use besides those of the infrastructure
  CurrencyCode,  \* what a client may pass as a currency
  MaxFaults      \* bound of the model: how often a server stops

ASSUME ProvisioningAssumption ==
  /\ NoServer \notin Server
  /\ Currencies \in Seq(CurrencyCode) /\ MaxFaults \in Nat

VARIABLES
  schema,    \* the tables exist
  accounts,  \* the rows of accounts; a row's id is its position
  spc,       \* the next statement of a server
  step,      \* how far its EnsureInfra has come
  request,   \* the account a client asks for and the server it asks
  answer,    \* what it was told
  faults     \* how often a server has stopped

pvars == <<schema, accounts, spc, step, request, answer, faults>>

-----------------------------------------------------------------------------
(* A name is the sequence of its parts.                                    *)
EmptyName == << >>

Row(name, cur, neg) == [name |-> name, cur |-> cur, neg |-> neg]

Uses == <<"world", "fx", "payout">>
Name(use, c) == <<use, c>>

(* The accounts EnsureInfra asks for, in its order; all may go negative.   *)
Infra ==
  [i \in 1 .. 3 * Len(Currencies) |->
     LET c == Currencies[((i - 1) \div 3) + 1]
     IN  Row(Name(Uses[((i - 1) % 3) + 1], c), c, TRUE)]

(* money.IsSupported knows the currencies that are provisioned.            *)
Supported == {Currencies[i] : i \in DOMAIN Currencies}

Names ==
  {Infra[i].name : i \in DOMAIN Infra} \union ClientName \union {EmptyName}

RowType == [name : Names, cur : CurrencyCode, neg : BOOLEAN]

Taken(name) == \E i \in DOMAIN accounts : accounts[i].name = name

Ask(s, row) == [server |-> s, row |-> row]
NoAsk       == [server |-> NoServer]

NoAnswer         == [status |-> "none"]
Created(id, row) == [status |-> "created", id |-> id, row |-> row]
Refused          == [status |-> "refused"]
Lost             == [status |-> "lost"]

Init ==
  /\ schema = FALSE
  /\ accounts = << >>
  /\ spc = [s \in Server |-> "down"]
  /\ step = [s \in Server |-> 1]
  /\ request = [c \in Client |-> NoAsk]
  /\ answer = [c \in Client |-> NoAnswer]
  /\ faults = 0

Goto(s, l) == spc' = [spc EXCEPT ![s] = l]

-----------------------------------------------------------------------------
(* A server.                                                               *)

Start(s) ==
  /\ spc[s] = "down"
  /\ Goto(s, "migrate")
  /\ UNCHANGED <<schema, accounts, step, request, answer, faults>>

(* CREATE TABLE IF NOT EXISTS: tables that are there are skipped, and the  *)
(* others created, all in one implicit transaction.                        *)
Migrate(s) ==
  /\ spc[s] = "migrate"
  /\ step' = [step EXCEPT ![s] = 1]
  /\ Goto(s, IF schema THEN "insert" ELSE "creating")
  /\ UNCHANGED <<schema, accounts, request, answer, faults>>

TablesCreated(s) ==
  /\ spc[s] = "creating" /\ ~schema
  /\ schema' = TRUE
  /\ Goto(s, "insert")
  /\ UNCHANGED <<accounts, step, request, answer, faults>>

(* Another server, which did not see these tables either, committed its    *)
(* own: 23505 from the catalog, and log.Fatalf.                            *)
CreatedMeanwhile(s) ==
  /\ spc[s] = "creating" /\ schema
  /\ Goto(s, "down")
  /\ UNCHANGED <<schema, accounts, step, request, answer, faults>>

(* Mutant: a plain INSERT, as CreateAccount's: it fails, and the server    *)
(* with it, when the account is there.                                     *)
MutEnsureInsertFails(s) ==
  /\ spc[s] = "insert" /\ step[s] \in DOMAIN Infra
  /\ IF Taken(Infra[step[s]].name)
       THEN Goto(s, "down") /\ UNCHANGED accounts
       ELSE accounts' = Append(accounts, Infra[step[s]]) /\ Goto(s, "select")
  /\ UNCHANGED <<schema, step, request, answer, faults>>

(* EnsureAccount: INSERT ... ON CONFLICT (name) DO NOTHING ...             *)
EnsureInsert(s) ==
  /\ spc[s] = "insert" /\ step[s] \in DOMAIN Infra
  /\ accounts' = IF Taken(Infra[step[s]].name) THEN accounts
                 ELSE Append(accounts, Infra[step[s]])
  /\ Goto(s, "select")
  /\ UNCHANGED <<schema, step, request, answer, faults>>

(* ... then SELECT by name: whatever account has the name, with whatever   *)
(* attributes, is the one.                                                 *)
EnsureSelect(s) ==
  /\ spc[s] = "select"
  /\ Taken(Infra[step[s]].name)
  /\ step' = [step EXCEPT ![s] = @ + 1]
  /\ Goto(s, "insert")
  /\ UNCHANGED <<schema, accounts, request, answer, faults>>

(* Mutant: the server listens while EnsureInfra is still running.          *)
MutListenEarly(s) ==
  /\ spc[s] = "insert"
  /\ step[s] > 1
  /\ Goto(s, "serving")
  /\ UNCHANGED <<schema, accounts, step, request, answer, faults>>

Listen(s) ==
  /\ spc[s] = "insert"
  /\ step[s] > Len(Infra)
  /\ Goto(s, "serving")
  /\ UNCHANGED <<schema, accounts, step, request, answer, faults>>

(* A statement of the startup fails, or the process is stopped: log.Fatalf.*)
(* The clients it was answering do not know what happened.                 *)
Stop(s) ==
  /\ spc[s] # "down" /\ faults < MaxFaults
  /\ faults' = faults + 1
  /\ Goto(s, "down")
  /\ answer' = [c \in Client |-> IF request[c].server = s THEN Lost ELSE answer[c]]
  /\ request' = [c \in Client |-> IF request[c].server = s THEN NoAsk ELSE request[c]]
  /\ UNCHANGED <<schema, accounts, step>>

-----------------------------------------------------------------------------
(* A client.                                                               *)

(* POST /accounts.                                                         *)
Send(c, s, row) ==
  /\ spc[s] = "serving"
  /\ request[c] = NoAsk
  /\ request' = [request EXCEPT ![c] = Ask(s, row)]
  /\ answer' = [answer EXCEPT ![c] = NoAnswer]
  /\ UNCHANGED <<schema, accounts, spc, step, faults>>

Reply(c, a) ==
  /\ answer' = [answer EXCEPT ![c] = a]
  /\ request' = [request EXCEPT ![c] = NoAsk]

Acceptable(row) == row.name # EmptyName /\ row.cur \in Supported

(* Mutant: the account of that name is returned, as by EnsureAccount.      *)
MutCreateAccountEnsures(c) ==
  LET row == request[c].row IN
  /\ request[c] # NoAsk
  /\ IF ~Acceptable(row)
       THEN Reply(c, Refused) /\ UNCHANGED accounts
       ELSE IF Taken(row.name)
       THEN LET id == CHOOSE i \in DOMAIN accounts : accounts[i].name = row.name
            IN  Reply(c, Created(id, row)) /\ UNCHANGED accounts
       ELSE Reply(c, Created(Len(accounts) + 1, row)) /\ accounts' = Append(accounts, row)
  /\ UNCHANGED <<schema, spc, step, faults>>

(* Mutant: ON CONFLICT (name) DO UPDATE.                                   *)
MutCreateAccountUpserts(c) ==
  LET row == request[c].row IN
  /\ request[c] # NoAsk
  /\ Reply(c, Created(Len(accounts) + 1, row))
  /\ accounts' = Append(SelectSeq(accounts, LAMBDA r : r.name # row.name), row)
  /\ UNCHANGED <<schema, spc, step, faults>>

(* CreateAccount: no name and an unsupported currency are refused, and so  *)
(* is a name that is taken, by the unique index.                           *)
CreateAccount(c) ==
  LET row == request[c].row IN
  /\ request[c] # NoAsk
  /\ IF ~Acceptable(row) \/ Taken(row.name)
       THEN Reply(c, Refused) /\ UNCHANGED accounts
       ELSE Reply(c, Created(Len(accounts) + 1, row)) /\ accounts' = Append(accounts, row)
  /\ UNCHANGED <<schema, spc, step, faults>>

(* The row is inserted and the connection is lost before the answer.       *)
CreateAnswerLost(c) ==
  LET row == request[c].row IN
  /\ request[c] # NoAsk
  /\ Acceptable(row) /\ ~Taken(row.name)
  /\ accounts' = Append(accounts, row)
  /\ Reply(c, Lost)
  /\ UNCHANGED <<schema, spc, step, faults>>

ServerStep(s) ==
  \/ Migrate(s) \/ TablesCreated(s) \/ CreatedMeanwhile(s)
  \/ EnsureInsert(s) \/ EnsureSelect(s) \/ Listen(s)

Next ==
  \/ \E s \in Server : Start(s) \/ ServerStep(s) \/ Stop(s)
  \/ \E c \in Client :
       \/ \E s \in Server, name \in Names, cur \in CurrencyCode, neg \in BOOLEAN :
            Send(c, s, Row(name, cur, neg))
       \/ CreateAccount(c) \/ CreateAnswerLost(c)

(* A started server runs on; a request reaches the database.               *)
Fairness ==
  /\ \A s \in Server : WF_pvars(ServerStep(s))
  /\ \A c \in Client : WF_pvars(CreateAccount(c) \/ CreateAnswerLost(c))

Spec == Init /\ [][Next]_pvars

FairSpec == Spec /\ Fairness

-----------------------------------------------------------------------------
(* Every variable keeps its type, and only a server that serves has        *)
(* requests to answer.                                                     *)
TypeOK ==
  /\ schema \in BOOLEAN /\ faults \in 0 .. MaxFaults
  /\ accounts \in Seq(RowType)
  /\ spc \in [Server -> {"down", "migrate", "creating", "insert", "select", "serving"}]
  /\ step \in [Server -> 1 .. Len(Infra) + 1]
  /\ DOMAIN request = Client /\ DOMAIN answer = Client
  /\ \A c \in Client : request[c] # NoAsk =>
       /\ request[c].server \in Server /\ spc[request[c].server] = "serving"
       /\ request[c].row \in RowType

Rows == {accounts[i] : i \in DOMAIN accounts}

(* What the other modules assume of FXAccount, PayoutAccount, CurrencyOf   *)
(* and AllowNegative: while any server serves, the name of every world, FX *)
(* and payout account belongs to an account in that currency that may go   *)
(* negative, whatever clients create and wherever other servers stopped.   *)
Provisioned ==
  (\E s \in Server : spc[s] = "serving") =>
    schema /\ \A i \in DOMAIN Infra : Infra[i] \in Rows

(* No client ever owns a name of the infrastructure: EnsureAccount, which  *)
(* takes whatever account has the name, never finds another's.             *)
NamesReserved ==
  \A row \in Rows : \A i \in DOMAIN Infra : row.name = Infra[i].name => row = Infra[i]

(* A client told that it created an account did: the account is as it      *)
(* asked, and nobody else was told the same.                               *)
CreatedAsAsked ==
  \A c \in Client : answer[c].status = "created" =>
    /\ answer[c].id \in DOMAIN accounts
    /\ accounts[answer[c].id] = answer[c].row
    /\ \A d \in Client \ {c} : answer[d].status = "created" => answer[d].id # answer[c].id

(* What a server still starting has achieved.                              *)
Ensured(s, i) ==
  \/ spc[s] \in {"insert", "select"} /\ i < step[s]
  \/ spc[s] = "select" /\ i = step[s]
  \/ spc[s] = "serving"

ServerDone(s) ==
  /\ spc[s] \in {"insert", "select", "serving"} => schema
  /\ spc[s] = "creating" => step[s] = 1
  /\ spc[s] = "select" => step[s] \in DOMAIN Infra
  /\ \A i \in DOMAIN Infra : Ensured(s, i) => Infra[i] \in Rows

StepsDone == \A s \in Server : ServerDone(s)

(* The inductive invariant.                                                *)
ProvisioningInv == TypeOK /\ StepsDone /\ NamesReserved /\ CreatedAsAsked

(* Whatever crashed halfway through a provisioning, and whatever another   *)
(* server provisions at the same time, a server that starts on a database  *)
(* with its tables serves (internal/ops/provision.go:22, safe to call on   *)
(* every startup), and one that starts on an empty database serves or has  *)
(* lost the creation of the tables to another server, which then serves.   *)
(* It is not promised that every start succeeds: the loser's fails         *)
(* (CreatedMeanwhile) and has to be repeated.  Both are about the starts   *)
(* after the last Stop.                                                    *)
StartupSucceeds ==
  \A s \in Server :
    /\ (spc[s] = "migrate" /\ schema /\ faults = MaxFaults) ~> spc[s] = "serving"
    /\ (spc[s] = "migrate" /\ faults = MaxFaults) ~>
         \/ spc[s] = "serving"
         \/ spc[s] = "down" /\ \E t \in Server : spc[t] = "serving"
=============================================================================
