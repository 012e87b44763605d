------------------------- MODULE ProvisioningProofs -------------------------
(***************************************************************************)
(* For any number of servers, clients, currencies and crashes, a server    *)
(* that serves finds the accounts the operations look up by name.          *)
(***************************************************************************)
EXTENDS Provisioning, TLAPS

(* The rows EnsureInfra asks for, and that a row is determined by its name.*)
LEMMA InfraRows ==
  /\ Len(Infra) \in Nat /\ DOMAIN Infra = 1 .. Len(Infra)
  /\ \A i \in DOMAIN Infra : Infra[i] \in RowType
  /\ \A i, j \in DOMAIN Infra : Infra[i].name = Infra[j].name => Infra[i] = Infra[j]
<1> DEFINE n == 3 * Len(Currencies)
           cur(i) == Currencies[((i - 1) \div 3) + 1]
           use(i) == Uses[((i - 1) % 3) + 1]
<1>1. n \in Nat /\ Currencies \in Seq(CurrencyCode)
  BY ProvisioningAssumption
<1>2. Infra = [i \in 1 .. n |-> Row(Name(use(i), cur(i)), cur(i), TRUE)]
  BY DEF Infra
<1>3. DOMAIN Infra = 1 .. n /\ Len(Infra) = n
  <2> HIDE DEF n, cur, use
  <2>1. DOMAIN Infra = 1 .. n
    BY <1>2
  <2> DEFINE S == {Infra[i] : i \in 1 .. n}
             f == [i \in 1 .. n |-> Row(Name(use(i), cur(i)), cur(i), TRUE)]
  <2>2. f \in [1 .. n -> S]
    BY <1>2
  <2>3. Infra \in Seq(S)
    <3> HIDE DEF S, f
    <3>1. f \in Seq(S)
      BY <1>1, <2>2
    <3> QED BY <3>1, <1>2 DEF f
  <2> QED BY <1>1, <2>1, <2>3
<1>4. ASSUME NEW i \in DOMAIN Infra
      PROVE  /\ Infra[i] = Row(<<use(i), cur(i)>>, cur(i), TRUE)
             /\ cur(i) \in CurrencyCode
  <2>1. i \in 1 .. 3 * Len(Currencies) /\ Len(Currencies) \in Nat
    BY <1>1, <1>3
  <2>2. ((i - 1) \div 3) + 1 \in 1 .. Len(Currencies)
    BY <2>1
  <2>3. cur(i) \in CurrencyCode
    BY <1>1, <2>2
  <2> HIDE DEF n, cur, use
  <2> QED BY <1>2, <1>3, <2>3 DEF Name
<1> HIDE DEF n, cur, use
<1>5. \A i \in DOMAIN Infra : Infra[i].name \in Names
  BY DEF Names
<1>6. \A i \in DOMAIN Infra : Infra[i] \in RowType
  <2> SUFFICES ASSUME NEW i \in DOMAIN Infra
               PROVE  Infra[i] \in RowType
    OBVIOUS
  <2>1. Infra[i].name \in Names
    BY <1>5
  <2>2. cur(i) \in CurrencyCode /\ Infra[i] = [name |-> <<use(i), cur(i)>>, cur |-> cur(i), neg |-> TRUE]
    BY <1>4 DEF Row
  <2> QED BY <2>1, <2>2 DEF RowType
<1>7. ASSUME NEW i \in DOMAIN Infra, NEW j \in DOMAIN Infra, Infra[i].name = Infra[j].name
      PROVE  Infra[i] = Infra[j]
  <2>1. <<use(i), cur(i)>> = <<use(j), cur(j)>>
    BY <1>4, <1>7 DEF Row
  <2> QED BY <1>4, <2>1
<1> QED BY <1>1, <1>3, <1>6, <1>7

(* A new row gets the next id; the others keep theirs.                     *)
LEMMA NewRow ==
  ASSUME TypeOK, NEW row \in RowType, accounts' = Append(accounts, row)
  PROVE  /\ accounts' \in Seq(RowType)
         /\ Len(accounts) \in Nat
         /\ DOMAIN accounts = 1 .. Len(accounts)
         /\ DOMAIN accounts' = 1 .. Len(accounts) + 1
         /\ \A i \in DOMAIN accounts : accounts'[i] = accounts[i]
         /\ accounts'[Len(accounts) + 1] = row
         /\ Rows' = Rows \union {row}
<1>1. /\ accounts' \in Seq(RowType) /\ Len(accounts) \in Nat
      /\ DOMAIN accounts = 1 .. Len(accounts)
      /\ DOMAIN accounts' = 1 .. Len(accounts) + 1
      /\ \A i \in DOMAIN accounts : accounts'[i] = accounts[i]
      /\ accounts'[Len(accounts) + 1] = row
  BY DEF TypeOK
<1>2. Rows' = Rows \union {row}
  BY <1>1 DEF Rows
<1> QED BY <1>1, <1>2

LEMMA ProvInit == Init => ProvisioningInv
<1> SUFFICES ASSUME Init PROVE ProvisioningInv
  OBVIOUS
<1>1. TypeOK
  <2>1. accounts \in Seq(RowType)
    <3>1. << >> \in Seq(RowType)
      OBVIOUS
    <3> QED BY <3>1, Zenon DEF Init
  <2>3. faults \in 0 .. MaxFaults
    BY ProvisioningAssumption DEF Init
  <2>2. step \in [Server -> 1 .. Len(Infra) + 1]
    BY InfraRows DEF Init
  <2>4. schema \in BOOLEAN
    BY DEF Init
  <2> QED BY <2>1, <2>2, <2>3, <2>4 DEF Init, TypeOK
<1>2. StepsDone
  BY DEF Init, StepsDone, ServerDone, Ensured
<1>3. NamesReserved
  BY DEF Init, NamesReserved, Rows
<1>4. CreatedAsAsked
  BY DEF Init, CreatedAsAsked, NoAnswer
<1> QED BY <1>1, <1>2, <1>3, <1>4 DEF ProvisioningInv

(* A server that keeps its place keeps what it has ensured.                *)
LEMMA StillEnsured ==
  ASSUME StepsDone, schema => schema', Rows \subseteq Rows', NEW t \in Server,
         spc'[t] = spc[t], step'[t] = step[t]
  PROVE  ServerDone(t)'
BY DEF StepsDone, ServerDone, Ensured

(* The steps that move one server and change no row.                       *)
Move(s) ==
  Start(s) \/ Migrate(s) \/ TablesCreated(s) \/ CreatedMeanwhile(s) \/ Listen(s)

LEMMA MoveStep ==
  ASSUME ProvisioningInv, NEW s \in Server, Move(s)
  PROVE  ProvisioningInv'
<1>1. /\ UNCHANGED <<accounts, request, answer, faults>>
      /\ spc[s] # "serving"
      /\ \A t \in Server : t # s => spc'[t] = spc[t] /\ step'[t] = step[t]
  BY DEF ProvisioningInv, TypeOK, Move, Start, Migrate, TablesCreated,
     CreatedMeanwhile, Listen, Goto
<1>2. TypeOK'
  <2>1. spc' \in [Server -> {"down", "migrate", "creating", "insert", "select", "serving"}]
    BY DEF ProvisioningInv, TypeOK, Move, Start, Migrate, TablesCreated,
     CreatedMeanwhile, Listen, Goto
  <2>2. schema' \in BOOLEAN
    BY DEF ProvisioningInv, TypeOK, Move, Start, Migrate, TablesCreated,
       CreatedMeanwhile, Listen
  <2>3. step' \in [Server -> 1 .. Len(Infra) + 1]
    <3>1. 1 \in 1 .. Len(Infra) + 1
      BY InfraRows
    <3>2. step' = step \/ step' = [step EXCEPT ![s] = 1]
      BY DEF Move, Start, Migrate, TablesCreated, CreatedMeanwhile, Listen
    <3> QED BY <3>1, <3>2 DEF ProvisioningInv, TypeOK
  <2> QED BY <1>1, <2>1, <2>2, <2>3 DEF ProvisioningInv, TypeOK
<1>3. StepsDone'
  <2>1. Rows' = Rows /\ (schema => schema')
    BY <1>1 DEF Rows, Move, Start, Migrate, TablesCreated, CreatedMeanwhile, Listen
  <2>2. ASSUME NEW t \in Server, t # s
        PROVE  ServerDone(t)'
    BY <1>1, <2>1, <2>2, StillEnsured DEF ProvisioningInv
  <2>3. CASE Start(s)
    <3>1. spc'[s] = "migrate"
      BY <2>3 DEF Start, Goto, ProvisioningInv, TypeOK
    <3>2. ServerDone(s)'
      BY <3>1 DEF ServerDone, Ensured
    <3> QED BY <2>2, <3>2 DEF StepsDone
  <2>4. CASE Migrate(s)
    <3>1. /\ spc'[s] \in {"insert", "creating"} /\ step'[s] = 1
          /\ spc'[s] = "insert" => schema'
      BY <2>4 DEF Migrate, Goto, ProvisioningInv, TypeOK
    <3>2. \A i \in DOMAIN Infra : ~Ensured(s, i)'
      BY <3>1, InfraRows DEF Ensured
    <3>3. ServerDone(s)'
      BY <3>1, <3>2 DEF ServerDone
    <3> QED BY <2>2, <3>3 DEF StepsDone
  <2>6. CASE TablesCreated(s)
    <3>1. spc[s] = "creating" /\ spc'[s] = "insert" /\ step'[s] = step[s] /\ schema'
      BY <2>6 DEF TablesCreated, Goto, ProvisioningInv, TypeOK
    <3>2. ASSUME NEW i \in DOMAIN Infra PROVE ~Ensured(s, i)'
      BY <3>1, InfraRows DEF Ensured, ProvisioningInv, StepsDone, ServerDone
    <3>3. ServerDone(s)'
      BY <3>1, <3>2 DEF ServerDone
    <3> QED BY <2>2, <3>3 DEF StepsDone
  <2>7. CASE CreatedMeanwhile(s)
    <3>1. spc'[s] = "down"
      BY <2>7 DEF CreatedMeanwhile, Goto, ProvisioningInv, TypeOK
    <3>2. ServerDone(s)'
      BY <3>1 DEF ServerDone, Ensured
    <3> QED BY <2>2, <3>2 DEF StepsDone
  <2>5. CASE Listen(s)
    <3>1. /\ spc[s] = "insert" /\ schema' = schema
          /\ step[s] \in Nat /\ step[s] > Len(Infra)
      BY <2>5, InfraRows DEF Listen, ProvisioningInv, TypeOK
    <3>2. schema
      BY <3>1 DEF ProvisioningInv, StepsDone, ServerDone
    <3>3. \A i \in DOMAIN Infra : Ensured(s, i)
      BY <3>1, InfraRows DEF Ensured
    <3>4. \A i \in DOMAIN Infra : Infra[i] \in Rows
      BY <3>3 DEF ProvisioningInv, StepsDone, ServerDone
    <3>5. spc'[s] = "serving"
      BY <2>5 DEF Listen, Goto, ProvisioningInv, TypeOK
    <3>6. ServerDone(s)'
      BY <2>1, <3>2, <3>4, <3>5 DEF ServerDone
    <3> QED BY <2>2, <3>6 DEF StepsDone
  <2> QED BY <2>3, <2>4, <2>5, <2>6, <2>7 DEF Move
<1>4. NamesReserved' /\ CreatedAsAsked'
  BY <1>1 DEF ProvisioningInv, NamesReserved, CreatedAsAsked, Rows
<1> QED BY <1>2, <1>3, <1>4 DEF ProvisioningInv

(* EnsureAccount's INSERT.                                                 *)
LEMMA InsertStep ==
  ASSUME ProvisioningInv, NEW s \in Server, EnsureInsert(s)
  PROVE  ProvisioningInv'
<1> DEFINE row == Infra[step[s]]
<1>1. /\ spc[s] = "insert" /\ step[s] \in DOMAIN Infra /\ row \in RowType
      /\ UNCHANGED <<schema, step, request, answer, faults>>
      /\ spc' = [spc EXCEPT ![s] = "select"]
  BY InfraRows DEF EnsureInsert, Goto
<1>2. /\ accounts' \in Seq(RowType)
      /\ Rows \subseteq Rows' /\ Rows' \subseteq Rows \union {row} /\ row \in Rows'
      /\ \A i \in DOMAIN accounts : i \in DOMAIN accounts' /\ accounts'[i] = accounts[i]
  <2>1. CASE Taken(row.name)
    <3>1. accounts' = accounts /\ \E i \in DOMAIN accounts : accounts[i].name = row.name
      BY <2>1 DEF EnsureInsert, Taken
    <3>2. row \in Rows
      BY <1>1, <3>1 DEF ProvisioningInv, NamesReserved, Rows
    <3> QED BY <3>1, <3>2 DEF Rows, ProvisioningInv, TypeOK
  <2>2. CASE ~Taken(row.name)
    <3>1. accounts' = Append(accounts, row)
      BY <2>2 DEF EnsureInsert
    <3> QED BY <1>1, <3>1, NewRow DEF ProvisioningInv
  <2> QED BY <2>1, <2>2
<1> HIDE DEF row
<1>3. TypeOK'
  BY <1>1, <1>2 DEF ProvisioningInv, TypeOK
<1>4. StepsDone'
  <2>1. ASSUME NEW t \in Server, t # s
        PROVE  ServerDone(t)'
    <3>1. spc'[t] = spc[t] /\ step'[t] = step[t]
      BY <1>1, <2>1 DEF ProvisioningInv, TypeOK
    <3> QED BY <1>1, <1>2, <3>1, StillEnsured DEF ProvisioningInv
  <2>2. spc'[s] = "select" /\ step'[s] = step[s] /\ schema'
    BY <1>1 DEF ProvisioningInv, TypeOK, StepsDone, ServerDone
  <2>3. ASSUME NEW i \in DOMAIN Infra, Ensured(s, i)'
        PROVE  Infra[i] \in Rows'
    <3>1. i < step[s] \/ i = step[s]
      BY <2>2, <2>3 DEF Ensured
    <3>2. CASE i < step[s]
      BY <1>1, <1>2, <3>2 DEF ProvisioningInv, StepsDone, ServerDone, Ensured
    <3>3. CASE i = step[s]
      BY <1>2, <3>3 DEF row
    <3> QED BY <3>1, <3>2, <3>3
  <2> QED BY <1>1, <2>1, <2>2, <2>3 DEF StepsDone, ServerDone
<1>5. NamesReserved'
  BY <1>1, <1>2, InfraRows DEF ProvisioningInv, NamesReserved, row
<1>6. CreatedAsAsked'
  BY <1>1, <1>2 DEF ProvisioningInv, CreatedAsAsked
<1> QED BY <1>3, <1>4, <1>5, <1>6 DEF ProvisioningInv

(* EnsureAccount's SELECT: the account of that name is the one asked for.  *)
LEMMA SelectStep ==
  ASSUME ProvisioningInv, NEW s \in Server, EnsureSelect(s)
  PROVE  ProvisioningInv'
<1>1. /\ spc[s] = "select" /\ step[s] \in DOMAIN Infra
      /\ UNCHANGED <<schema, accounts, request, answer, faults>>
      /\ Rows' = Rows
      /\ \A t \in Server : t # s => spc'[t] = spc[t] /\ step'[t] = step[t]
  BY DEF EnsureSelect, Goto, ProvisioningInv, TypeOK, StepsDone, ServerDone, Rows
<1>2. spc'[s] = "insert" /\ step'[s] = step[s] + 1 /\ step[s] + 1 \in 1 .. Len(Infra) + 1
  BY <1>1, InfraRows DEF EnsureSelect, Goto, ProvisioningInv, TypeOK
<1>3. TypeOK'
  <2>1. spc' \in [Server -> {"down", "migrate", "creating", "insert", "select", "serving"}]
    BY DEF ProvisioningInv, TypeOK, EnsureSelect, Goto
  <2>2. step' \in [Server -> 1 .. Len(Infra) + 1]
    BY <1>2 DEF ProvisioningInv, TypeOK, EnsureSelect
  <2> QED BY <1>1, <2>1, <2>2 DEF ProvisioningInv, TypeOK
<1>4. StepsDone'
  <2>1. ASSUME NEW t \in Server, t # s
        PROVE  ServerDone(t)'
    BY <1>1, <2>1, StillEnsured DEF ProvisioningInv
  <2>2. ASSUME NEW i \in DOMAIN Infra, Ensured(s, i)'
        PROVE  Infra[i] \in Rows
    <3>1. i \in Nat /\ step[s] \in Nat /\ i < step[s] + 1
      BY <1>1, <1>2, <2>2, InfraRows DEF Ensured
    <3>2. Ensured(s, i)
      BY <1>1, <3>1 DEF Ensured
    <3> QED BY <3>2 DEF ProvisioningInv, StepsDone, ServerDone
  <2>3. ServerDone(s)'
    BY <1>1, <1>2, <2>2 DEF ProvisioningInv, StepsDone, ServerDone
  <2> QED BY <2>1, <2>3 DEF StepsDone
<1>5. NamesReserved' /\ CreatedAsAsked'
  BY <1>1 DEF ProvisioningInv, NamesReserved, CreatedAsAsked
<1> QED BY <1>3, <1>4, <1>5 DEF ProvisioningInv

(* A process stops: what it had ensured stays, its requests are gone.      *)
LEMMA StopStep ==
  ASSUME ProvisioningInv, NEW s \in Server, Stop(s)
  PROVE  ProvisioningInv'
<1>1. /\ faults' = faults + 1 /\ faults < MaxFaults
      /\ UNCHANGED <<schema, accounts, step>>
      /\ Rows' = Rows
      /\ spc' \in [Server -> {"down", "migrate", "creating", "insert", "select", "serving"}]
      /\ spc'[s] = "down"
      /\ \A t \in Server : t # s => spc'[t] = spc[t] /\ step'[t] = step[t]
  BY DEF Stop, Goto, ProvisioningInv, TypeOK, Rows
<1>2. /\ DOMAIN request' = Client /\ DOMAIN answer' = Client
      /\ \A c \in Client :
           /\ answer'[c] = answer[c] \/ answer'[c] = Lost
           /\ request'[c] = NoAsk \/ (request'[c] = request[c] /\ request[c].server # s)
  BY DEF Stop
<1>3. TypeOK'
  <2>1. faults' \in 0 .. MaxFaults
    BY <1>1, ProvisioningAssumption DEF ProvisioningInv, TypeOK
  <2>2. ASSUME NEW c \in Client, request'[c] # NoAsk
        PROVE  /\ request'[c].server \in Server /\ spc'[request'[c].server] = "serving"
               /\ request'[c].row \in RowType
    BY <1>1, <1>2, <2>2 DEF ProvisioningInv, TypeOK
  <2> QED BY <1>1, <1>2, <2>1, <2>2 DEF ProvisioningInv, TypeOK
<1>4. StepsDone'
  <2>1. ASSUME NEW t \in Server, t # s
        PROVE  ServerDone(t)'
    BY <1>1, <2>1, StillEnsured DEF ProvisioningInv
  <2>2. ServerDone(s)'
    BY <1>1 DEF ServerDone, Ensured
  <2> QED BY <2>1, <2>2 DEF StepsDone
<1>5. NamesReserved'
  BY <1>1 DEF ProvisioningInv, NamesReserved
<1>6. CreatedAsAsked'
  BY <1>1, <1>2 DEF ProvisioningInv, CreatedAsAsked, Lost
<1> QED BY <1>3, <1>4, <1>5, <1>6 DEF ProvisioningInv

(* A client sends a request to a server that serves.                       *)
LEMMA SendStep ==
  ASSUME ProvisioningInv, NEW c \in Client, NEW s \in Server,
         NEW name \in Names, NEW cur \in CurrencyCode, NEW neg \in BOOLEAN,
         Send(c, s, Row(name, cur, neg))
  PROVE  ProvisioningInv'
<1> DEFINE row == Row(name, cur, neg)
<1>1. /\ spc[s] = "serving"
      /\ UNCHANGED <<schema, accounts, spc, step, faults>>
      /\ Rows' = Rows
      /\ request' = [request EXCEPT ![c] = Ask(s, row)]
      /\ answer' = [answer EXCEPT ![c] = NoAnswer]
  BY DEF Send, Rows
<1>2. row \in RowType
  BY DEF Row, RowType
<1> HIDE DEF row
<1>3. TypeOK'
  <2>1. ASSUME NEW d \in Client, request'[d] # NoAsk
        PROVE  /\ request'[d].server \in Server /\ spc'[request'[d].server] = "serving"
               /\ request'[d].row \in RowType
    BY <1>1, <1>2, <2>1 DEF ProvisioningInv, TypeOK, Ask
  <2> QED BY <1>1, <2>1 DEF ProvisioningInv, TypeOK
<1>4. StepsDone'
  BY <1>1, StillEnsured DEF ProvisioningInv, StepsDone
<1>5. NamesReserved'
  BY <1>1 DEF ProvisioningInv, NamesReserved
<1>6. CreatedAsAsked'
  <2>1. \A d \in Client : answer'[d].status = "created" => answer'[d] = answer[d]
    BY <1>1 DEF ProvisioningInv, TypeOK, NoAnswer
  <2> QED BY <1>1, <2>1 DEF ProvisioningInv, CreatedAsAsked
<1> QED BY <1>3, <1>4, <1>5, <1>6 DEF ProvisioningInv

(* A request refused changes no row.                                       *)
LEMMA RefusedStep ==
  ASSUME ProvisioningInv, NEW c \in Client, Reply(c, Refused),
         UNCHANGED <<schema, accounts, spc, step, faults>>
  PROVE  ProvisioningInv'
<1>1. Rows' = Rows
  BY DEF Rows
<1>2. /\ DOMAIN request' = Client /\ DOMAIN answer' = Client
      /\ \A d \in Client :
           /\ answer'[d] = answer[d] \/ answer'[d] = Refused
           /\ request'[d] = NoAsk \/ request'[d] = request[d]
  BY DEF Reply, ProvisioningInv, TypeOK
<1>3. TypeOK'
  BY <1>2 DEF ProvisioningInv, TypeOK
<1>4. StepsDone'
  BY <1>1, StillEnsured DEF ProvisioningInv, StepsDone
<1>5. NamesReserved' /\ CreatedAsAsked'
  BY <1>1, <1>2 DEF ProvisioningInv, NamesReserved, CreatedAsAsked, Refused
<1> QED BY <1>3, <1>4, <1>5 DEF ProvisioningInv

(* A new row never has a name of the infrastructure: the server that       *)
(* inserts it serves, so all of those names are taken.                     *)
LEMMA CreateStep ==
  ASSUME ProvisioningInv, NEW c \in Client, request[c] # NoAsk,
         ~Taken(request[c].row.name),
         accounts' = Append(accounts, request[c].row),
         \/ Reply(c, Created(Len(accounts) + 1, request[c].row))
         \/ Reply(c, Lost),
         UNCHANGED <<schema, spc, step, faults>>
  PROVE  ProvisioningInv'
<1> DEFINE row == request[c].row
           s   == request[c].server
<1>1. /\ row \in RowType /\ s \in Server /\ spc[s] = "serving"
  BY DEF ProvisioningInv, TypeOK
<1>2. \A i \in DOMAIN Infra : Infra[i].name # row.name
  <2> SUFFICES ASSUME NEW i \in DOMAIN Infra
               PROVE  Infra[i].name # row.name
    OBVIOUS
  <2>1. Infra[i] \in Rows
    BY <1>1 DEF ProvisioningInv, StepsDone, ServerDone, Ensured
  <2> QED BY <2>1 DEF Rows, Taken
<1>3. /\ accounts' \in Seq(RowType)
      /\ Len(accounts) \in Nat
      /\ DOMAIN accounts = 1 .. Len(accounts)
      /\ DOMAIN accounts' = 1 .. Len(accounts) + 1
      /\ \A i \in DOMAIN accounts : accounts'[i] = accounts[i]
      /\ accounts'[Len(accounts) + 1] = row
      /\ Rows' = Rows \union {row}
  BY <1>1, NewRow DEF ProvisioningInv
<1>4. /\ DOMAIN request' = Client /\ DOMAIN answer' = Client
      /\ \A d \in Client : request'[d] = NoAsk \/ request'[d] = request[d]
      /\ \A d \in Client \ {c} : answer'[d] = answer[d]
      /\ answer'[c] = Created(Len(accounts) + 1, row) \/ answer'[c] = Lost
  BY DEF Reply, ProvisioningInv, TypeOK
<1> HIDE DEF row, s
<1>5. TypeOK'
  BY <1>3, <1>4 DEF ProvisioningInv, TypeOK
<1>6. StepsDone'
  BY <1>3, StillEnsured DEF ProvisioningInv, StepsDone
<1>7. NamesReserved'
  BY <1>2, <1>3 DEF ProvisioningInv, NamesReserved
<1>8. CreatedAsAsked'
  <2>1. ASSUME NEW d \in Client \ {c}, answer'[d].status = "created"
        PROVE  /\ answer'[d].id \in DOMAIN accounts
               /\ accounts'[answer'[d].id] = answer'[d].row
               /\ \A e \in Client \ {c, d} :
                    answer'[e].status = "created" => answer'[e].id # answer'[d].id
    BY <1>3, <1>4, <2>1 DEF ProvisioningInv, CreatedAsAsked
  <2>2. answer'[c].status = "created" =>
          answer'[c].id = Len(accounts) + 1 /\ answer'[c].row = row
    BY <1>4 DEF Created, Lost
  <2>3. Len(accounts) + 1 \notin DOMAIN accounts
    BY <1>3
  <2> QED BY <1>3, <2>1, <2>2, <2>3 DEF CreatedAsAsked
<1> QED BY <1>5, <1>6, <1>7, <1>8 DEF ProvisioningInv

LEMMA ProvNext == ProvisioningInv /\ [Next]_pvars => ProvisioningInv'
<1> SUFFICES ASSUME ProvisioningInv, [Next]_pvars
             PROVE  ProvisioningInv'
  OBVIOUS
<1>1. ASSUME NEW s \in Server, Start(s) \/ ServerStep(s) \/ Stop(s)
      PROVE  ProvisioningInv'
  BY <1>1, MoveStep, InsertStep, SelectStep, StopStep DEF ServerStep, Move
<1>2. ASSUME NEW c \in Client, NEW s \in Server, NEW name \in Names,
             NEW cur \in CurrencyCode, NEW neg \in BOOLEAN,
             Send(c, s, Row(name, cur, neg))
      PROVE  ProvisioningInv'
  BY <1>2, SendStep
<1>3. ASSUME NEW c \in Client, CreateAccount(c)
      PROVE  ProvisioningInv'
  <2>1. CASE ~Acceptable(request[c].row) \/ Taken(request[c].row.name)
    BY <1>3, <2>1, RefusedStep DEF CreateAccount
  <2>2. CASE ~(~Acceptable(request[c].row) \/ Taken(request[c].row.name))
    BY <1>3, <2>2, CreateStep DEF CreateAccount
  <2> QED BY <2>1, <2>2
<1>4. ASSUME NEW c \in Client, CreateAnswerLost(c)
      PROVE  ProvisioningInv'
  BY <1>4, CreateStep DEF CreateAnswerLost
<1>5. CASE UNCHANGED pvars
  <2>1. UNCHANGED <<schema, accounts, spc, step, request, answer, faults>>
    BY <1>5 DEF pvars
  <2>2. TypeOK' /\ NamesReserved' /\ CreatedAsAsked'
    BY <2>1 DEF ProvisioningInv, TypeOK, NamesReserved, CreatedAsAsked, Rows
  <2>3. StepsDone'
    BY <2>1 DEF ProvisioningInv, StepsDone, ServerDone, Ensured, Rows
  <2> QED BY <2>2, <2>3 DEF ProvisioningInv
<1> QED BY <1>1, <1>2, <1>3, <1>4, <1>5 DEF Next

(* The inductive invariant holds always.                                   *)
THEOREM ProvisioningInvariant == Spec => []ProvisioningInv
<1>1. Init => ProvisioningInv
  BY ProvInit
<1>2. ProvisioningInv /\ [Next]_pvars => ProvisioningInv'
  BY ProvNext
<1> QED BY <1>1, <1>2, PTL DEF Spec

(* Whatever crashes and whatever clients create, a server that serves has  *)
(* the world, FX and payout accounts, with their attributes.               *)
THEOREM AccountsProvisioned == Spec => []Provisioned
<1>1. ProvisioningInv => Provisioned
  BY DEF ProvisioningInv, StepsDone, ServerDone, Ensured, Provisioned
<1> QED BY <1>1, ProvisioningInvariant, PTL

(* No account of a client ever has a name of the infrastructure.           *)
THEOREM InfraNamesReserved == Spec => []NamesReserved
<1>1. ProvisioningInv => NamesReserved
  BY DEF ProvisioningInv
<1> QED BY <1>1, ProvisioningInvariant, PTL

(* Every account a client was told of is the one it asked for, and its own.*)
THEOREM AccountsAsAsked == Spec => []CreatedAsAsked
<1>1. ProvisioningInv => CreatedAsAsked
  BY DEF ProvisioningInv
<1> QED BY <1>1, ProvisioningInvariant, PTL
=============================================================================
