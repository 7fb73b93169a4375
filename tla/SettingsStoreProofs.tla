------------------------ MODULE SettingsStoreProofs ------------------------
(***************************************************************************)
(* Proofs about SettingsStore for any requests, any number of them at once.*)
(***************************************************************************)
EXTENDS SettingsStore, TLAPS

LEMMA DefaultsType ==
  ASSUME NEW t \in Tables
  PROVE  Defaults(t) \in Row(t) /\ InRange(t, Defaults(t))
<1>1. CASE t = "alerts"
  BY <1>1 DEF Defaults, Row, AlertDefaults, AlertSettings, InRange
<1>2. CASE t = "mail"
  BY <1>2 DEF Defaults, Row, EmailDefaults, EmailSettings, InRange, Ports
<1>. QED
  BY <1>1, <1>2 DEF Tables

LEMMA NoClientType == IsClient(NoClient)
<1>1. AlertDefaults \in Row("alerts")
  BY DEF AlertDefaults, Row, AlertSettings
<1>. QED
  BY <1>1 DEF IsClient, NoClient, Tables

\* A merged row has the columns of its table, each from one of two rows.
LEMMA MergeColumns ==
  ASSUME NEW t \in Tables, NEW db \in Row(t), NEW read \in Row(t), NEW new \in Row(t)
  PROVE  /\ Merge(db, read, new) \in Row(t)
         /\ InRange(t, db) /\ InRange(t, new) => InRange(t, Merge(db, read, new))
<1> DEFINE row == Merge(db, read, new)
<1>1. \A c \in DOMAIN db : row[c] = db[c] \/ row[c] = new[c]
  BY DEF Merge
<1>2. DOMAIN row = DOMAIN db /\ row = [c \in DOMAIN db |-> row[c]]
  BY DEF Merge
<1>3. CASE t = "alerts"
  <2>1. /\ DOMAIN db = {"cpuWarning", "cpuCritical", "memoryWarning", "memoryCritical",
                        "interfaceWarning", "interfaceCritical", "offlineTimeout", "enabled"}
        /\ db \in AlertSettings /\ new \in AlertSettings
    BY <1>3 DEF Row, AlertSettings
  <2> HIDE DEF row
  <2>2. /\ row.cpuWarning \in {db.cpuWarning, new.cpuWarning}
        /\ row.cpuCritical \in {db.cpuCritical, new.cpuCritical}
        /\ row.memoryWarning \in {db.memoryWarning, new.memoryWarning}
        /\ row.memoryCritical \in {db.memoryCritical, new.memoryCritical}
        /\ row.interfaceWarning \in {db.interfaceWarning, new.interfaceWarning}
        /\ row.interfaceCritical \in {db.interfaceCritical, new.interfaceCritical}
        /\ row.offlineTimeout \in {db.offlineTimeout, new.offlineTimeout}
        /\ row.enabled \in {db.enabled, new.enabled}
    BY <1>1, <2>1
  <2>3. row \in AlertSettings
    BY <1>2, <2>1, <2>2 DEF AlertSettings
  <2>4. InRange("alerts", db) /\ InRange("alerts", new) => InRange("alerts", row)
    BY <2>2 DEF InRange
  <2>. QED
    BY <1>3, <2>3, <2>4 DEF Row, row
<1>4. CASE t = "mail"
  <2>1. /\ DOMAIN db = {"enabled", "host", "port", "from", "to", "cooldown", "password"}
        /\ db \in EmailSettings /\ new \in EmailSettings
    BY <1>4 DEF Row, EmailSettings
  <2> HIDE DEF row
  <2>2. /\ row.enabled \in {db.enabled, new.enabled} /\ row.host \in {db.host, new.host}
        /\ row.port \in {db.port, new.port} /\ row.from \in {db.from, new.from}
        /\ row.to \in {db.to, new.to} /\ row.cooldown \in {db.cooldown, new.cooldown}
        /\ row.password \in {db.password, new.password}
    BY <1>1, <2>1
  <2>3. row \in EmailSettings
    BY <1>2, <2>1, <2>2 DEF EmailSettings
  <2>4. InRange(t, db) /\ InRange(t, new) => InRange(t, row)
    BY <1>4, <2>2 DEF InRange
  <2>. QED
    BY <1>4, <2>3, <2>4 DEF Row, row
<1>. QED
  BY <1>3, <1>4 DEF Tables

LEMMA AssignedType ==
  ASSUME NEW t \in Tables, NEW s \in Bodies(t), NEW read \in Row(t), passwords \in Nat
  PROVE  /\ Assigned(t, read, s) \in Row(t)
         /\ InRange(t, s) => InRange(t, Assigned(t, read, s))
<1>1. CASE t = "alerts"
  BY <1>1, RequestsAssumption DEF Bodies, Assigned, Row
<1>2. CASE t = "mail"
  <2>1. s \in EmailRequest /\ read \in EmailSettings
    BY <1>2, RequestsAssumption DEF Bodies, Row
  <2>2. KeptPassword(s.password, read.password) \in Nat
    BY <2>1 DEF KeptPassword, EmailRequest, EmailSettings
  <2>3. Assigned(t, read, s) = [s EXCEPT !.password = KeptPassword(s.password, read.password)]
    BY <1>2 DEF Assigned
  <2> DEFINE row == [s EXCEPT !.password = KeptPassword(s.password, read.password)]
  <2>4. row \in EmailSettings
    BY <2>1, <2>2 DEF EmailSettings, EmailRequest
  <2>5. row.port = s.port /\ row.cooldown = s.cooldown
    BY <2>1 DEF EmailRequest
  <2> HIDE DEF row
  <2>6. InRange(t, s) => InRange(t, row)
    BY <1>2, <2>5 DEF InRange
  <2>. QED
    BY <1>2, <2>3, <2>4, <2>6 DEF Row, row
<1>. QED
  BY <1>1, <1>2 DEF Tables

-----------------------------------------------------------------------------
\* What is about to be written has passed the validator, too.
RangeInv ==
  /\ RowsAreTyped
  /\ StoredInRange
  /\ \A c \in Clients : InRange(clients[c].table, clients[c].new)

GoodTable(t, table) ==
  table \in Seq(Row(t)) /\ \A i \in DOMAIN table : InRange(t, table[i])

LEMMA AppendKeepsTable ==
  ASSUME NEW t, NEW table, GoodTable(t, table), NEW row \in Row(t), InRange(t, row)
  PROVE  GoodTable(t, Append(table, row))
<1> DEFINE longer == Append(table, row)
<1>1. table \in Seq(Row(t))
  BY DEF GoodTable
<1>2. /\ longer \in Seq(Row(t)) /\ Len(longer) = Len(table) + 1
      /\ \A i \in 1..Len(table) : longer[i] = table[i]
      /\ longer[Len(table) + 1] = row
  BY <1>1
<1>3. Len(table) \in Nat /\ DOMAIN table = 1..Len(table) /\ DOMAIN longer = 1..(Len(table) + 1)
  BY <1>1, <1>2
<1> HIDE DEF longer
<1>4. \A i \in DOMAIN longer : i \in DOMAIN table \/ i = Len(table) + 1
  BY <1>3
<1>5. \A i \in DOMAIN longer : InRange(t, longer[i])
  BY <1>2, <1>3, <1>4 DEF GoodTable
<1>. QED
  BY <1>2, <1>5 DEF GoodTable, longer

LEMMA UpdateKeepsTable ==
  ASSUME NEW t, NEW table, GoodTable(t, table), NEW row \in Row(t), InRange(t, row)
  PROVE  GoodTable(t, [table EXCEPT ![1] = row])
<1> DEFINE updated == [table EXCEPT ![1] = row]
<1>1. table \in Seq(Row(t))
  BY DEF GoodTable
<1>2. Len(table) \in Nat /\ table \in [1..Len(table) -> Row(t)]
  BY <1>1
<1>3. updated \in [1..Len(table) -> Row(t)] /\ DOMAIN updated = DOMAIN table
  BY <1>2
<1>4. \A i \in DOMAIN table : updated[i] = table[i] \/ updated[i] = row
  BY <1>1
<1> HIDE DEF updated
<1>5. \A i \in DOMAIN updated : InRange(t, updated[i])
  BY <1>3, <1>4 DEF GoodTable
<1>6. updated \in Seq(Row(t))
  BY <1>2, <1>3
<1>. QED
  BY <1>5, <1>6 DEF GoodTable, updated

LEMMA InitRange == Init => RangeInv
<1> SUFFICES ASSUME Init PROVE RangeInv
  OBVIOUS
<1>1. \A t \in Tables : rows[t] = <<>> \/ rows[t] = Append(<<>>, Defaults(t))
  BY DEF Init, Tables, Defaults
<1>2. \A t \in Tables : GoodTable(t, rows[t])
  <2> SUFFICES ASSUME NEW t \in Tables PROVE GoodTable(t, rows[t])
    OBVIOUS
  <2>1. GoodTable(t, <<>>)
    BY DEF GoodTable
  <2>2. GoodTable(t, Append(<<>>, Defaults(t)))
    BY <2>1, DefaultsType, AppendKeepsTable
  <2>. QED
    BY <1>1, <2>1, <2>2
<1>3. DOMAIN rows = Tables
  BY DEF Init, Tables
<1>4. InRange(NoClient.table, NoClient.new)
  BY DefaultsType DEF NoClient, Tables, Defaults
<1>. QED
  BY <1>2, <1>3, <1>4, NoClientType DEF Init, RangeInv, RowsAreTyped, StoredInRange, GoodTable

LEMMA ReadKeepsRange ==
  ASSUME RangeInv, NEW c \in Clients, NEW t \in Tables, NEW s \in Bodies(t), ReadSettings(c, t, s)
  PROVE  RangeInv'
<1> DEFINE found == rows[t] # <<>>
           read == IF found THEN rows[t][1] ELSE Defaults(t)
           new == Assigned(t, read, s)
           q == [pc |-> "Save", table |-> t, found |-> found, read |-> read, new |-> new]
<1>1. read \in Row(t)
  BY DefaultsType DEF RangeInv, RowsAreTyped
<1>2. new \in Row(t) /\ InRange(t, new)
  BY <1>1, AssignedType DEF RangeInv, RowsAreTyped, ReadSettings, Accepted
<1>3. clients' = [clients EXCEPT ![c] = q] /\ rows' = rows
  BY DEF ReadSettings
<1>4. passwords' \in {passwords, passwords + 1}
  BY DEF ReadSettings
<1> HIDE DEF read, new
<1>5. IsClient(q) /\ InRange(q.table, q.new)
  BY <1>1, <1>2 DEF IsClient
<1> HIDE DEF q
<1>6. /\ DOMAIN clients' = Clients
      /\ \A d \in Clients : IsClient(clients'[d]) /\ InRange(clients'[d].table, clients'[d].new)
  BY <1>3, <1>5 DEF RangeInv, RowsAreTyped
<1>7. passwords' \in Nat
  BY <1>4 DEF RangeInv, RowsAreTyped
<1>. QED
  BY <1>3, <1>6, <1>7 DEF RangeInv, RowsAreTyped, StoredInRange

\* A client that is done leaves nothing to write.
LEMMA DoneKeepsRange ==
  ASSUME RangeInv, NEW c \in Clients, clients' = [clients EXCEPT ![c] = NoClient]
  PROVE  /\ DOMAIN clients' = Clients
         /\ \A d \in Clients : IsClient(clients'[d]) /\ InRange(clients'[d].table, clients'[d].new)
<1>1. InRange(NoClient.table, NoClient.new)
  BY DefaultsType DEF NoClient, Tables, Defaults
<1>. QED
  BY <1>1, NoClientType DEF RangeInv, RowsAreTyped

LEMMA SaveKeepsRange ==
  ASSUME RangeInv, NEW c \in Clients, SaveSettings(c)
  PROVE  RangeInv'
<1> DEFINE q == clients[c]
           t == q.table
           table == Saved(rows[t], q)
<1>1. t \in Tables /\ q.read \in Row(t) /\ q.new \in Row(t) /\ InRange(t, q.new)
  BY DEF RangeInv, RowsAreTyped, IsClient
<1>2. DOMAIN rows = Tables /\ \A u \in Tables : GoodTable(u, rows[u])
  BY DEF RangeInv, RowsAreTyped, StoredInRange, GoodTable
<1>3. rows' = [rows EXCEPT ![t] = table]
  BY DEF SaveSettings
<1>4. GoodTable(t, table)
  <2> HIDE DEF q
  <2>1. CASE ~q.found
    BY <1>1, <1>2, <2>1, AppendKeepsTable DEF Saved
  <2>2. CASE q.found /\ rows[t] # <<>>
    <3>1. rows[t][1] \in Row(t) /\ InRange(t, rows[t][1])
      BY <1>1, <1>2, <2>2 DEF GoodTable
    <3>2. /\ Merge(rows[t][1], q.read, q.new) \in Row(t)
          /\ InRange(t, Merge(rows[t][1], q.read, q.new))
      BY <1>1, <3>1, MergeColumns
    <3>3. GoodTable(t, [rows[t] EXCEPT ![1] = Merge(rows[t][1], q.read, q.new)])
      BY <1>1, <1>2, <3>2, UpdateKeepsTable
    <3>. QED
      BY <2>2, <3>3 DEF Saved
  <2>3. CASE q.found /\ rows[t] = <<>>
    <3>1. table = [rows[t] EXCEPT ![1] = Merge(rows[t][1], q.read, q.new)]
      BY <2>3 DEF Saved
    <3> HIDE DEF table
    <3>2. table = <<>>
      BY <2>3, <3>1
    <3>. QED
      BY <3>2 DEF GoodTable
  <2>. QED
    BY <2>1, <2>2, <2>3
<1> HIDE DEF table
<1>5. DOMAIN rows' = Tables /\ \A u \in Tables : GoodTable(u, rows'[u])
  BY <1>1, <1>2, <1>3, <1>4
<1>6. clients' = [clients EXCEPT ![c] = NoClient] /\ passwords' = passwords
  BY DEF SaveSettings
<1>7. /\ DOMAIN clients' = Clients
      /\ \A d \in Clients : IsClient(clients'[d]) /\ InRange(clients'[d].table, clients'[d].new)
  BY <1>6, DoneKeepsRange
<1>. QED
  BY <1>5, <1>6, <1>7 DEF RangeInv, RowsAreTyped, StoredInRange, GoodTable

LEMMA GiveUpKeepsRange ==
  ASSUME RangeInv, NEW c \in Clients, GiveUp(c)
  PROVE  RangeInv'
<1>1. clients' = [clients EXCEPT ![c] = NoClient] /\ passwords' = passwords /\ rows' = rows
  BY DEF GiveUp
<1>2. /\ DOMAIN clients' = Clients
      /\ \A d \in Clients : IsClient(clients'[d]) /\ InRange(clients'[d].table, clients'[d].new)
  BY <1>1, DoneKeepsRange
<1>. QED
  BY <1>1, <1>2 DEF RangeInv, RowsAreTyped, StoredInRange

LEMMA RangeStep == RangeInv /\ [Next]_vars => RangeInv'
<1> SUFFICES ASSUME RangeInv, [Next]_vars PROVE RangeInv'
  OBVIOUS
<1>1. ASSUME NEW c \in Clients, NEW t \in Tables, NEW s \in Bodies(t), ReadSettings(c, t, s)
      PROVE  RangeInv'
  BY <1>1, ReadKeepsRange
<1>2. ASSUME NEW c \in Clients, SaveSettings(c) PROVE RangeInv'
  BY <1>2, SaveKeepsRange
<1>3. ASSUME NEW c \in Clients, GiveUp(c) PROVE RangeInv'
  BY <1>3, GiveUpKeepsRange
<1>4. CASE UNCHANGED vars
  BY <1>4 DEF RangeInv, RowsAreTyped, StoredInRange, vars
<1>. QED
  BY <1>1, <1>2, <1>3, <1>4 DEF Next

\* Every value stored by PUT /api/settings/* is within the validator's bounds,
\* however many requests overlap and whether or not startup seeded the rows.
THEOREM SettingsInRange == Spec => []StoredInRange
<1>1. RangeInv => StoredInRange
  BY DEF RangeInv
<1>. QED
  BY <1>1, InitRange, RangeStep, PTL DEF Spec

-----------------------------------------------------------------------------
\* What a request about to be saved says of the password: it changes what it has
\* read only to a password that was given, and it has read that there is none
\* where it found no row.
IsAboutPassword(q) ==
  q.pc = "Save" /\ q.table = "mail" =>
    /\ IF q.found THEN rows.mail # <<>> ELSE q.read.password = 0
    /\ q.new.password # q.read.password => q.new.password \in 1..passwords

PasswordInv ==
  /\ TypeOK
  /\ PasswordIsLastGiven
  /\ rows.mail = <<>> => lastPassword = 0
  /\ \A c \in Clients : IsAboutPassword(clients[c])

LEMMA InitPassword == Init => PasswordInv
<1> SUFFICES ASSUME Init PROVE PasswordInv
  OBVIOUS
<1>1. RowsAreTyped /\ lastPassword = 0 /\ passwords = 0
  BY InitRange DEF RangeInv, Init
<1>2. \A c \in Clients : IsAboutPassword(clients[c])
  BY DEF Init, IsAboutPassword, NoClient
<1>3. rows.mail = <<>> \/ rows.mail = <<EmailDefaults>>
  BY DEF Init
<1>4. PasswordIsLastGiven
  BY <1>1, <1>3 DEF PasswordIsLastGiven, EmailDefaults
<1>. QED
  BY <1>1, <1>2, <1>4 DEF PasswordInv, TypeOK

LEMMA ReadKeepsPassword ==
  ASSUME PasswordInv, RowsAreTyped', NEW c \in Clients, NEW t \in Tables,
         NEW s \in Bodies(t), ReadSettings(c, t, s)
  PROVE  PasswordInv'
<1> DEFINE found == rows[t] # <<>>
           read == IF found THEN rows[t][1] ELSE Defaults(t)
           new == Assigned(t, read, s)
           q == [pc |-> "Save", table |-> t, found |-> found, read |-> read, new |-> new]
<1>1. /\ clients' = [clients EXCEPT ![c] = q] /\ rows' = rows /\ lastPassword' = lastPassword
      /\ passwords \in Nat /\ passwords' = IF GivesPassword(t, s) THEN passwords + 1 ELSE passwords
  BY DEF ReadSettings, PasswordInv, TypeOK, RowsAreTyped
<1>2. passwords' \in Nat /\ passwords' >= passwords
  BY <1>1
<1>3. ASSUME t = "mail" PROVE new.password # read.password => new.password \in 1..passwords'
  <2>1. new = [s EXCEPT !.password = KeptPassword(s.password, read.password)] /\ s \in EmailRequest
    BY <1>3, RequestsAssumption DEF Assigned, Bodies
  <2> HIDE DEF new, read
  <2>2. new.password = KeptPassword(s.password, read.password)
    BY <2>1 DEF EmailRequest
  <2>3. s.password => passwords' = passwords + 1
    BY <1>1, <1>3 DEF GivesPassword
  <2>. QED
    BY <1>1, <2>2, <2>3 DEF KeptPassword
<1>4. t = "mail" => IF found THEN rows.mail # <<>> ELSE read.password = 0
  BY DEF Defaults, EmailDefaults
<1> HIDE DEF found, read, new
<1>5. q.table = "mail" =>
        /\ IF q.found THEN rows'.mail # <<>> ELSE q.read.password = 0
        /\ q.new.password # q.read.password => q.new.password \in 1..passwords'
  BY <1>1, <1>3, <1>4
<1> HIDE DEF q
<1>6. \A d \in Clients : IsAboutPassword(clients[d])'
  <2> SUFFICES ASSUME NEW d \in Clients PROVE IsAboutPassword(clients[d])'
    OBVIOUS
  <2>1. DOMAIN clients = Clients /\ IsAboutPassword(clients[d])
    BY DEF PasswordInv, TypeOK, RowsAreTyped
  <2>2. CASE d = c
    <3>1. clients'[d] = q
      BY <1>1, <2>1, <2>2
    <3>. QED
      BY <1>5, <3>1 DEF IsAboutPassword
  <2>3. CASE d # c
    <3>1. clients'[d] = clients[d]
      BY <1>1, <2>1, <2>3
    <3>2. 1..passwords \subseteq 1..passwords'
      BY <1>1, <1>2
    <3>. QED
      BY <1>1, <2>1, <3>1, <3>2 DEF IsAboutPassword
  <2>. QED
    BY <2>2, <2>3
<1>7. lastPassword' \in 0..passwords'
  BY <1>1, <1>2 DEF PasswordInv, TypeOK
<1>. QED
  BY <1>1, <1>6, <1>7 DEF PasswordInv, TypeOK, PasswordIsLastGiven

\* A row that is saved keeps IsAboutPassword of the requests that go on.
LEMMA DoneKeepsAbout ==
  ASSUME PasswordInv, NEW c \in Clients, clients' = [clients EXCEPT ![c] = NoClient],
         rows.mail # <<>> => rows'.mail # <<>>, passwords' = passwords
  PROVE  \A d \in Clients : IsAboutPassword(clients[d])'
<1> SUFFICES ASSUME NEW d \in Clients PROVE IsAboutPassword(clients[d])'
  OBVIOUS
<1>1. DOMAIN clients = Clients /\ IsAboutPassword(clients[d])
  BY DEF PasswordInv, TypeOK, RowsAreTyped
<1>2. CASE d = c
  <2>1. clients'[d] = NoClient
    BY <1>1, <1>2
  <2>. QED
    BY <2>1 DEF IsAboutPassword, NoClient
<1>3. CASE d # c
  <2>1. clients'[d] = clients[d]
    BY <1>1, <1>3
  <2>. QED
    BY <1>1, <2>1 DEF IsAboutPassword
<1>. QED
  BY <1>2, <1>3

LEMMA SaveKeepsPassword ==
  ASSUME PasswordInv, RowsAreTyped', NEW c \in Clients, SaveSettings(c)
  PROVE  PasswordInv'
<1> DEFINE q == clients[c]
           mail == Saved(rows.mail, q)
<1>1. /\ rows' = [rows EXCEPT ![q.table] = Saved(rows[q.table], q)]
      /\ lastPassword' = IF q.table = "mail" /\ q.new.password \notin {0, q.read.password}
                         THEN q.new.password ELSE lastPassword
      /\ clients' = [clients EXCEPT ![c] = NoClient] /\ passwords' = passwords
      /\ q.pc = "Save"
  BY DEF SaveSettings
<1>2. /\ IsClient(q) /\ IsAboutPassword(q) /\ passwords \in Nat
      /\ DOMAIN rows = Tables /\ rows.mail \in Seq(EmailSettings)
  BY DEF PasswordInv, TypeOK, RowsAreTyped, Tables, Row
<1>3. q.table \in Tables /\ q.read \in Row(q.table) /\ q.new \in Row(q.table)
  BY <1>2 DEF IsClient
<1> HIDE DEF q
<1>4. CASE q.table # "mail"
  <2>1. rows'.mail = rows.mail /\ lastPassword' = lastPassword
    BY <1>1, <1>2, <1>3, <1>4 DEF Tables
  <2>2. \A d \in Clients : IsAboutPassword(clients[d])'
    BY <1>1, <2>1, DoneKeepsAbout
  <2>. QED
    BY <1>1, <2>1, <2>2 DEF PasswordInv, TypeOK, PasswordIsLastGiven
<1>5. CASE q.table = "mail"
  <2>1. rows'.mail = mail
    BY <1>1, <1>2, <1>5 DEF Tables
  <2>2. q.read \in EmailSettings /\ q.new \in EmailSettings
    BY <1>3, <1>5 DEF Row
  <2>3. q.new.password # q.read.password => q.new.password \in 1..passwords
    BY <1>1, <1>2, <1>5 DEF IsAboutPassword
  <2>4. lastPassword' = IF q.new.password = q.read.password THEN lastPassword ELSE q.new.password
    <3>1. CASE q.new.password = q.read.password
      BY <1>1, <3>1
    <3>2. CASE q.new.password # q.read.password
      BY <1>1, <1>2, <1>5, <2>3, <3>2
    <3>. QED
      BY <3>1, <3>2
  <2>5. lastPassword' \in 0..passwords
    BY <1>2, <2>3, <2>4 DEF PasswordInv, TypeOK
  <2>6. mail # <<>> /\ (Len(mail) = 1 => mail[1].password = lastPassword')
    <3>1. CASE q.found
      <4> DEFINE row == Merge(rows.mail[1], q.read, q.new)
      <4>1. rows.mail # <<>>
        BY <1>1, <1>2, <1>5, <3>1 DEF IsAboutPassword
      <4>2. mail = [rows.mail EXCEPT ![1] = row]
        BY <3>1 DEF Saved
      <4>3. rows.mail[1] \in EmailSettings /\ Len(rows.mail) >= 1
        BY <1>2, <4>1
      <4>4. row.password = IF q.new.password # q.read.password THEN q.new.password
                           ELSE rows.mail[1].password
        BY <4>3 DEF Merge, EmailSettings
      <4> HIDE DEF row, mail
      <4>5. DOMAIN mail = 1..Len(rows.mail) /\ mail[1] = row
        BY <1>2, <4>2, <4>3
      <4>6. mail # <<>> /\ Len(mail) = Len(rows.mail)
        BY <1>2, <4>2, <4>3, <4>5
      <4>. QED
        BY <2>4, <4>4, <4>5, <4>6 DEF PasswordInv, PasswordIsLastGiven
    <3>2. CASE ~q.found
      <4>1. mail = Append(rows.mail, q.new) /\ q.read.password = 0
        BY <1>1, <1>2, <1>5, <3>2 DEF Saved, IsAboutPassword
      <4> HIDE DEF mail
      <4>2. mail # <<>> /\ Len(mail) = Len(rows.mail) + 1 /\ mail[Len(rows.mail) + 1] = q.new
        BY <1>2, <4>1, <2>2
      <4>3. Len(mail) = 1 => rows.mail = <<>>
        <5>1. Len(rows.mail) \in Nat /\ (Len(rows.mail) = 0 => rows.mail = <<>>)
          BY <1>2
        <5>2. Len(mail) = Len(rows.mail) + 1
          BY <4>2
        <5>3. \A n \in Nat : 1 = n + 1 => n = 0
          OBVIOUS
        <5>. QED
          BY <5>1, <5>2, <5>3, Zenon
      <4>4. Len(mail) = 1 => lastPassword = 0 /\ mail[1] = q.new
        BY <1>2, <4>2, <4>3 DEF PasswordInv
      <4>. QED
        BY <2>4, <4>1, <4>2, <4>4
    <3>. QED
      BY <3>1, <3>2
  <2> HIDE DEF mail
  <2>7. \A d \in Clients : IsAboutPassword(clients[d])'
    BY <1>1, <2>1, <2>6, DoneKeepsAbout
  <2>. QED
    BY <1>1, <2>1, <2>5, <2>6, <2>7 DEF PasswordInv, TypeOK, PasswordIsLastGiven
<1>. QED
  BY <1>4, <1>5

LEMMA PasswordStep == PasswordInv /\ RowsAreTyped' /\ [Next]_vars => PasswordInv'
<1> SUFFICES ASSUME PasswordInv, RowsAreTyped', [Next]_vars PROVE PasswordInv'
  OBVIOUS
<1>1. ASSUME NEW c \in Clients, NEW t \in Tables, NEW s \in Bodies(t), ReadSettings(c, t, s)
      PROVE  PasswordInv'
  BY <1>1, ReadKeepsPassword
<1>2. ASSUME NEW c \in Clients, SaveSettings(c) PROVE PasswordInv'
  BY <1>2, SaveKeepsPassword
<1>3. ASSUME NEW c \in Clients, GiveUp(c) PROVE PasswordInv'
  <2>1. /\ clients' = [clients EXCEPT ![c] = NoClient]
        /\ rows' = rows /\ passwords' = passwords /\ lastPassword' = lastPassword
    BY <1>3 DEF GiveUp
  <2>2. \A d \in Clients : IsAboutPassword(clients[d])'
    BY <2>1, DoneKeepsAbout
  <2>. QED
    BY <2>1, <2>2 DEF PasswordInv, TypeOK, PasswordIsLastGiven
<1>4. CASE UNCHANGED vars
  BY <1>4 DEF PasswordInv, TypeOK, PasswordIsLastGiven, IsAboutPassword, vars
<1>. QED
  BY <1>1, <1>2, <1>3, <1>4 DEF Next

LEMMA RangeIsTyped == RangeInv => RowsAreTyped
BY DEF RangeInv

\* The types of the variables, for any requests.
THEOREM SettingsTypes == Spec => []TypeOK
<1>1. PasswordInv => TypeOK
  BY DEF PasswordInv
<1>. QED
  BY <1>1, InitRange, RangeStep, RangeIsTyped, InitPassword, PasswordStep, PTL DEF Spec

\* A blank password keeps the one saved last, however many PUTs of the mail
\* settings overlap, whichever of them give one, and whether or not a row was
\* there when they read.
THEOREM PasswordIsKept == Spec => []PasswordIsLastGiven
<1>1. PasswordInv => PasswordIsLastGiven
  BY DEF PasswordInv
<1>. QED
  BY <1>1, InitRange, RangeStep, RangeIsTyped, InitPassword, PasswordStep, PTL DEF Spec

-----------------------------------------------------------------------------
(* Requests that do not overlap *)

\* At most one request is between its read and its save, of either table.
OneAtATime == \A b, c \in Clients :
  clients[b].pc = "Save" /\ clients[c].pc = "Save" /\ clients[b].table = clients[c].table => b = c

\* What is about to be written is accepted, and what was read is still there.
IsUpToDate(q) ==
  q.pc = "Save" =>
    /\ Consistent(q.table, q.new)
    /\ q.found <=> rows[q.table] # <<>>
    /\ q.found => q.read = rows[q.table][1]

SerialInv == InForceIsConsistent /\ \A c \in Clients : IsUpToDate(clients[c])

\* Merging into the row that was read gives the row that was assigned.
LEMMA MergeIsNew ==
  ASSUME NEW t \in Tables, NEW read \in Row(t), NEW new \in Row(t)
  PROVE  Merge(read, read, new) = new
<1>1. DOMAIN read = DOMAIN new /\ new = [c \in DOMAIN new |-> new[c]]
  BY DEF Tables, Row, AlertSettings, EmailSettings
<1>2. \A c \in DOMAIN read : (IF new[c] # read[c] THEN new[c] ELSE read[c]) = new[c]
  OBVIOUS
<1>. QED
  BY <1>1, <1>2 DEF Merge

\* What the validator accepts stays consistent when it is assigned: the password
\* is not in question.
LEMMA AssignedIsConsistent ==
  ASSUME NEW t \in Tables, NEW s \in Bodies(t), NEW read, Consistent(t, s)
  PROVE  Consistent(t, Assigned(t, read, s))
<1>1. CASE t = "alerts"
  BY <1>1 DEF Assigned
<1>2. CASE t = "mail"
  <2>1. s \in EmailRequest
    BY <1>2, RequestsAssumption DEF Bodies
  <2>2. Assigned(t, read, s) = [s EXCEPT !.password = KeptPassword(s.password, read.password)]
    BY <1>2 DEF Assigned
  <2>. DEFINE row == [s EXCEPT !.password = KeptPassword(s.password, read.password)]
  <2>3. row.enabled = s.enabled /\ row.host = s.host /\ row.from = s.from /\ row.to = s.to
    BY <2>1 DEF EmailRequest
  <2>. HIDE DEF row
  <2>4. Consistent(t, row)
    BY <1>2, <2>3 DEF Consistent
  <2>. QED
    BY <2>2, <2>4 DEF row
<1>. QED
  BY <1>1, <1>2 DEF Tables

LEMMA ReadIsSerial ==
  ASSUME RangeInv, SerialInv, NEW c \in Clients, NEW t \in Tables, NEW s \in Bodies(t),
         ReadSettings(c, t, s)
  PROVE  SerialInv'
<1>. DEFINE found == rows[t] # <<>>
            read == IF found THEN rows[t][1] ELSE Defaults(t)
            new == Assigned(t, read, s)
            q == [pc |-> "Save", table |-> t, found |-> found, read |-> read, new |-> new]
<1>1. clients' = [clients EXCEPT ![c] = q] /\ rows' = rows
  BY DEF ReadSettings
<1>2. Consistent(t, new)
  BY AssignedIsConsistent DEF ReadSettings, Accepted
<1>. HIDE DEF new
<1>3. IsUpToDate(q)
  BY <1>2 DEF IsUpToDate
<1>. HIDE DEF q
<1>4. \A d \in Clients : IsUpToDate(clients'[d])
  BY <1>1, <1>3 DEF SerialInv, RangeInv, RowsAreTyped
<1>. QED
  BY <1>1, <1>4 DEF SerialInv, InForceIsConsistent, IsUpToDate

LEMMA SaveIsSerial ==
  ASSUME RangeInv, RangeInv', SerialInv, OneAtATime, NEW c \in Clients, SaveSettings(c)
  PROVE  SerialInv'
<1>. DEFINE q == clients[c]
            t == q.table
<1>1. /\ t \in Tables /\ q.read \in Row(t) /\ q.new \in Row(t) /\ q.pc = "Save"
      /\ IsUpToDate(q)
  BY DEF RangeInv, RowsAreTyped, IsClient, SaveSettings, SerialInv
<1>2. /\ rows' = [rows EXCEPT ![t] = Saved(rows[t], q)]
      /\ clients' = [clients EXCEPT ![c] = NoClient]
  BY DEF SaveSettings
<1>3. /\ DOMAIN rows = Tables /\ DOMAIN clients = Clients /\ rows[t] \in Seq(Row(t))
  BY <1>1 DEF RangeInv, RowsAreTyped
<1>4. rows'[t] # <<>> => rows'[t][1] = q.new
  <2>. DEFINE table == Saved(rows[t], q)
  <2>1. CASE q.found
    <3>1. table = [rows[t] EXCEPT ![1] = q.new]
      BY <1>1, <2>1, MergeIsNew DEF Saved, IsUpToDate
    <3>2. rows[t] # <<>> /\ 1 \in DOMAIN rows[t]
      BY <1>1, <1>3, <2>1 DEF IsUpToDate
    <3>. QED
      BY <1>1, <1>2, <1>3, <3>1, <3>2
  <2>2. CASE ~q.found
    <3>1. rows[t] = <<>> /\ table = Append(<<>>, q.new)
      BY <1>1, <2>2 DEF Saved, IsUpToDate
    <3>. QED
      BY <1>1, <1>2, <1>3, <3>1
  <2>. QED
    BY <2>1, <2>2
<1>5. \A u \in Tables : u # t => rows'[u] = rows[u]
  BY <1>2, <1>3
<1>6. Consistent(t, q.new)
  BY <1>1 DEF IsUpToDate
<1>. HIDE DEF t
<1>7. InForceIsConsistent'
  BY <1>1, <1>4, <1>5, <1>6 DEF InForceIsConsistent, SerialInv
<1>8. ASSUME NEW d \in Clients
      PROVE  IsUpToDate(clients[d])'
  <2>1. CASE d = c
    BY <1>2, <1>3, <2>1 DEF IsUpToDate, NoClient
  <2>2. CASE d # c
    <3>1. clients'[d] = clients[d] /\ clients[d].table \in Tables
      BY <1>2, <1>3, <2>2 DEF RangeInv, RowsAreTyped, IsClient
    <3>2. clients[d].pc = "Save" => clients[d].table # t
      BY <1>1, <2>2 DEF OneAtATime, t
    <3>3. IsUpToDate(clients[d])
      BY DEF SerialInv
    <3>. QED
      BY <1>5, <3>1, <3>2, <3>3 DEF IsUpToDate
  <2>. QED
    BY <2>1, <2>2
<1>. QED
  BY <1>7, <1>8 DEF SerialInv

LEMMA InitSerial == Init => SerialInv
<1>. SUFFICES ASSUME Init PROVE SerialInv
  OBVIOUS
<1>1. \A t \in Tables : rows[t] = <<>> \/ rows[t] = <<Defaults(t)>>
  BY DEF Init, Tables, Defaults
<1>2. \A t \in Tables : Consistent(t, Defaults(t))
  BY DEF Tables, Consistent, Defaults, AlertDefaults, EmailDefaults
<1>3. \A c \in Clients : clients[c].pc = "Idle"
  BY DEF Init, NoClient
<1>. QED
  BY <1>1, <1>2, <1>3 DEF SerialInv, InForceIsConsistent, IsUpToDate

\* It takes two requests that overlap to bring inconsistent settings into
\* force: as long as none reads a table that another is about to save, the
\* settings are those of the last one, which the validator has accepted, or
\* those of startup.  (The run settings_consistent shows two that do.)
THEOREM SerialRequestsAreConsistent == Spec /\ []OneAtATime => []InForceIsConsistent
<1>1. RangeInv /\ RangeInv' /\ SerialInv /\ OneAtATime /\ [Next]_vars => SerialInv'
  <2>. SUFFICES ASSUME RangeInv, RangeInv', SerialInv, OneAtATime, [Next]_vars PROVE SerialInv'
    OBVIOUS
  <2>1. ASSUME NEW c \in Clients, NEW t \in Tables, NEW s \in Bodies(t), ReadSettings(c, t, s)
        PROVE  SerialInv'
    BY <2>1, ReadIsSerial
  <2>2. ASSUME NEW c \in Clients, SaveSettings(c) PROVE SerialInv'
    BY <2>2, SaveIsSerial
  <2>3. ASSUME NEW c \in Clients, GiveUp(c) PROVE SerialInv'
    BY <2>3 DEF GiveUp, SerialInv, InForceIsConsistent, IsUpToDate, NoClient, RangeInv, RowsAreTyped
  <2>4. CASE UNCHANGED vars
    BY <2>4 DEF vars, SerialInv, InForceIsConsistent, IsUpToDate
  <2>. QED
    BY <2>1, <2>2, <2>3, <2>4 DEF Next
<1>2. SerialInv => InForceIsConsistent
  BY DEF SerialInv
<1>. QED
  BY <1>1, <1>2, InitSerial, InitRange, RangeStep, PTL DEF Spec
=============================================================================
