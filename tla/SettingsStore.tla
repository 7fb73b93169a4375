--------------------------- MODULE SettingsStore ---------------------------
(***************************************************************************)
(* PUT /api/settings/alerts and PUT /api/settings/email: validate, read    *)
(* the first row of the table, assign every column, save.  Any number of   *)
(* requests may be in flight; each writes only the columns whose value     *)
(* differs from the one it has read, and none looks at the others.         *)
(*                                                                         *)
(* Startup puts one row into each table.  When it fails (the exception is  *)
(* logged and the application goes on), the first PUT inserts the row.     *)
(*                                                                         *)
(* Host and addresses are taken for what the validator tells apart; a      *)
(* stored password is the serial number of its encryption, 0 for none:     *)
(* encrypting the same password twice gives two different texts.           *)
(***************************************************************************)
EXTENDS Integers, Sequences

CONSTANTS
  Clients,        \* requests that may be in flight together
  AlertRequests,  \* bodies of PUT /api/settings/alerts
  MailRequests,   \* bodies of PUT /api/settings/email
  MaxPasswords    \* bound on the number of passwords given

Tables == {"alerts", "mail"}

AlertSettings == [cpuWarning : Int, cpuCritical : Int, memoryWarning : Int,
                  memoryCritical : Int, interfaceWarning : Int, interfaceCritical : Int,
                  offlineTimeout : Int, enabled : BOOLEAN]
EmailSettings == [enabled : BOOLEAN, host : BOOLEAN, port : Int, from : BOOLEAN,
                  to : BOOLEAN, cooldown : Int, password : Nat]
\* In a request, `password` is whether one is given.
EmailRequest == [enabled : BOOLEAN, host : BOOLEAN, port : Int, from : BOOLEAN,
                 to : BOOLEAN, cooldown : Int, password : BOOLEAN]

ASSUME RequestsAssumption ==
  /\ AlertRequests \subseteq AlertSettings
  /\ MailRequests \subseteq EmailRequest
ASSUME PasswordsAssumption == MaxPasswords \in Nat

\* The rows the constructors of the two entities give.
AlertDefaults == [cpuWarning |-> 70, cpuCritical |-> 85, memoryWarning |-> 75,
                  memoryCritical |-> 90, interfaceWarning |-> 70, interfaceCritical |-> 90,
                  offlineTimeout |-> 30, enabled |-> TRUE]
EmailDefaults == [enabled |-> FALSE, host |-> FALSE, port |-> 587, from |-> FALSE,
                  to |-> FALSE, cooldown |-> 15, password |-> 0]
Defaults(t) == IF t = "alerts" THEN AlertDefaults ELSE EmailDefaults

VARIABLES
  rows,          \* the two tables, ordered by Id
  clients,       \* the requests in flight, with the row read and the row to save
  passwords,     \* number of passwords encrypted so far
  lastPassword   \* observer: the password saved last

vars == <<rows, clients, passwords, lastPassword>>

-----------------------------------------------------------------------------
(* The validators *)

Ports == 1..65535

\* The bounds on single values.
InRange(t, s) ==
  IF t = "alerts"
  THEN /\ {s.cpuWarning, s.memoryWarning, s.interfaceWarning} \subseteq 1..99
       /\ {s.cpuCritical, s.memoryCritical, s.interfaceCritical} \subseteq 1..100
       /\ s.offlineTimeout \in 10..3600
  ELSE s.port \in Ports /\ s.cooldown \in 1..1440

\* What several values must have in common.
Consistent(t, s) ==
  IF t = "alerts"
  THEN /\ s.cpuCritical > s.cpuWarning
       /\ s.memoryCritical > s.memoryWarning
       /\ s.interfaceCritical > s.interfaceWarning
  ELSE s.enabled => s.host /\ s.from /\ s.to

\* Mutant of Accepted: values in the right order are taken for values in bounds.
AcceptedInOrder(t, s) == Consistent(t, s)

Accepted(t, s) == InRange(t, s) /\ Consistent(t, s)

-----------------------------------------------------------------------------
(* The requests *)

\* The columns that differ from the row read.
Merge(db, read, new) ==
  [c \in DOMAIN db |-> IF new[c] # read[c] THEN new[c] ELSE db[c]]

\* Mutant of KeptPassword: a request without a password clears it.
KeptPasswordCleared(given, read) == IF given THEN passwords + 1 ELSE 0

\* An empty password in a request keeps the stored one.
KeptPassword(given, read) == IF given THEN passwords + 1 ELSE read

\* The row a request makes of the one it has read.
Assigned(t, read, s) ==
  IF t = "alerts" THEN s ELSE [s EXCEPT !.password = KeptPassword(@, read.password)]

Bodies(t) == IF t = "alerts" THEN AlertRequests ELSE MailRequests
GivesPassword(t, s) == t = "mail" /\ s.password

NoClient == [pc |-> "Idle", table |-> "alerts", found |-> FALSE,
             read |-> AlertDefaults, new |-> AlertDefaults]

\* A body that is not accepted is answered with 400 and changes nothing.
\* Bounded by MaxPasswords.
ReadSettings(c, t, s) ==
  /\ clients[c].pc = "Idle"
  /\ Accepted(t, s)
  /\ GivesPassword(t, s) => passwords < MaxPasswords
  /\ LET found == rows[t] # <<>>
         read == IF found THEN rows[t][1] ELSE Defaults(t)
     IN  clients' = [clients EXCEPT ![c] =
           [pc |-> "Save", table |-> t, found |-> found, read |-> read,
            new |-> Assigned(t, read, s)]]
  /\ passwords' = IF GivesPassword(t, s) THEN passwords + 1 ELSE passwords
  /\ UNCHANGED <<rows, lastPassword>>

\* SaveChanges: an UPDATE of the row found, or an INSERT when none was found,
\* even if another request has inserted one meanwhile.
Saved(table, q) ==
  IF q.found THEN [table EXCEPT ![1] = Merge(table[1], q.read, q.new)]
             ELSE Append(table, q.new)

SaveSettings(c) ==
  LET q == clients[c]
  IN  /\ q.pc = "Save"
      /\ rows' = [rows EXCEPT ![q.table] = Saved(@, q)]
      /\ lastPassword' = IF q.table = "mail" /\ q.new.password \notin {0, q.read.password}
                         THEN q.new.password ELSE lastPassword
      /\ clients' = [clients EXCEPT ![c] = NoClient]
      /\ UNCHANGED passwords

\* The caller goes away or the process dies before the save.
GiveUp(c) ==
  /\ clients[c].pc = "Save"
  /\ clients' = [clients EXCEPT ![c] = NoClient]
  /\ UNCHANGED <<rows, passwords, lastPassword>>

-----------------------------------------------------------------------------
\* Startup seeds the alert settings, then the mail settings, and may fail at
\* either.
Init ==
  /\ \/ rows = [alerts |-> <<AlertDefaults>>, mail |-> <<EmailDefaults>>]
     \/ rows = [alerts |-> <<AlertDefaults>>, mail |-> <<>>]
     \/ rows = [alerts |-> <<>>, mail |-> <<>>]
  /\ clients = [c \in Clients |-> NoClient]
  /\ passwords = 0
  /\ lastPassword = 0

Next == \E c \in Clients :
  \/ \E t \in Tables : \E s \in Bodies(t) : ReadSettings(c, t, s)
  \/ SaveSettings(c)
  \/ GiveUp(c)

Spec == Init /\ [][Next]_vars
-----------------------------------------------------------------------------
(* Properties *)

Row(t) == IF t = "alerts" THEN AlertSettings ELSE EmailSettings
IsClient(q) ==
  /\ q.table \in Tables
  /\ q \in [pc : {"Idle", "Save"}, table : {q.table}, found : BOOLEAN,
            read : Row(q.table), new : Row(q.table)]

RowsAreTyped ==
  /\ DOMAIN rows = Tables /\ \A t \in Tables : rows[t] \in Seq(Row(t))
  /\ DOMAIN clients = Clients /\ \A c \in Clients : IsClient(clients[c])
  /\ passwords \in Nat

\* The types of the variables; the password saved last is one that was given.
TypeOK == RowsAreTyped /\ lastPassword \in 0..passwords

\* However requests overlap, every single value that is stored has passed the
\* validator: writes are merged column by column, and bounds on one column
\* survive that.
StoredInRange == \A t \in Tables : \A i \in DOMAIN rows[t] : InRange(t, rows[t][i])

\* A password is only ever replaced by a password: requests that leave it
\* blank keep the one saved last, even one saved after they had read the row
\* (unless two requests have inserted a row each).
PasswordIsLastGiven == Len(rows.mail) = 1 => rows.mail[1].password = lastPassword

\* Settings in force are settings the validator accepts ("Critical threshold
\* must be greater than Warning threshold").
InForceIsConsistent == \A t \in Tables : rows[t] # <<>> => Consistent(t, rows[t][1])
=============================================================================
