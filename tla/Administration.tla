----------------------------- MODULE Administration -----------------------------
(***************************************************************************)
(* Installation and administration: the setup wizard in the browser with   *)
(* the setup routes behind it (components/wizard, api/routes/setup.py,     *)
(* services/bootstrap_service.py), the settings page with the config table *)
(* (services/runtime_config_service.py), and the accounts                  *)
(* (services/user_service.py, services/auth_service.py).                   *)
(*                                                                         *)
(* The routes of the wizard and of the accounts run on the event loop, one *)
(* after the other; the settings run in worker threads beside them.  Each  *)
(* transaction is a step, and so is the writing of the key file.           *)
(***************************************************************************)
EXTENDS Naturals, Sequences, FiniteSets

CONSTANTS
  Wizards,       \* browser pages that show the setup wizard
  Editors,       \* browser pages that show the settings
  Statements,    \* of the bootstrap scripts
  Scripts,       \* Seq(Seq(Statements)), in the order of their file names
  Ddl,           \* statements that commit what was executed before them
  Needs,         \* [Statements -> SUBSET Statements]: the tables one refers to
  UsersTable, ConfigTable, FlagRow,    \* the statements that make these
  KeyOrder,      \* Seq: the settings, in the order a form is saved
  Flag,          \* wizard.completed
  OciKeys,       \* the settings save_oci_config writes
  FileKeys,      \* those the key file repeats
  ModelKey,      \* genai.model
  Defaults,      \* of the settings that have one: what the page lets edit
  Values,        \* of settings
  Inputs,        \* those that are entered
  OciForms,      \* the OCI settings a wizard page may hold
  Scalar,        \* [Values -> Values]: what reading and saving it makes of a value
  InFile,        \* [FileKeys -> [Values -> Values]]: a value trimmed, a path of a key
                 \* resolved, None for a blank one
  Names, Passwords,
  MaxAccounts, MaxReloads, MaxRestarts,
  None           \* no value, no page, no account

Keys == {KeyOrder[i] : i \in DOMAIN KeyOrder}

ASSUME SettingsAssumption ==
  /\ KeyOrder \in Seq(Keys)
  /\ Flag \in Keys /\ ModelKey \in Keys \ {Flag}
  /\ FileKeys \subseteq OciKeys /\ OciKeys \subseteq Keys \ {Flag, ModelKey}
  /\ DOMAIN Defaults \subseteq Keys \ (OciKeys \cup {Flag, ModelKey})
  /\ "true" \in Values /\ "false" \in Values /\ None \notin Values
  /\ \A k \in DOMAIN Defaults : Defaults[k] \in Values
  /\ Inputs \subseteq Values /\ OciForms \subseteq [OciKeys -> Values]
  /\ Scalar \in [Values -> Values] /\ Scalar["true"] = "true"
  /\ InFile \in [FileKeys -> [Values -> Values \cup {None}]]

ASSUME ScriptsAssumption ==
  /\ Scripts \in Seq(Seq(Statements)) /\ Ddl \subseteq Statements
  /\ Needs \in [Statements -> SUBSET Statements]
  /\ {UsersTable, ConfigTable, FlagRow} \subseteq Statements
  /\ \A st \in Statements : \E n \in DOMAIN Scripts : \E i \in DOMAIN Scripts[n] : Scripts[n][i] = st

ASSUME BoundsAssumption ==
  /\ MaxAccounts \in Nat /\ MaxReloads \in Nat /\ MaxRestarts \in Nat
  /\ None \notin Wizards \cup Names \cup Passwords \cup Nat

VARIABLES
  applied,       \* statements whose effect the database keeps
  config,        \* the config table
  keyFile,       \* the OCI configuration file
  accounts,      \* the users table, by user_id
  loop,          \* what the event loop is at
  wizard,        \* what each wizard page shows
  editor,        \* what each settings page shows, and the thread that saves it
  reloads, restarts,
  drift,         \* history: the key file need not repeat the settings
  told,          \* history: the administrator's password as last confirmed
  overlapped     \* history: editors at a save, beside which others wrote settings

tables == <<applied, config, keyFile, accounts>>
counters == <<reloads, restarts>>
history == <<drift, told, overlapped>>
vars == <<tables, loop, wizard, editor, counters, history>>

NoValues == [k \in FileKeys |-> None]
Free == [page |-> None, at |-> "free", script |-> 0, ok |-> TRUE, saves |-> "none",
         values |-> NoValues]
NoAccount == [name |-> None, password |-> None, active |-> FALSE]
NewWizard == [step |-> "account", name |-> None, password |-> None, saved |-> {}]
NewEditor == [at |-> "closed", form |-> [k \in Keys |-> None], next |-> 1]

Ids == 0..MaxAccounts
Exists(id) == accounts[id] # NoAccount

\* Mutant of Taken: the name of a deleted account is free again.
TakenActive(name, but) == \E id \in Ids \ {but} : accounts[id].active /\ accounts[id].name = name

\* The unique index of the names, deleted accounts among them.
Taken(name, but) == \E id \in Ids \ {but} : Exists(id) /\ accounts[id].name = name

\* authenticate_user
SignsIn(name, password) ==
  \E id \in Ids : accounts[id] = [name |-> name, password |-> password, active |-> TRUE]

\* check_setup_status, which the guard of the other routes asks; no table, no row: FALSE.
Completed == config[Flag] = "true"

\* What test_object_storage asks for first.
ApiKeySaved == \A k \in FileKeys : config[k] # None

\* What the key file is given for a setting.
FileValue(k, v) == IF v = None THEN None ELSE InFile[k][v]

Init ==
  /\ applied = {} /\ config = [k \in Keys |-> None]
  /\ keyFile = NoValues
  /\ accounts = [id \in Ids |-> NoAccount]
  /\ loop = Free
  /\ wizard = [p \in Wizards |-> NewWizard]
  /\ editor = [e \in Editors |-> NewEditor]
  /\ reloads = 0 /\ restarts = 0
  /\ drift = FALSE /\ told = None /\ overlapped = {}

Saving == {e \in Editors : editor[e].at = "saving"}

-----------------------------------------------------------------------------
(* The wizard: account and installation                                     *)

\* The first two steps of the page: an account, and a database that can be reached. A
\* page that was loaded before the setup was complete goes on.
EnterAccount(p, name, password) ==
  /\ wizard[p].step = "account"
  /\ wizard' = [wizard EXCEPT ![p] =
                  [NewWizard EXCEPT !.step = "install", !.name = name, !.password = password]]
  /\ UNCHANGED <<tables, loop, editor, counters, history>>

StartInstallation(p) ==
  /\ loop = Free
  /\ wizard[p].step = "install"
  /\ loop' = [Free EXCEPT !.page = p, !.at = "scripts", !.script = 1]
  /\ UNCHANGED <<tables, wizard, editor, counters, history>>

\* Only the row of the flag is followed further.
Seeded(done) ==
  IF FlagRow \in done \ applied THEN [config EXCEPT ![Flag] = "false"] ELSE config

\* A statement that refers to a table that is not there fails; one whose object
\* exists already is skipped.
Fails(script, i, done) == script[i] \notin done /\ ~(Needs[script[i]] \subseteq done)

Executed(script, n) == applied \cup {script[i] : i \in 1..n}

\* Mutant of RunScript: a seed row is written again.
RunScriptAgain ==
  /\ loop.at = "scripts" /\ loop.script <= Len(Scripts)
  /\ LET script == Scripts[loop.script]
     IN  /\ \A i \in DOMAIN script : ~Fails(script, i, Executed(script, i - 1))
         /\ applied' = Executed(script, Len(script))
         /\ config' = IF \E i \in DOMAIN script : script[i] = FlagRow
                      THEN [config EXCEPT ![Flag] = "false"] ELSE config
  /\ loop' = [loop EXCEPT !.script = @ + 1]
  /\ UNCHANGED <<keyFile, accounts, wizard, editor, counters, history>>

\* execute_setup_scripts: one script, and its commit.
RunScript ==
  /\ loop.at = "scripts" /\ loop.script <= Len(Scripts)
  /\ LET script == Scripts[loop.script]
     IN  /\ \A i \in DOMAIN script : ~Fails(script, i, Executed(script, i - 1))
         /\ applied' = Executed(script, Len(script))
         /\ config' = Seeded(applied')
  /\ loop' = [loop EXCEPT !.script = @ + 1]
  /\ UNCHANGED <<keyFile, accounts, wizard, editor, counters, history>>

\* A statement fails, for want of a table or otherwise. The rollback takes back
\* what followed the last statement that commits; the next script is run all the same.
ScriptFails ==
  /\ loop.at = "scripts" /\ loop.script <= Len(Scripts)
  /\ \E n \in DOMAIN Scripts[loop.script], kept \in 0..Len(Scripts[loop.script]) :
       LET script == Scripts[loop.script]
           ddl == {i \in 1..(n - 1) : script[i] \in Ddl \ applied}
       IN  /\ \A i \in 1..(n - 1) : ~Fails(script, i, Executed(script, i - 1))
           /\ script[n] \notin applied
           /\ kept \in ddl \cup {0} /\ \A i \in ddl : i <= kept
           /\ applied' = Executed(script, kept)
           /\ config' = Seeded(applied')
  /\ loop' = [loop EXCEPT !.script = @ + 1, !.ok = FALSE]
  /\ UNCHANGED <<keyFile, accounts, wizard, editor, counters, history>>

\* A script failed: the page shows the errors and may try again.
InstallationFails ==
  /\ loop.at = "scripts" /\ loop.script > Len(Scripts) /\ ~loop.ok
  /\ loop' = Free
  /\ UNCHANGED <<tables, wizard, editor, counters, history>>

\* create_admin_user: the account 0 is made, or given the new name and password.
CreateAdmin ==
  /\ loop.at = "scripts" /\ loop.script > Len(Scripts) /\ loop.ok
  /\ LET w == wizard[loop.page]
     IN  /\ ~Taken(w.name, 0)
         /\ accounts' = [accounts EXCEPT ![0] =
              [name |-> w.name, password |-> w.password,
               active |-> IF Exists(0) THEN accounts[0].active ELSE TRUE]]
         /\ wizard' = [wizard EXCEPT ![loop.page] = [NewWizard EXCEPT !.step = "services"]]
         /\ told' = w.password
  /\ loop' = Free
  /\ UNCHANGED <<applied, config, keyFile, editor, counters, drift, overlapped>>

\* The name belongs to another account, or the statement fails.
CreateAdminFails ==
  /\ loop.at = "scripts" /\ loop.script > Len(Scripts) /\ loop.ok
  /\ loop' = Free
  /\ UNCHANGED <<tables, wizard, editor, counters, history>>

-----------------------------------------------------------------------------
(* The wizard: services and completion                                      *)

\* save_oci_config commits all its settings at once and then writes the key file.
\* The page saves them twice, with the API key and again with the bucket.
SaveOciConfig(p, what, values) ==
  /\ loop = Free
  /\ wizard[p].step = "services" /\ what \notin wizard[p].saved
  /\ what = "storage" => "key" \in wizard[p].saved /\ ApiKeySaved
  /\ ConfigTable \in applied
  /\ config' = [k \in Keys |-> IF k \in OciKeys THEN values[k] ELSE config[k]]
  /\ loop' = [Free EXCEPT !.page = p, !.at = "file", !.saves = what,
                          !.values = [k \in FileKeys |-> FileValue(k, values[k])]]
  /\ drift' = FALSE
  /\ overlapped' = overlapped \cup Saving
  /\ UNCHANGED <<applied, keyFile, accounts, wizard, editor, counters, told>>

SaveModel(p, value) ==
  /\ loop = Free
  /\ wizard[p].step = "services" /\ "key" \in wizard[p].saved
  /\ ConfigTable \in applied
  /\ config' = [config EXCEPT ![ModelKey] = value]
  /\ wizard' = [wizard EXCEPT ![p].saved = @ \cup {"model"}]
  /\ overlapped' = overlapped \cup Saving
  /\ UNCHANGED <<applied, keyFile, accounts, loop, editor, counters, drift, told>>

\* Mutant of Finished: the page does not wait for the model.
FinishedEarly(p) == {"key", "storage"} \subseteq wizard[p].saved

\* handleFinish: the three configurations must have been saved.
Finished(p) == {"key", "storage", "model"} \subseteq wizard[p].saved

\* complete_setup: the flag is committed first; without its row nothing is updated.
CompleteSetup(p) ==
  /\ loop = Free
  /\ wizard[p].step = "services" /\ Finished(p)
  /\ config' = IF config[Flag] = None THEN config ELSE [config EXCEPT ![Flag] = "true"]
  /\ loop' = [Free EXCEPT !.page = p, !.at = "load", !.saves = "completion"]
  /\ UNCHANGED <<applied, keyFile, accounts, wizard, editor, counters, history>>

\* Mutant of LoadSavedOciConfig: the settings that are edited are taken along unread.
LoadNothing ==
  /\ loop.at = "load"
  /\ loop' = [loop EXCEPT !.at = "file", !.values = keyFile]
  /\ drift' = FALSE
  /\ UNCHANGED <<tables, wizard, editor, counters, told, overlapped>>

LoadSavedOciConfig ==
  /\ loop.at = "load"
  /\ loop' = [loop EXCEPT !.at = "file", !.values = [k \in FileKeys |-> FileValue(k, config[k])]]
  /\ drift' = FALSE
  /\ UNCHANGED <<tables, wizard, editor, counters, told, overlapped>>

\* _write_oci_cli_config_file: each of its values is required.
WriteKeyFile ==
  /\ loop.at = "file"
  /\ \A k \in FileKeys : loop.values[k] # None
  /\ keyFile' = loop.values
  /\ wizard' = IF loop.saves = "completion" THEN [wizard EXCEPT ![loop.page] = [NewWizard EXCEPT !.step = "left"]]
               ELSE [wizard EXCEPT ![loop.page].saved = @ \cup {loop.saves}]
  /\ loop' = Free
  /\ UNCHANGED <<applied, config, accounts, editor, counters, history>>

\* A value is missing, or the file cannot be written. The request answers with an
\* error, and what was committed stays.
WriteKeyFileFails ==
  /\ loop.at = "file"
  /\ drift' = TRUE
  /\ loop' = Free
  /\ UNCHANGED <<tables, wizard, editor, counters, told, overlapped>>

\* The page is loaded again: a wizard from its start, if the setup is not complete.
ReloadPage(p) ==
  /\ reloads < MaxReloads
  /\ loop.page # p
  /\ wizard' = [wizard EXCEPT ![p] = [NewWizard EXCEPT !.step = IF Completed THEN "left" ELSE "account"]]
  /\ reloads' = reloads + 1
  /\ UNCHANGED <<tables, loop, editor, restarts, history>>

\* The process dies and is started again: requests under way get no answer.
Restart ==
  /\ restarts < MaxRestarts
  /\ restarts' = restarts + 1
  /\ loop' = Free
  /\ drift' = (drift \/ loop.at = "file")
  /\ editor' = [e \in Editors |-> IF e \in Saving THEN NewEditor ELSE editor[e]]
  /\ overlapped' = {}
  /\ UNCHANGED <<tables, wizard, reloads, told>>

-----------------------------------------------------------------------------
(* Accounts: each request is one transaction that matters, on the loop      *)

\* update_admin_password: no row need be there for the UPDATE to succeed and the
\* password to be confirmed.
SetAdminPassword(password) ==
  /\ loop = Free
  /\ UsersTable \in applied
  /\ accounts' = IF Exists(0) THEN [accounts EXCEPT ![0].password = password] ELSE accounts
  /\ told' = password
  /\ UNCHANGED <<applied, config, keyFile, loop, wizard, editor, counters, drift, overlapped>>

\* create_user: names of deleted accounts stay taken.
CreateUser(name, password) ==
  /\ loop = Free /\ Completed
  /\ ~Taken(name, None)
  /\ \E id \in Ids \ {0} :
       /\ ~Exists(id) /\ \A n \in 1..(id - 1) : Exists(n)
       /\ accounts' = [accounts EXCEPT ![id] =
                         [name |-> name, password |-> password, active |-> TRUE]]
  /\ UNCHANGED <<applied, config, keyFile, loop, wizard, editor, counters, history>>

\* Mutant of DeleteUser: the first administrator is an account like the others.
DeleteAnyUser(id) ==
  /\ loop = Free /\ Completed
  /\ Exists(id)
  /\ accounts' = [accounts EXCEPT ![id].active = FALSE]
  /\ UNCHANGED <<applied, config, keyFile, loop, wizard, editor, counters, history>>

DeleteUser(id) ==
  /\ loop = Free /\ Completed
  /\ id # 0 /\ Exists(id)
  /\ accounts' = [accounts EXCEPT ![id].active = FALSE]
  /\ UNCHANGED <<applied, config, keyFile, loop, wizard, editor, counters, history>>

ChangePassword(id, current, new) ==
  /\ loop = Free /\ Completed
  /\ Exists(id) /\ accounts[id].password = current
  /\ accounts' = [accounts EXCEPT ![id].password = new]
  /\ told' = IF id = 0 THEN new ELSE told
  /\ UNCHANGED <<applied, config, keyFile, loop, wizard, editor, counters, drift, overlapped>>

-----------------------------------------------------------------------------
(* Settings                                                                 *)

\* _build_payload: the settings of the table over the defaults.
Payload ==
  [k \in Keys |-> IF config[k] # None THEN Scalar[config[k]]
                  ELSE IF k \in DOMAIN Defaults THEN Defaults[k] ELSE None]

OpenSettings(e) ==
  /\ editor[e].at = "closed" /\ Completed
  /\ editor' = [editor EXCEPT ![e] = [NewEditor EXCEPT !.at = "open", !.form = Payload]]
  /\ UNCHANGED <<tables, loop, wizard, counters, history>>

\* A save begins: it overlaps with the other saves under way.
StartSave(e, form) ==
  /\ editor[e].at = "open"
  /\ editor' = [editor EXCEPT ![e] = [at |-> "saving", form |-> form, next |-> 1]]
  /\ overlapped' = IF Saving = {} THEN overlapped ELSE overlapped \cup Saving \cup {e}
  /\ UNCHANGED <<tables, loop, wizard, counters, drift, told>>

\* The page sends its whole form, the settings it does not show among them.
SubmitSettings(e, k, value) ==
  StartSave(e, [editor[e].form EXCEPT ![k] = value])

ResetSettings(e) ==
  StartSave(e, [k \in Keys |-> IF k \in DOMAIN Defaults THEN Defaults[k] ELSE None])

\* Mutant of UpsertValue: a setting that is there already is not updated.
UpsertMissing(e) ==
  /\ e \in Saving /\ editor[e].next <= Len(KeyOrder)
  /\ LET k == KeyOrder[editor[e].next]
     IN  IF config[k] # None THEN UNCHANGED config
         ELSE config' = [config EXCEPT ![k] = editor[e].form[k]]
  /\ editor' = [editor EXCEPT ![e].next = @ + 1]
  /\ UNCHANGED <<applied, keyFile, accounts, loop, wizard, counters, history>>

\* upsert_value, a transaction of its own; a setting the form lacks is passed over.
UpsertValue(e) ==
  /\ e \in Saving /\ editor[e].next <= Len(KeyOrder)
  /\ LET k == KeyOrder[editor[e].next]
         value == editor[e].form[k]
     IN  IF value = None THEN UNCHANGED <<config, drift>>
         ELSE /\ config' = [config EXCEPT ![k] = value]
              /\ drift' = (drift \/ (k \in FileKeys /\ config[k] # value))
  /\ editor' = [editor EXCEPT ![e].next = @ + 1]
  /\ UNCHANGED <<applied, keyFile, accounts, loop, wizard, counters, told, overlapped>>

\* The others stay unsaved; the page keeps its form.
UpsertFails(e) ==
  /\ e \in Saving
  /\ editor' = [editor EXCEPT ![e].at = "open", ![e].next = 1]
  /\ overlapped' = overlapped \ {e}
  /\ UNCHANGED <<tables, loop, wizard, counters, drift, told>>

\* "Settings saved successfully": the page loads them again.
ReportSaved(e) ==
  /\ e \in Saving /\ editor[e].next > Len(KeyOrder)
  /\ editor' = [editor EXCEPT ![e] = [NewEditor EXCEPT !.at = "open", !.form = Payload]]
  /\ overlapped' = overlapped \ {e}
  /\ UNCHANGED <<tables, loop, wizard, counters, drift, told>>

Next ==
  \/ \E p \in Wizards :
       \/ \E name \in Names, password \in Passwords : EnterAccount(p, name, password)
       \/ StartInstallation(p)
       \/ \E what \in {"key", "storage"}, values \in OciForms :
            SaveOciConfig(p, what, values)
       \/ \E value \in Inputs : SaveModel(p, value)
       \/ CompleteSetup(p) \/ ReloadPage(p)
  \/ RunScript \/ ScriptFails \/ InstallationFails \/ CreateAdmin \/ CreateAdminFails
  \/ LoadSavedOciConfig \/ WriteKeyFile \/ WriteKeyFileFails \/ Restart
  \/ \E password \in Passwords :
       \/ SetAdminPassword(password)
       \/ \E name \in Names : CreateUser(name, password)
       \/ \E id \in Ids, current \in Passwords : ChangePassword(id, current, password)
  \/ \E id \in Ids : DeleteUser(id)
  \/ \E e \in Editors :
       \/ OpenSettings(e) \/ ResetSettings(e)
       \/ \E k \in DOMAIN Defaults, value \in Inputs : SubmitSettings(e, k, value)
       \/ UpsertValue(e) \/ UpsertFails(e) \/ ReportSaved(e)

Spec == Init /\ [][Next]_vars

-----------------------------------------------------------------------------
Cells == Values \cup {None}
Loops == [page : Wizards \cup {None}, at : {"free", "scripts", "load", "file"},
          script : 0..(Len(Scripts) + 1), ok : BOOLEAN,
          saves : {"none", "key", "storage", "completion"}, values : [FileKeys -> Cells]]
Pages == [step : {"account", "install", "services", "left"}, name : Names \cup {None},
          password : Passwords \cup {None}, saved : SUBSET {"key", "storage", "model"}]
Forms == [at : {"closed", "open", "saving"}, form : [Keys -> Cells],
          next : 1..(Len(KeyOrder) + 1)]

TypeOK ==
  /\ applied \subseteq Statements
  /\ config \in [Keys -> Cells]
  /\ keyFile \in [FileKeys -> Cells]
  /\ accounts \in [Ids -> {NoAccount} \cup [name : Names, password : Passwords, active : BOOLEAN]]
  /\ \A i, j \in Ids : Exists(i) /\ Exists(j) /\ accounts[i].name = accounts[j].name => i = j
  /\ loop \in Loops
  /\ wizard \in [Wizards -> Pages]
  /\ editor \in [Editors -> Forms]
  /\ reloads \in 0..MaxReloads /\ restarts \in 0..MaxRestarts
  /\ drift \in BOOLEAN /\ told \in Passwords \cup {None} /\ overlapped \subseteq Editors

\* A setup that counts as complete has the whole schema, an administrator, the API
\* key and a model, whatever installations failed or were run again before: the
\* server checks none of this, the order of the pages ensures it.
CompletionIsHonest ==
  Completed =>
    /\ applied = Statements /\ Exists(0)
    /\ ApiKeySaved /\ config[ModelKey] # None

\* A complete setup stays complete, though another page may run the installation
\* again and the settings page writes the flag as it has read it.
CompletionStays == [][Completed => Completed']_vars

\* The key file repeats the settings, trimmed and with the path of the key resolved,
\* unless its last writing failed or a setting of it was changed from the settings
\* page since they were read for it.
KeyFileFollowsSettings ==
  loop.at # "file" /\ ~drift /\ keyFile # NoValues =>
    \A k \in FileKeys : keyFile[k] = FileValue(k, config[k])

\* Settings that are reported as saved are the ones of the form, every one of them,
\* unless others saved settings meanwhile.
SavedSettingsAreWhole ==
  [][\A e \in Editors : ReportSaved(e) /\ e \notin overlapped =>
       \A k \in Keys : editor[e].form[k] # None => config[k] = editor[e].form[k]]_vars

\* Once the installation has made the administrator, the password confirmed last is
\* one the administrator can sign in with, whatever was confirmed before there was
\* an account to have it, and whatever accounts were made, renamed by another
\* installation or deleted since.
AdministratorSignsIn == Exists(0) => SignsIn(accounts[0].name, told)
=============================================================================
