------------------------- MODULE Administration_proofs -------------------------
(***************************************************************************)
(* Proofs about installation and administration, for any scripts, settings,*)
(* accounts and numbers of pages.                                          *)
(***************************************************************************)
EXTENDS Administration, SequenceTheorems, TLAPS

Records == [name : Names, password : Passwords, active : BOOLEAN]

(* What the event loop and the pages hold while a request is under way.    *)
Held ==
  /\ loop.at # "free" => loop.page \in Wizards
  /\ loop.at = "scripts" => wizard[loop.page].step = "install" /\ loop.script \in 1..(Len(Scripts) + 1)
  /\ loop.at = "load" => loop.saves = "completion"
  /\ loop.at = "file" => loop.saves \in {"key", "storage", "completion"}
  /\ \A p \in Wizards : wizard[p].step = "install" =>
       wizard[p].name \in Names /\ wizard[p].password \in Passwords

(* An account is never the absent one.                                     *)
LEMMA AccountExists ==
  ASSUME NEW a \in Records
  PROVE  a # NoAccount
BY BoundsAssumption DEF Records, NoAccount

(* An account is made or changed under a name no other one has.            *)
LEMMA Naming ==
  ASSUME TypeOK, NEW id \in Ids, NEW a \in Records, accounts' = [accounts EXCEPT ![id] = a],
         \A i \in Ids \ {id} : Exists(i) => accounts[i].name # a.name
  PROVE  /\ accounts' \in [Ids -> {NoAccount} \cup Records]
         /\ \A i, j \in Ids : accounts'[i] # NoAccount /\ accounts'[j] # NoAccount
                                /\ accounts'[i].name = accounts'[j].name => i = j
<1>1. accounts' \in [Ids -> {NoAccount} \cup Records]
  BY DEF TypeOK, Records
<1>2. accounts'[id] = a /\ \A i \in Ids \ {id} : accounts'[i] = accounts[i]
  BY DEF TypeOK
<1>3. \A i, j \in Ids : Exists(i) /\ Exists(j) /\ accounts[i].name = accounts[j].name => i = j
  BY DEF TypeOK
<1>4. \A i, j \in Ids : accounts'[i] # NoAccount /\ accounts'[j] # NoAccount
                          /\ accounts'[i].name = accounts'[j].name => i = j
  <2> SUFFICES ASSUME NEW i \in Ids, NEW j \in Ids, accounts'[i] # NoAccount, accounts'[j] # NoAccount,
                      accounts'[i].name = accounts'[j].name
               PROVE  i = j
    OBVIOUS
  <2>1. CASE i = id \/ j = id
    BY <1>2, <2>1 DEF Exists
  <2>2. CASE i # id /\ j # id
    BY <1>2, <1>3, <2>2 DEF Exists
  <2> QED
    BY <2>1, <2>2
<1> QED
  BY <1>1, <1>4

(* What the settings page shows is a form.                                 *)
LEMMA PayloadType ==
  ASSUME TypeOK
  PROVE  Payload \in [Keys -> Cells]
<1> SUFFICES ASSUME NEW k \in Keys
             PROVE  (IF config[k] # None THEN Scalar[config[k]]
                     ELSE IF k \in DOMAIN Defaults THEN Defaults[k] ELSE None) \in Cells
  BY DEF Payload
<1>1. config[k] \in Values \cup {None}
  BY DEF TypeOK, Cells
<1> QED
  BY <1>1, SettingsAssumption DEF Cells

(* The settings are a sequence of keys.                                    *)
LEMMA KeyAt ==
  ASSUME TypeOK, NEW e \in Editors, editor[e].next <= Len(KeyOrder)
  PROVE  /\ KeyOrder[editor[e].next] \in Keys /\ editor[e].next \in 1..Len(KeyOrder)
         /\ Len(KeyOrder) \in Nat
<1>1. editor[e].next \in 1..(Len(KeyOrder) + 1)
  BY DEF TypeOK, Forms
<1>2. Len(KeyOrder) \in Nat /\ DOMAIN KeyOrder = 1..Len(KeyOrder)
  BY SettingsAssumption, LenProperties
<1> QED
  BY <1>1, <1>2 DEF Keys

(* The statements of a script.                                             *)
LEMMA ScriptType ==
  ASSUME NEW n \in 1..Len(Scripts)
  PROVE  /\ Scripts[n] \in Seq(Statements) /\ Len(Scripts[n]) \in Nat
         /\ DOMAIN Scripts[n] = 1..Len(Scripts[n])
         /\ \A i \in 1..Len(Scripts[n]) : Scripts[n][i] \in Statements
<1>1. Scripts[n] \in Seq(Statements)
  BY ScriptsAssumption, ElementOfSeq
<1> QED
  BY <1>1, LenProperties, ElementOfSeq

LEMMA ScriptCount == Len(Scripts) \in Nat /\ DOMAIN Scripts = 1..Len(Scripts)
BY ScriptsAssumption, LenProperties

(* The loop between two requests, and a page of settings that is closed.   *)
LEMMA FreeType == Free \in Loops
BY ScriptCount DEF Free, Loops, NoValues, Cells

LEMMA NewEditorType == NewEditor \in Forms /\ 1 \in 1..(Len(KeyOrder) + 1)
<1>1. Len(KeyOrder) \in Nat
  BY SettingsAssumption, LenProperties
<1> QED
  BY <1>1 DEF NewEditor, Forms, Cells

(* A script adds statements, and at most the row of the flag to the config  *)
(* table.                                                                  *)
LEMMA Executing ==
  ASSUME TypeOK, Held, loop.at = "scripts", loop.script <= Len(Scripts),
         NEW n \in 0..Len(Scripts[loop.script]),
         applied' = Executed(Scripts[loop.script], n), config' = Seeded(applied')
  PROVE  /\ applied' \subseteq Statements /\ applied \subseteq applied'
         /\ config' \in [Keys -> Cells]
<1>1. loop.script \in 1..Len(Scripts)
  BY ScriptCount DEF Held
<1>2. \A i \in 1..n : Scripts[loop.script][i] \in Statements
  BY <1>1, ScriptType
<1>3. applied' \subseteq Statements /\ applied \subseteq applied'
  BY <1>2 DEF Executed, TypeOK
<1>4. config' \in [Keys -> Cells]
  BY SettingsAssumption DEF Seeded, TypeOK, Cells
<1> QED
  BY <1>3, <1>4

(* Requests that keep to themselves.                                       *)
LEMMA TypeInvariance == Spec => [](TypeOK /\ Held)
<1>1. Init => TypeOK /\ Held
  <2> SUFFICES ASSUME Init PROVE TypeOK /\ Held
    OBVIOUS
  <2>1. loop \in Loops
    BY ScriptCount DEF Init, Free, NoValues, Loops, Cells
  <2>2. wizard \in [Wizards -> Pages]
    BY DEF Init, NewWizard, Pages
  <2>3. editor \in [Editors -> Forms]
    <3>1. Len(KeyOrder) \in Nat
      BY SettingsAssumption, LenProperties
    <3> QED
      BY <3>1 DEF Init, NewEditor, Forms, Cells
  <2>4. TypeOK
    <3>1. \A i \in Ids : ~Exists(i)
      BY DEF Init, Exists
    <3>2. /\ applied \subseteq Statements /\ config \in [Keys -> Cells] /\ keyFile \in [FileKeys -> Cells]
          /\ accounts \in [Ids -> {NoAccount} \cup Records]
      BY DEF Init, NoValues, Cells
    <3>3. reloads \in 0..MaxReloads /\ restarts \in 0..MaxRestarts
      BY BoundsAssumption DEF Init
    <3>4. drift \in BOOLEAN /\ told \in Passwords \cup {None} /\ overlapped \subseteq Editors
      BY DEF Init
    <3> QED
      BY <2>1, <2>2, <2>3, <3>1, <3>2, <3>3, <3>4 DEF TypeOK, Records
  <2>5. Held
    BY DEF Init, Held, Free, NewWizard
  <2> QED
    BY <2>4, <2>5
<1>2. TypeOK /\ Held /\ [Next]_vars => TypeOK' /\ Held'
  <2> SUFFICES ASSUME TypeOK, Held, [Next]_vars PROVE TypeOK' /\ Held'
    OBVIOUS
  <2>1. CASE UNCHANGED vars
    BY <2>1 DEF vars, tables, counters, history, TypeOK, Held, Exists
  <2>2. ASSUME NEW p \in Wizards, NEW name \in Names, NEW password \in Passwords,
               EnterAccount(p, name, password)
        PROVE  TypeOK' /\ Held'
    <3> DEFINE w == [NewWizard EXCEPT !.step = "install", !.name = name, !.password = password]
    <3>1. w \in Pages /\ w.step = "install" /\ w.name = name /\ w.password = password
      BY DEF NewWizard, Pages
    <3>2. /\ wizard' = [wizard EXCEPT ![p] = w] /\ wizard[p].step = "account"
          /\ UNCHANGED <<tables, loop, editor, counters, history>>
      BY <2>2 DEF EnterAccount
    <3> HIDE DEF w
    <3>3. TypeOK'
      BY <3>1, <3>2 DEF TypeOK, tables, counters, history, Exists
    <3>4. Held'
      BY <3>1, <3>2 DEF TypeOK, Held
    <3> QED
      BY <3>3, <3>4
  <2>3. ASSUME NEW p \in Wizards, StartInstallation(p) PROVE TypeOK' /\ Held'
    <3> DEFINE l == [Free EXCEPT !.page = p, !.at = "scripts", !.script = 1]
    <3>1. l \in Loops /\ l.at = "scripts" /\ l.page = p /\ l.script = 1
      <4>1. 1 \in 0..(Len(Scripts) + 1)
        BY ScriptCount
      <4> QED
        BY <4>1, FreeType DEF Loops
    <3>2. /\ loop' = l /\ wizard[p].step = "install"
          /\ UNCHANGED <<tables, wizard, editor, counters, history>>
      BY <2>3 DEF StartInstallation
    <3> HIDE DEF l
    <3>3. TypeOK'
      BY <3>1, <3>2 DEF TypeOK, tables, counters, history, Exists
    <3>4. Held'
      BY <3>1, <3>2, ScriptCount DEF Held
    <3> QED
      BY <3>3, <3>4
  <2>4. ASSUME loop.at = "scripts", loop.script <= Len(Scripts),
               loop' = [loop EXCEPT !.script = @ + 1]
                 \/ loop' = [loop EXCEPT !.script = @ + 1, !.ok = FALSE],
               NEW n \in 0..Len(Scripts[loop.script]),
               applied' = Executed(Scripts[loop.script], n), config' = Seeded(applied'),
               UNCHANGED <<keyFile, accounts, wizard, editor, counters, history>>
        PROVE  TypeOK' /\ Held'
    <3>1. loop.script \in 1..Len(Scripts) /\ loop.script + 1 \in 0..(Len(Scripts) + 1)
      BY <2>4, ScriptCount DEF Held
    <3>2. loop \in Loops
      BY DEF TypeOK
    <3>3. /\ loop' \in Loops /\ loop'.at = loop.at /\ loop'.page = loop.page
          /\ loop'.script = loop.script + 1
      BY <2>4, <3>1, <3>2 DEF Loops
    <3>4. applied' \subseteq Statements /\ config' \in [Keys -> Cells]
      BY <2>4, Executing
    <3>5. TypeOK'
      BY <2>4, <3>3, <3>4 DEF TypeOK, counters, history, Exists
    <3>6. Held'
      BY <2>4, <3>1, <3>3, ScriptCount DEF Held
    <3> QED
      BY <3>5, <3>6
  <2>5. ASSUME RunScript PROVE TypeOK' /\ Held'
    <3>1. Len(Scripts[loop.script]) \in 0..Len(Scripts[loop.script])
      BY <2>5, ScriptType, ScriptCount DEF RunScript, Held
    <3> QED
      BY <2>4, <2>5, <3>1 DEF RunScript
  <2>6. ASSUME ScriptFails PROVE TypeOK' /\ Held'
    BY <2>4, <2>6 DEF ScriptFails
  <2>7. ASSUME loop' = Free, UNCHANGED <<tables, wizard, editor, counters>>,
               drift' \in BOOLEAN, told' \in Passwords \cup {None}, overlapped' \subseteq Editors
        PROVE  TypeOK' /\ Held'
    <3>1. Free \in Loops /\ Free.at = "free"
      BY ScriptCount DEF Free, Loops, NoValues, Cells
    <3>2. TypeOK'
      BY <2>7, <3>1 DEF TypeOK, tables, counters, Exists
    <3>3. Held'
      BY <2>7, <3>1 DEF Held
    <3> QED
      BY <3>2, <3>3
  <2>8. ASSUME InstallationFails \/ CreateAdminFails \/ WriteKeyFileFails PROVE TypeOK' /\ Held'
    BY <2>7, <2>8 DEF InstallationFails, CreateAdminFails, WriteKeyFileFails, history, TypeOK
  <2>9. ASSUME NEW id \in Ids, NEW a \in Records, accounts' = [accounts EXCEPT ![id] = a],
               \A i \in Ids \ {id} : Exists(i) => accounts[i].name # a.name,
               told' \in Passwords \cup {None},
               UNCHANGED <<applied, config, keyFile, loop, wizard, editor, counters, drift, overlapped>>
        PROVE  TypeOK' /\ Held'
    <3>1. /\ accounts' \in [Ids -> {NoAccount} \cup Records]
          /\ \A i, j \in Ids : accounts'[i] # NoAccount /\ accounts'[j] # NoAccount
                                 /\ accounts'[i].name = accounts'[j].name => i = j
      BY <2>9, Naming
    <3>2. TypeOK'
      BY <2>9, <3>1 DEF TypeOK, Records, counters, Exists
    <3>3. Held'
      BY <2>9 DEF Held
    <3> QED
      BY <3>2, <3>3
  <2>10. ASSUME CreateAdmin PROVE TypeOK' /\ Held'
    <3> DEFINE w == wizard[loop.page]
               a == [name |-> w.name, password |-> w.password,
                     active |-> IF Exists(0) THEN accounts[0].active ELSE TRUE]
               page == [NewWizard EXCEPT !.step = "services"]
    <3>1. w.name \in Names /\ w.password \in Passwords /\ loop.page \in Wizards
      BY <2>10 DEF CreateAdmin, Held
    <3>2. 0 \in Ids
      BY BoundsAssumption DEF Ids
    <3>3. a \in Records
      BY <3>1, <3>2 DEF TypeOK, Exists, Records
    <3>4. /\ accounts' = [accounts EXCEPT ![0] = a] /\ wizard' = [wizard EXCEPT ![loop.page] = page]
          /\ told' = w.password /\ loop' = Free
          /\ UNCHANGED <<applied, config, keyFile, editor, counters, drift, overlapped>>
      BY <2>10 DEF CreateAdmin
    <3>5. \A i \in Ids \ {0} : Exists(i) => accounts[i].name # a.name
      BY <2>10 DEF CreateAdmin, Taken
    <3>6. page \in Pages /\ page.step = "services"
      BY DEF NewWizard, Pages
    <3>7. Free \in Loops /\ Free.at = "free"
      BY ScriptCount DEF Free, Loops, NoValues, Cells
    <3> HIDE DEF a, page
    <3>8. /\ accounts' \in [Ids -> {NoAccount} \cup Records]
          /\ \A i, j \in Ids : accounts'[i] # NoAccount /\ accounts'[j] # NoAccount
                                 /\ accounts'[i].name = accounts'[j].name => i = j
      BY <3>2, <3>3, <3>4, <3>5, Naming
    <3>9. wizard' \in [Wizards -> Pages]
      BY <3>4, <3>6 DEF TypeOK
    <3>10. TypeOK'
      BY <3>1, <3>4, <3>7, <3>8, <3>9 DEF TypeOK, Records, counters, Exists
    <3>11. Held'
      BY <3>4, <3>6, <3>7 DEF Held, TypeOK
    <3> QED
      BY <3>10, <3>11
  <2>11. ASSUME NEW p \in Wizards, NEW what \in {"key", "storage"}, NEW values \in OciForms,
                SaveOciConfig(p, what, values)
         PROVE  TypeOK' /\ Held'
    <3> DEFINE v == [k \in FileKeys |-> FileValue(k, values[k])]
               l == [Free EXCEPT !.page = p, !.at = "file", !.saves = what, !.values = v]
    <3>1. values \in [OciKeys -> Values] /\ \A k \in FileKeys : values[k] \in Values
      BY SettingsAssumption
    <3>2. l \in Loops /\ l.at = "file" /\ l.page = p /\ l.saves = what
      <4>1. v \in [FileKeys -> Cells]
        BY <3>1, SettingsAssumption DEF Cells, FileValue
      <4> HIDE DEF v
      <4> QED
        BY <4>1, FreeType DEF Loops
    <3>3. config' \in [Keys -> Cells]
      BY <2>11, <3>1 DEF SaveOciConfig, TypeOK, Cells
    <3>4. /\ loop' = l /\ drift' = FALSE /\ overlapped' = overlapped \cup Saving
          /\ UNCHANGED <<applied, keyFile, accounts, wizard, editor, counters, told>>
      BY <2>11 DEF SaveOciConfig
    <3> HIDE DEF l
    <3>5. TypeOK'
      BY <3>2, <3>3, <3>4 DEF TypeOK, Saving, counters, Exists
    <3>6. Held'
      BY <3>2, <3>4 DEF Held
    <3> QED
      BY <3>5, <3>6
  <2>12. ASSUME NEW p \in Wizards, NEW saves \in {"key", "storage", "model"},
                wizard' = [wizard EXCEPT ![p].saved = @ \cup {saves}]
         PROVE  /\ wizard' \in [Wizards -> Pages]
                /\ \A q \in Wizards : /\ wizard'[q].step = wizard[q].step
                                      /\ wizard'[q].name = wizard[q].name
                                      /\ wizard'[q].password = wizard[q].password
    BY <2>12 DEF TypeOK, Pages
  <2>13. ASSUME NEW p \in Wizards, NEW value \in Inputs, SaveModel(p, value) PROVE TypeOK' /\ Held'
    <3>1. config' \in [Keys -> Cells]
      BY <2>13, SettingsAssumption DEF SaveModel, TypeOK, Cells
    <3>2. /\ wizard' = [wizard EXCEPT ![p].saved = @ \cup {"model"}]
          /\ overlapped' = overlapped \cup Saving
          /\ UNCHANGED <<applied, keyFile, accounts, loop, editor, counters, drift, told>>
      BY <2>13 DEF SaveModel
    <3>3. /\ wizard' \in [Wizards -> Pages]
          /\ \A q \in Wizards : /\ wizard'[q].step = wizard[q].step
                                /\ wizard'[q].name = wizard[q].name
                                /\ wizard'[q].password = wizard[q].password
      BY <2>12, <3>2
    <3>4. TypeOK'
      BY <3>1, <3>2, <3>3 DEF TypeOK, Saving, counters, Exists
    <3>5. Held'
      BY <3>2, <3>3 DEF Held
    <3> QED
      BY <3>4, <3>5
  <2>14. ASSUME NEW p \in Wizards, CompleteSetup(p) PROVE TypeOK' /\ Held'
    <3> DEFINE l == [Free EXCEPT !.page = p, !.at = "load", !.saves = "completion"]
    <3>1. l \in Loops /\ l.at = "load" /\ l.page = p /\ l.saves = "completion"
      BY FreeType DEF Loops
    <3>2. config' \in [Keys -> Cells]
      BY <2>14, SettingsAssumption DEF CompleteSetup, TypeOK, Cells
    <3>3. loop' = l /\ UNCHANGED <<applied, keyFile, accounts, wizard, editor, counters, history>>
      BY <2>14 DEF CompleteSetup
    <3> HIDE DEF l
    <3>4. TypeOK'
      BY <3>1, <3>2, <3>3 DEF TypeOK, counters, history, Exists
    <3>5. Held'
      BY <3>1, <3>3 DEF Held
    <3> QED
      BY <3>4, <3>5
  <2>15. ASSUME LoadSavedOciConfig PROVE TypeOK' /\ Held'
    <3> DEFINE v == [k \in FileKeys |-> FileValue(k, config[k])]
    <3>1. v \in [FileKeys -> Cells]
      BY SettingsAssumption DEF TypeOK, Cells, FileValue
    <3>2. /\ loop.at = "load" /\ loop' = [loop EXCEPT !.at = "file", !.values = v] /\ drift' = FALSE
          /\ UNCHANGED <<tables, wizard, editor, counters, told, overlapped>>
      BY <2>15 DEF LoadSavedOciConfig
    <3> HIDE DEF v
    <3>3. loop' \in Loops /\ loop'.at = "file" /\ loop'.page = loop.page /\ loop'.saves = loop.saves
      BY <3>1, <3>2 DEF TypeOK, Loops
    <3>4. TypeOK'
      BY <3>2, <3>3 DEF TypeOK, tables, counters, Exists
    <3>5. Held'
      BY <3>2, <3>3 DEF Held
    <3> QED
      BY <3>4, <3>5
  <2>16. ASSUME WriteKeyFile PROVE TypeOK' /\ Held'
    <3> DEFINE page == [NewWizard EXCEPT !.step = "left"]
    <3>1. loop.page \in Wizards /\ loop.saves \in {"key", "storage", "completion"}
      BY <2>16 DEF WriteKeyFile, Held
    <3>2. page \in Pages /\ page.step = "left"
      BY DEF NewWizard, Pages
    <3> HIDE DEF page
    <3>3. /\ wizard' \in [Wizards -> Pages]
          /\ \A q \in Wizards : wizard'[q].step = "install" =>
               /\ wizard[q].step = "install"
               /\ wizard'[q].name = wizard[q].name
               /\ wizard'[q].password = wizard[q].password
      <4>1. CASE loop.saves = "completion"
        <5>1. wizard' = [wizard EXCEPT ![loop.page] = page]
          BY <2>16, <4>1 DEF WriteKeyFile, page
        <5> QED
          BY <3>1, <3>2, <5>1 DEF TypeOK
      <4>2. CASE loop.saves # "completion"
        <5>1. wizard' = [wizard EXCEPT ![loop.page].saved = @ \cup {loop.saves}]
          BY <2>16, <4>2 DEF WriteKeyFile
        <5>2. loop.saves \in {"key", "storage", "model"}
          BY <3>1, <4>2
        <5> QED
          BY <2>12, <3>1, <5>1, <5>2
      <4> QED
        BY <4>1, <4>2
    <3>4. /\ keyFile' = loop.values /\ loop' = Free
          /\ UNCHANGED <<applied, config, accounts, editor, counters, history>>
      BY <2>16 DEF WriteKeyFile
    <3>5. keyFile' \in [FileKeys -> Cells]
      BY <3>4 DEF TypeOK, Loops
    <3>6. Free \in Loops /\ Free.at = "free"
      BY ScriptCount DEF Free, Loops, NoValues, Cells
    <3>7. TypeOK'
      BY <3>3, <3>4, <3>5, <3>6 DEF TypeOK, counters, history, Exists
    <3>8. Held'
      BY <3>3, <3>4, <3>6 DEF Held
    <3> QED
      BY <3>7, <3>8
  <2>17. ASSUME NEW p \in Wizards, ReloadPage(p) PROVE TypeOK' /\ Held'
    <3> DEFINE page == [NewWizard EXCEPT !.step = IF Completed THEN "left" ELSE "account"]
    <3>1. page \in Pages /\ page.step # "install"
      BY DEF NewWizard, Pages
    <3>2. /\ wizard' = [wizard EXCEPT ![p] = page] /\ loop.page # p
          /\ UNCHANGED <<tables, loop, editor, restarts, history>>
      BY <2>17 DEF ReloadPage
    <3>3. reloads' \in 0..MaxReloads
      BY <2>17, BoundsAssumption DEF ReloadPage, TypeOK
    <3> HIDE DEF page
    <3>4. TypeOK'
      BY <3>1, <3>2, <3>3 DEF TypeOK, tables, history, Exists
    <3>5. Held'
      BY <3>1, <3>2 DEF Held, TypeOK
    <3> QED
      BY <3>4, <3>5
  <2>18. ASSUME Restart PROVE TypeOK' /\ Held'
    <3>1. NewEditor \in Forms
      <4>1. Len(KeyOrder) \in Nat
        BY SettingsAssumption, LenProperties
      <4> QED
        BY <4>1 DEF NewEditor, Forms, Cells
    <3>2. editor' \in [Editors -> Forms]
      BY <2>18, <3>1 DEF Restart, TypeOK
    <3>3. restarts' \in 0..MaxRestarts
      BY <2>18, BoundsAssumption DEF Restart, TypeOK
    <3>4. drift' \in BOOLEAN /\ overlapped' = {} /\ loop' = Free /\ UNCHANGED <<tables, wizard, reloads, told>>
      BY <2>18 DEF Restart, TypeOK
    <3>5. Free \in Loops /\ Free.at = "free"
      BY ScriptCount DEF Free, Loops, NoValues, Cells
    <3>6. TypeOK'
      BY <3>2, <3>3, <3>4, <3>5 DEF TypeOK, tables, Exists
    <3>7. Held'
      BY <3>4, <3>5 DEF Held
    <3> QED
      BY <3>6, <3>7
  <2>19. ASSUME NEW password \in Passwords, SetAdminPassword(password) PROVE TypeOK' /\ Held'
    <3> DEFINE a == [accounts[0] EXCEPT !.password = password]
    <3>1. /\ told' \in Passwords \cup {None}
          /\ UNCHANGED <<applied, config, keyFile, loop, wizard, editor, counters, drift, overlapped>>
      BY <2>19 DEF SetAdminPassword
    <3>2. CASE Exists(0)
      <4>1. 0 \in Ids
        BY BoundsAssumption DEF Ids
      <4>2. accounts[0] \in Records
        BY <3>2, <4>1 DEF TypeOK, Exists, Records
      <4>3. a \in Records /\ a.name = accounts[0].name
        BY <4>2 DEF Records
      <4>4. accounts' = [accounts EXCEPT ![0] = a]
        BY <2>19, <3>2, <4>1 DEF SetAdminPassword, TypeOK
      <4>5. \A i \in Ids \ {0} : Exists(i) => accounts[i].name # a.name
        BY <3>2, <4>1, <4>3 DEF TypeOK
      <4> HIDE DEF a
      <4> QED
        BY <2>9, <3>1, <4>1, <4>3, <4>4, <4>5
    <3>3. CASE ~Exists(0)
      <4>1. accounts' = accounts
        BY <2>19, <3>3 DEF SetAdminPassword
      <4> QED
        BY <3>1, <4>1 DEF TypeOK, Held, Exists, counters
    <3> QED
      BY <3>2, <3>3
  <2>20. ASSUME NEW name \in Names, NEW password \in Passwords, CreateUser(name, password)
         PROVE  TypeOK' /\ Held'
    <3> DEFINE a == [name |-> name, password |-> password, active |-> TRUE]
    <3>1. PICK id \in Ids : accounts' = [accounts EXCEPT ![id] = a]
      BY <2>20 DEF CreateUser
    <3>2. None \notin Ids
      BY BoundsAssumption DEF Ids
    <3>3. a \in Records /\ a.name = name
      BY DEF Records
    <3>4. \A i \in Ids \ {id} : Exists(i) => accounts[i].name # a.name
      BY <2>20, <3>2, <3>3 DEF CreateUser, Taken
    <3>5. /\ told' \in Passwords \cup {None}
          /\ UNCHANGED <<applied, config, keyFile, loop, wizard, editor, counters, drift, overlapped>>
      BY <2>20 DEF CreateUser, history, TypeOK
    <3> HIDE DEF a
    <3> QED
      BY <2>9, <3>1, <3>3, <3>4, <3>5
  <2>21. ASSUME NEW id \in Ids, DeleteUser(id) PROVE TypeOK' /\ Held'
    <3> DEFINE a == [accounts[id] EXCEPT !.active = FALSE]
    <3>1. Exists(id)
      BY <2>21 DEF DeleteUser
    <3>2. accounts[id] \in Records
      BY <3>1 DEF TypeOK, Exists, Records
    <3>3. a \in Records /\ a.name = accounts[id].name
      BY <3>2 DEF Records
    <3>4. accounts' = [accounts EXCEPT ![id] = a]
      BY <2>21 DEF DeleteUser, TypeOK
    <3>5. \A i \in Ids \ {id} : Exists(i) => accounts[i].name # a.name
      BY <3>1, <3>3 DEF TypeOK
    <3>6. /\ told' \in Passwords \cup {None}
          /\ UNCHANGED <<applied, config, keyFile, loop, wizard, editor, counters, drift, overlapped>>
      BY <2>21 DEF DeleteUser, history, TypeOK
    <3> HIDE DEF a
    <3> QED
      BY <2>9, <3>3, <3>4, <3>5, <3>6
  <2>22. ASSUME NEW id \in Ids, NEW current \in Passwords, NEW password \in Passwords,
                ChangePassword(id, current, password)
         PROVE  TypeOK' /\ Held'
    <3> DEFINE a == [accounts[id] EXCEPT !.password = password]
    <3>1. Exists(id)
      BY <2>22 DEF ChangePassword
    <3>2. accounts[id] \in Records
      BY <3>1 DEF TypeOK, Exists, Records
    <3>3. a \in Records /\ a.name = accounts[id].name
      BY <3>2 DEF Records
    <3>4. accounts' = [accounts EXCEPT ![id] = a]
      BY <2>22 DEF ChangePassword, TypeOK
    <3>5. \A i \in Ids \ {id} : Exists(i) => accounts[i].name # a.name
      BY <3>1, <3>3 DEF TypeOK
    <3>6. /\ told' \in Passwords \cup {None}
          /\ UNCHANGED <<applied, config, keyFile, loop, wizard, editor, counters, drift, overlapped>>
      BY <2>22 DEF ChangePassword, TypeOK
    <3> HIDE DEF a
    <3> QED
      BY <2>9, <3>3, <3>4, <3>5, <3>6
  <2>23. ASSUME NEW e \in Editors, NEW form \in Forms, editor' = [editor EXCEPT ![e] = form],
                overlapped' \subseteq Editors, UNCHANGED <<tables, loop, wizard, counters, drift, told>>
         PROVE  TypeOK' /\ Held'
    <3>1. TypeOK'
      BY <2>23 DEF TypeOK, tables, counters, Exists
    <3>2. Held'
      BY <2>23 DEF Held
    <3> QED
      BY <3>1, <3>2
  <2>24. ASSUME NEW e \in Editors, OpenSettings(e) \/ ReportSaved(e) PROVE TypeOK' /\ Held'
    <3> DEFINE form == Payload
               f == [NewEditor EXCEPT !.at = "open", !.form = form]
    <3>1. form \in [Keys -> Cells]
      BY PayloadType
    <3>2. Len(KeyOrder) \in Nat
      BY SettingsAssumption, LenProperties
    <3>3. /\ editor' = [editor EXCEPT ![e] = f]
          /\ overlapped' \subseteq Editors /\ UNCHANGED <<tables, loop, wizard, counters, drift, told>>
      BY <2>24 DEF OpenSettings, ReportSaved, history, TypeOK
    <3> HIDE DEF form
    <3>4. f \in Forms
      BY <3>1, NewEditorType DEF Forms
    <3> HIDE DEF f
    <3> QED
      BY <2>23, <3>3, <3>4
  <2>25. ASSUME NEW e \in Editors, NEW form \in [Keys -> Cells], StartSave(e, form)
         PROVE  TypeOK' /\ Held'
    <3> DEFINE f == [at |-> "saving", form |-> form, next |-> 1]
    <3>1. Len(KeyOrder) \in Nat
      BY SettingsAssumption, LenProperties
    <3>2. f \in Forms
      BY <3>1 DEF Forms
    <3>3. /\ editor' = [editor EXCEPT ![e] = f]
          /\ overlapped' \subseteq Editors /\ UNCHANGED <<tables, loop, wizard, counters, drift, told>>
      BY <2>25 DEF StartSave, Saving, TypeOK
    <3> HIDE DEF f
    <3> QED
      BY <2>23, <3>2, <3>3
  <2>26. ASSUME NEW e \in Editors, NEW k \in DOMAIN Defaults, NEW value \in Inputs,
                SubmitSettings(e, k, value)
         PROVE  TypeOK' /\ Held'
    <3>1. editor[e].form \in [Keys -> Cells] /\ value \in Cells
      BY SettingsAssumption DEF TypeOK, Forms, Cells
    <3>2. [editor[e].form EXCEPT ![k] = value] \in [Keys -> Cells]
      BY <3>1
    <3> QED
      BY <2>25, <2>26, <3>2 DEF SubmitSettings
  <2>27. ASSUME NEW e \in Editors, ResetSettings(e) PROVE TypeOK' /\ Held'
    <3>1. [k \in Keys |-> IF k \in DOMAIN Defaults THEN Defaults[k] ELSE None] \in [Keys -> Cells]
      BY SettingsAssumption DEF Cells
    <3> QED
      BY <2>25, <2>27, <3>1 DEF ResetSettings
  <2>28. ASSUME NEW e \in Editors, UpsertValue(e) PROVE TypeOK' /\ Held'
    <3> DEFINE k == KeyOrder[editor[e].next]
    <3>1. k \in Keys /\ editor[e].next \in 1..Len(KeyOrder) /\ Len(KeyOrder) \in Nat
      BY <2>28, KeyAt DEF UpsertValue
    <3>2. editor[e].form[k] \in Cells
      BY <3>1 DEF TypeOK, Forms
    <3>3. config' \in [Keys -> Cells] /\ drift' \in BOOLEAN
      BY <2>28, <3>1, <3>2 DEF UpsertValue, TypeOK
    <3>4. /\ editor' = [editor EXCEPT ![e].next = @ + 1]
          /\ UNCHANGED <<applied, keyFile, accounts, loop, wizard, counters, told, overlapped>>
      BY <2>28 DEF UpsertValue
    <3>5. editor' \in [Editors -> Forms]
      BY <3>1, <3>4 DEF TypeOK, Forms
    <3>6. TypeOK'
      BY <3>3, <3>4, <3>5 DEF TypeOK, counters, Exists
    <3>7. Held'
      BY <3>4 DEF Held
    <3> QED
      BY <3>6, <3>7
  <2>29. ASSUME NEW e \in Editors, UpsertFails(e) PROVE TypeOK' /\ Held'
    <3> DEFINE f == [editor[e] EXCEPT !.at = "open", !.next = 1]
    <3>1. editor[e] \in Forms
      BY DEF TypeOK
    <3>2. f \in Forms
      BY <3>1, NewEditorType DEF Forms
    <3>3. /\ editor' = [editor EXCEPT ![e] = f] /\ overlapped' \subseteq Editors
          /\ UNCHANGED <<tables, loop, wizard, counters, drift, told>>
      BY <2>29 DEF UpsertFails, TypeOK
    <3> HIDE DEF f
    <3> QED
      BY <2>23, <3>2, <3>3
  <2> QED
    BY <2>1, <2>2, <2>3, <2>5, <2>6, <2>8, <2>10, <2>11, <2>13, <2>14, <2>15, <2>16, <2>17, <2>18,
       <2>19, <2>20, <2>21, <2>22, <2>24, <2>26, <2>27, <2>28, <2>29 DEF Next
<1> QED
  BY <1>1, <1>2, PTL DEF Spec

(* The variables keep their types, and no two accounts have the same name.  *)
THEOREM TypeCorrect == Spec => []TypeOK
BY TypeInvariance, PTL

-----------------------------------------------------------------------------
(* The steps that make or change an account.                               *)
LEMMA AccountSteps ==
  ASSUME [Next]_vars
  PROVE  \/ UNCHANGED <<accounts, told>>
         \/ CreateAdmin
         \/ \E password \in Passwords :
              \/ SetAdminPassword(password)
              \/ \E name \in Names : CreateUser(name, password)
              \/ \E id \in Ids, current \in Passwords : ChangePassword(id, current, password)
         \/ \E id \in Ids : DeleteUser(id)
<1>1. ASSUME NEW p \in Wizards,
             \/ \E name \in Names, password \in Passwords : EnterAccount(p, name, password)
             \/ StartInstallation(p)
             \/ \E what \in {"key", "storage"}, values \in OciForms : SaveOciConfig(p, what, values)
             \/ \E value \in Inputs : SaveModel(p, value)
             \/ CompleteSetup(p) \/ ReloadPage(p)
      PROVE  UNCHANGED <<accounts, told>>
  BY <1>1 DEF EnterAccount, StartInstallation, SaveOciConfig, SaveModel, CompleteSetup, ReloadPage,
              tables, history
<1>2. ASSUME RunScript \/ ScriptFails \/ InstallationFails \/ CreateAdminFails
               \/ LoadSavedOciConfig \/ WriteKeyFile \/ WriteKeyFileFails \/ Restart
      PROVE  UNCHANGED <<accounts, told>>
  BY <1>2 DEF RunScript, ScriptFails, InstallationFails, CreateAdminFails, LoadSavedOciConfig,
              WriteKeyFile, WriteKeyFileFails, Restart, tables, history
<1>3. ASSUME NEW e \in Editors,
             \/ OpenSettings(e) \/ ResetSettings(e) \/ UpsertValue(e) \/ UpsertFails(e) \/ ReportSaved(e)
             \/ \E k \in DOMAIN Defaults, value \in Inputs : SubmitSettings(e, k, value)
      PROVE  UNCHANGED <<accounts, told>>
  BY <1>3 DEF OpenSettings, ResetSettings, UpsertValue, UpsertFails, ReportSaved, SubmitSettings,
              StartSave, tables, history
<1>4. CASE UNCHANGED vars
  BY <1>4 DEF vars, tables, history
<1> QED
  BY <1>1, <1>2, <1>3, <1>4 DEF Next

(* The administrator, once there, is active and has the password that was   *)
(* confirmed.                                                              *)
Administered == Exists(0) => accounts[0].active /\ accounts[0].password = told

(* Once there is an administrator, the password confirmed last is one to    *)
(* sign in with: the account is not deleted, every change of its password  *)
(* is told, and its creation is told after what was confirmed without it.  *)
THEOREM AdministratorHolds == Spec => []AdministratorSignsIn
<1>1. Init => Administered
  BY BoundsAssumption DEF Init, Administered, Exists, Ids
<1>2. TypeOK /\ Held /\ Administered /\ [Next]_vars => Administered'
  <2> SUFFICES ASSUME TypeOK, Held, Administered, [Next]_vars PROVE Administered'
    OBVIOUS
  <2>1. 0 \in Ids
    BY BoundsAssumption DEF Ids
  <2>2. Exists(0) => accounts[0] \in Records
    BY <2>1 DEF TypeOK, Exists, Records
  <2>3. CASE UNCHANGED <<accounts, told>>
    BY <2>3 DEF Administered, Exists
  <2>4. CASE CreateAdmin
    <3> DEFINE w == wizard[loop.page]
               a == [name |-> w.name, password |-> w.password,
                     active |-> IF Exists(0) THEN accounts[0].active ELSE TRUE]
    <3>1. accounts' = [accounts EXCEPT ![0] = a] /\ told' = w.password
      BY <2>4 DEF CreateAdmin
    <3>2. w.name \in Names /\ w.password \in Passwords
      BY <2>4 DEF CreateAdmin, Held
    <3>3. a.active /\ a.password = w.password
      BY DEF Administered
    <3>4. a \in Records
      BY <2>2, <3>2 DEF Records
    <3> HIDE DEF a
    <3>5. accounts'[0] = a
      BY <2>1, <3>1 DEF TypeOK
    <3> QED
      BY <3>1, <3>3, <3>4, <3>5, AccountExists DEF Administered, Exists
  <2>5. ASSUME NEW password \in Passwords, SetAdminPassword(password) PROVE Administered'
    <3>1. told' = password
      BY <2>5 DEF SetAdminPassword
    <3>2. CASE Exists(0)
      <4>1. accounts'[0] = [accounts[0] EXCEPT !.password = password]
        BY <2>1, <2>5, <3>2 DEF SetAdminPassword, TypeOK
      <4>2. /\ accounts'[0] \in Records /\ accounts'[0].password = password
            /\ accounts'[0].active = accounts[0].active
        BY <2>2, <3>2, <4>1 DEF Records
      <4> QED
        BY <3>1, <3>2, <4>2 DEF Administered
    <3>3. CASE ~Exists(0)
      BY <2>5, <3>3 DEF SetAdminPassword, Administered, Exists
    <3> QED
      BY <3>2, <3>3
  <2>6. ASSUME NEW id \in Ids, id # 0, \A i \in Ids \ {id} : accounts'[i] = accounts[i], told' = told
        PROVE  Administered'
    BY <2>1, <2>6 DEF Administered, Exists
  <2>7. ASSUME NEW name \in Names, NEW password \in Passwords, CreateUser(name, password)
        PROVE  Administered'
    BY <2>6, <2>7 DEF CreateUser, TypeOK, history
  <2>8. ASSUME NEW id \in Ids, NEW current \in Passwords, NEW password \in Passwords,
               ChangePassword(id, current, password)
        PROVE  Administered'
    <3>1. Exists(id) /\ accounts' = [accounts EXCEPT ![id].password = password]
      BY <2>8 DEF ChangePassword
    <3>2. CASE id = 0
      <4>1. told' = password
        BY <2>8, <3>2 DEF ChangePassword
      <4>2. accounts'[0] = [accounts[0] EXCEPT !.password = password]
        BY <2>1, <3>1, <3>2 DEF TypeOK
      <4>3. /\ accounts'[0] \in Records /\ accounts'[0].password = password
            /\ accounts'[0].active = accounts[0].active
        BY <2>2, <3>1, <3>2, <4>2 DEF Records
      <4> QED
        BY <3>1, <3>2, <4>1, <4>3, AccountExists DEF Administered, Exists
    <3>3. CASE id # 0
      BY <2>6, <2>8, <3>1, <3>3 DEF ChangePassword, TypeOK
    <3> QED
      BY <3>2, <3>3
  <2>9. ASSUME NEW id \in Ids, DeleteUser(id) PROVE Administered'
    BY <2>6, <2>9 DEF DeleteUser, TypeOK, history
  <2> QED
    BY AccountSteps, <2>3, <2>4, <2>5, <2>7, <2>8, <2>9
<1>3. TypeOK /\ Administered => AdministratorSignsIn
  <2> SUFFICES ASSUME TypeOK, Administered, Exists(0)
               PROVE  SignsIn(accounts[0].name, told)
    BY DEF AdministratorSignsIn
  <2>1. 0 \in Ids
    BY BoundsAssumption DEF Ids
  <2>2. accounts[0] \in Records
    BY <2>1 DEF TypeOK, Administered, Exists, Records
  <2>3. accounts[0].password = told /\ accounts[0].active = TRUE
    BY <2>2 DEF Administered, Records
  <2>4. accounts[0] = [name |-> accounts[0].name, password |-> told, active |-> TRUE]
    BY <2>2, <2>3 DEF Records
  <2> QED
    BY <2>1, <2>4 DEF SignsIn
<1> QED
  BY <1>1, <1>2, <1>3, TypeInvariance, PTL DEF Spec

-----------------------------------------------------------------------------
(* The flag is only in the table once its row was seeded, and the settings  *)
(* page, which opens when the setup is complete, repeats it.               *)
Settled ==
  /\ config[Flag] # None => FlagRow \in applied
  /\ \A e \in Editors : editor[e].at # "closed" => Completed
  /\ \A e \in Editors : editor[e].form[Flag] \in {None, "true"}

(* How a step treats the flag: it leaves it, seeds it, completes the setup  *)
(* or saves it from a form.                                                *)
LEMMA FlagSteps ==
  ASSUME TypeOK, Held, [Next]_vars
  PROVE  /\ applied \subseteq applied'
         /\ \/ config'[Flag] = config[Flag]
            \/ FlagRow \in applied' /\ FlagRow \notin applied /\ config'[Flag] = "false"
            \/ config[Flag] # None /\ config'[Flag] = "true"
            \/ \E e \in Saving : config'[Flag] = editor[e].form[Flag] /\ config'[Flag] # None
<1> DEFINE Goal ==
      /\ applied \subseteq applied'
      /\ \/ config'[Flag] = config[Flag]
         \/ FlagRow \in applied' /\ FlagRow \notin applied /\ config'[Flag] = "false"
         \/ config[Flag] # None /\ config'[Flag] = "true"
         \/ \E e \in Saving : config'[Flag] = editor[e].form[Flag] /\ config'[Flag] # None
<1> SUFFICES Goal
  OBVIOUS
<1>1. ASSUME UNCHANGED <<applied, config>> PROVE Goal
  BY <1>1
<1>2. CASE UNCHANGED vars
  BY <1>1, <1>2 DEF vars, tables
<1>3. ASSUME NEW p \in Wizards,
             \/ \E name \in Names, password \in Passwords : EnterAccount(p, name, password)
             \/ StartInstallation(p) \/ ReloadPage(p)
      PROVE  Goal
  BY <1>1, <1>3 DEF EnterAccount, StartInstallation, ReloadPage, tables
<1>4. ASSUME InstallationFails \/ CreateAdminFails \/ CreateAdmin \/ LoadSavedOciConfig
               \/ WriteKeyFile \/ WriteKeyFileFails \/ Restart
      PROVE  Goal
  BY <1>1, <1>4 DEF InstallationFails, CreateAdminFails, CreateAdmin, LoadSavedOciConfig,
              WriteKeyFile, WriteKeyFileFails, Restart, tables
<1>5. ASSUME NEW e \in Editors,
             \/ OpenSettings(e) \/ ResetSettings(e) \/ UpsertFails(e) \/ ReportSaved(e)
             \/ \E k \in DOMAIN Defaults, value \in Inputs : SubmitSettings(e, k, value)
      PROVE  Goal
  BY <1>1, <1>5 DEF OpenSettings, ResetSettings, UpsertFails, ReportSaved, SubmitSettings,
              StartSave, tables
<1>6. ASSUME \/ \E password \in Passwords :
                  \/ SetAdminPassword(password)
                  \/ \E name \in Names : CreateUser(name, password)
                  \/ \E id \in Ids, current \in Passwords : ChangePassword(id, current, password)
             \/ \E id \in Ids : DeleteUser(id)
      PROVE  Goal
  BY <1>1, <1>6 DEF SetAdminPassword, CreateUser, ChangePassword, DeleteUser
<1>7. ASSUME loop.at = "scripts", loop.script <= Len(Scripts),
             NEW n \in 0..Len(Scripts[loop.script]),
             applied' = Executed(Scripts[loop.script], n), config' = Seeded(applied')
      PROVE  Goal
  <2>1. applied \subseteq applied'
    BY <1>7, Executing
  <2>2. CASE FlagRow \in applied' \ applied
    BY <1>7, <2>1, <2>2, SettingsAssumption DEF Seeded, TypeOK
  <2>3. CASE FlagRow \notin applied' \ applied
    BY <1>7, <2>1, <2>3 DEF Seeded
  <2> QED
    BY <2>2, <2>3
<1>8. ASSUME RunScript PROVE Goal
  <2>1. Len(Scripts[loop.script]) \in 0..Len(Scripts[loop.script])
    BY <1>8, ScriptType, ScriptCount DEF RunScript, Held
  <2> QED
    BY <1>7, <1>8, <2>1 DEF RunScript
<1>9. ASSUME ScriptFails PROVE Goal
  BY <1>7, <1>9 DEF ScriptFails
<1>10. ASSUME NEW p \in Wizards, NEW what \in {"key", "storage"}, NEW values \in OciForms,
              SaveOciConfig(p, what, values)
       PROVE  Goal
  BY <1>10, SettingsAssumption DEF SaveOciConfig
<1>11. ASSUME NEW p \in Wizards, NEW value \in Inputs, SaveModel(p, value) PROVE Goal
  BY <1>11, SettingsAssumption DEF SaveModel, TypeOK
<1>12. ASSUME NEW p \in Wizards, CompleteSetup(p) PROVE Goal
  BY <1>12, SettingsAssumption DEF CompleteSetup, TypeOK
<1>13. ASSUME NEW e \in Editors, UpsertValue(e) PROVE Goal
  <2>1. KeyOrder[editor[e].next] \in Keys /\ e \in Saving /\ applied' = applied
    BY <1>13, KeyAt DEF UpsertValue
  <2>2. CASE KeyOrder[editor[e].next] = Flag
    <3>1. CASE editor[e].form[Flag] = None
      BY <1>13, <2>1, <2>2, <3>1 DEF UpsertValue
    <3>2. CASE editor[e].form[Flag] # None
      <4>1. config' = [config EXCEPT ![Flag] = editor[e].form[Flag]]
        BY <1>13, <2>2, <3>2 DEF UpsertValue
      <4>2. config'[Flag] = editor[e].form[Flag]
        BY <4>1, SettingsAssumption DEF TypeOK
      <4> QED
        BY <2>1, <3>2, <4>2
    <3> QED
      BY <3>1, <3>2
  <2>3. CASE KeyOrder[editor[e].next] # Flag
    <3> DEFINE k == KeyOrder[editor[e].next]
    <3>1. config' = config \/ config' = [config EXCEPT ![k] = editor[e].form[k]]
      BY <1>13 DEF UpsertValue
    <3>2. k # Flag
      BY <2>3
    <3> HIDE DEF k
    <3>3. config'[Flag] = config[Flag]
      BY <3>1, <3>2, SettingsAssumption DEF TypeOK
    <3> QED
      BY <2>1, <3>3
  <2> QED
    BY <2>2, <2>3
<1> HIDE DEF Goal
<1> QED
  BY <1>2, <1>3, <1>4, <1>5, <1>6, <1>8, <1>9, <1>10, <1>11, <1>12, <1>13 DEF Next

(* A complete setup stays complete.                                        *)
LEMMA FlagStays ==
  ASSUME TypeOK, Held, Settled, [Next]_vars, Completed
  PROVE  Completed'
<1>1. FlagRow \in applied /\ config[Flag] = "true"
  BY SettingsAssumption DEF Settled, Completed
<1>2. \A e \in Saving : editor[e].form[Flag] \in {None, "true"}
  BY DEF Saving, Settled
<1> QED
  BY <1>1, <1>2, FlagSteps DEF Completed

(* A page of settings repeats the flag as it was, or does not have it.      *)
LEMMA EditorsSettled ==
  ASSUME TypeOK, Settled, [Next]_vars, NEW e \in Editors
  PROVE  /\ editor'[e].at # "closed" => Completed
         /\ editor'[e].form[Flag] \in {None, "true"}
<1> DEFINE Goal ==
      /\ editor'[e].at # "closed" => Completed
      /\ editor'[e].form[Flag] \in {None, "true"}
<1> SUFFICES Goal
  OBVIOUS
<1>1. editor[e] \in Forms /\ Flag \in Keys
  BY SettingsAssumption DEF TypeOK
<1>2. ASSUME editor'[e].at # "closed" => editor[e].at # "closed",
             editor'[e].form[Flag] \in {None, editor[e].form[Flag]}
      PROVE  Goal
  BY <1>2 DEF Settled
<1>3. ASSUME editor' = editor PROVE Goal
  BY <1>2, <1>3
<1>4. ASSUME NEW f \in Editors, editor' = [editor EXCEPT ![f] = [NewEditor EXCEPT !.at = "open", !.form = Payload]],
             Completed
      PROVE  Goal
  <2> DEFINE form == Payload
             g == [NewEditor EXCEPT !.at = "open", !.form = form]
  <2>1. form[Flag] = "true"
    <3>1. config[Flag] = "true"
      BY <1>4 DEF Completed
    <3>2. "true" # None
      BY SettingsAssumption
    <3> QED
      BY <1>1, <3>1, <3>2, SettingsAssumption DEF Payload
  <2>2. editor' = [editor EXCEPT ![f] = g]
    BY <1>4
  <2> HIDE DEF form
  <2>3. g.form = form
    BY DEF NewEditor
  <2> HIDE DEF g
  <2>4. CASE e = f
    BY <1>4, <2>1, <2>2, <2>3, <2>4 DEF TypeOK
  <2>5. CASE e # f
    BY <1>2, <2>2, <2>5 DEF TypeOK
  <2> QED
    BY <2>4, <2>5
<1>5. ASSUME NEW f \in Editors, NEW form, StartSave(f, form), form[Flag] \in {None, editor[f].form[Flag]}
      PROVE  Goal
  <2>1. editor[f].at = "open" /\ editor' = [editor EXCEPT ![f] = [at |-> "saving", form |-> form, next |-> 1]]
    BY <1>5 DEF StartSave
  <2>2. CASE e = f
    BY <1>2, <1>5, <2>1, <2>2 DEF TypeOK
  <2>3. CASE e # f
    BY <1>2, <2>1, <2>3 DEF TypeOK
  <2> QED
    BY <2>2, <2>3
<1>6. CASE UNCHANGED vars
  BY <1>3, <1>6 DEF vars
<1>7. ASSUME NEW p \in Wizards,
             \/ \E name \in Names, password \in Passwords : EnterAccount(p, name, password)
             \/ StartInstallation(p)
             \/ \E what \in {"key", "storage"}, values \in OciForms : SaveOciConfig(p, what, values)
             \/ \E value \in Inputs : SaveModel(p, value)
             \/ CompleteSetup(p) \/ ReloadPage(p)
      PROVE  Goal
  BY <1>3, <1>7 DEF EnterAccount, StartInstallation, SaveOciConfig, SaveModel, CompleteSetup, ReloadPage
<1>8. ASSUME RunScript \/ ScriptFails \/ InstallationFails \/ CreateAdminFails \/ CreateAdmin
               \/ LoadSavedOciConfig \/ WriteKeyFile \/ WriteKeyFileFails
      PROVE  Goal
  BY <1>3, <1>8 DEF RunScript, ScriptFails, InstallationFails, CreateAdminFails, CreateAdmin,
              LoadSavedOciConfig, WriteKeyFile, WriteKeyFileFails
<1>9. ASSUME \/ \E password \in Passwords :
                  \/ SetAdminPassword(password)
                  \/ \E name \in Names : CreateUser(name, password)
                  \/ \E id \in Ids, current \in Passwords : ChangePassword(id, current, password)
             \/ \E id \in Ids : DeleteUser(id)
      PROVE  Goal
  BY <1>3, <1>9 DEF SetAdminPassword, CreateUser, ChangePassword, DeleteUser
<1>10. ASSUME Restart PROVE Goal
  <2>1. editor'[e] = IF e \in Saving THEN NewEditor ELSE editor[e]
    BY <1>10 DEF Restart
  <2>2. NewEditor.at = "closed" /\ NewEditor.form[Flag] = None
    BY <1>1 DEF NewEditor
  <2> QED
    BY <1>2, <2>1, <2>2
<1>11. ASSUME NEW f \in Editors, OpenSettings(f) PROVE Goal
  BY <1>4, <1>11 DEF OpenSettings
<1>12. ASSUME NEW f \in Editors, ReportSaved(f) PROVE Goal
  <2>1. Completed
    BY <1>12 DEF ReportSaved, Saving, Settled
  <2> QED
    BY <1>4, <1>12, <2>1 DEF ReportSaved
<1>13. ASSUME NEW f \in Editors, NEW k \in DOMAIN Defaults, NEW value \in Inputs, SubmitSettings(f, k, value)
       PROVE  Goal
  <2> DEFINE form == [editor[f].form EXCEPT ![k] = value]
  <2>1. k # Flag /\ editor[f].form \in [Keys -> Cells]
    BY SettingsAssumption DEF TypeOK, Forms
  <2>2. form[Flag] = editor[f].form[Flag]
    BY <1>1, <2>1
  <2>3. StartSave(f, form)
    BY <1>13 DEF SubmitSettings
  <2> HIDE DEF form
  <2> QED
    BY <1>5, <2>2, <2>3
<1>14. ASSUME NEW f \in Editors, ResetSettings(f) PROVE Goal
  <2> DEFINE form == [k \in Keys |-> IF k \in DOMAIN Defaults THEN Defaults[k] ELSE None]
  <2>1. form[Flag] = None
    BY <1>1, SettingsAssumption
  <2>2. StartSave(f, form)
    BY <1>14 DEF ResetSettings
  <2> HIDE DEF form
  <2> QED
    BY <1>5, <2>1, <2>2
<1>15. ASSUME NEW f \in Editors, UpsertValue(f) PROVE Goal
  <2>1. editor' = [editor EXCEPT ![f].next = @ + 1]
    BY <1>15 DEF UpsertValue
  <2>2. editor'[e].at = editor[e].at /\ editor'[e].form = editor[e].form
    BY <1>1, <2>1 DEF TypeOK, Forms
  <2> QED
    BY <1>2, <2>2
<1>16. ASSUME NEW f \in Editors, UpsertFails(f) PROVE Goal
  <2>1. editor' = [editor EXCEPT ![f].at = "open", ![f].next = 1] /\ editor[f].at = "saving"
    BY <1>16 DEF UpsertFails, Saving
  <2>2. editor'[e].form = editor[e].form /\ (e # f => editor'[e] = editor[e])
    BY <1>1, <2>1 DEF TypeOK, Forms
  <2> QED
    BY <1>2, <2>1, <2>2
<1> HIDE DEF Goal
<1> QED
  BY <1>6, <1>7, <1>8, <1>9, <1>10, <1>11, <1>12, <1>13, <1>14, <1>15, <1>16 DEF Next

LEMMA SettledInvariance == Spec => [](TypeOK /\ Held /\ Settled)
<1>1. Init => Settled
  <2> SUFFICES ASSUME Init PROVE Settled
    OBVIOUS
  <2>1. config[Flag] = None
    BY SettingsAssumption DEF Init
  <2>2. \A e \in Editors : editor[e].at = "closed" /\ editor[e].form[Flag] = None
    BY SettingsAssumption DEF Init, NewEditor
  <2> QED
    BY <2>1, <2>2 DEF Settled
<1>2. TypeOK /\ Held /\ Settled /\ [Next]_vars => Settled'
  <2> SUFFICES ASSUME TypeOK, Held, Settled, [Next]_vars PROVE Settled'
    OBVIOUS
  <2>1. config'[Flag] # None => FlagRow \in applied'
    <3>1. applied \subseteq applied'
      BY FlagSteps
    <3>2. \A e \in Saving : FlagRow \in applied
      BY SettingsAssumption DEF Saving, Settled, Completed
    <3> QED
      BY <3>1, <3>2, FlagSteps DEF Settled
  <2>2. ASSUME NEW e \in Editors
        PROVE  (editor'[e].at # "closed" => Completed') /\ editor'[e].form[Flag] \in {None, "true"}
    BY EditorsSettled, FlagStays
  <2> QED
    BY <2>1, <2>2 DEF Settled
<1> QED
  BY <1>1, <1>2, TypeInvariance, PTL DEF Spec

(* A complete setup stays complete: the row of the flag is seeded once, and *)
(* pages of settings, which open later, repeat it.                         *)
THEOREM CompletionHolds == Spec => CompletionStays
<1>1. TypeOK /\ Held /\ Settled /\ [Next]_vars => [Completed => Completed']_vars
  BY FlagStays
<1> QED
  BY <1>1, SettledInvariance, PTL DEF Spec, CompletionStays

-----------------------------------------------------------------------------
(* What is about to be written to the key file is in the settings.         *)
Followed ==
  /\ loop.at = "file" /\ ~drift =>
       \A k \in FileKeys : loop.values[k] = FileValue(k, config[k])
  /\ KeyFileFollowsSettings

(* A step that leaves the key file and its settings alone.                 *)
LEMMA Unwritten ==
  ASSUME Followed, keyFile' = keyFile, \A k \in FileKeys : config'[k] = config[k],
         drift' = drift \/ drift', loop' = loop \/ (loop'.at # "file" /\ (loop.at = "file" => drift'))
  PROVE  Followed'
BY DEF Followed, KeyFileFollowsSettings

(* The key file repeats the settings: only the settings page changes them   *)
(* while the file is written, and it marks the drift.                      *)
THEOREM KeyFileHolds == Spec => []KeyFileFollowsSettings
<1>1. Init => Followed
  BY DEF Init, Followed, KeyFileFollowsSettings, Free, NoValues
<1>2. TypeOK /\ Held /\ Followed /\ [Next]_vars => Followed'
  <2> SUFFICES ASSUME TypeOK, Held, Followed, [Next]_vars PROVE Followed'
    OBVIOUS
  <2>1. \A k \in FileKeys : k \in Keys /\ k # Flag /\ k # ModelKey
    BY SettingsAssumption
  <2>2. Free.at = "free"
    BY DEF Free
  <2>3. ASSUME UNCHANGED <<config, keyFile, loop, drift>> PROVE Followed'
    BY <2>3, Unwritten
  <2>4. CASE UNCHANGED vars
    BY <2>3, <2>4 DEF vars, tables, history
  <2>5. ASSUME NEW p \in Wizards,
               \/ \E name \in Names, password \in Passwords : EnterAccount(p, name, password)
               \/ ReloadPage(p)
        PROVE  Followed'
    BY <2>3, <2>5 DEF EnterAccount, ReloadPage, tables, history
  <2>6. ASSUME NEW p \in Wizards, StartInstallation(p) PROVE Followed'
    <3>1. loop'.at # "file" /\ loop.at # "file" /\ UNCHANGED <<config, keyFile, drift>>
      BY <2>2, <2>6 DEF StartInstallation, Free, tables, history
    <3> QED
      BY <3>1, Unwritten
  <2>7. ASSUME loop.at = "scripts", loop'.at # "file", config' = config \/ config' = Seeded(applied'),
               UNCHANGED <<keyFile, drift>>
        PROVE  Followed'
    <3>1. \A k \in FileKeys : config'[k] = config[k]
      BY <2>1, <2>7 DEF Seeded, TypeOK
    <3> QED
      BY <2>7, <3>1, Unwritten
  <2>8. ASSUME RunScript \/ ScriptFails PROVE Followed'
    <3>1. loop'.at = loop.at
      BY <2>8 DEF RunScript, ScriptFails, TypeOK, Loops
    <3> QED
      BY <2>7, <2>8, <3>1 DEF RunScript, ScriptFails, history
  <2>9. ASSUME InstallationFails \/ CreateAdminFails \/ CreateAdmin PROVE Followed'
    BY <2>2, <2>7, <2>9 DEF InstallationFails, CreateAdminFails, CreateAdmin, tables, history
  <2>10. ASSUME NEW p \in Wizards, NEW what \in {"key", "storage"}, NEW values \in OciForms,
                SaveOciConfig(p, what, values)
         PROVE  Followed'
    <3> DEFINE v == [k \in FileKeys |-> FileValue(k, values[k])]
    <3>1. loop' = [Free EXCEPT !.page = p, !.at = "file", !.saves = what, !.values = v]
      BY <2>10 DEF SaveOciConfig
    <3>2. \A k \in FileKeys : v[k] = FileValue(k, config'[k])
      BY <2>1, <2>10, SettingsAssumption DEF SaveOciConfig
    <3> HIDE DEF v
    <3>3. loop'.at = "file" /\ loop'.values = v
      BY <3>1 DEF Free
    <3> QED
      BY <3>2, <3>3 DEF Followed, KeyFileFollowsSettings
  <2>11. ASSUME NEW p \in Wizards, NEW value \in Inputs, SaveModel(p, value) PROVE Followed'
    <3>1. \A k \in FileKeys : config'[k] = config[k]
      BY <2>1, <2>11 DEF SaveModel, TypeOK
    <3> QED
      BY <2>11, <3>1, Unwritten DEF SaveModel
  <2>12. ASSUME NEW p \in Wizards, CompleteSetup(p) PROVE Followed'
    <3>1. \A k \in FileKeys : config'[k] = config[k]
      BY <2>1, <2>12 DEF CompleteSetup, TypeOK
    <3>2. loop'.at # "file" /\ loop.at # "file"
      BY <2>2, <2>12 DEF CompleteSetup, Free
    <3> QED
      BY <2>12, <3>1, <3>2, Unwritten DEF CompleteSetup, history
  <2>13. ASSUME LoadSavedOciConfig PROVE Followed'
    <3> DEFINE v == [k \in FileKeys |-> FileValue(k, config[k])]
    <3>1. loop' = [loop EXCEPT !.at = "file", !.values = v] /\ config' = config
      BY <2>13 DEF LoadSavedOciConfig, tables
    <3>2. \A k \in FileKeys : v[k] = FileValue(k, config'[k])
      BY <3>1
    <3> HIDE DEF v
    <3>3. loop'.at = "file" /\ loop'.values = v
      BY <3>1 DEF TypeOK, Loops
    <3> QED
      BY <3>2, <3>3 DEF Followed, KeyFileFollowsSettings
  <2>14. ASSUME WriteKeyFile PROVE Followed'
    <3>1. loop.at = "file" /\ keyFile' = loop.values /\ loop'.at = "free" /\ UNCHANGED <<config, drift>>
      BY <2>2, <2>14 DEF WriteKeyFile, history
    <3> QED
      BY <3>1 DEF Followed, KeyFileFollowsSettings
  <2>15. ASSUME WriteKeyFileFails PROVE Followed'
    BY <2>2, <2>15, Unwritten DEF WriteKeyFileFails, tables
  <2>16. ASSUME Restart PROVE Followed'
    <3>1. drift' = (drift \/ loop.at = "file") /\ loop' = Free /\ UNCHANGED <<config, keyFile>>
      BY <2>16 DEF Restart, tables
    <3>2. CASE loop.at = "file"
      BY <2>2, <3>1, <3>2, Unwritten
    <3>3. CASE loop.at # "file"
      <4>1. drift' = drift
        BY <3>1, <3>3 DEF TypeOK
      <4> QED
        BY <2>2, <3>1, <3>3, <4>1, Unwritten
    <3> QED
      BY <3>2, <3>3
  <2>17. ASSUME \/ \E password \in Passwords :
                    \/ SetAdminPassword(password)
                    \/ \E name \in Names : CreateUser(name, password)
                    \/ \E id \in Ids, current \in Passwords : ChangePassword(id, current, password)
                \/ \E id \in Ids : DeleteUser(id)
         PROVE  Followed'
    BY <2>3, <2>17 DEF SetAdminPassword, CreateUser, ChangePassword, DeleteUser, history
  <2>18. ASSUME NEW e \in Editors,
                \/ OpenSettings(e) \/ ResetSettings(e) \/ UpsertFails(e) \/ ReportSaved(e)
                \/ \E k \in DOMAIN Defaults, value \in Inputs : SubmitSettings(e, k, value)
         PROVE  Followed'
    BY <2>3, <2>18 DEF OpenSettings, ResetSettings, UpsertFails, ReportSaved, SubmitSettings,
                       StartSave, tables, history
  <2>19. ASSUME NEW e \in Editors, UpsertValue(e) PROVE Followed'
    <3> DEFINE k == KeyOrder[editor[e].next]
               value == editor[e].form[k]
    <3>1. UNCHANGED <<keyFile, loop>>
      BY <2>19 DEF UpsertValue
    <3>2. CASE value = None
      <4>1. UNCHANGED <<config, drift>>
        BY <2>19, <3>2 DEF UpsertValue
      <4> QED
        BY <2>3, <3>1, <4>1
    <3>3. CASE value # None
      <4>1. config' = [config EXCEPT ![k] = value]
        BY <2>19, <3>3 DEF UpsertValue
      <4>2. drift' = (drift \/ (k \in FileKeys /\ config[k] # value))
        BY <2>19, <3>3 DEF UpsertValue
      <4> HIDE DEF k, value
      <4>3. CASE k \in FileKeys /\ config[k] # value
        BY <3>1, <4>2, <4>3 DEF Followed, KeyFileFollowsSettings
      <4>4. CASE ~(k \in FileKeys /\ config[k] # value)
        <5>1. \A x \in FileKeys : config'[x] = config[x]
          BY <2>1, <4>1, <4>4 DEF TypeOK
        <5>2. drift' = drift
          BY <4>2, <4>4 DEF TypeOK
        <5> QED
          BY <3>1, <5>1, <5>2, Unwritten
      <4> QED
        BY <4>3, <4>4
    <3> QED
      BY <3>2, <3>3
  <2> QED
    BY <2>4, <2>5, <2>6, <2>8, <2>9, <2>10, <2>11, <2>12, <2>13, <2>14, <2>15, <2>16, <2>17,
       <2>18, <2>19 DEF Next
<1>3. Followed => KeyFileFollowsSettings
  BY DEF Followed
<1> QED
  BY <1>1, <1>2, <1>3, TypeInvariance, PTL DEF Spec

-----------------------------------------------------------------------------
(* What the order of the pages has established so far.                     *)
InstalledUpTo(n) == \A i \in 1..n : \A k \in DOMAIN Scripts[i] : Scripts[i][k] \in applied

Ordered ==
  /\ loop.at = "scripts" /\ loop.ok => InstalledUpTo(loop.script - 1)
  /\ \A p \in Wizards : wizard[p].step = "services" => applied = Statements /\ Exists(0)
  /\ \A p \in Wizards : /\ "key" \in wizard[p].saved => ApiKeySaved
                        /\ "model" \in wizard[p].saved => config[ModelKey] # None
  /\ loop.at = "file" /\ loop.saves = "key" => ApiKeySaved
  /\ CompletionIsHonest

(* Statements, settings and the administrator stay once they are there.    *)
Grows ==
  /\ applied \subseteq applied' /\ applied' \subseteq Statements
  /\ \A k \in Keys : config[k] # None => config'[k] # None
  /\ Exists(0) => accounts'[0] # NoAccount

(* A step that grows and brings no new claim.                              *)
LEMMA Claimless ==
  ASSUME TypeOK, Ordered, Grows,
         loop'.at = "scripts" /\ loop'.ok => loop.at = "scripts" /\ loop.ok /\ loop'.script = loop.script,
         \A p \in Wizards : wizard'[p].step = "services" => wizard[p].step = "services",
         \A p \in Wizards, x \in {"key", "model"} : x \in wizard'[p].saved => x \in wizard[p].saved,
         loop'.at = "file" /\ loop'.saves = "key" => loop.at = "file" /\ loop.saves = "key",
         Completed' => Completed
  PROVE  Ordered'
<1>1. ApiKeySaved => ApiKeySaved'
  BY SettingsAssumption DEF Grows, ApiKeySaved
<1>2. config[ModelKey] # None => config'[ModelKey] # None
  BY SettingsAssumption DEF Grows
<1>3. applied = Statements => applied' = Statements
  BY DEF Grows
<1>4. Exists(0) => Exists(0)'
  BY DEF Grows, Exists
<1>5. (loop.at = "scripts" /\ loop.ok => InstalledUpTo(loop.script - 1))'
  BY DEF Ordered, InstalledUpTo, Grows
<1>6. CompletionIsHonest'
  BY <1>1, <1>2, <1>3, <1>4 DEF Ordered, CompletionIsHonest
<1> QED
  BY <1>1, <1>2, <1>3, <1>4, <1>5, <1>6 DEF Ordered

(* Steps at most grow.                                                     *)
LEMMA Growing ==
  ASSUME TypeOK, Held, [Next]_vars
  PROVE  Grows
<1>1. applied \subseteq Statements /\ 0 \in Ids
  BY BoundsAssumption DEF TypeOK, Ids
<1>2. ASSUME UNCHANGED <<applied, config, accounts>> PROVE Grows
  BY <1>1, <1>2 DEF Grows, Exists
<1>3. CASE UNCHANGED vars
  BY <1>2, <1>3 DEF vars, tables
<1>4. ASSUME NEW p \in Wizards,
             \/ \E name \in Names, password \in Passwords : EnterAccount(p, name, password)
             \/ StartInstallation(p) \/ ReloadPage(p)
      PROVE  Grows
  BY <1>2, <1>4 DEF EnterAccount, StartInstallation, ReloadPage, tables
<1>5. ASSUME InstallationFails \/ CreateAdminFails \/ LoadSavedOciConfig
               \/ WriteKeyFile \/ WriteKeyFileFails \/ Restart
      PROVE  Grows
  BY <1>2, <1>5 DEF InstallationFails, CreateAdminFails, LoadSavedOciConfig, WriteKeyFile,
              WriteKeyFileFails, Restart, tables
<1>6. ASSUME NEW e \in Editors,
             \/ OpenSettings(e) \/ ResetSettings(e) \/ UpsertFails(e) \/ ReportSaved(e)
             \/ \E k \in DOMAIN Defaults, value \in Inputs : SubmitSettings(e, k, value)
      PROVE  Grows
  BY <1>2, <1>6 DEF OpenSettings, ResetSettings, UpsertFails, ReportSaved, SubmitSettings,
              StartSave, tables
<1>7. ASSUME loop.at = "scripts", loop.script <= Len(Scripts), UNCHANGED accounts,
             NEW n \in 0..Len(Scripts[loop.script]),
             applied' = Executed(Scripts[loop.script], n), config' = Seeded(applied')
      PROVE  Grows
  <2>1. applied \subseteq applied' /\ applied' \subseteq Statements
    BY <1>7, Executing
  <2>2. \A k \in Keys : config[k] # None => config'[k] # None
    BY <1>7, SettingsAssumption DEF Seeded, TypeOK
  <2> QED
    BY <1>7, <2>1, <2>2 DEF Grows, Exists
<1>8. ASSUME RunScript PROVE Grows
  <2>1. Len(Scripts[loop.script]) \in 0..Len(Scripts[loop.script])
    BY <1>8, ScriptType, ScriptCount DEF RunScript, Held
  <2> QED
    BY <1>7, <1>8, <2>1 DEF RunScript
<1>9. ASSUME ScriptFails PROVE Grows
  BY <1>7, <1>9 DEF ScriptFails
<1>10. ASSUME NEW p \in Wizards, NEW what \in {"key", "storage"}, NEW values \in OciForms,
              SaveOciConfig(p, what, values)
       PROVE  Grows
  <2>1. \A k \in OciKeys : values[k] # None
    BY SettingsAssumption
  <2>2. \A k \in Keys : config[k] # None => config'[k] # None
    BY <1>10, <2>1 DEF SaveOciConfig
  <2> QED
    BY <1>1, <1>10, <2>2 DEF SaveOciConfig, Grows, Exists
<1>11. ASSUME NEW k \in Keys, NEW value, value # None, config' = [config EXCEPT ![k] = value],
              UNCHANGED <<applied, accounts>>
       PROVE  Grows
  BY <1>1, <1>11 DEF Grows, Exists, TypeOK
<1>12. ASSUME NEW p \in Wizards, NEW value \in Inputs, SaveModel(p, value) PROVE Grows
  BY <1>11, <1>12, SettingsAssumption DEF SaveModel
<1>13. ASSUME NEW p \in Wizards, CompleteSetup(p) PROVE Grows
  BY <1>2, <1>11, <1>13, SettingsAssumption DEF CompleteSetup
<1>14. ASSUME NEW e \in Editors, UpsertValue(e) PROVE Grows
  <2>1. KeyOrder[editor[e].next] \in Keys
    BY <1>14, KeyAt DEF UpsertValue
  <2> QED
    BY <1>2, <1>11, <1>14, <2>1 DEF UpsertValue
<1>15. ASSUME UNCHANGED <<applied, config>>, accounts'[0] = accounts[0] \/ accounts'[0] \in Records
       PROVE  Grows
  BY <1>1, <1>15, AccountExists DEF Grows, Exists
<1>16. ASSUME CreateAdmin PROVE Grows
  <2> DEFINE w == wizard[loop.page]
             a == [name |-> w.name, password |-> w.password,
                   active |-> IF Exists(0) THEN accounts[0].active ELSE TRUE]
  <2>1. w.name \in Names /\ w.password \in Passwords
    BY <1>16 DEF CreateAdmin, Held
  <2>2. a \in Records
    BY <1>1, <2>1 DEF TypeOK, Exists, Records
  <2>3. accounts' = [accounts EXCEPT ![0] = a] /\ UNCHANGED <<applied, config>>
    BY <1>16 DEF CreateAdmin
  <2> HIDE DEF a
  <2> QED
    BY <1>1, <1>15, <2>2, <2>3 DEF TypeOK
<1>17. ASSUME NEW id \in Ids, Exists(id), NEW a \in Records, accounts' = [accounts EXCEPT ![id] = a],
              UNCHANGED <<applied, config>>
       PROVE  Grows
  BY <1>1, <1>15, <1>17 DEF TypeOK
<1>18. ASSUME NEW id \in Ids, Exists(id) PROVE accounts[id] \in Records
  BY <1>18 DEF TypeOK, Exists, Records
<1>19. ASSUME NEW password \in Passwords,
              \/ SetAdminPassword(password)
              \/ \E id \in Ids, current \in Passwords : ChangePassword(id, current, password)
       PROVE  Grows
  <2> SUFFICES ASSUME ~UNCHANGED accounts PROVE Grows
    BY <1>2, <1>19 DEF SetAdminPassword, ChangePassword
  <2>1. PICK id \in Ids : /\ Exists(id) /\ accounts' = [accounts EXCEPT ![id].password = password]
                          /\ UNCHANGED <<applied, config>>
    BY <1>1, <1>19 DEF SetAdminPassword, ChangePassword
  <2> DEFINE a == [accounts[id] EXCEPT !.password = password]
  <2>2. a \in Records /\ accounts' = [accounts EXCEPT ![id] = a]
    BY <1>18, <2>1 DEF Records, TypeOK
  <2> HIDE DEF a
  <2> QED
    BY <1>17, <2>1, <2>2
<1>20. ASSUME NEW id \in Ids, DeleteUser(id) PROVE Grows
  <2>1. Exists(id) /\ accounts' = [accounts EXCEPT ![id].active = FALSE] /\ UNCHANGED <<applied, config>>
    BY <1>20 DEF DeleteUser
  <2> DEFINE a == [accounts[id] EXCEPT !.active = FALSE]
  <2>2. a \in Records /\ accounts' = [accounts EXCEPT ![id] = a]
    BY <1>18, <2>1 DEF Records, TypeOK
  <2> HIDE DEF a
  <2> QED
    BY <1>17, <2>1, <2>2
<1>21. ASSUME NEW name \in Names, NEW password \in Passwords, CreateUser(name, password) PROVE Grows
  BY <1>1, <1>15, <1>21 DEF CreateUser, TypeOK
<1> QED
  BY <1>3, <1>4, <1>5, <1>6, <1>8, <1>9, <1>10, <1>12, <1>13, <1>14, <1>16, <1>19, <1>20, <1>21 DEF Next

(* A setup that counts as complete is: the account follows the scripts, the *)
(* services follow the account, and the flag follows the three of them.     *)
THEOREM HonestyHolds == Spec => []CompletionIsHonest
<1>1. Init => Ordered
  <2> SUFFICES ASSUME Init PROVE Ordered
    OBVIOUS
  <2>1. ~Completed
    BY SettingsAssumption DEF Init, Completed
  <2> QED
    BY <2>1 DEF Init, Ordered, CompletionIsHonest, Free, NewWizard
<1>2. TypeOK /\ Held /\ Settled /\ Ordered /\ [Next]_vars => Ordered'
  <2> SUFFICES ASSUME TypeOK, Held, Settled, Ordered, [Next]_vars PROVE Ordered'
    OBVIOUS
  <2>1. Grows
    BY Growing
  <2>2. Free.at = "free" /\ NewWizard.step = "account" /\ NewWizard.saved = {}
    BY DEF Free, NewWizard
  <2>3. ASSUME loop' = loop \/ loop'.at \notin {"scripts", "file"}, wizard' = wizard, Completed' => Completed
        PROVE  Ordered'
    BY <2>1, <2>3, Claimless
  <2>4. ASSUME loop' = loop, NEW p \in Wizards, NEW w, wizard' = [wizard EXCEPT ![p] = w],
               w.step # "services", w.saved = {}, config' = config
        PROVE  Ordered'
    BY <2>1, <2>4, Claimless DEF TypeOK, Completed
  <2>5. CASE UNCHANGED vars
    BY <2>3, <2>5 DEF vars, tables, Completed
  <2>6. ASSUME NEW p \in Wizards, NEW name \in Names, NEW password \in Passwords,
               EnterAccount(p, name, password)
        PROVE  Ordered'
    <3> DEFINE w == [NewWizard EXCEPT !.step = "install", !.name = name, !.password = password]
    <3>1. w.step = "install" /\ w.saved = {}
      BY DEF NewWizard
    <3>2. wizard' = [wizard EXCEPT ![p] = w] /\ loop' = loop /\ config' = config
      BY <2>6 DEF EnterAccount, tables
    <3> HIDE DEF w
    <3> QED
      BY <2>4, <3>1, <3>2
  <2>7. ASSUME NEW p \in Wizards, ReloadPage(p) PROVE Ordered'
    <3> DEFINE w == [NewWizard EXCEPT !.step = IF Completed THEN "left" ELSE "account"]
    <3>1. w.step # "services" /\ w.saved = {}
      BY DEF NewWizard
    <3>2. wizard' = [wizard EXCEPT ![p] = w] /\ loop' = loop /\ config' = config
      BY <2>7 DEF ReloadPage, tables
    <3> HIDE DEF w
    <3> QED
      BY <2>4, <3>1, <3>2
  <2>8. ASSUME NEW p \in Wizards, StartInstallation(p) PROVE Ordered'
    <3>1. /\ loop'.at = "scripts" /\ loop'.script = 1
          /\ UNCHANGED <<applied, config, accounts, wizard>>
      BY <2>8 DEF StartInstallation, Free, tables
    <3>2. InstalledUpTo(loop.script - 1)'
      BY <3>1 DEF InstalledUpTo
    <3> QED
      BY <3>1, <3>2 DEF Ordered, CompletionIsHonest, Completed, ApiKeySaved, Exists
  <2>9. ASSUME loop.at = "scripts", UNCHANGED wizard, config' = Seeded(applied')
        PROVE  Completed' => Completed
    BY <2>9, SettingsAssumption DEF Seeded, Completed, TypeOK
  <2>10. CASE RunScript
    <3>1. /\ loop.at = "scripts" /\ loop.script \in 1..Len(Scripts) /\ UNCHANGED <<accounts, wizard>>
          /\ loop' = [loop EXCEPT !.script = @ + 1]
          /\ applied' = Executed(Scripts[loop.script], Len(Scripts[loop.script]))
          /\ config' = Seeded(applied')
      BY <2>10, ScriptCount DEF RunScript, Held
    <3>2. loop'.at = "scripts" /\ loop'.ok = loop.ok /\ loop'.script = loop.script + 1
      BY <3>1 DEF TypeOK, Loops
    <3>3. \A k \in DOMAIN Scripts[loop.script] : Scripts[loop.script][k] \in applied'
      BY <3>1, ScriptType DEF Executed
    <3>4. loop.ok => InstalledUpTo(loop.script - 1)'
      <4> SUFFICES ASSUME loop.ok, NEW i \in 1..loop.script, NEW k \in DOMAIN Scripts[i]
                   PROVE  Scripts[i][k] \in applied'
        BY <3>1, <3>2 DEF InstalledUpTo
      <4>1. CASE i = loop.script
        BY <3>3, <4>1
      <4>2. CASE i # loop.script
        <5>1. i \in 1..(loop.script - 1)
          BY <3>1, <4>2
        <5> QED
          BY <2>1, <3>1, <5>1 DEF Ordered, InstalledUpTo, Grows
      <4> QED
        BY <4>1, <4>2
    <3>5. Completed' => Completed
      BY <2>9, <3>1
    <3>6. (ApiKeySaved => ApiKeySaved') /\ (config[ModelKey] # None => config'[ModelKey] # None)
      BY <2>1, SettingsAssumption DEF Grows, ApiKeySaved
    <3>7. applied = Statements => applied' = Statements
      BY <2>1 DEF Grows
    <3> QED
      BY <3>1, <3>2, <3>4, <3>5, <3>6, <3>7 DEF Ordered, CompletionIsHonest, Exists
  <2>11. CASE ScriptFails
    <3>1. /\ loop.at = "scripts" /\ UNCHANGED <<accounts, wizard>>
          /\ loop' = [loop EXCEPT !.script = @ + 1, !.ok = FALSE] /\ config' = Seeded(applied')
      BY <2>11 DEF ScriptFails
    <3>2. loop'.at = "scripts" /\ loop'.ok = FALSE
      BY <3>1 DEF TypeOK, Loops
    <3>3. Completed' => Completed
      BY <2>9, <3>1
    <3> QED
      BY <2>1, <3>1, <3>2, <3>3, Claimless
  <2>12. CASE InstallationFails \/ CreateAdminFails \/ WriteKeyFileFails
    BY <2>2, <2>3, <2>12 DEF InstallationFails, CreateAdminFails, WriteKeyFileFails, tables, Completed
  <2>13. CASE CreateAdmin
    <3> DEFINE page == [NewWizard EXCEPT !.step = "services"]
               w == wizard[loop.page]
               a == [name |-> w.name, password |-> w.password,
                     active |-> IF Exists(0) THEN accounts[0].active ELSE TRUE]
    <3>1. /\ loop.at = "scripts" /\ loop.script > Len(Scripts) /\ loop.ok /\ loop' = Free
          /\ accounts' = [accounts EXCEPT ![0] = a] /\ wizard' = [wizard EXCEPT ![loop.page] = page]
          /\ UNCHANGED <<applied, config>>
      BY <2>13 DEF CreateAdmin
    <3>2. page.saved = {}
      BY DEF NewWizard
    <3>3. applied = Statements
      <4>1. loop.script - 1 = Len(Scripts)
        BY <3>1, ScriptCount DEF Held
      <4>2. InstalledUpTo(loop.script - 1)
        BY <3>1 DEF Ordered
      <4>3. \A n \in 1..Len(Scripts) : \A i \in DOMAIN Scripts[n] : Scripts[n][i] \in applied
        BY <4>1, <4>2 DEF InstalledUpTo
      <4>4. Statements \subseteq applied
        BY <4>3, ScriptCount, ScriptsAssumption
      <4> QED
        BY <4>4 DEF TypeOK
    <3>4. Exists(0)'
      <4>1. 0 \in Ids
        BY BoundsAssumption DEF Ids
      <4>2. w.name \in Names
        BY <3>1 DEF Held
      <4>3. a # NoAccount
        BY <4>2, BoundsAssumption DEF NoAccount
      <4> HIDE DEF a
      <4> QED
        BY <3>1, <4>1, <4>3 DEF Exists, TypeOK
    <3> HIDE DEF page, a
    <3> QED
      BY <2>2, <3>1, <3>2, <3>3, <3>4 DEF Ordered, CompletionIsHonest, Completed, ApiKeySaved, TypeOK
  <2>14. ASSUME NEW p \in Wizards, NEW what \in {"key", "storage"}, NEW values \in OciForms,
                SaveOciConfig(p, what, values)
         PROVE  Ordered'
    <3>1. /\ config' = [k \in Keys |-> IF k \in OciKeys THEN values[k] ELSE config[k]]
          /\ UNCHANGED <<applied, accounts, wizard>>
      BY <2>14 DEF SaveOciConfig
    <3>2. ApiKeySaved'
      BY <3>1, SettingsAssumption DEF ApiKeySaved
    <3>3. config'[Flag] = config[Flag] /\ config'[ModelKey] = config[ModelKey]
      BY <3>1, SettingsAssumption
    <3>4. loop'.at = "file"
      BY <2>14 DEF SaveOciConfig, Free
    <3> QED
      BY <3>1, <3>2, <3>3, <3>4 DEF Ordered, CompletionIsHonest, Completed, Exists
  <2>15. ASSUME NEW p \in Wizards, NEW value \in Inputs, SaveModel(p, value) PROVE Ordered'
    <3>1. /\ config' = [config EXCEPT ![ModelKey] = value] /\ UNCHANGED <<applied, accounts, loop>>
          /\ wizard' = [wizard EXCEPT ![p].saved = @ \cup {"model"}]
      BY <2>15 DEF SaveModel
    <3>2. config'[ModelKey] # None /\ config'[Flag] = config[Flag]
      BY <3>1, SettingsAssumption DEF TypeOK
    <3>3. ApiKeySaved' <=> ApiKeySaved
      BY <3>1, SettingsAssumption DEF ApiKeySaved, TypeOK
    <3>4. \A q \in Wizards : /\ wizard'[q].step = wizard[q].step
                             /\ "key" \in wizard'[q].saved => "key" \in wizard[q].saved
      BY <3>1 DEF TypeOK, Pages
    <3>5. (loop.at = "scripts" /\ loop.ok => InstalledUpTo(loop.script - 1))'
      BY <3>1 DEF Ordered, InstalledUpTo
    <3> QED
      BY <3>1, <3>2, <3>3, <3>4, <3>5 DEF Ordered, CompletionIsHonest, Completed, Exists
  <2>16. ASSUME NEW p \in Wizards, CompleteSetup(p) PROVE Ordered'
    <3>1. /\ wizard[p].step = "services" /\ {"key", "model"} \subseteq wizard[p].saved
          /\ UNCHANGED <<applied, accounts, wizard>>
      BY <2>16 DEF CompleteSetup, Finished
    <3>2. applied = Statements /\ Exists(0) /\ ApiKeySaved /\ config[ModelKey] # None
      BY <3>1 DEF Ordered
    <3>3. ApiKeySaved' /\ config'[ModelKey] # None
      BY <2>1, <3>2, SettingsAssumption DEF Grows, ApiKeySaved
    <3>4. loop'.at = "load"
      BY <2>16 DEF CompleteSetup, Free
    <3> QED
      BY <3>1, <3>2, <3>3, <3>4 DEF Ordered, CompletionIsHonest, Exists
  <2>17. CASE LoadSavedOciConfig
    <3>1. loop'.at = "file" /\ loop'.saves = "completion" /\ UNCHANGED <<wizard, config>>
      BY <2>17 DEF LoadSavedOciConfig, tables, TypeOK, Loops, Held
    <3> QED
      BY <2>1, <3>1, Claimless DEF Completed
  <2>18. CASE WriteKeyFile
    <3>1. /\ loop.at = "file" /\ loop' = Free /\ UNCHANGED <<applied, config, accounts>>
          /\ loop.page \in Wizards
      BY <2>18 DEF WriteKeyFile, Held
    <3>2. CASE loop.saves = "completion"
      <4> DEFINE page == [NewWizard EXCEPT !.step = "left"]
      <4>1. wizard' = [wizard EXCEPT ![loop.page] = page] /\ page.step = "left" /\ page.saved = {}
        BY <2>18, <3>2 DEF WriteKeyFile, NewWizard
      <4> HIDE DEF page
      <4> QED
        BY <2>1, <2>2, <3>1, <4>1, Claimless DEF TypeOK, Completed
    <3>3. CASE loop.saves # "completion"
      <4>1. wizard' = [wizard EXCEPT ![loop.page].saved = @ \cup {loop.saves}]
        BY <2>18, <3>3 DEF WriteKeyFile
      <4>2. loop.saves \in {"key", "storage"}
        BY <3>1, <3>3 DEF Held
      <4>3. \A q \in Wizards : /\ wizard'[q].step = wizard[q].step
                               /\ "model" \in wizard'[q].saved => "model" \in wizard[q].saved
                               /\ "key" \in wizard'[q].saved => "key" \in wizard[q].saved \/ loop.saves = "key"
        BY <4>1, <4>2 DEF TypeOK, Pages
      <4>4. ApiKeySaved' = ApiKeySaved /\ config'[ModelKey] = config[ModelKey]
        BY <3>1 DEF ApiKeySaved
      <4>5. \A q \in Wizards : "key" \in wizard'[q].saved => ApiKeySaved
        BY <3>1, <4>3 DEF Ordered
      <4>6. CompletionIsHonest'
        BY <3>1, <4>4 DEF Ordered, CompletionIsHonest, Completed, Exists
      <4> QED
        BY <2>2, <3>1, <4>3, <4>4, <4>5, <4>6 DEF Ordered, Exists
    <3> QED
      BY <3>2, <3>3
  <2>19. CASE Restart
    BY <2>2, <2>3, <2>19 DEF Restart, tables, Completed
  <2>20. ASSUME \/ \E password \in Passwords :
                    \/ SetAdminPassword(password)
                    \/ \E name \in Names : CreateUser(name, password)
                    \/ \E id \in Ids, current \in Passwords : ChangePassword(id, current, password)
                \/ \E id \in Ids : DeleteUser(id)
         PROVE  Ordered'
    BY <2>3, <2>20 DEF SetAdminPassword, CreateUser, ChangePassword, DeleteUser, Completed
  <2>21. ASSUME NEW e \in Editors,
                \/ OpenSettings(e) \/ ResetSettings(e) \/ UpsertFails(e) \/ ReportSaved(e)
                \/ \E k \in DOMAIN Defaults, value \in Inputs : SubmitSettings(e, k, value)
         PROVE  Ordered'
    BY <2>3, <2>21 DEF OpenSettings, ResetSettings, UpsertFails, ReportSaved, SubmitSettings,
                       StartSave, tables, Completed
  <2>22. ASSUME NEW e \in Editors, UpsertValue(e) PROVE Ordered'
    <3>1. Completed /\ UNCHANGED <<loop, wizard>>
      BY <2>22 DEF UpsertValue, Saving, Settled
    <3> QED
      BY <2>3, <3>1
  <2> QED
    BY <2>5, <2>6, <2>7, <2>8, <2>10, <2>11, <2>12, <2>13, <2>14, <2>15, <2>16, <2>17, <2>18,
       <2>19, <2>20, <2>21, <2>22 DEF Next
<1>3. Ordered => CompletionIsHonest
  BY DEF Ordered
<1> QED
  BY <1>1, <1>2, <1>3, SettledInvariance, PTL DEF Spec

-----------------------------------------------------------------------------
(* Pages that save at once have overlapped; a page that has not finds in the *)
(* table what it has saved.                                                *)
Apart == \A e, f \in Saving : e # f => e \in overlapped

Written ==
  \A e \in Saving \ overlapped : \A i \in 1..(editor[e].next - 1) :
    LET k == KeyOrder[i]
    IN  editor[e].form[k] # None => config[k] = editor[e].form[k]

(* A step that neither saves nor begins to.                                *)
LEMMA Idle ==
  ASSUME Apart, Written, config' = config, overlapped \ overlapped' \subseteq Editors \ Saving',
         \A e \in Saving' : e \in Saving /\ editor'[e] = editor[e]
  PROVE  Apart' /\ Written'
BY DEF Apart, Written, Saving

(* An installation or a completion beside a save changes no setting.        *)
LEMMA InstalledBefore ==
  ASSUME TypeOK, Held, Settled, Saving # {},
         RunScript \/ ScriptFails \/ (\E p \in Wizards : CompleteSetup(p))
  PROVE  config' = config
<1>1. config[Flag] = "true" /\ config[Flag] # None /\ FlagRow \in applied
  BY SettingsAssumption DEF Saving, Settled, Completed
<1>2. CASE RunScript
  BY <1>1, <1>2 DEF RunScript, Seeded
<1>3. CASE ScriptFails
  BY <1>1, <1>3 DEF ScriptFails, Seeded
<1>4. ASSUME NEW p \in Wizards, CompleteSetup(p) PROVE config' = config
  <2>1. config' = [config EXCEPT ![Flag] = "true"]
    BY <1>1, <1>4 DEF CompleteSetup
  <2> QED
    BY <1>1, <2>1 DEF TypeOK
<1> QED
  BY <1>2, <1>3, <1>4

(* What is reported as saved is in the table, unless others saved meanwhile. *)
THEOREM SavesHold == Spec => SavedSettingsAreWhole
<1>1. Init => Apart /\ Written
  BY DEF Init, Apart, Written, Saving, NewEditor
<1>2. TypeOK /\ Held /\ Settled /\ Apart /\ Written /\ [Next]_vars => Apart' /\ Written'
  <2> SUFFICES ASSUME TypeOK, Held, Settled, Apart, Written, [Next]_vars PROVE Apart' /\ Written'
    OBVIOUS
  <2>1. ASSUME UNCHANGED <<config, editor, overlapped>> PROVE Apart' /\ Written'
    BY <2>1, Idle DEF Saving
  <2>2. CASE UNCHANGED vars
    BY <2>1, <2>2 DEF vars, tables, history
  <2>3. ASSUME NEW p \in Wizards,
               \/ \E name \in Names, password \in Passwords : EnterAccount(p, name, password)
               \/ StartInstallation(p) \/ ReloadPage(p)
        PROVE  Apart' /\ Written'
    BY <2>1, <2>3 DEF EnterAccount, StartInstallation, ReloadPage, tables, history
  <2>4. ASSUME InstallationFails \/ CreateAdmin \/ CreateAdminFails \/ LoadSavedOciConfig
                 \/ WriteKeyFile \/ WriteKeyFileFails
        PROVE  Apart' /\ Written'
    BY <2>1, <2>4 DEF InstallationFails, CreateAdmin, CreateAdminFails, LoadSavedOciConfig,
                      WriteKeyFile, WriteKeyFileFails, tables, history
  <2>5. ASSUME \/ \E password \in Passwords :
                    \/ SetAdminPassword(password)
                    \/ \E name \in Names : CreateUser(name, password)
                    \/ \E id \in Ids, current \in Passwords : ChangePassword(id, current, password)
               \/ \E id \in Ids : DeleteUser(id)
        PROVE  Apart' /\ Written'
    BY <2>1, <2>5 DEF SetAdminPassword, CreateUser, ChangePassword, DeleteUser, history
  <2>6. ASSUME RunScript \/ ScriptFails \/ (\E p \in Wizards : CompleteSetup(p))
        PROVE  Apart' /\ Written'
    <3>1. UNCHANGED <<editor, overlapped>>
      BY <2>6 DEF RunScript, ScriptFails, CompleteSetup, history
    <3>2. CASE Saving # {}
      BY <2>1, <2>6, <3>1, <3>2, InstalledBefore
    <3>3. CASE Saving = {}
      BY <3>1, <3>3 DEF Apart, Written, Saving
    <3> QED
      BY <3>2, <3>3
  <2>7. ASSUME NEW p \in Wizards,
               \/ \E what \in {"key", "storage"}, values \in OciForms : SaveOciConfig(p, what, values)
               \/ \E value \in Inputs : SaveModel(p, value)
        PROVE  Apart' /\ Written'
    <3>1. editor' = editor /\ overlapped' = overlapped \cup Saving
      BY <2>7 DEF SaveOciConfig, SaveModel
    <3>2. Saving' = Saving
      BY <3>1 DEF Saving
    <3> QED
      BY <3>1, <3>2 DEF Apart, Written
  <2>8. ASSUME Restart PROVE Apart' /\ Written'
    <3>1. \A e \in Editors : editor'[e] = IF e \in Saving THEN NewEditor ELSE editor[e]
      BY <2>8 DEF Restart
    <3>2. Saving' = {}
      BY <3>1 DEF Saving, NewEditor
    <3> QED
      BY <3>2 DEF Apart, Written
  <2>9. ASSUME NEW f \in Editors, NEW g, g.at # "saving", editor' = [editor EXCEPT ![f] = g],
               overlapped' = overlapped \/ overlapped' = overlapped \ {f}, config' = config
        PROVE  Apart' /\ Written'
    <3>1. f \notin Saving' /\ \A e \in Editors \ {f} : editor'[e] = editor[e]
      BY <2>9 DEF Saving, TypeOK
    <3>2. \A e \in Saving' : e \in Saving /\ editor'[e] = editor[e]
      BY <3>1 DEF Saving
    <3> QED
      BY <2>9, <3>1, <3>2, Idle
  <2>10. ASSUME NEW f \in Editors, OpenSettings(f) \/ ReportSaved(f) PROVE Apart' /\ Written'
    <3> DEFINE form == Payload
               g == [NewEditor EXCEPT !.at = "open", !.form = form]
    <3>1. /\ editor' = [editor EXCEPT ![f] = g] /\ config' = config
          /\ overlapped' = overlapped \/ overlapped' = overlapped \ {f}
      BY <2>10 DEF OpenSettings, ReportSaved, tables, history
    <3> HIDE DEF form
    <3>2. g.at # "saving"
      BY DEF NewEditor
    <3> HIDE DEF g
    <3> QED
      BY <2>9, <3>1, <3>2
  <2>11. ASSUME NEW f \in Editors, UpsertFails(f) PROVE Apart' /\ Written'
    <3> DEFINE g == [editor[f] EXCEPT !.at = "open", !.next = 1]
    <3>1. editor' = [editor EXCEPT ![f] = g] /\ config' = config /\ overlapped' = overlapped \ {f}
      BY <2>11 DEF UpsertFails, tables, TypeOK
    <3>2. g.at # "saving"
      BY DEF TypeOK, Forms
    <3> HIDE DEF g
    <3> QED
      BY <2>9, <3>1, <3>2
  <2>12. ASSUME NEW f \in Editors, NEW form, StartSave(f, form) PROVE Apart' /\ Written'
    <3> DEFINE g == [at |-> "saving", form |-> form, next |-> 1]
    <3>1. /\ editor[f].at = "open" /\ editor' = [editor EXCEPT ![f] = g] /\ config' = config
          /\ overlapped' = IF Saving = {} THEN overlapped ELSE overlapped \cup Saving \cup {f}
      BY <2>12 DEF StartSave, tables
    <3>2. g.next = 1
      OBVIOUS
    <3> HIDE DEF g
    <3>3. editor'[f] = g /\ \A e \in Editors \ {f} : editor'[e] = editor[e]
      BY <3>1 DEF TypeOK
    <3>4. Saving' \subseteq Saving \cup {f} /\ Saving \subseteq Editors
      BY <3>3 DEF Saving
    <3>5. Apart'
      BY <3>1, <3>4 DEF Apart
    <3>6. ASSUME NEW e \in Saving', e \notin overlapped' PROVE e = f
      BY <3>1, <3>4, <3>6
    <3>7. Written'
      BY <3>2, <3>3, <3>6 DEF Written
    <3> QED
      BY <3>5, <3>7
  <2>13. ASSUME NEW f \in Editors,
                ResetSettings(f) \/ \E k \in DOMAIN Defaults, value \in Inputs : SubmitSettings(f, k, value)
         PROVE  Apart' /\ Written'
    BY <2>12, <2>13 DEF ResetSettings, SubmitSettings
  <2>14. ASSUME NEW f \in Editors, UpsertValue(f) PROVE Apart' /\ Written'
    <3> DEFINE k == KeyOrder[editor[f].next]
               value == editor[f].form[k]
    <3>1. f \in Saving /\ editor' = [editor EXCEPT ![f].next = @ + 1] /\ overlapped' = overlapped
      BY <2>14 DEF UpsertValue
    <3>2. k \in Keys /\ editor[f].next \in 1..Len(KeyOrder) /\ Len(KeyOrder) \in Nat
      BY <2>14, KeyAt DEF UpsertValue
    <3>3. /\ editor'[f].at = editor[f].at /\ editor'[f].form = editor[f].form
          /\ editor'[f].next = editor[f].next + 1
          /\ \A e \in Editors \ {f} : editor'[e] = editor[e]
      BY <3>1 DEF TypeOK, Forms
    <3>4. Saving' = Saving
      BY <3>3 DEF Saving
    <3>5. Apart'
      BY <3>1, <3>4 DEF Apart
    <3>6. ASSUME NEW e \in Saving, e \notin overlapped PROVE e = f
      BY <3>1, <3>6 DEF Apart
    <3>7. value # None => config' = [config EXCEPT ![k] = value]
      BY <2>14 DEF UpsertValue
    <3>8. value = None => config' = config
      BY <2>14 DEF UpsertValue
    <3>9. ASSUME f \notin overlapped, NEW i \in 1..editor[f].next, editor[f].form[KeyOrder[i]] # None
          PROVE  config'[KeyOrder[i]] = editor[f].form[KeyOrder[i]]
      <4>1. CASE KeyOrder[i] = k
        BY <3>2, <3>7, <3>9, <4>1 DEF TypeOK
      <4>2. CASE KeyOrder[i] # k
        <5>1. i \in 1..(editor[f].next - 1)
          BY <3>2, <4>2
        <5>2. config[KeyOrder[i]] = editor[f].form[KeyOrder[i]]
          BY <3>1, <3>9, <5>1 DEF Written
        <5> HIDE DEF k, value
        <5>3. config'[KeyOrder[i]] = config[KeyOrder[i]]
          <6>1. KeyOrder[i] \in Keys
            BY <3>2, SettingsAssumption, LenProperties DEF Keys
          <6> QED
            BY <3>7, <3>8, <4>2, <6>1 DEF TypeOK
        <5> QED
          BY <5>2, <5>3
      <4> QED
        BY <4>1, <4>2
    <3>10. Written'
      BY <3>1, <3>2, <3>3, <3>4, <3>6, <3>9 DEF Written
    <3> QED
      BY <3>5, <3>10
  <2> QED
    BY <2>2, <2>3, <2>4, <2>5, <2>6, <2>7, <2>8, <2>10, <2>11, <2>13, <2>14 DEF Next
<1>3. TypeOK /\ Written =>
        \A e \in Editors : ReportSaved(e) /\ e \notin overlapped =>
          \A k \in Keys : editor[e].form[k] # None => config[k] = editor[e].form[k]
  <2> SUFFICES ASSUME TypeOK, Written, NEW e \in Editors, ReportSaved(e), e \notin overlapped,
                      NEW k \in Keys, editor[e].form[k] # None
               PROVE  config[k] = editor[e].form[k]
    OBVIOUS
  <2>1. PICK i \in DOMAIN KeyOrder : k = KeyOrder[i]
    BY DEF Keys
  <2>2. i \in 1..Len(KeyOrder) /\ Len(KeyOrder) \in Nat
    BY <2>1, SettingsAssumption, LenProperties
  <2>3. editor[e].next \in 1..(Len(KeyOrder) + 1) /\ editor[e].next > Len(KeyOrder) /\ e \in Saving
    BY DEF TypeOK, Forms, ReportSaved
  <2>4. i \in 1..(editor[e].next - 1)
    BY <2>2, <2>3
  <2> QED
    BY <2>1, <2>3, <2>4 DEF Written
<1> QED
  BY <1>1, <1>2, <1>3, SettledInvariance, PTL DEF Spec, SavedSettingsAreWhole
===============================================================================
