--------------------------- MODULE OperatorAccount ---------------------------
(***************************************************************************)
(* The account of the operator, which is kept twice: anthias.conf says     *)
(* whether a login is asked for, the User rows say who could log in.       *)
(* Migration 0005 splits the old configuration into the two, settings      *)
(* pages change both, and the threads of the server share one settings     *)
(* dictionary which every page loads again from the file.                  *)
(*                                                                         *)
(* src/src/anthias_server/settings.py, lib/auth.py, app/views.py,          *)
(* api/views/v2.py, app/migrations/0005_migrate_basic_auth_to_user.py      *)
(***************************************************************************)
EXTENDS Integers, Sequences, AccountPromise

CONSTANTS
    Thread,     \* request threads of the server
    Name, Word, \* user names and passwords
    None,       \* a field of the form that is left blank
    MaxFaults   \* bound: writes that fail, and power cuts

AccountAssumption ==
    None \notin Name \cup Word /\ MaxFaults \in Nat

VARIABLES
    creds,      \* the [auth_basic] section of before the migration, in conf
    tx,         \* what the migration's open transaction holds
    req,        \* the requests being served
    faults      \* bound

vars == <<conf, creds, mem, users, migrated, phase, tx, req, faults>>

Field == {"auth_backend", "default_assets"}
Settings == [Field -> BOOLEAN]
Credentials == {"none", "legacy", "hash"}
Row == [name : Name, password : Word]
Kind == {"page", "nudge", "settings", "patch"}
Load == {"read", "assign"}
Later == {"note", "toggled", "open", "answer", "idle"}

Request ==
    [pc : Load \cup Later \cup {"check", "update", "create", "set", "write"},
     kind : Kind, then : Later, session : Nat, seen : Settings, ask : BOOLEAN,
     prev : BOOLEAN, name : Name \cup {None}, pwd : Word \cup {None},
     correct : BOOLEAN, toggle : BOOLEAN]

TypeOK ==
    /\ conf \in Settings /\ mem \in Settings
    /\ creds \in Credentials
    /\ users \in Seq(Row) /\ tx \in Seq(Row)
    /\ migrated \in BOOLEAN /\ faults \in Nat
    /\ phase \in {"down", "keying", "migrate", "promoted", "replaced",
                  "serving"}
    /\ req \in [Thread -> Request]

\* use_defaults(), and what an empty file amounts to.
Blank == [f \in Field |-> FALSE]

At(pc) ==
    [pc |-> pc, kind |-> "page", then |-> "idle", session |-> 0,
     seen |-> Blank, ask |-> FALSE, prev |-> FALSE, name |-> None,
     pwd |-> None, correct |-> FALSE, toggle |-> FALSE]

Init ==
    /\ conf \in Settings
    /\ creds \in Credentials
    /\ mem = conf
    /\ users = <<>> /\ tx = <<>>
    /\ migrated \in BOOLEAN
    /\ migrated => creds = "none" /\ ~conf["auth_backend"]
    /\ phase = "down"
    /\ req = [t \in Thread |-> At("idle")]
    /\ faults = MaxFaults

\* update_or_create(): one row of that name, with that password.
Upsert(rows, row) ==
    IF \E i \in DOMAIN rows : rows[i].name = row.name
    THEN [i \in DOMAIN rows |-> IF rows[i].name = row.name THEN row
                                ELSE rows[i]]
    ELSE Append(rows, row)

Fault == faults > 0 /\ faults' = faults - 1

-----------------------------------------------------------------------------
(* The start of the container: settings.py, migrate, uvicorn. *)

\* Django's settings load the file, and make a secret key when it has none:
\* when it was written before there was one, or its last save was cut off.
Import ==
    /\ phase = "down"
    /\ mem' = conf
    /\ phase' \in {"migrate", "keying"}
    /\ UNCHANGED <<conf, creds, users, migrated, tx, req, faults>>

\* save() writes the sections it knows: the old credentials are not in them.
SaveKey ==
    /\ phase = "keying"
    /\ conf' = mem /\ creds' = "none"
    /\ phase' = "migrate"
    /\ UNCHANGED <<mem, users, migrated, tx, req, faults>>

\* row: what the section holds, when Django can verify its hash.
Promote(row) ==
    /\ phase = "migrate" /\ ~migrated
    /\ tx' = IF creds = "hash" THEN Upsert(users, row) ELSE users
    /\ phase' = "promoted"
    /\ UNCHANGED <<conf, creds, mem, users, migrated, req, faults>>

\* Mutant: only a hash nobody can verify switches the login off.
DisablesLegacyAuth == conf["auth_backend"] /\ creds = "legacy"

\* A login without credentials that could be promoted would let nobody in.
DisablesAuth == conf["auth_backend"] /\ creds # "hash"

\* _atomic_write_conf(), within the transaction.
ReplaceConf ==
    /\ phase = "promoted"
    /\ conf' = [conf EXCEPT !["auth_backend"] = @ /\ ~DisablesAuth]
    /\ creds' = "none"
    /\ phase' = "replaced"
    /\ UNCHANGED <<mem, users, migrated, tx, req, faults>>

\* The rename fails: the rows roll back, and the server starts all the same.
ReplaceFails ==
    /\ phase = "promoted" /\ Fault
    /\ tx' = <<>> /\ mem' = conf
    /\ phase' = "serving"
    /\ UNCHANGED <<conf, creds, users, migrated, req>>

Commit ==
    /\ phase = "replaced"
    /\ users' = tx /\ tx' = <<>>
    /\ migrated' = TRUE /\ mem' = conf
    /\ phase' = "serving"
    /\ UNCHANGED <<conf, creds, req, faults>>

NothingToMigrate ==
    /\ phase = "migrate" /\ migrated
    /\ mem' = conf
    /\ phase' = "serving"
    /\ UNCHANGED <<conf, creds, users, migrated, tx, req, faults>>

\* A power cut; in the middle of save() the file has been truncated.
PowerCut ==
    /\ phase # "down" /\ Fault
    /\ \/ UNCHANGED <<conf, creds>>
       \/ phase = "keying" /\ conf' = Blank /\ creds' = "none"
    /\ phase' = "down" /\ tx' = <<>>
    /\ req' = [t \in Thread |-> At("idle")]
    /\ UNCHANGED <<mem, users, migrated>>

Boot ==
    \/ \E row \in Row : Promote(row)
    \/ Import \/ SaveKey \/ ReplaceConf \/ ReplaceFails
    \/ Commit \/ NothingToMigrate \/ PowerCut

-----------------------------------------------------------------------------
(* load() and save() *)

Step(t, from) == phase = "serving" /\ req[t].pc = from

\* What a later step does not read is dropped: the form, or the whole request.
Done(t) == req' = [req EXCEPT ![t] = At("idle")]

Kept(t, pc) ==
    [At(pc) EXCEPT !.kind = req[t].kind, !.ask = req[t].ask,
                   !.toggle = req[t].toggle]

Goto(t, pc) ==
    IF pc = "idle" THEN Done(t) ELSE req' = [req EXCEPT ![t] = Kept(t, pc)]

LoadThen(t, next) ==
    req' = [req EXCEPT ![t] = [Kept(t, "read") EXCEPT !.then = next]]

Read(t) ==
    /\ Step(t, "read")
    /\ req' = [req EXCEPT ![t].pc = "assign", ![t].seen = conf]
    /\ UNCHANGED <<conf, creds, mem, users, migrated, phase, tx, faults>>

Assign(t) ==
    /\ Step(t, "assign")
    /\ mem' = req[t].seen
    /\ IF req[t].then = "note"
       THEN req' = [req EXCEPT ![t].pc = "note", ![t].seen = Blank]
       ELSE Goto(t, req[t].then)
    /\ UNCHANGED <<conf, creds, users, migrated, phase, tx, faults>>

\* open(conf_file, 'w'), with what is to be written already put together.
Open(t) ==
    /\ Step(t, "open")
    /\ req' = [req EXCEPT ![t] = [Kept(t, "write") EXCEPT !.seen = mem]]
    /\ conf' = Blank /\ creds' = "none"
    /\ UNCHANGED <<mem, users, migrated, phase, tx, faults>>

Write(t) ==
    /\ Step(t, "write")
    /\ conf' = req[t].seen
    /\ LoadThen(t, IF req[t].kind \in {"settings", "patch"} THEN "answer"
                   ELSE "idle")
    /\ UNCHANGED <<creds, mem, users, migrated, phase, tx, faults>>

\* No space left: the request fails, the file stays empty.
WriteFails(t) ==
    /\ Step(t, "write") /\ Fault
    /\ Goto(t, "idle")
    /\ UNCHANGED <<conf, creds, mem, users, migrated, phase, tx>>

-----------------------------------------------------------------------------
(* settings_save(), DeviceSettingsViewV2.patch(), the nudge, other pages *)

\* @authorized; session 0 is nobody's.
Arrive(t, kind, session) ==
    /\ Step(t, "idle")
    /\ mem["auth_backend"] => session # 0
    /\ req' = [req EXCEPT ![t] =
                [At("read") EXCEPT
                    !.kind = kind, !.session = session,
                    !.then = CASE kind = "page" -> "idle"
                               [] kind = "nudge" -> "open"
                               [] OTHER -> "note"]]
    /\ UNCHANGED <<conf, creds, mem, users, migrated, phase, tx, faults>>

\* A patch need not name the backend: then it asks for the one in force.
Note(t, ask) ==
    /\ Step(t, "note")
    /\ req[t].kind = "patch" => ask = mem["auth_backend"]
    /\ req' = [req EXCEPT ![t].pc = "check", ![t].ask = ask,
                          ![t].prev = mem["auth_backend"]]
    /\ UNCHANGED <<conf, creds, mem, users, migrated, phase, tx, faults>>

\* apply_auth_settings() up to its first write: what the form says of the
\* account is known here.
Refused(t, correct) ==
    /\ users # <<>>
    /\ \/ req[t].session \notin {0, 1}
       \/ req[t].ask # req[t].prev /\ ~correct

Check(t, shown, name, pwd) ==
    LET correct == users # <<>> /\ users[1].password = shown IN
    /\ Step(t, "check")
    /\ \/ Refused(t, correct) /\ Done(t)
       \/ ~Refused(t, correct) /\ ~req[t].ask /\ Goto(t, "set")
       \/ /\ ~Refused(t, correct) /\ req[t].ask
          /\ req' = [req EXCEPT ![t] =
                [Kept(t, IF users # <<>> THEN "update" ELSE "create") EXCEPT
                    !.name = name, !.pwd = pwd, !.correct = correct]]
    /\ UNCHANGED <<conf, creds, mem, users, migrated, phase, tx, faults>>

\* _update_existing_operator(): only the columns that were asked for.
Update(t) ==
    LET old == users[1]
        renamed == req[t].name \notin {None, old.name}
        rekeyed == req[t].pwd # None
        taken == \E i \in 2..Len(users) : users[i].name = req[t].name
    IN
    /\ Step(t, "update")
    /\ IF \/ (renamed \/ rekeyed) /\ ~req[t].correct
          \/ renamed /\ taken
       THEN Goto(t, "idle") /\ UNCHANGED users
       ELSE /\ Goto(t, "set")
            /\ users' = [users EXCEPT
                ![1] = [name |-> IF renamed THEN req[t].name ELSE old.name,
                        password |-> IF rekeyed THEN req[t].pwd
                                     ELSE old.password]]
    /\ UNCHANGED <<conf, creds, mem, migrated, phase, tx, faults>>

\* _create_initial_operator()
Create(t) ==
    /\ Step(t, "create")
    /\ IF None \in {req[t].name, req[t].pwd}
       THEN Goto(t, "idle") /\ UNCHANGED users
       ELSE /\ users' = Upsert(users, [name |-> req[t].name,
                                       password |-> req[t].pwd])
            /\ Goto(t, "set")
    /\ UNCHANGED <<conf, creds, mem, migrated, phase, tx, faults>>

\* The flag is live from here on.  A change of default_assets adds or removes
\* rows, in a helper that loads the settings first.
Set(t, toggle) ==
    /\ Step(t, "set")
    /\ mem' = [mem EXCEPT !["auth_backend"] = req[t].ask]
    /\ req' = [req EXCEPT ![t] =
        [Kept(t, IF toggle # mem["default_assets"] THEN "read"
                 ELSE "toggled") EXCEPT
            !.toggle = toggle, !.then = "toggled"]]
    /\ UNCHANGED <<conf, creds, users, migrated, phase, tx, faults>>

\* A patch need not name them.
SetAlone(t) ==
    /\ Step(t, "set") /\ req[t].kind = "patch"
    /\ mem' = [mem EXCEPT !["auth_backend"] = req[t].ask]
    /\ Goto(t, "open")
    /\ UNCHANGED <<conf, creds, users, migrated, phase, tx, faults>>

Toggled(t) ==
    /\ Step(t, "toggled")
    /\ mem' = [mem EXCEPT !["default_assets"] = req[t].toggle]
    /\ req' = [req EXCEPT ![t] = [Kept(t, "open") EXCEPT !.toggle = FALSE]]
    /\ UNCHANGED <<conf, creds, users, migrated, phase, tx, faults>>

\* "Settings were successfully saved."
Answer(t) ==
    /\ Step(t, "answer")
    /\ Goto(t, "idle")
    /\ UNCHANGED <<conf, creds, mem, users, migrated, phase, tx, faults>>

\* manage.py createsuperuser: an account to recover with.
CreateSuperuser(row) ==
    /\ phase = "serving"
    /\ \A i \in DOMAIN users : users[i].name # row.name
    /\ users' = Append(users, row)
    /\ UNCHANGED <<conf, creds, mem, migrated, phase, tx, req, faults>>

Next ==
    \/ Boot
    \/ \E t \in Thread : Read(t) \/ Assign(t)
    \/ \E t \in Thread : Open(t) \/ Write(t) \/ WriteFails(t)
    \/ \E t \in Thread, kind \in Kind, session \in 0..Len(users) :
            Arrive(t, kind, session)
    \/ \E t \in Thread, ask \in BOOLEAN : Note(t, ask)
    \/ \E t \in Thread, shown, pwd \in Word \cup {None},
          name \in Name \cup {None} : Check(t, shown, name, pwd)
    \/ \E t \in Thread : Update(t) \/ Create(t) \/ Toggled(t) \/ Answer(t)
    \/ \E t \in Thread, toggle \in BOOLEAN : Set(t, toggle) \/ SetAlone(t)
    \/ \E row \in Row : CreateSuperuser(row)

Spec == Init /\ [][Next]_vars

-----------------------------------------------------------------------------
(* NobodyIsLockedOut is stated in AccountPromise.  Not kept by the code: *)

\* A settings page that answers "successfully saved" has stored the way to log
\* in that it was sent.
SavedMeansStored ==
    \A t \in Thread :
        req[t].pc = "answer" /\ req[t].kind = "settings"
            => conf["auth_backend"] = req[t].ask
=============================================================================
