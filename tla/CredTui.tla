------------------------------ MODULE CredTui ------------------------------
(***************************************************************************)
(* The dashboard over the credential files: src/tools/tui/reducer.mjs and  *)
(* app.mjs.  A key becomes an action by what is on the screen (keymap);    *)
(* React reduces the actions that wait, one after the other, and commits;  *)
(* the effects the reductions left then run in order, each to its end, and *)
(* what they report waits with the keys pressed meanwhile.  git works      *)
(* beside all that.                                                        *)
(*                                                                         *)
(* Left out: messages, cursors, the reveal's text, the help page, the pin  *)
(* probe, copying to the clipboard, and keys that only say why they do     *)
(* nothing.  What a field's value or the list of users would decide is     *)
(* either way.                                                             *)
(*                                                                         *)
(* Parameters: Presses, the actions whose keys the operator presses, and   *)
(* Ahead, those it presses while an action or an effect still waits;       *)
(* MaxPresses bounds the keys that wait, MaxWalk the fields that quick     *)
(* setup visits.                                                           *)
(***************************************************************************)
EXTENDS CredStore

CONSTANTS Presses, Ahead, MaxPresses, MaxWalk

ASSUME CredTuiAssumption == MaxPresses \in Nat /\ MaxWalk \in Nat

VARIABLES
    mem,        \* the store the dashboard holds
    ui,         \* what is on the screen
    inbox,      \* the actions that wait to be reduced
    queue,      \* the effects that wait to be run
    phase,      \* "wait", "reduce", "commit" or "effects"
    pushes,     \* git commit and push, under way
    crossed     \* a report put an older store over a newer one

tuiVars == <<mem, ui, inbox, queue, phase, pushes, crossed>>
vars == <<disk, proc, job, made, keyed, faults, mem, ui, inbox, queue, phase, pushes, crossed>>

Tabs   == {"fields", "envs", "push", "nuke"}
Modes  == {"dashboard", "edit", "users", "ca-select", "reveal-confirm", "push-confirm",
           "setup-secrets", "nuke-confirm", "nuke-running", "nuke-done"}
Drafts == {"none", "empty", "valid", "invalid"}

Dashboard == [tab |-> "fields", mode |-> "dashboard", view |-> "none", draft |-> "none", kind |-> "none",
              setup |-> FALSE, walk |-> 0, envs |-> "none", busy |-> FALSE]

Init ==
    /\ FileInit
    /\ mem = 0 /\ ui = Dashboard /\ inbox = <<>> /\ queue = <<>> /\ phase = "wait"
    /\ pushes = 0 /\ crossed = FALSE

TuiDown ==
    /\ mem' = 0 /\ ui' = Dashboard /\ inbox' = <<>> /\ queue' = <<>> /\ phase' = "wait"
    /\ pushes' = 0 /\ crossed' = FALSE

(***************************************************************************)
(* keymap: the actions a key can become, by what is on the screen.  An     *)
(* action is its type and what the key or enrich put in it.                *)
(***************************************************************************)
Keys(type, args) == {[type |-> type, arg |-> a] : a \in args}
Key(type) == Keys(type, {"none"})
YesNo(type) == Keys(type, {"yes", "no"})

\* The tabs form a ring, the tabs of fields side by side in it.
Beside(tab) ==
    CASE tab = "fields" -> {"fields", "envs", "nuke"}
      [] tab = "envs"   -> {"fields", "push"}
      [] tab = "push"   -> {"envs", "nuke"}
      [] tab = "nuke"   -> {"push", "fields"}

Typing == Keys("TYPE", {"empty", "valid", "invalid"})

UsersKeys ==
    CASE ui.view = "confirm" -> YesNo("USERS_CONFIRM")
      [] ui.view = "input"   -> Typing \cup Key("USERS_SUBMIT") \cup Key("USERS_CANCEL")
      [] OTHER -> Keys("USERS_INPUT", {"add", "rename"}) \cup Keys("USERS_REMOVE", {"delete", "clear"})
                  \cup Key("USERS_CANCEL")

DashboardKeys ==
    Key("TAB_MOVE") \cup
    CASE ui.tab = "envs" -> Key("UPDATE_ENVS")
      [] ui.tab = "push" -> Key("PUSH_OPEN")
      [] ui.tab = "nuke" -> Keys("NUKE_OPEN", {"soft", "full"})
      [] OTHER -> Keys("OPEN_EDIT", {"edit", "users", "ca-select"})
                  \cup UNION {Key(t) : t \in {"CHANGE", "REVEAL_OPEN", "EXPORT", "UNDO", "SETUP_START"}}

\* enrich gives a nuke its new values when what is typed by then allows it.
Enriched == IF ui.draft = "valid" THEN "values" ELSE "none"

Keymap == Key("QUIT") \cup
    CASE ui.mode = "users"          -> UsersKeys
      [] ui.mode = "nuke-confirm"   -> Keys("TYPE", {"empty", "valid"}) \cup Keys("NUKE_SUBMIT", {Enriched}) \cup Key("NUKE_CANCEL")
      [] ui.mode = "nuke-running"   -> {}
      [] ui.mode = "nuke-done"      -> Key("NUKE_CANCEL") \cup Key("TAB_MOVE")
      [] ui.mode = "edit"           -> Typing \cup Key("SUBMIT") \cup Key("CANCEL")
      [] ui.mode = "ca-select"      -> Keys("CA_PICK", {"value", "path"}) \cup Key("CANCEL")
      [] ui.mode = "reveal-confirm" -> YesNo("REVEAL_CONFIRM")
      [] ui.mode = "push-confirm"   -> YesNo("PUSH_CONFIRM")
      [] ui.mode = "setup-secrets"  -> YesNo("SETUP_SECRETS")
      [] OTHER                      -> DashboardKeys

\* The keys that may make a store, and a keyring.
Makes == {"CHANGE", "SUBMIT", "USERS_SUBMIT", "USERS_CONFIRM", "CA_PICK", "SETUP_START", "SETUP_SECRETS",
          "NUKE_SUBMIT"}
Reports == {"WRITE_FAILED", "UNDO_OK", "NUKE_OK", "NUKE_FAILED", "ENVS_STATUS", "GIT_DONE"}
Pressed(types) == Cardinality({i \in DOMAIN inbox : inbox[i].type \in types})

\* useInput.  While reductions or effects run nothing else does.
Press ==
    /\ proc = "tui" /\ phase \in {"wait", "commit"}
    /\ Len(inbox) - Pressed(Reports) < MaxPresses
    /\ \E key \in Keymap :
          /\ key.type \in IF phase = "wait" /\ inbox = <<>> THEN Presses ELSE Ahead
          /\ key.type \in Makes => made + Pressed(Makes) < MaxStores
          /\ key.type = "NUKE_SUBMIT" /\ ui.kind = "full" => keyed < MaxKeyrings
          /\ inbox' = Append(inbox, key)
    /\ UNCHANGED <<disk, proc, job, made, keyed, faults, mem, ui, queue, phase, pushes, crossed>>

(***************************************************************************)
(* reduce: one action, the effects it leaves, and the commit when no other *)
(* waits.                                                                  *)
(***************************************************************************)
\* An effect: the store to write and the one to return to, the kind of a nuke,
\* and, for the properties, the store on the screen when it was left.
Effect(type) == [type |-> type, store |-> 0, rollback |-> 0, kind |-> "none", over |-> 0]
NoEffect == <<>>

Reduces(type, effects) ==
    /\ Head(inbox).type = type
    /\ inbox' = Tail(inbox)
    /\ queue' = queue \o effects
    /\ phase' = IF inbox' # <<>> THEN "reduce" ELSE IF queue' # <<>> THEN "commit" ELSE "wait"
    /\ UNCHANGED <<disk, proc, job, keyed, faults, pushes>>

Arg == Head(inbox).arg

Shows(type, effects, screen) ==
    /\ Reduces(type, effects)
    /\ ui' = screen
    /\ UNCHANGED <<mem, made, crossed>>

\* writeThrough and applyValues: the new store shows at once; the effect carries
\* the one to return to.
Writes(type) ==
    /\ mem' = made + 1 /\ made' = made + 1
    /\ Reduces(type, <<[Effect("write-store") EXCEPT !.store = made + 1, !.rollback = mem, !.over = made + 1]>>)
    /\ UNCHANGED crossed

Closed == [ui EXCEPT !.mode = "dashboard", !.view = "none", !.draft = "none", !.kind = "none"]
Abandoned == [Closed EXCEPT !.setup = FALSE, !.walk = 0]
Listed == [ui EXCEPT !.mode = "users", !.view = "list", !.draft = "none", !.kind = "none"]

\* openField.
Opened(mode) ==
    [ui EXCEPT !.tab = "fields", !.mode = mode,
               !.view = IF mode = "users" THEN "list" ELSE "none",
               !.draft = IF mode = "edit" THEN "empty" ELSE "none"]

\* advanceWalk: the next field of the queue that is still unset, or the end.
Walks(left) ==
    {Abandoned} \cup {[Opened("edit") EXCEPT !.setup = TRUE, !.walk = n - 1] : n \in 1 .. left}

\* Each visit to the envs tab looks at the files again.
TabMove ==
    \E tab \in Beside(ui.tab) :
        Shows("TAB_MOVE",
              IF tab = "envs" THEN <<Effect("check-envs")>> ELSE NoEffect,
              [Closed EXCEPT !.tab = tab, !.envs = "none"])

OpenEdit == Shows("OPEN_EDIT", NoEffect, IF ui.tab = "nuke" THEN ui ELSE Opened(Arg))

Type == Shows("TYPE", NoEffect, IF ui.draft = "none" THEN ui ELSE [ui EXCEPT !.draft = Arg])

Cancel == Shows("CANCEL", NoEffect, Abandoned)

\* An empty draft keeps the value, or skips the field in quick setup; a draft
\* that does not validate stays.
Submit ==
    \/ /\ ui.draft \in {"none", "invalid"} /\ Shows("SUBMIT", NoEffect, ui)
    \/ /\ ui.draft = "empty"
       /\ \E next \in IF ui.setup THEN Walks(ui.walk) ELSE {Closed} : Shows("SUBMIT", NoEffect, next)
    \/ /\ ui.draft = "valid"
       /\ Writes("SUBMIT")
       /\ ui' \in IF ui.setup THEN Walks(ui.walk) ELSE {Closed}

\* g and c on the dashboard: GENERATE and CLEAR_FIELD.  Not every field can be
\* generated or cleared; clearing the users asks, when there are any.
Change ==
    \/ ui.mode = "dashboard" /\ Writes("CHANGE") /\ ui' = ui
    \/ /\ ui.mode = "dashboard"
       /\ \E view \in {"list", "confirm"} : Shows("CHANGE", NoEffect, [Opened("users") EXCEPT !.view = view])
    \/ Shows("CHANGE", NoEffect, ui)

CaPick ==
    \/ Arg = "path" /\ Shows("CA_PICK", NoEffect, Opened("edit"))
    \/ Arg = "value" /\ Writes("CA_PICK") /\ ui' = Closed

InUsers(view) == ui.mode = "users" /\ ui.view = view

\* There may be too many users to add one, or none to rename or remove.
UsersInput ==
    \/ Shows("USERS_INPUT", NoEffect, ui)
    \/ /\ InUsers("list")
       /\ Shows("USERS_INPUT", NoEffect,
                [ui EXCEPT !.view = "input", !.kind = Arg, !.draft = IF Arg = "add" THEN "empty" ELSE "valid"])

UsersRemove ==
    \/ Shows("USERS_REMOVE", NoEffect, ui)
    \/ InUsers("list") /\ Shows("USERS_REMOVE", NoEffect, [ui EXCEPT !.view = "confirm"])

\* A new label is written; another name for a user is confirmed first, and the
\* same name changes nothing.
UsersSubmit ==
    LET ready == InUsers("input") /\ ui.draft = "valid" IN
    \/ ~ready /\ Shows("USERS_SUBMIT", NoEffect, ui)
    \/ ready /\ ui.kind = "add" /\ Writes("USERS_SUBMIT") /\ ui' = Listed
    \/ /\ ready /\ ui.kind = "rename"
       /\ \E next \in {Listed, [ui EXCEPT !.view = "confirm", !.draft = "none"]} :
             Shows("USERS_SUBMIT", NoEffect, next)

\* The user may be gone from the store by then.
UsersConfirm ==
    \/ Shows("USERS_CONFIRM", NoEffect, IF InUsers("confirm") THEN Listed ELSE ui)
    \/ InUsers("confirm") /\ Arg = "yes" /\ Writes("USERS_CONFIRM") /\ ui' = Listed

UsersCancel ==
    Shows("USERS_CANCEL", NoEffect,
          IF ui.mode # "users" THEN ui ELSE IF ui.view = "list" THEN Closed ELSE Listed)

\* SETUP_START generates what it can, then offers the secrets that are unset or
\* starts the walk over the required fields; it does nothing when all are set.
SetupStart ==
    LET on == {[ui EXCEPT !.mode = "setup-secrets", !.setup = TRUE]} \cup Walks(MaxWalk)
    IN  \/ Writes("SETUP_START") /\ ui' \in on
        \/ \E next \in on \cup {ui} : Shows("SETUP_START", NoEffect, next)

SetupSecrets ==
    \/ Arg = "yes" /\ Writes("SETUP_SECRETS") /\ ui' \in Walks(MaxWalk)
    \/ \E next \in Walks(MaxWalk) : Shows("SETUP_SECRETS", NoEffect, next)

\* There may be nothing to reveal, or, below, to push.
RevealOpen ==
    \E next \in {ui, [ui EXCEPT !.mode = "reveal-confirm"]} : Shows("REVEAL_OPEN", NoEffect, next)

RevealConfirm ==
    \/ Arg = "no" /\ Shows("REVEAL_CONFIRM", NoEffect, Closed)
    \/ Arg = "yes" /\ Shows("REVEAL_CONFIRM", <<Effect("exit")>>, ui)

Quit == Shows("QUIT", <<Effect("exit")>>, ui)

Export == Shows("EXPORT", <<Effect("export-envs")>>, ui)

UpdateEnvs ==
    Shows("UPDATE_ENVS",
          IF ui.tab = "envs" /\ ui.envs \in {"stale", "missing"}
          THEN <<Effect("export-envs"), Effect("check-envs")>> ELSE NoEffect,
          ui)

PushOpen ==
    \/ Shows("PUSH_OPEN", NoEffect, ui)
    \/ ui.tab = "push" /\ ~ui.busy /\ Shows("PUSH_OPEN", NoEffect, [ui EXCEPT !.mode = "push-confirm"])

PushConfirm ==
    IF Arg = "yes" /\ ui.mode = "push-confirm"
    THEN Shows("PUSH_CONFIRM", <<Effect("git-commit-push")>>, [Closed EXCEPT !.busy = TRUE])
    ELSE Shows("PUSH_CONFIRM", NoEffect, IF Arg = "no" THEN Closed ELSE ui)

Undo == Shows("UNDO", <<[Effect("restore-backup") EXCEPT !.over = mem]>>, ui)

NukeOpen ==
    Shows("NUKE_OPEN", NoEffect,
          IF ui.tab = "nuke" THEN [ui EXCEPT !.mode = "nuke-confirm", !.kind = Arg, !.draft = "empty"] ELSE ui)

NukeCancel == Shows("NUKE_CANCEL", NoEffect, Closed)

\* applyNukeValues: the rotated store shows at once.
NukeSubmit ==
    LET ready == ui.mode = "nuke-confirm" /\ ui.draft = "valid" /\ Arg = "values" IN
    \/ ~ready /\ Shows("NUKE_SUBMIT", NoEffect, ui)
    \/ /\ ready
       /\ Reduces("NUKE_SUBMIT",
                  <<[type |-> "nuke", store |-> made + 1, rollback |-> mem, kind |-> ui.kind, over |-> made + 1]>>)
       /\ mem' = made + 1 /\ made' = made + 1
       /\ ui' = [ui EXCEPT !.mode = "nuke-running", !.draft = "empty"]
       /\ UNCHANGED crossed

\* What the effects report.  A report puts back a store whatever is on the screen
\* by then; it crosses when a key reduced since the effect was left changed that.
Returns(type, screen) ==
    /\ Reduces(type, NoEffect)
    /\ mem' = Head(inbox).store
    /\ ui' = screen
    /\ crossed' = (crossed \/ mem # Head(inbox).over)
    /\ UNCHANGED made

\* Bugs: the store that could not be written stays on the screen; a nuke that failed
\* goes on showing that it runs.
WriteFailedKeeps == Shows("WRITE_FAILED", NoEffect, ui)
NukeFailedRuns   == Returns("NUKE_FAILED", ui)

WriteFailed == Returns("WRITE_FAILED", ui)
UndoOk      == Returns("UNDO_OK", ui)
NukeFailed  == Returns("NUKE_FAILED", [ui EXCEPT !.mode = "nuke-confirm", !.draft = "empty"])
NukeOk      == Shows("NUKE_OK", NoEffect, [ui EXCEPT !.mode = "nuke-done"])

\* What is kept of it when another tab shows by then is gone on the next visit.
EnvsStatus  == Shows("ENVS_STATUS", NoEffect, IF ui.tab = "envs" THEN [ui EXCEPT !.envs = Arg] ELSE ui)
GitDone     == Shows("GIT_DONE", NoEffect, [ui EXCEPT !.busy = FALSE])

Reduction ==
    /\ phase \in {"wait", "reduce"} /\ inbox # <<>>
    /\ \/ TabMove \/ OpenEdit \/ Type \/ Cancel \/ Submit \/ Change \/ CaPick
       \/ UsersInput \/ UsersRemove \/ UsersSubmit \/ UsersConfirm \/ UsersCancel
       \/ SetupStart \/ SetupSecrets \/ RevealOpen \/ RevealConfirm \/ Quit
       \/ Export \/ UpdateEnvs \/ PushOpen \/ PushConfirm \/ Undo
       \/ NukeOpen \/ NukeCancel \/ NukeSubmit
       \/ WriteFailed \/ UndoOk \/ NukeFailed \/ NukeOk \/ EnvsStatus \/ GitDone

(***************************************************************************)
(* The effect loop and runEffect.                                          *)
(***************************************************************************)
Running(type) == phase \in {"commit", "effects"} /\ job = Idle /\ Head(queue).type = type

\* The effect is over: the next one, or the screen again.
Ends(reports) ==
    /\ queue' = Tail(queue)
    /\ phase' = IF queue' = <<>> THEN "wait" ELSE "effects"
    /\ inbox' = inbox \o reports
    /\ UNCHANGED <<disk, made, faults, mem, ui, crossed>>

Begins(operation) ==
    /\ job' = operation
    /\ phase' = "effects"
    /\ UNCHANGED <<disk, proc, made, faults, mem, ui, inbox, queue, pushes, crossed>>

Report(type, store) == [type |-> type, arg |-> "none", store |-> store, over |-> Head(queue).over]
Told(type, answer)  == [type |-> type, arg |-> answer, store |-> 0, over |-> 0]

RunWrite == Running("write-store") /\ Begins(WriteJob(Head(queue).store)) /\ UNCHANGED keyed

RunUndo ==
    /\ Running("restore-backup") /\ UNCHANGED keyed
    /\ IF disk.bak # Missing THEN Begins(UndoJob) ELSE Ends(<<>>) /\ UNCHANGED <<proc, job, pushes>>

\* A torn keyring cannot be read, and a nuke that was cancelled before it failed
\* has lost its kind: each fails before it writes.
RunNuke ==
    /\ Running("nuke")
    /\ LET nuke == Head(queue) IN
       IF nuke.kind \notin {"soft", "full"} \/ (nuke.kind = "soft" /\ disk.keys = Torn)
       THEN Ends(<<Report("NUKE_FAILED", nuke.rollback)>>) /\ UNCHANGED <<proc, job, keyed, pushes>>
       ELSE /\ Begins(NukeJob(nuke.kind, nuke.store))
            /\ keyed' = IF nuke.kind = "full" THEN keyed + 1 ELSE keyed

RunExport ==
    /\ Running("export-envs") /\ UNCHANGED keyed
    /\ IF Whole(disk.keys) THEN Begins(ExportJob) ELSE Ends(<<>>) /\ UNCHANGED <<proc, job, pushes>>

\* A bug: any env file is a fresh one.
EnvFileStatusByName ==
    IF disk.keys = Missing THEN "no-keyring" ELSE IF disk.env = Missing THEN "missing" ELSE "ok"

\* envFileStatus.
EnvFileStatus ==
    CASE disk.keys = Missing  -> "no-keyring"
      [] disk.env = Missing   -> "missing"
      [] disk.env = disk.keys -> "ok"
      [] OTHER                -> "stale"

RunCheckEnvs ==
    /\ Running("check-envs")
    /\ Ends(IF disk.keys = Torn THEN <<>> ELSE <<Told("ENVS_STATUS", EnvFileStatus)>>)
    /\ UNCHANGED <<proc, job, keyed, pushes>>

RunPush ==
    /\ Running("git-commit-push") /\ Ends(<<>>) /\ pushes' = pushes + 1
    /\ UNCHANGED <<proc, job, keyed>>

\* The loop goes on to the effects that were left behind the exit.
RunExit ==
    /\ Running("exit")
    /\ IF \A i \in DOMAIN queue : queue[i].type = "exit"
       THEN proc' = "none" /\ TuiDown
       ELSE /\ queue' = Append(Tail(queue), Head(queue)) /\ phase' = "effects"
            /\ UNCHANGED <<proc, mem, ui, inbox, pushes, crossed>>
    /\ UNCHANGED <<disk, job, made, keyed, faults>>

\* The file operation of an effect has ended.  restoreBackup reads what it has
\* put in place.
OperationEnds ==
    /\ proc = "tui" /\ job # Idle /\ ~Working
    /\ LET effect == Head(queue) IN
       Ends(CASE job.kind = "write" /\ job.failed -> <<Report("WRITE_FAILED", effect.rollback)>>
              [] job.kind = "undo" /\ ~job.failed /\ Readable -> <<Report("UNDO_OK", disk.store)>>
              [] job.kind = "nuke" /\ job.failed  -> <<Report("NUKE_FAILED", effect.rollback)>>
              [] job.kind = "nuke" /\ ~job.failed -> <<Told("NUKE_OK", "none")>>
              [] OTHER -> <<>>)
    /\ job' = Idle
    /\ UNCHANGED <<proc, keyed, pushes>>

\* gitCommitPush ends, well or not.
GitPushed ==
    /\ pushes > 0 /\ pushes' = pushes - 1
    /\ phase \in {"wait", "commit"}
    /\ inbox' = Append(inbox, Told("GIT_DONE", "none"))
    /\ UNCHANGED <<disk, proc, job, made, keyed, faults, mem, ui, queue, phase, crossed>>

RunEffect ==
    \/ RunWrite \/ RunUndo \/ RunNuke \/ RunExport \/ RunCheckEnvs
    \/ RunPush \/ RunExit \/ OperationEnds

\* A bug: the dashboard opens on whatever is there.
StartUnread ==
    /\ proc = "none"
    /\ proc' = "tui" /\ mem' = Held
    /\ UNCHANGED <<disk, job, made, keyed, faults, ui, inbox, queue, phase, pushes, crossed>>

\* runTui: the dashboard opens on a store it can read, or none.
Start ==
    /\ proc = "none" /\ Readable /\ disk.keys # Torn
    /\ proc' = "tui" /\ mem' = Held
    /\ UNCHANGED <<disk, job, made, keyed, faults, ui, inbox, queue, phase, pushes, crossed>>

Next ==
    \/ (Call \/ CallFails) /\ UNCHANGED tuiVars
    \/ (CommandEnds \/ InitKeys \/ Encrypt \/ Decrypt \/ Import \/ Repair) /\ UNCHANGED tuiVars
    \/ Crash /\ TuiDown
    \/ Start \/ Press \/ Reduction \/ RunEffect \/ GitPushed

Spec == Init /\ [][Next]_vars

(***************************************************************************)
(* Properties.                                                             *)
(***************************************************************************)
Content == Stores \cup {Missing, Torn}

\* What an operation, a screen, an action and an effect may be.
JobKinds == {"idle", "write", "undo", "export", "nuke", "init-keys", "encrypt", "decrypt", "import"}
Statuses == {"no-keyring", "missing", "ok", "stale"}
Kinds == {"none", "add", "rename", "soft", "full"}
Views == {"none", "list", "input", "confirm"}

KeyTypes == {"TAB_MOVE", "OPEN_EDIT", "TYPE", "CANCEL", "SUBMIT", "CHANGE", "CA_PICK", "USERS_INPUT", "USERS_REMOVE",
             "USERS_SUBMIT", "USERS_CONFIRM", "USERS_CANCEL", "SETUP_START", "SETUP_SECRETS", "REVEAL_OPEN",
             "REVEAL_CONFIRM", "QUIT", "EXPORT", "UPDATE_ENVS", "PUSH_OPEN", "PUSH_CONFIRM", "UNDO", "NUKE_OPEN",
             "NUKE_CANCEL", "NUKE_SUBMIT"}
KeyArgs == {"none", "empty", "valid", "invalid", "edit", "users", "ca-select", "add", "rename", "soft", "full",
            "delete", "clear", "values", "value", "path", "yes", "no"}

\* A key's argument is one that its action takes.
Keystrokes == {a \in [type : KeyTypes, arg : KeyArgs] :
                 /\ a.type = "TYPE" => a.arg \in {"empty", "valid", "invalid"}
                 /\ a.type = "OPEN_EDIT" => a.arg \in {"edit", "users", "ca-select"}
                 /\ a.type = "USERS_INPUT" => a.arg \in {"add", "rename"}
                 /\ a.type = "NUKE_OPEN" => a.arg \in {"soft", "full"}}
Messages == {a \in [type : Reports, arg : Statuses \cup {"none"}, store : Stores, over : Stores] :
                 a.type = "ENVS_STATUS" => a.arg \in Statuses}
Actions == Keystrokes \cup Messages

Quiet == {"restore-backup", "export-envs", "check-envs", "git-commit-push", "exit"}
Storing == {"write-store", "nuke"}
Effects == [type : Quiet \cup Storing, store : Stores, rollback : Stores, kind : Kinds, over : Stores]

\* The type of every variable.  (Of the operation under way, the snapshots of a nuke and
\* the values its calls write are those of the files.)
TypeOK ==
    /\ disk.store \in Content /\ disk.bak \in Content
    /\ disk.keys \in Keyrings \cup {Missing, Torn} /\ disk.env \in Keyrings \cup {Missing, Torn}
    /\ disk.cipher \in [store : Stores, keys : Keyrings] \cup {Missing, Torn}
    /\ proc \in {"none", "cli", "tui"}
    /\ made \in Stores /\ keyed \in 0 .. MaxKeyrings /\ faults \in 0 .. MaxFaults
    /\ mem \in Stores
    /\ ui \in [tab : Tabs, mode : Modes, view : Views, draft : Drafts, kind : Kinds, setup : BOOLEAN,
               walk : 0 .. MaxWalk, envs : Statuses \cup {"none"}, busy : BOOLEAN]
    /\ inbox \in Seq(Actions) /\ queue \in Seq(Effects)
    /\ job.kind \in JobKinds /\ job.store \in Stores /\ job.paths \in Seq(Files) /\ job.failed \in BOOLEAN
    /\ \A i \in DOMAIN job.plan : job.plan[i].file \in Files
    /\ phase \in {"wait", "reduce", "commit", "effects"}
    /\ pushes \in 0 .. 1 /\ crossed \in BOOLEAN

AtRest == proc = "tui" /\ phase = "wait" /\ inbox = <<>> /\ job = Idle

\* When the dashboard is at rest the store it shows is the one in the file, after
\* any writes, failures, undos and nukes (writeThrough and the rollback of
\* WRITE_FAILED and NUKE_FAILED), unless the file itself is damaged or a report
\* crossed a newer change.
ShownIsSaved ==
    AtRest /\ ~crossed /\ Whole(disk.store) => mem = disk.store

\* At rest the envs tab never calls fresh an env file of another keyring: an update
\* writes the files before it looks (UPDATE_ENVS, TAB_MOVE, envFileStatus), and no
\* key on that tab changes the keyring behind it.
FreshIsFresh ==
    AtRest /\ ui.tab = "envs" /\ ui.envs = "ok" /\ Whole(disk.env) => disk.env = disk.keys

\* A nuke that ends rewrote the store, the keyring and the ciphertext together, or
\* left every one of them and the backup as it was (commitCredentialNuke).
NukeAllOrNothing ==
    [][job.kind = "nuke" /\ Working /\ job'.kind = "nuke" /\ job'.plan = <<>> =>
         IF job'.failed THEN disk' = job.snap
         ELSE /\ disk'.store = job.store
              /\ Whole(disk'.keys) => disk'.cipher = [store |-> job.store, keys |-> disk'.keys]]_vars

\* The files keep the store as AtomicStore promises: while an operation is under
\* way the store is the one it began with.
Kept == IF Working THEN job.snap ELSE disk

Promise == INSTANCE AtomicStore WITH
    None     <- Missing,
    Lost     <- Torn,
    current  <- IF Whole(Kept.store) THEN Kept.store
                ELSE IF Whole(Kept.bak) THEN Kept.bak
                ELSE IF Kept.store = Torn /\ Kept.bak = Torn THEN Torn ELSE Missing,
    previous <- IF Whole(Kept.bak) THEN Kept.bak ELSE IF Kept.bak = Torn THEN Torn ELSE Missing,
    damaged  <- Kept.store = Torn,
    hurt     <- faults > 0

KeepsStore == Promise!Spec

\* Nothing is left hanging: at rest no screen shows a nuke that runs, which takes no
\* key but the one to quit, nor a push that is not under way, whatever failed or was
\* pressed meanwhile (NUKE_OK, NUKE_FAILED, GIT_DONE).
NothingHangs ==
    AtRest => ui.mode # "nuke-running" /\ (ui.busy => pushes > 0)
=============================================================================
