----------------------------- MODULE CredStore -----------------------------
(***************************************************************************)
(* The files of the credential tools and the operations that rewrite them: *)
(* src/tools/credstore.mjs, credsecrets.mjs and the commands of            *)
(* credentials.mjs.  Files are written one system call at a time by one    *)
(* process, which may fail at any call or be killed between two.           *)
(*                                                                         *)
(* A store is a number: 0 is the empty one, and a change makes one that    *)
(* never was.  A keyring is a number.  The ciphertext is the store it was  *)
(* made from and the keyring it was made with.  The four env files are     *)
(* one, written whole, holding the keyring it was exported from.           *)
(*                                                                         *)
(* Parameters: MaxStores and MaxKeyrings bound the stores and keyrings     *)
(* that are made, MaxFaults the failing calls and crashes; Commands, the   *)
(* commands the operator runs beside the dashboard; Missing and Torn, the  *)
(* file that is not there and the one that was cut short.                  *)
(***************************************************************************)
EXTENDS Naturals, Sequences, FiniteSets, SequencesExt

CONSTANTS MaxStores, MaxKeyrings, MaxFaults, Commands, Missing, Torn

ASSUME CredStoreAssumption ==
    /\ MaxStores \in Nat /\ MaxKeyrings \in Nat /\ MaxFaults \in Nat
    /\ Commands \subseteq {"init-keys", "encrypt", "decrypt", "import"}
    /\ Missing # Torn /\ Missing \notin Nat /\ Torn \notin Nat

Stores   == 0 .. MaxStores
Keyrings == 1 .. MaxKeyrings
Files    == {"store", "bak", "keys", "cipher", "env"}

VARIABLES
    disk,       \* the content of each file
    proc,       \* the process at work: "none", "cli" or "tui"
    job,        \* the file operation it is in the middle of
    made,       \* stores made so far
    keyed,      \* keyrings made so far
    faults      \* failing calls and crashes so far

fileVars == <<disk, proc, job, made, keyed, faults>>

Whole(content) == content \notin {Missing, Torn}

\* What reading the store gives: a store that is not there reads as the empty one.
Held == IF disk.store = Missing THEN 0 ELSE disk.store
Readable == disk.store # Torn

\* The system calls an operation is made of: cutting a file to nothing, filling
\* it from another or from memory, renaming a whole file over it, removing it.
Cut(file)         == [call |-> "cut", file |-> file, value |-> Torn]
Copy(file, value) == <<Cut(file), [call |-> "copy", file |-> file, value |-> value]>>
Rewrite(file, value) == <<Cut(file), [call |-> "write", file |-> file, value |-> value]>>
Put(file, value)  == <<[call |-> "put", file |-> file, value |-> value]>>
Unlink(file)      == <<[call |-> "unlink", file |-> file, value |-> Missing]>>

\* What a file may hold after a call on it failed: a copy that fails removes its
\* target; a renamed file that does not read back is cut short.
AfterFailing(call) ==
    CASE call.call = "copy"  -> {Missing}
      [] call.call = "put"   -> {disk[call.file], Torn}
      [] OTHER               -> {disk[call.file]}

\* A bug: the backup is copied after the store was replaced.
StorePlanBackupLast(store) ==
    Put("store", store) \o IF disk.store = Missing THEN <<>> ELSE Copy("bak", store)

\* writeStore: the store there is goes to the backup, the new one takes its place.
StorePlan(store) ==
    (IF disk.store = Missing THEN <<>> ELSE Copy("bak", disk.store)) \o Put("store", store)

\* encryptStore and writeSecretsFile.
CipherPlan(store, keyring) == Rewrite("cipher", [store |-> store, keys |-> keyring])

\* syncSecretsFile does nothing without a keyring, and throws on a torn one.
SyncPlan(store) == IF Whole(disk.keys) THEN CipherPlan(store, disk.keys) ELSE <<>>

\* A bug: a file that was not there before stays.
RestorePlanLeaves(paths, now, then) ==
    FlattenSeq([i \in DOMAIN paths |->
        IF then[paths[i]] # Missing THEN Rewrite(paths[i], then[paths[i]]) ELSE <<>>])

\* restoreSnapshot, for each path from the last to the first.
RestorePlan(paths, now, then) ==
    FlattenSeq([i \in DOMAIN paths |->
        LET f == paths[i] IN
        IF then[f] # Missing THEN Rewrite(f, then[f])
        ELSE IF now[f] # Missing THEN Unlink(f) ELSE <<>>])

\* An operation under way: the calls left, the store it is about, the paths it
\* puts back when it fails with what they held, and whether it has failed.
Job(kind, plan, store, paths) ==
    [kind |-> kind, plan |-> plan, store |-> store, paths |-> paths, snap |-> disk, failed |-> FALSE]
Idle == [kind |-> "idle", plan |-> <<>>, store |-> 0, paths |-> <<>>, snap |-> Missing, failed |-> FALSE]

WriteJob(store) == Job("write", StorePlan(store) \o SyncPlan(store), store, <<>>)
UndoJob         == Job("undo", Copy("store", disk.bak), 0, <<>>)
ExportJob       == Job("export", Put("env", disk.keys), 0, <<>>)

\* commitCredentialNuke: every output is made before the first write; a full
\* nuke makes a keyring, a soft one keeps the one there is, if any.
NukeJob(kind, store) ==
    LET keys == IF kind = "full" THEN keyed + 1 ELSE disk.keys IN
    Job("nuke",
        StorePlan(store)
            \o (IF kind = "full" THEN Put("keys", keys) ELSE <<>>)
            \o (IF keys # Missing THEN CipherPlan(store, keys) ELSE <<>>),
        store,
        (IF keys # Missing THEN <<"cipher">> ELSE <<>>)
            \o (IF kind = "full" THEN <<"keys">> ELSE <<>>) \o <<"bak", "store">>)

FileInit ==
    /\ disk = [f \in Files |-> Missing]
    /\ proc = "none" /\ job = Idle
    /\ made = 0 /\ keyed = 0 /\ faults = 0

Working == job.plan # <<>>

\* The next call of the operation.
Call ==
    /\ Working
    /\ LET call == Head(job.plan) IN disk' = [disk EXCEPT ![call.file] = call.value]
    /\ job' = [job EXCEPT !.plan = Tail(@)]
    /\ UNCHANGED <<proc, made, keyed, faults>>

\* The calls of a plan that are on other files.
Without(plan, file) ==
    FlattenSeq([i \in DOMAIN plan |-> IF plan[i].file = file THEN <<>> ELSE <<plan[i]>>])

\* It fails.  A nuke puts its files back, and a file that cannot be put back does
\* not stop the others; the ciphertext that follows a write of the store is only
\* logged; anything else stops the operation.
CallFails ==
    /\ Working /\ faults < MaxFaults
    /\ LET call == Head(job.plan) IN
       \E after \in AfterFailing(call) :
          /\ disk' = [disk EXCEPT ![call.file] = after]
          /\ job' = [job EXCEPT
                !.failed = @ \/ ~(job.kind = "write" /\ call.file = "cipher"),
                !.plan   = IF job.kind # "nuke" THEN <<>>
                           ELSE IF job.failed THEN Without(@, call.file)
                           ELSE RestorePlan(job.paths, disk', job.snap)]
    /\ faults' = faults + 1
    /\ UNCHANGED <<proc, made, keyed>>

\* The process is killed between two calls.
Crash ==
    /\ Working /\ faults < MaxFaults
    /\ proc' = "none" /\ job' = Idle
    /\ faults' = faults + 1
    /\ UNCHANGED <<disk, made, keyed>>

\* A command starts, does its writes and ends.
Command(name, plan) ==
    /\ proc = "none" /\ name \in Commands
    /\ proc' = "cli" /\ job' = Job(name, plan, 0, <<>>)
    /\ UNCHANGED <<disk, faults>>

CommandEnds ==
    /\ proc = "cli" /\ ~Working
    /\ proc' = "none" /\ job' = Idle
    /\ UNCHANGED <<disk, made, keyed, faults>>

\* --init-keys, over a keyring only with --force.  The store is read after the
\* keyring is written: a torn one stops the command there.
InitKeys ==
    /\ keyed < MaxKeyrings /\ keyed' = keyed + 1
    /\ Command("init-keys", Put("keys", keyed') \o IF Readable THEN CipherPlan(Held, keyed') ELSE <<>>)
    /\ UNCHANGED made

Encrypt ==
    /\ Whole(disk.keys) /\ Readable
    /\ Command("encrypt", CipherPlan(Held, disk.keys))
    /\ UNCHANGED <<made, keyed>>

\* --decrypt lays the values of the ciphertext over the store, which may change
\* nothing.  Values that were encrypted with another keyring cannot be read.
Decrypt ==
    /\ Whole(disk.keys) /\ Whole(disk.cipher) /\ Readable
    /\ disk.cipher.store = 0 \/ disk.cipher.keys = disk.keys
    /\ \/ Command("decrypt", StorePlan(Held)) /\ UNCHANGED made
       \/ disk.store = Missing /\ Command("decrypt", StorePlan(disk.cipher.store)) /\ UNCHANGED made
       \/ /\ disk.cipher.store \notin {0, Held}
          /\ made < MaxStores /\ made' = made + 1 /\ Command("decrypt", StorePlan(made'))
    /\ UNCHANGED keyed

\* --import lays the dotenv file over the store: it may change nothing, and is
\* refused without --force when it would change a value.
Import ==
    /\ Readable
    /\ \/ Command("import", StorePlan(Held)) /\ UNCHANGED made
       \/ made < MaxStores /\ made' = made + 1 /\ Command("import", StorePlan(made'))
    /\ UNCHANGED keyed

\* The operator does what readStore says of a store it cannot parse: the backup
\* in its place, or, when that is gone too, a fresh start.
Repair ==
    /\ proc = "none" /\ disk.store = Torn
    /\ disk' = [disk EXCEPT !.store = IF Whole(disk.bak) THEN disk.bak ELSE Missing]
    /\ UNCHANGED <<proc, job, made, keyed, faults>>
=============================================================================
