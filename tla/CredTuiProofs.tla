---------------------------- MODULE CredTuiProofs ----------------------------
EXTENDS CredTui, SeqLemmas

(***************************************************************************)
(* What a queue holds of certain types: how many, and which.               *)
(***************************************************************************)

Hits(s, T) == {i \in DOMAIN s : s[i].type \in T}
Count(s, T) == Cardinality(Hits(s, T))
Chosen(s, T) == FlattenSeq([i \in DOMAIN s |-> IF s[i].type \in T THEN <<s[i]>> ELSE <<>>])

(* How many is a number. *)
LEMMA CountIs ==
  ASSUME NEW S, NEW s \in Seq(S), NEW T
  PROVE  IsFiniteSet(Hits(s, T)) /\ Count(s, T) \in Nat /\ Count(s, T) <= Len(s)
<1>1. Hits(s, T) \subseteq 1..Len(s) /\ Len(s) \in Nat
  BY DEF Hits
<1>2. IsFiniteSet(1..Len(s)) /\ Cardinality(1..Len(s)) = Len(s)
  <2>1. PICK n \in Nat : n = Len(s)
    BY <1>1
  <2>2. IsFiniteSet(1..n) /\ Cardinality(1..n) = IF 1 > n THEN 0 ELSE n - 1 + 1
    BY FS_Interval
  <2>3. (IF 1 > n THEN 0 ELSE n - 1 + 1) = n
    OBVIOUS
  <2> QED BY <2>1, <2>2, <2>3
<1>3. IsFiniteSet(Hits(s, T)) /\ Cardinality(Hits(s, T)) <= Cardinality(1..Len(s))
  BY <1>1, <1>2, FS_Subset
<1> QED BY <1>2, <1>3, FS_CardinalityType DEF Count

(* None in an empty one. *)
LEMMA CountEmpty == \A T : Count(<<>>, T) = 0
<1> SUFFICES ASSUME NEW T PROVE Count(<<>>, T) = 0
  OBVIOUS
<1>1. Hits(<<>>, T) = {}
  BY DEF Hits
<1> QED BY <1>1, FS_EmptySet DEF Count

(* One more at the end. *)
LEMMA CountAppend ==
  ASSUME NEW S, NEW s \in Seq(S), NEW x \in S, NEW T
  PROVE  Count(Append(s, x), T) = Count(s, T) + (IF x.type \in T THEN 1 ELSE 0)
<1>1. PICK n \in Nat : n = Len(s)
  OBVIOUS
<1>2. PICK r : r = Append(s, x)
  OBVIOUS
<1>3. DOMAIN s = 1..n /\ DOMAIN r = 1..(n + 1) /\ r[n + 1] = x /\ \A i \in 1..n : r[i] = s[i]
  BY <1>1, <1>2
<1>4. CASE x.type \in T
  <2>1. Hits(r, T) = Hits(s, T) \cup {n + 1} /\ n + 1 \notin Hits(s, T)
    BY <1>1, <1>3, <1>4 DEF Hits
  <2> QED BY <1>2, <1>4, <2>1, CountIs, FS_AddElement DEF Count
<1>5. CASE x.type \notin T
  <2>1. Hits(r, T) = Hits(s, T)
    BY <1>1, <1>3, <1>5 DEF Hits
  <2> QED BY <1>2, <1>5, <2>1, CountIs DEF Count
<1> QED BY <1>4, <1>5

(* One less at the front. *)
LEMMA CountTail ==
  ASSUME NEW S, NEW s \in Seq(S), s # <<>>, NEW T
  PROVE  Count(s, T) = Count(Tail(s), T) + (IF Head(s).type \in T THEN 1 ELSE 0)
<1>1. PICK n \in Nat : Len(s) = n + 1
  <2>1. Len(s) \in Nat /\ Len(s) # 0
    OBVIOUS
  <2>2. Len(s) - 1 \in Nat /\ Len(s) = (Len(s) - 1) + 1
    BY <2>1
  <2> QED BY <2>2
<1>2. PICK r \in Seq(S) : r = Tail(s)
  BY HeadTailProperties
<1>3. DOMAIN r = 1..n /\ DOMAIN s = 1..(n + 1) /\ Head(s) = s[1] /\ \A i \in 1..n : r[i] = s[i + 1]
  BY <1>1, <1>2
<1>4. PICK P : P = {i \in 2..(n + 1) : s[i].type \in T}
  OBVIOUS
<1>5. ExistsBijection(Hits(r, T), P)
  <2>1. PICK f : f = [i \in Hits(r, T) |-> i + 1]
    OBVIOUS
  <2>2. f \in Bijection(Hits(r, T), P)
    <3>1. Hits(r, T) \subseteq 1..n
      BY <1>3 DEF Hits
    <3>2. \A i \in Hits(r, T) : i + 1 \in P
      BY <1>3, <1>4 DEF Hits
    <3>3. \A j \in P : j - 1 \in Hits(r, T) /\ (j - 1) + 1 = j
      BY <1>3, <1>4 DEF Hits
    <3>4. f \in [Hits(r, T) -> P] /\ \A i \in Hits(r, T) : f[i] = i + 1
      BY <2>1, <3>2
    <3>5. \A i, j \in Hits(r, T) : f[i] = f[j] => i = j
      BY <3>1, <3>4
    <3>6. \A j \in P : \E i \in Hits(r, T) : f[i] = j
      BY <3>3, <3>4
    <3> QED BY <3>4, <3>5, <3>6 DEF Bijection, Injection, Surjection, IsInjective
  <2> QED BY <2>2 DEF ExistsBijection
<1>6. IsFiniteSet(P) /\ Cardinality(P) = Count(r, T)
  BY <1>5, CountIs, FS_Bijection DEF Count
<1>7. CASE s[1].type \in T
  <2>1. Hits(s, T) = P \cup {1} /\ 1 \notin P
    BY <1>3, <1>4, <1>7 DEF Hits
  <2> QED BY <1>2, <1>3, <1>6, <1>7, <2>1, FS_AddElement DEF Count
<1>8. CASE s[1].type \notin T
  <2>1. Hits(s, T) = P
    BY <1>3, <1>4, <1>8 DEF Hits
  <2> QED BY <1>2, <1>3, <1>6, <1>8, <2>1, CountIs DEF Count
<1> QED BY <1>3, <1>7, <1>8

(* The pieces that are chosen. *)
LEMMA ChosenPieces ==
  ASSUME NEW S, NEW s \in Seq(S), NEW T
  PROVE  [i \in DOMAIN s |-> IF s[i].type \in T THEN <<s[i]>> ELSE <<>>] \in Seq(Seq(S))
<1>1. PICK n \in Nat : n = Len(s) /\ DOMAIN s = 1..n
  OBVIOUS
<1>2. \A i \in 1..n : <<s[i]>> \in Seq(S) /\ <<>> \in Seq(S)
  BY <1>1
<1>3. PICK c : c = [i \in DOMAIN s |-> IF s[i].type \in T THEN <<s[i]>> ELSE <<>>]
  OBVIOUS
<1>4. \A i \in 1..n : c[i] \in Seq(S)
  BY <1>1, <1>2, <1>3
<1>5. DOMAIN c = 1..n /\ c = [i \in 1..n |-> c[i]]
  BY <1>1, <1>3
<1> QED BY <1>3, <1>4, <1>5, SeqDef

(* Nothing is chosen from an empty queue.                                   *)
LEMMA ChosenEmpty == \A T : Chosen(<<>>, T) = <<>>
<1> SUFFICES ASSUME NEW T PROVE Chosen(<<>>, T) = <<>>
  OBVIOUS
<1>1. PICK s : s = <<>>
  OBVIOUS
<1>2. [i \in DOMAIN s |-> IF s[i].type \in T THEN <<s[i]>> ELSE <<>>] = <<>>
  BY <1>1
<1> QED BY <1>1, <1>2, FlatEmpty DEF Chosen

(* What is chosen is a sequence of the same things.                         *)
LEMMA ChosenType ==
  ASSUME NEW S, NEW s \in Seq(S), NEW T
  PROVE  Chosen(s, T) \in Seq(S)
BY ChosenPieces, FlatType DEF Chosen

(* One more at the end, if it is of the types.                              *)
LEMMA ChosenAppend ==
  ASSUME NEW S, NEW s \in Seq(S), NEW x \in S, NEW T
  PROVE  Chosen(Append(s, x), T) = IF x.type \in T THEN Append(Chosen(s, T), x) ELSE Chosen(s, T)
<1>1. PICK n \in Nat : n = Len(s) /\ DOMAIN s = 1..n
  OBVIOUS
<1>2. PICK r \in Seq(S) : r = Append(s, x)
  BY AppendProperties
<1>3. DOMAIN r = 1..(n + 1) /\ r[n + 1] = x /\ \A i \in 1..n : r[i] = s[i]
  BY <1>1, <1>2
<1>4. PICK c \in Seq(Seq(S)) : c = [i \in DOMAIN s |-> IF s[i].type \in T THEN <<s[i]>> ELSE <<>>]
  BY ChosenPieces
<1>5. PICK y \in Seq(S) : y = IF x.type \in T THEN <<x>> ELSE <<>>
  <2>1. <<x>> \in Seq(S) /\ <<>> \in Seq(S)
    OBVIOUS
  <2> QED BY <2>1
<1>6. PICK d \in Seq(Seq(S)) : d = [i \in DOMAIN r |-> IF r[i].type \in T THEN <<r[i]>> ELSE <<>>]
  BY ChosenPieces
<1>7. d = Append(c, y)
  <2>1. PICK e \in Seq(Seq(S)) : e = Append(c, y) /\ Len(e) = Len(c) + 1
                               /\ e[Len(c) + 1] = y /\ \A i \in 1..Len(c) : e[i] = c[i]
    <3>1. PICK Q : Q = Seq(S)
      OBVIOUS
    <3>2. /\ Append(c, y) \in Seq(Q) /\ Len(Append(c, y)) = Len(c) + 1 /\ Append(c, y)[Len(c) + 1] = y
          /\ \A i \in 1..Len(c) : Append(c, y)[i] = c[i]
      BY <3>1, AppendProperties
    <3> QED BY <3>1, <3>2, Zenon
  <2>2. Len(c) = n /\ Len(d) = n + 1
    <3>1. DOMAIN c = 1..n /\ DOMAIN d = 1..(n + 1)
      BY <1>1, <1>3, <1>4, <1>6
    <3> QED BY <3>1
  <2>3. d[n + 1] = y /\ \A i \in 1..n : d[i] = c[i]
    BY <1>1, <1>3, <1>4, <1>5, <1>6
  <2>4. \A i \in 1..Len(d) : d[i] = e[i]
    <3>1. \A i \in 1..(n + 1) : i \in 1..n \/ i = n + 1
      OBVIOUS
    <3> QED BY <2>1, <2>2, <2>3, <3>1
  <2>5. Len(d) = Len(e)
    BY <2>1, <2>2
  <2> QED BY <2>1, <2>4, <2>5, SeqEqual
<1>8. Chosen(r, T) = Chosen(s, T) \o y
  BY <1>4, <1>6, <1>7, FlatAppend DEF Chosen
<1>9. Chosen(s, T) \in Seq(S)
  BY ChosenType
<1> QED BY <1>2, <1>5, <1>8, <1>9

(* The first one comes first, if it is of the types.                        *)
LEMMA ChosenTail ==
  ASSUME NEW S, NEW s \in Seq(S), s # <<>>, NEW T
  PROVE  Chosen(s, T) = IF Head(s).type \in T THEN <<Head(s)>> \o Chosen(Tail(s), T) ELSE Chosen(Tail(s), T)
<1>1. PICK n \in Nat : Len(s) = n + 1 /\ DOMAIN s = 1..(n + 1)
  <2>1. PICK n \in Nat : Len(s) = n + 1
    <3>1. Len(s) \in Nat /\ Len(s) # 0
      OBVIOUS
    <3>2. Len(s) - 1 \in Nat /\ Len(s) = (Len(s) - 1) + 1
      BY <3>1
    <3> QED BY <3>2
  <2>2. DOMAIN s = 1..(n + 1)
    BY <2>1
  <2> QED BY <2>1, <2>2
<1>2. PICK r \in Seq(S) : r = Tail(s)
  BY HeadTailProperties
<1>3. DOMAIN r = 1..n /\ \A i \in 1..n : r[i] = s[i + 1]
  BY <1>1, <1>2
<1>4. PICK c \in Seq(Seq(S)) : c = [i \in DOMAIN s |-> IF s[i].type \in T THEN <<s[i]>> ELSE <<>>]
  BY ChosenPieces
<1>5. PICK d \in Seq(Seq(S)) : d = [i \in DOMAIN r |-> IF r[i].type \in T THEN <<r[i]>> ELSE <<>>]
  BY ChosenPieces
<1>6. Tail(c) = d /\ c # <<>> /\ Head(c) = IF Head(s).type \in T THEN <<Head(s)>> ELSE <<>>
  <2>1. Len(c) = n + 1 /\ Len(d) = n /\ c # <<>>
    <3>1. DOMAIN c = 1..(n + 1) /\ DOMAIN d = 1..n
      BY <1>1, <1>3, <1>4, <1>5
    <3>2. Len(c) = n + 1 /\ Len(d) = n
      BY <3>1
    <3> QED BY <3>2
  <2>2. \A i \in 1..n : d[i] = c[i + 1]
    BY <1>1, <1>3, <1>4, <1>5
  <2>3. PICK e \in Seq(Seq(S)) : e = Tail(c) /\ Len(e) = Len(c) - 1 /\ \A i \in 1..Len(e) : e[i] = c[i + 1]
    <3>1. PICK Q : Q = Seq(S)
      OBVIOUS
    <3>2. /\ Tail(c) \in Seq(Q) /\ Len(Tail(c)) = Len(c) - 1
          /\ \A i \in 1..Len(Tail(c)) : Tail(c)[i] = c[i + 1]
      BY <2>1, <3>1, HeadTailProperties
    <3> QED BY <3>1, <3>2, Zenon
  <2>4. Len(e) = n
    BY <2>1, <2>3
  <2>5. Tail(c) = d
    <3>1. \A i \in 1..Len(d) : d[i] = e[i]
      BY <2>1, <2>2, <2>3, <2>4
    <3> QED BY <2>1, <2>3, <2>4, <3>1, SeqEqual
  <2>6. 1 \in 1..(n + 1) /\ Head(s) = s[1] /\ Head(c) = c[1]
    BY <1>1, <2>1
  <2> QED BY <1>1, <1>4, <2>1, <2>5, <2>6
<1>7. Chosen(s, T) = Head(c) \o Chosen(r, T)
  BY <1>4, <1>5, <1>6, FlatTail DEF Chosen
<1>8. Chosen(r, T) \in Seq(S)
  BY ChosenType
<1>9. <<>> \o Chosen(r, T) = Chosen(r, T)
  BY <1>8, ConcatEmptySeq
<1> QED BY <1>2, <1>6, <1>7, <1>9

(***************************************************************************)
(* Types.                                                                  *)
(***************************************************************************)

Ciphers == [store : Stores, keys : Keyrings]
FileValues == Stores \cup Keyrings \cup Ciphers \cup {Missing, Torn}

(* What a file may hold. *)
Fits(file, value) ==
  /\ file \in {"store", "bak"} => value \in Content
  /\ file \in {"keys", "env"} => value \in Keyrings \cup {Missing, Torn}
  /\ file = "cipher" => value \in Ciphers \cup {Missing, Torn}

Disks == {d \in [Files -> FileValues] : \A f \in Files : Fits(f, d[f])}
Calls == {c \in [call : {"cut", "copy", "write", "put", "unlink"}, file : Files, value : FileValues] :
            Fits(c.file, c.value)}
Jobs == [kind : JobKinds, plan : Seq(Calls), store : Stores, paths : Seq(Files), snap : Disks \cup {Missing},
         failed : BOOLEAN]

Screens == [tab : Tabs, mode : Modes, view : Views, draft : Drafts, kind : Kinds, setup : BOOLEAN,
            walk : 0 .. MaxWalk, envs : Statuses \cup {"none"}, busy : BOOLEAN]

Returning == {"WRITE_FAILED", "UNDO_OK", "NUKE_FAILED"}

DiskType ==
  /\ disk \in Disks /\ job \in Jobs /\ proc \in {"none", "cli", "tui"}
  /\ made \in Nat /\ keyed \in 0 .. MaxKeyrings /\ faults \in 0 .. MaxFaults

TuiType ==
  /\ mem \in Stores /\ ui \in Screens /\ crossed \in BOOLEAN /\ pushes \in Nat
  /\ inbox \in Seq(Actions) /\ queue \in Seq(Effects)
  /\ phase \in {"wait", "reduce", "commit", "effects"}

(* When what waits. *)
Flow ==
  /\ proc # "tui" => /\ inbox = <<>> /\ queue = <<>> /\ phase = "wait" /\ pushes = 0
                     /\ ui = Dashboard /\ mem = 0 /\ ~crossed
  /\ proc = "none" => job = Idle
  /\ phase = "wait" => queue = <<>>
  /\ phase = "reduce" => inbox # <<>>
  /\ phase \in {"commit", "effects"} => queue # <<>>
  /\ proc = "tui" /\ job # Idle => phase = "effects"
  /\ job = Idle <=> job.kind = "idle"

(* The operation under way is that of the first effect. *)
Linked ==
  proc = "tui" /\ job # Idle =>
     \/ job.kind = "write" /\ Head(queue).type = "write-store" /\ job.store = Head(queue).store
     \/ job.kind = "nuke" /\ Head(queue).type = "nuke" /\ job.store = Head(queue).store
     \/ job.kind = "undo" /\ Head(queue).type = "restore-backup"
     \/ job.kind = "export" /\ Head(queue).type = "export-envs"

(* The keys that wait may make as many stores as there are left. *)
MadeInv == made + Count(inbox, Makes) <= MaxStores

TuiInv == DiskType /\ TuiType /\ Flow /\ Linked /\ MadeInv

Closing == {"GIT_DONE", "NUKE_OK", "NUKE_FAILED"}
Grave == {"nuke-confirm", "nuke-running", "push-confirm"}

(* The screens that keep what a nuke or a push shows of itself, or close it. *)
Tame == {s \in Screens : s.busy = ui.busy /\ (s.mode \in Grave => s.mode = ui.mode /\ s.kind = ui.kind)}

(* The screens that a key closes to, or opens a mode on, keep what a nuke   *)
(* or a push shows of itself.                                               *)
LEMMA ScreensAre ==
  ASSUME ui \in Screens
  PROVE  /\ Closed \in Tame /\ Abandoned \in Tame /\ Listed \in Tame /\ ui \in Tame
         /\ \A m \in Modes \ Grave : Opened(m) \in Tame
<1>1. 0 \in 0 .. MaxWalk
  BY CredTuiAssumption
<1>2. ASSUME NEW m \in Modes \ Grave, NEW v \in Views, NEW x, x = [ui EXCEPT !.mode = m, !.view = v, !.draft = "none", !.kind = "none"]
      PROVE  x \in Tame
  <2>1. "none" \in Drafts /\ "none" \in Kinds
    BY DEF Drafts, Kinds
  <2>2. x \in Screens
    BY <1>2, <2>1 DEF Screens
  <2>3. x.busy = ui.busy /\ x.mode = m
    BY <1>2 DEF Screens
  <2> QED BY <2>2, <2>3 DEF Tame
<1>3. PICK c \in Tame : c = Closed
  <2>1. "dashboard" \in Modes \ Grave /\ "none" \in Views
    BY DEF Modes, Grave, Views
  <2> QED BY <1>2, <2>1 DEF Closed
<1>4. Abandoned \in Tame
  BY <1>1, <1>3 DEF Tame, Screens, Abandoned
<1>5. Listed \in Tame
  <2>1. "users" \in Modes \ Grave /\ "list" \in Views
    BY DEF Modes, Grave, Views
  <2> QED BY <1>2, <2>1 DEF Listed
<1>6. ASSUME NEW m \in Modes \ Grave PROVE Opened(m) \in Tame
  <2>1. PICK v \in Views, d \in Drafts : /\ v = (IF m = "users" THEN "list" ELSE "none")
                                       /\ d = (IF m = "edit" THEN "empty" ELSE "none")
    BY DEF Views, Drafts
  <2>2. [ui EXCEPT !.tab = "fields", !.mode = m, !.view = v, !.draft = d] \in Screens
    BY DEF Screens, Tabs
  <2>3. [ui EXCEPT !.tab = "fields", !.mode = m, !.view = v, !.draft = d].mode = m
    BY DEF Screens
  <2>4. [ui EXCEPT !.tab = "fields", !.mode = m, !.view = v, !.draft = d].busy = ui.busy
    BY DEF Screens
  <2> QED BY <2>1, <2>2, <2>3, <2>4 DEF Opened, Tame
<1>7. ui \in Tame
  BY DEF Tame
<1> QED BY <1>3, <1>4, <1>5, <1>6, <1>7

(* So do the screens of quick setup.                                        *)
LEMMA WalksAre ==
  ASSUME ui \in Screens, NEW left \in 0 .. MaxWalk
  PROVE  Walks(left) \subseteq Tame
<1>1. Abandoned \in Tame
  BY ScreensAre
<1>2. ASSUME NEW n \in 1 .. left PROVE [Opened("edit") EXCEPT !.setup = TRUE, !.walk = n - 1] \in Tame
  <2>1. PICK k \in 0 .. MaxWalk : k = n - 1
    BY CredTuiAssumption
  <2>2. PICK s \in Tame : s = Opened("edit")
    BY ScreensAre DEF Modes, Grave
  <2>3. [s EXCEPT !.setup = TRUE, !.walk = k] \in Tame
    BY DEF Tame, Screens
  <2> QED BY <2>1, <2>2, <2>3
<1> QED BY <1>1, <1>2 DEF Walks

(***************************************************************************)
(* What a reduction does.                                                  *)
(***************************************************************************)

(* It takes the first action and moves on. *)
Taken ==
  /\ inbox # <<>> /\ phase \in {"wait", "reduce"} /\ inbox' = Tail(inbox)
  /\ phase' = IF inbox' # <<>> THEN "reduce" ELSE IF queue' # <<>> THEN "commit" ELSE "wait"
  /\ UNCHANGED <<disk, proc, job, keyed, faults, pushes>>

Unstored == UNCHANGED <<mem, made, crossed>>

(* It makes a store, and leaves the effect that saves it. *)
Saves(e) ==
  /\ Head(inbox).type \in Makes
  /\ mem' = made + 1 /\ made' = made + 1 /\ UNCHANGED crossed
  /\ e.type \in Storing /\ e.store = made + 1 /\ e.over = made + 1 /\ e.rollback = mem
  /\ queue' = Append(queue, e)

(* It puts back a store. *)
PutsBack ==
  /\ Head(inbox).type \in Returning
  /\ mem' = Head(inbox).store /\ crossed' = (crossed \/ mem # Head(inbox).over)
  /\ UNCHANGED <<made, queue>>

(* It leaves an effect that saves nothing and pushes nothing, or two, or none. *)
LeavesQuiet ==
  /\ Head(inbox).type \notin Returning
  /\ Unstored
  /\ \/ queue' = queue
     \/ \E e \in Effects : /\ e.type \in Quiet \ {"git-commit-push"} /\ (e.type = "restore-backup" => e.over = mem)
                           /\ queue' = Append(queue, e)
     \/ queue' = Append(Append(queue, Effect("export-envs")), Effect("check-envs"))

(* What each does to a nuke and to a push. *)
Plain ==
  /\ Head(inbox).type \notin Closing /\ ui' \in Tame
  /\ LeavesQuiet \/ PutsBack \/ \E e \in Effects : e.type = "write-store" /\ Saves(e)
NukeStarts ==
  /\ Head(inbox).type = "NUKE_SUBMIT" /\ ui.mode = "nuke-confirm"
  /\ ui'.mode = "nuke-running" /\ ui'.busy = ui.busy
  /\ \E e \in Effects : e.type = "nuke" /\ e.kind = ui.kind /\ Saves(e)
NukeOpens ==
  /\ Head(inbox).type = "NUKE_OPEN" /\ ui'.mode = "nuke-confirm" /\ ui'.busy = ui.busy
  /\ UNCHANGED queue /\ Unstored
NukeFails ==
  /\ Head(inbox).type = "NUKE_FAILED" /\ ui'.mode = "nuke-confirm" /\ ui'.kind = ui.kind /\ ui'.busy = ui.busy
  /\ PutsBack
NukeEnds ==
  /\ Head(inbox).type = "NUKE_OK" /\ ui'.mode = "nuke-done" /\ ui'.busy = ui.busy
  /\ UNCHANGED queue /\ Unstored
PushOpens ==
  /\ Head(inbox).type = "PUSH_OPEN" /\ ui'.mode = "push-confirm" /\ ~ui.busy /\ ui'.busy = ui.busy
  /\ UNCHANGED queue /\ Unstored
PushStarts ==
  /\ Head(inbox).type = "PUSH_CONFIRM" /\ ui.mode = "push-confirm" /\ ui'.mode = "dashboard" /\ ui'.busy = TRUE
  /\ Unstored /\ \E e \in Effects : e.type = "git-commit-push" /\ queue' = Append(queue, e)
PushEnds ==
  /\ Head(inbox).type = "GIT_DONE" /\ ui'.busy = FALSE /\ ui'.mode = ui.mode /\ ui'.kind = ui.kind
  /\ UNCHANGED queue /\ Unstored

Reduced ==
  /\ Taken /\ ui' \in Screens
  /\ Plain \/ NukeStarts \/ NukeOpens \/ NukeFails \/ NukeEnds \/ PushOpens \/ PushStarts \/ PushEnds

(* An effect that carries no store.                                         *)
LEMMA EffectIs ==
  \A t \in Quiet : Effect(t) \in Effects /\ Effect(t).type = t
BY CredStoreAssumption DEF Effect, Effects, Stores, Kinds, Quiet

(* A key that only changes the screen.                                      *)
LEMMA ShowsNothing ==
  ASSUME TuiType, NEW t, NEW s \in Tame, Shows(t, <<>>, s), inbox # <<>>, phase \in {"wait", "reduce"},
         t \notin Closing \cup Returning
  PROVE  Reduced
<1>1. queue \o <<>> = queue
  BY ConcatEmptySeq DEF TuiType
<1> QED BY <1>1 DEF Shows, Reduces, Reduced, Plain, Tame, Taken, Unstored, LeavesQuiet

(* A key that leaves one effect that stores nothing.                        *)
LEMMA ShowsOne ==
  ASSUME TuiType, NEW t, NEW s \in Tame, NEW e \in Effects, e.type \in Quiet \ {"git-commit-push"},
         e.type = "restore-backup" => e.over = mem,
         Shows(t, <<e>>, s), inbox # <<>>, phase \in {"wait", "reduce"}, t \notin Closing \cup Returning
  PROVE  Reduced
<1>1. queue \o <<e>> = Append(queue, e)
  BY DEF TuiType
<1> QED BY <1>1 DEF Shows, Reduces, Reduced, Plain, Tame, Taken, Unstored, LeavesQuiet

(* u on the envs tab, which leaves two.                                     *)
LEMMA ShowsTwo ==
  ASSUME TuiType, NEW t, NEW s \in Tame, Shows(t, <<Effect("export-envs"), Effect("check-envs")>>, s),
         inbox # <<>>, phase \in {"wait", "reduce"}, t \notin Closing \cup Returning
  PROVE  Reduced
<1>1. PICK e, d \in Effects : e = Effect("export-envs") /\ d = Effect("check-envs")
  BY EffectIs DEF Quiet
<1>2. queue \o <<e, d>> = Append(Append(queue, e), d)
  BY DEF TuiType
<1> QED BY <1>1, <1>2 DEF Shows, Reduces, Reduced, Plain, Tame, Taken, Unstored, LeavesQuiet

(* The key reduced next has its share of the stores that are left (Press).  *)
LEMMA MadeFits ==
  ASSUME TuiInv, inbox # <<>>, Head(inbox).type \in Makes
  PROVE  made + 1 \in Stores /\ made + 1 + Count(Tail(inbox), Makes) <= MaxStores
<1>1. Count(inbox, Makes) = Count(Tail(inbox), Makes) + 1
  BY CountTail DEF TuiInv, TuiType
<1>2. Tail(inbox) \in Seq(Actions)
  BY HeadTailProperties DEF TuiInv, TuiType
<1>3. Count(Tail(inbox), Makes) \in Nat
  BY <1>2, CountIs
<1> QED BY <1>1, <1>3, CredStoreAssumption DEF TuiInv, DiskType, MadeInv, Stores

(* A key that writes the store through leaves one write-store               *)
(* (writeThrough).                                                          *)
LEMMA WritesIs ==
  ASSUME TuiInv, NEW t, t \in Makes, Writes(t), ui' \in Tame, inbox # <<>>, phase \in {"wait", "reduce"}
  PROVE  Reduced
<1>1. made + 1 \in Stores
  BY MadeFits DEF Writes, Reduces
<1>2. PICK m \in Stores : m = made + 1
  BY <1>1
<1>3. PICK e \in Effects : e = [Effect("write-store") EXCEPT !.store = m, !.rollback = mem, !.over = m]
  BY CredStoreAssumption DEF Effect, Effects, Stores, Kinds, Storing, TuiInv, TuiType
<1>4. e.type = "write-store" /\ e.store = m /\ e.rollback = mem /\ e.over = m
  BY <1>3 DEF Effect
<1>5. queue \o <<e>> = Append(queue, e)
  BY DEF TuiInv, TuiType
<1>6. Reduces(t, <<e>>) /\ mem' = m /\ made' = m /\ crossed' = crossed
  BY <1>2, <1>3 DEF Writes
<1>7. Saves(e) /\ t \notin Closing
  BY <1>2, <1>4, <1>5, <1>6 DEF Saves, Reduces, Storing, Closing, Makes
<1>8. Plain
  BY <1>4, <1>6, <1>7 DEF Plain, Reduces
<1>9. Taken
  BY <1>6 DEF Taken, Reduces
<1>10. ui' \in Screens
  BY DEF Tame
<1> QED BY <1>8, <1>9, <1>10 DEF Reduced

(* What a key's action does, for each of them. *)
Reducing == inbox # <<>> /\ phase \in {"wait", "reduce"}

(* What waits is made of actions.                                           *)
LEMMA HeadIs ==
  ASSUME TuiType, inbox # <<>>
  PROVE  Head(inbox) \in Actions /\ Tail(inbox) \in Seq(Actions)
BY HeadTailProperties DEF TuiType

(* The keys of the tabs and the fields (reduceKey of the field modes).      *)
LEMMA FieldKeysAre ==
  ASSUME TuiInv, Reducing, TabMove \/ OpenEdit \/ Type \/ Cancel \/ Submit \/ Change \/ CaPick
  PROVE  Reduced
<1>0. /\ TuiType /\ inbox # <<>> /\ phase \in {"wait", "reduce"} /\ ui \in Screens /\ ui \in Tame
      /\ Head(inbox) \in Actions
  BY HeadIs, ScreensAre DEF TuiInv, TuiType, Reducing
<1>1. CASE TabMove
  <2>1. PICK tab \in Beside(ui.tab) :
          Shows("TAB_MOVE", IF tab = "envs" THEN <<Effect("check-envs")>> ELSE NoEffect,
                [Closed EXCEPT !.tab = tab, !.envs = "none"])
    BY <1>1 DEF TabMove
  <2>2. tab \in Tabs
    BY <1>0 DEF Beside, Tabs, Screens
  <2>3. PICK s \in Tame : s = [Closed EXCEPT !.tab = tab, !.envs = "none"]
    <3>1. PICK c \in Tame : c = Closed
      BY <1>0, ScreensAre
    <3>2. [c EXCEPT !.tab = tab, !.envs = "none"] \in Tame
      BY <2>2 DEF Tame, Grave, Screens
    <3> QED BY <3>1, <3>2
  <2>4. PICK e \in Effects : e = Effect("check-envs") /\ e.type = "check-envs"
    BY EffectIs DEF Quiet
  <2>5. CASE tab = "envs"
    <3>1. Shows("TAB_MOVE", <<e>>, s)
      BY <2>1, <2>3, <2>4, <2>5
    <3>2. e.type \in Quiet \ {"git-commit-push"} /\ (e.type = "restore-backup" => e.over = mem)
      BY <2>4 DEF Quiet
    <3> QED BY <1>0, <3>1, <3>2, ShowsOne DEF Closing, Returning
  <2>6. CASE tab # "envs"
    <3>1. Shows("TAB_MOVE", <<>>, s)
      BY <2>1, <2>3, <2>6 DEF NoEffect
    <3> QED BY <1>0, <3>1, ShowsNothing DEF Closing, Returning
  <2> QED BY <2>5, <2>6
<1>2. CASE OpenEdit
  <2>1. PICK s : s = IF ui.tab = "nuke" THEN ui ELSE Opened(Arg)
    OBVIOUS
  <2>2. Shows("OPEN_EDIT", <<>>, s) /\ Head(inbox).type = "OPEN_EDIT"
    BY <1>2, <2>1 DEF OpenEdit, NoEffect, Shows, Reduces
  <2>3. Arg \in Modes \ Grave
    BY <1>0, <2>2 DEF Arg, Actions, Keystrokes, Messages, Reports, Modes, Grave
  <2>4. s \in Tame
    BY <1>0, <2>1, <2>3, ScreensAre
  <2> QED BY <1>0, <2>2, <2>4, ShowsNothing DEF Closing, Returning
<1>3. CASE Type
  <2>1. PICK s : s = IF ui.draft = "none" THEN ui ELSE [ui EXCEPT !.draft = Arg]
    OBVIOUS
  <2>2. Shows("TYPE", <<>>, s) /\ Head(inbox).type = "TYPE"
    BY <1>3, <2>1 DEF Type, NoEffect, Shows, Reduces
  <2>3. Arg \in Drafts
    BY <1>0, <2>2 DEF Arg, Actions, Keystrokes, Messages, Reports, Drafts
  <2>4. s \in Tame
    BY <1>0, <2>1, <2>3 DEF Tame, Grave, Screens
  <2> QED BY <1>0, <2>2, <2>4, ShowsNothing DEF Closing, Returning
<1>4. CASE Cancel
  BY <1>0, <1>4, ScreensAre, ShowsNothing DEF Closing, Returning, Cancel, NoEffect
<1>5. CASE Submit
  <2>1. ui.walk \in 0 .. MaxWalk
    BY <1>0 DEF Screens
  <2>2. \A s \in IF ui.setup THEN Walks(ui.walk) ELSE {Closed} : s \in Tame
    BY <1>0, <2>1, ScreensAre, WalksAre
  <2>3. CASE ui.draft \in {"none", "invalid"} /\ Shows("SUBMIT", NoEffect, ui)
    BY <1>0, <2>3, ShowsNothing DEF Closing, Returning, NoEffect
  <2>4. CASE \E next \in IF ui.setup THEN Walks(ui.walk) ELSE {Closed} : Shows("SUBMIT", NoEffect, next)
    BY <1>0, <2>2, <2>4, ShowsNothing DEF Closing, Returning, NoEffect
  <2>5. CASE Writes("SUBMIT") /\ ui' \in IF ui.setup THEN Walks(ui.walk) ELSE {Closed}
    BY <1>0, <2>2, <2>5, WritesIs DEF Makes
  <2> QED BY <1>5, <2>3, <2>4, <2>5 DEF Submit
<1>6. CASE Change
  <2>1. CASE Writes("CHANGE") /\ ui' = ui
    BY <1>0, <2>1, WritesIs DEF Makes
  <2>2. CASE \E view \in {"list", "confirm"} : Shows("CHANGE", NoEffect, [Opened("users") EXCEPT !.view = view])
    <3>1. PICK view \in {"list", "confirm"} : Shows("CHANGE", <<>>, [Opened("users") EXCEPT !.view = view])
      BY <2>2 DEF NoEffect
    <3>2. PICK c \in Tame : c = Opened("users")
      BY <1>0, ScreensAre DEF Modes, Grave
    <3>3. [c EXCEPT !.view = view] \in Tame
      BY DEF Tame, Grave, Screens, Views
    <3> QED BY <1>0, <3>1, <3>2, <3>3, ShowsNothing DEF Closing, Returning
  <2>3. CASE Shows("CHANGE", NoEffect, ui)
    BY <1>0, <2>3, ShowsNothing DEF Closing, Returning, NoEffect
  <2> QED BY <1>6, <2>1, <2>2, <2>3 DEF Change
<1>7. CASE CaPick
  <2>1. CASE Shows("CA_PICK", NoEffect, Opened("edit"))
    BY <1>0, <2>1, ScreensAre, ShowsNothing DEF Closing, Returning, NoEffect, Modes, Grave
  <2>2. CASE Writes("CA_PICK") /\ ui' = Closed
    BY <1>0, <2>2, ScreensAre, WritesIs DEF Makes
  <2> QED BY <1>7, <2>1, <2>2 DEF CaPick
<1> QED BY <1>1, <1>2, <1>3, <1>4, <1>5, <1>6, <1>7

(* The keys of the list of users.                                           *)
LEMMA UsersKeysAre ==
  ASSUME TuiInv, Reducing, UsersInput \/ UsersRemove \/ UsersSubmit \/ UsersConfirm \/ UsersCancel
  PROVE  Reduced
<1>0. /\ TuiType /\ inbox # <<>> /\ phase \in {"wait", "reduce"} /\ ui \in Screens /\ ui \in Tame
      /\ Head(inbox) \in Actions
  BY HeadIs, ScreensAre DEF TuiInv, TuiType, Reducing
<1>s. Listed \in Tame /\ Closed \in Tame
  BY <1>0, ScreensAre
<1>1. CASE UsersInput
  <2>1. CASE Shows("USERS_INPUT", NoEffect, ui)
    BY <1>0, <2>1, ShowsNothing DEF Closing, Returning, NoEffect
  <2>2. CASE InUsers("list") /\ Shows("USERS_INPUT", NoEffect, [ui EXCEPT !.view = "input", !.kind = Arg,
                                                                          !.draft = IF Arg = "add" THEN "empty" ELSE "valid"])
    <3>1. Head(inbox).type = "USERS_INPUT"
      BY <2>2 DEF Shows, Reduces
    <3>2. Arg \in {"add", "rename"}
      BY <1>0, <3>1 DEF Arg, Actions, Keystrokes, Messages, Reports
    <3>3. PICK d \in Drafts, k \in Kinds : d = (IF Arg = "add" THEN "empty" ELSE "valid") /\ k = Arg
      BY <3>2 DEF Drafts, Kinds
    <3>4. [ui EXCEPT !.view = "input", !.kind = k, !.draft = d] \in Tame
      BY <1>0, <2>2 DEF Tame, Grave, Screens, Views, InUsers
    <3> QED BY <1>0, <2>2, <3>3, <3>4, ShowsNothing DEF Closing, Returning, NoEffect
  <2> QED BY <1>1, <2>1, <2>2 DEF UsersInput
<1>2. CASE UsersRemove
  <2>1. [ui EXCEPT !.view = "confirm"] \in Tame
    BY <1>0 DEF Tame, Grave, Screens, Views
  <2> QED BY <1>0, <1>2, <2>1, ShowsNothing DEF Closing, Returning, NoEffect, UsersRemove
<1>3. CASE UsersSubmit
  <2>1. [ui EXCEPT !.view = "confirm", !.draft = "none"] \in Tame
    BY <1>0 DEF Tame, Grave, Screens, Views, Drafts
  <2>2. CASE Writes("USERS_SUBMIT") /\ ui' = Listed
    BY <1>0, <1>s, <2>2, WritesIs DEF Makes
  <2>3. CASE \E s \in {ui, Listed, [ui EXCEPT !.view = "confirm", !.draft = "none"]} : Shows("USERS_SUBMIT", NoEffect, s)
    BY <1>0, <1>s, <2>1, <2>3, ShowsNothing DEF Closing, Returning, NoEffect
  <2> QED BY <1>3, <2>2, <2>3 DEF UsersSubmit
<1>4. CASE UsersConfirm
  <2>1. CASE Shows("USERS_CONFIRM", NoEffect, IF InUsers("confirm") THEN Listed ELSE ui)
    BY <1>0, <1>s, <2>1, ShowsNothing DEF Closing, Returning, NoEffect
  <2>2. CASE Writes("USERS_CONFIRM") /\ ui' = Listed
    BY <1>0, <1>s, <2>2, WritesIs DEF Makes
  <2> QED BY <1>4, <2>1, <2>2 DEF UsersConfirm
<1>5. CASE UsersCancel
  BY <1>0, <1>s, <1>5, ShowsNothing DEF Closing, Returning, NoEffect, UsersCancel
<1> QED BY <1>1, <1>2, <1>3, <1>4, <1>5

(* The keys of quick setup, the reveal, the exports, the push and the undo. *)
LEMMA OtherKeysAre ==
  ASSUME TuiInv, Reducing,
         SetupStart \/ SetupSecrets \/ RevealOpen \/ RevealConfirm \/ Quit \/ Export \/ UpdateEnvs \/ PushOpen
           \/ PushConfirm \/ Undo
  PROVE  Reduced
<1>0. /\ TuiType /\ inbox # <<>> /\ phase \in {"wait", "reduce"} /\ ui \in Screens /\ ui \in Tame
      /\ Head(inbox) \in Actions
  BY HeadIs, ScreensAre DEF TuiInv, TuiType, Reducing
<1>s. Listed \in Tame /\ Closed \in Tame
  BY <1>0, ScreensAre
<1>w. Walks(MaxWalk) \subseteq Tame
  <2>1. MaxWalk \in 0 .. MaxWalk
    BY CredTuiAssumption
  <2> QED BY <1>0, <2>1, WalksAre
<1>1. CASE SetupStart
  <2>1. PICK on : on = {[ui EXCEPT !.mode = "setup-secrets", !.setup = TRUE]} \cup Walks(MaxWalk)
    OBVIOUS
  <2>2. on \subseteq Tame
    <3>1. [ui EXCEPT !.mode = "setup-secrets", !.setup = TRUE] \in Tame
      BY <1>0 DEF Tame, Grave, Screens, Modes
    <3> QED BY <1>w, <2>1, <3>1
  <2>3. CASE Writes("SETUP_START") /\ ui' \in on
    BY <1>0, <2>2, <2>3, WritesIs DEF Makes
  <2>4. CASE \E next \in on \cup {ui} : Shows("SETUP_START", NoEffect, next)
    BY <1>0, <2>2, <2>4, ShowsNothing DEF Closing, Returning, NoEffect
  <2> QED BY <1>1, <2>1, <2>3, <2>4 DEF SetupStart
<1>2. CASE SetupSecrets
  <2>1. CASE Writes("SETUP_SECRETS") /\ ui' \in Walks(MaxWalk)
    BY <1>0, <1>w, <2>1, WritesIs DEF Makes
  <2>2. CASE \E next \in Walks(MaxWalk) : Shows("SETUP_SECRETS", NoEffect, next)
    BY <1>0, <1>w, <2>2, ShowsNothing DEF Closing, Returning, NoEffect
  <2> QED BY <1>2, <2>1, <2>2 DEF SetupSecrets
<1>3. CASE RevealOpen
  <2>1. [ui EXCEPT !.mode = "reveal-confirm"] \in Tame
    BY <1>0 DEF Tame, Grave, Screens, Modes
  <2> QED BY <1>0, <1>3, <2>1, ShowsNothing DEF Closing, Returning, NoEffect, RevealOpen
<1>e. PICK x, y \in Effects : x = Effect("exit") /\ x.type = "exit" /\ y = Effect("export-envs") /\ y.type = "export-envs"
  BY EffectIs DEF Quiet
<1>f. /\ x.type \in Quiet \ {"git-commit-push"} /\ (x.type = "restore-backup" => x.over = mem)
      /\ y.type \in Quiet \ {"git-commit-push"} /\ (y.type = "restore-backup" => y.over = mem)
  BY <1>e DEF Quiet
<1>4. CASE RevealConfirm
  <2>1. CASE Shows("REVEAL_CONFIRM", NoEffect, Closed)
    BY <1>0, <1>s, <2>1, ShowsNothing DEF Closing, Returning, NoEffect
  <2>2. CASE Shows("REVEAL_CONFIRM", <<x>>, ui)
    BY <1>0, <1>f, <2>2, ShowsOne DEF Closing, Returning
  <2> QED BY <1>4, <1>e, <2>1, <2>2 DEF RevealConfirm
<1>5. CASE Quit
  <2>1. Shows("QUIT", <<x>>, ui)
    BY <1>5, <1>e DEF Quit
  <2> QED BY <1>0, <1>f, <2>1, ShowsOne DEF Closing, Returning
<1>6. CASE Export
  <2>1. Shows("EXPORT", <<y>>, ui)
    BY <1>6, <1>e DEF Export
  <2> QED BY <1>0, <1>f, <2>1, ShowsOne DEF Closing, Returning
<1>7. CASE UpdateEnvs
  <2>1. CASE Shows("UPDATE_ENVS", <<Effect("export-envs"), Effect("check-envs")>>, ui)
    BY <1>0, <2>1, ShowsTwo DEF Closing, Returning
  <2>2. CASE Shows("UPDATE_ENVS", NoEffect, ui)
    BY <1>0, <2>2, ShowsNothing DEF Closing, Returning, NoEffect
  <2> QED BY <1>7, <2>1, <2>2 DEF UpdateEnvs
<1>8. CASE PushOpen
  <2>1. CASE Shows("PUSH_OPEN", NoEffect, ui)
    BY <1>0, <2>1, ShowsNothing DEF Closing, Returning, NoEffect
  <2>2. CASE ~ui.busy /\ Shows("PUSH_OPEN", <<>>, [ui EXCEPT !.mode = "push-confirm"])
    <3>1. PICK s \in Screens : s = [ui EXCEPT !.mode = "push-confirm"] /\ s.mode = "push-confirm" /\ s.busy = ui.busy
      <4>1. PICK s \in Screens : s = [ui EXCEPT !.mode = "push-confirm"]
        BY <1>0 DEF Screens, Modes
      <4>2. s.mode = "push-confirm" /\ s.busy = ui.busy
        BY <1>0, <4>1 DEF Screens
      <4> QED BY <4>1, <4>2
    <3>2. queue \o <<>> = queue
      BY <1>0, ConcatEmptySeq DEF TuiType
    <3> QED BY <1>0, <2>2, <3>1, <3>2 DEF Shows, Reduces, Reduced, PushOpens, Taken, Unstored
  <2> QED BY <1>8, <2>1, <2>2 DEF PushOpen, NoEffect
<1>9. CASE PushConfirm
  <2>1. CASE ui.mode = "push-confirm" /\ Shows("PUSH_CONFIRM", <<Effect("git-commit-push")>>, [Closed EXCEPT !.busy = TRUE])
    <3>1. PICK c \in Screens : c = Closed /\ c.mode = "dashboard"
      BY <1>0, <1>s DEF Closed, Tame, Screens
    <3>2. PICK s \in Screens : s = [c EXCEPT !.busy = TRUE] /\ s.mode = "dashboard" /\ s.busy = TRUE
      <4>1. PICK s \in Screens : s = [c EXCEPT !.busy = TRUE]
        BY <3>1 DEF Screens
      <4>2. s.mode = "dashboard" /\ s.busy = TRUE
        BY <3>1, <4>1 DEF Screens
      <4> QED BY <4>1, <4>2
    <3>3. PICK e \in Effects : e = Effect("git-commit-push") /\ e.type = "git-commit-push"
      BY EffectIs DEF Quiet
    <3>4. Shows("PUSH_CONFIRM", <<e>>, s)
      BY <2>1, <3>1, <3>2, <3>3
    <3>5. queue \o <<e>> = Append(queue, e)
      BY <1>0 DEF TuiType
    <3> QED BY <1>0, <2>1, <3>2, <3>3, <3>4, <3>5 DEF Shows, Reduces, Reduced, PushStarts, Taken, Unstored
  <2>2. CASE Shows("PUSH_CONFIRM", NoEffect, IF Arg = "no" THEN Closed ELSE ui)
    BY <1>0, <1>s, <2>2, ShowsNothing DEF Closing, Returning, NoEffect
  <2> QED BY <1>9, <2>1, <2>2 DEF PushConfirm
<1>10. CASE Undo
  <2>0. PICK q \in Effects : q = Effect("restore-backup") /\ q.type = "restore-backup"
    BY EffectIs DEF Quiet
  <2>1. PICK e \in Effects : e = [q EXCEPT !.over = mem] /\ e.type = "restore-backup" /\ e.over = mem
    <3>1. mem \in Stores
      BY <1>0 DEF TuiType
    <3>2. PICK e \in Effects : e = [q EXCEPT !.over = mem]
      BY <3>1 DEF Effects
    <3>3. e.type = "restore-backup" /\ e.over = mem
      BY <2>0, <3>2 DEF Effects
    <3> QED BY <3>2, <3>3
  <2>2. Shows("UNDO", <<e>>, ui)
    BY <1>10, <2>0, <2>1 DEF Undo
  <2> QED BY <1>0, <2>1, <2>2, ShowsOne DEF Closing, Returning, Quiet
<1> QED BY <1>1, <1>2, <1>3, <1>4, <1>5, <1>6, <1>7, <1>8, <1>9, <1>10

(* The keys of a nuke.                                                      *)
LEMMA NukeKeysAre ==
  ASSUME TuiInv, Reducing, NukeOpen \/ NukeCancel \/ NukeSubmit
  PROVE  Reduced
<1>0. /\ TuiType /\ inbox # <<>> /\ phase \in {"wait", "reduce"} /\ ui \in Screens /\ ui \in Tame
      /\ Head(inbox) \in Actions
  BY HeadIs, ScreensAre DEF TuiInv, TuiType, Reducing
<1>1. CASE NukeOpen
  <2>1. CASE ui.tab = "nuke"
    <3>1. PICK s : s = [ui EXCEPT !.mode = "nuke-confirm", !.kind = Arg, !.draft = "empty"]
      OBVIOUS
    <3>2. Shows("NUKE_OPEN", <<>>, s) /\ Head(inbox).type = "NUKE_OPEN"
      BY <1>1, <2>1, <3>1 DEF NukeOpen, NoEffect, Shows, Reduces
    <3>3. Arg \in Kinds
      BY <1>0, <3>2 DEF Arg, Actions, Keystrokes, Messages, Reports, Kinds
    <3>4. s \in Screens /\ s.mode = "nuke-confirm" /\ s.busy = ui.busy
      BY <1>0, <3>1, <3>3 DEF Screens, Modes, Drafts
    <3>5. queue \o <<>> = queue
      BY <1>0, ConcatEmptySeq DEF TuiType
    <3> QED BY <1>0, <3>2, <3>4, <3>5 DEF Shows, Reduces, Reduced, NukeOpens, Taken, Unstored
  <2>2. CASE ui.tab # "nuke"
    <3>1. Shows("NUKE_OPEN", <<>>, ui)
      BY <1>1, <2>2 DEF NukeOpen, NoEffect
    <3> QED BY <1>0, <3>1, ShowsNothing DEF Closing, Returning
  <2> QED BY <2>1, <2>2
<1>2. CASE NukeCancel
  BY <1>0, <1>2, ScreensAre, ShowsNothing DEF NukeCancel, NoEffect, Closing, Returning
<1>3. CASE NukeSubmit
  <2>1. CASE Shows("NUKE_SUBMIT", NoEffect, ui)
    BY <1>0, <2>1, ShowsNothing DEF NoEffect, Closing, Returning
  <2>2. ASSUME ui.mode = "nuke-confirm",
               Reduces("NUKE_SUBMIT",
                  <<[type |-> "nuke", store |-> made + 1, rollback |-> mem, kind |-> ui.kind, over |-> made + 1]>>),
               mem' = made + 1, made' = made + 1,
               ui' = [ui EXCEPT !.mode = "nuke-running", !.draft = "empty"],
               UNCHANGED crossed
        PROVE Reduced
    <3>1. Head(inbox).type = "NUKE_SUBMIT" /\ Head(inbox).type \in Makes
      BY <2>2 DEF Reduces, Makes
    <3>2. PICK m \in Stores : m = made + 1
      BY <1>0, <3>1, MadeFits
    <3>3. PICK e \in Effects : e = [type |-> "nuke", store |-> m, rollback |-> mem, kind |-> ui.kind, over |-> m]
      <4>1. ui.kind \in Kinds /\ mem \in Stores
        BY <1>0 DEF Screens, TuiType
      <4> QED BY <4>1 DEF Effects, Storing
    <3>4. e.type = "nuke" /\ e.store = m /\ e.rollback = mem /\ e.over = m /\ e.kind = ui.kind
      BY <3>3
    <3>5. queue \o <<e>> = Append(queue, e)
      BY <1>0 DEF TuiType
    <3>6. Reduces("NUKE_SUBMIT", <<e>>)
      BY <2>2, <3>2, <3>3
    <3>7. Saves(e)
      BY <2>2, <3>1, <3>2, <3>4, <3>5, <3>6 DEF Saves, Reduces, Storing
    <3>8. PICK s \in Screens : s = [ui EXCEPT !.mode = "nuke-running", !.draft = "empty"] /\ s.mode = "nuke-running" /\ s.busy = ui.busy
      <4>1. PICK s \in Screens : s = [ui EXCEPT !.mode = "nuke-running", !.draft = "empty"]
        BY <1>0 DEF Screens, Modes, Drafts
      <4>2. s.mode = "nuke-running" /\ s.busy = ui.busy
        BY <1>0, <4>1 DEF Screens
      <4> QED BY <4>1, <4>2
    <3> QED BY <1>0, <2>2, <3>1, <3>4, <3>6, <3>7, <3>8 DEF Reduced, NukeStarts, Taken, Reduces
  <2> QED BY <1>3, <2>1, <2>2 DEF NukeSubmit
<1> QED BY <1>1, <1>2, <1>3

(* A report that puts a store back.                                         *)
LEMMA ReturnsIs ==
  ASSUME TuiInv, Reducing, NEW t \in Returning, NEW s \in Screens, Returns(t, s)
  PROVE  Taken /\ PutsBack /\ Head(inbox).type = t /\ ui' = s
<1>0. TuiType /\ inbox # <<>> /\ phase \in {"wait", "reduce"}
  BY DEF TuiInv, Reducing
<1>1. queue' = queue
  <2>1. queue \o <<>> = queue
    BY <1>0, ConcatEmptySeq DEF TuiType
  <2> QED BY <2>1 DEF Returns, Reduces, NoEffect
<1> QED BY <1>0, <1>1 DEF Returns, Reduces, Taken, PutsBack

(* What the effects report.                                                 *)
LEMMA ReportsAre ==
  ASSUME TuiInv, Reducing, WriteFailed \/ UndoOk \/ NukeFailed \/ NukeOk \/ EnvsStatus \/ GitDone
  PROVE  Reduced
<1>0. /\ TuiType /\ inbox # <<>> /\ phase \in {"wait", "reduce"} /\ ui \in Screens /\ ui \in Tame
      /\ Head(inbox) \in Actions
  BY HeadIs, ScreensAre DEF TuiInv, TuiType, Reducing
<1>q. queue \o <<>> = queue
  BY <1>0, ConcatEmptySeq DEF TuiType
<1>1. CASE WriteFailed \/ UndoOk
  <2>1. Taken /\ PutsBack /\ Head(inbox).type \in {"WRITE_FAILED", "UNDO_OK"} /\ ui' = ui
    BY <1>0, <1>1, ReturnsIs DEF WriteFailed, UndoOk, Returning
  <2> QED BY <1>0, <2>1 DEF Reduced, Plain, Closing
<1>2. CASE NukeFailed
  <2>1. PICK s \in Screens : s = [ui EXCEPT !.mode = "nuke-confirm", !.draft = "empty"] /\ s.mode = "nuke-confirm" /\ s.kind = ui.kind /\ s.busy = ui.busy
    <3>1. PICK s \in Screens : s = [ui EXCEPT !.mode = "nuke-confirm", !.draft = "empty"]
      BY <1>0 DEF Screens, Modes, Drafts
    <3>2. s.mode = "nuke-confirm" /\ s.kind = ui.kind /\ s.busy = ui.busy
      BY <1>0, <3>1 DEF Screens
    <3> QED BY <3>1, <3>2
  <2>2. Taken /\ PutsBack /\ Head(inbox).type = "NUKE_FAILED" /\ ui' = s
    BY <1>2, <2>1, ReturnsIs DEF NukeFailed, Returning
  <2> QED BY <2>1, <2>2 DEF Reduced, NukeFails
<1>3. CASE NukeOk
  <2>1. PICK s \in Screens : s = [ui EXCEPT !.mode = "nuke-done"] /\ s.mode = "nuke-done" /\ s.busy = ui.busy
    <3>1. PICK s \in Screens : s = [ui EXCEPT !.mode = "nuke-done"]
      BY <1>0 DEF Screens, Modes
    <3>2. s.mode = "nuke-done" /\ s.busy = ui.busy
      BY <1>0, <3>1 DEF Screens
    <3> QED BY <3>1, <3>2
  <2> QED BY <1>0, <1>3, <1>q, <2>1 DEF NukeOk, NoEffect, Shows, Reduces, Reduced, NukeEnds, Taken, Unstored
<1>4. CASE EnvsStatus
  <2>1. PICK s : s = IF ui.tab = "envs" THEN [ui EXCEPT !.envs = Arg] ELSE ui
    OBVIOUS
  <2>2. Shows("ENVS_STATUS", <<>>, s) /\ Head(inbox).type = "ENVS_STATUS"
    BY <1>4, <2>1 DEF EnvsStatus, NoEffect, Shows, Reduces
  <2>3. Arg \in Statuses
    BY <1>0, <2>2 DEF Arg, Actions, Keystrokes, Messages, KeyTypes
  <2>4. s \in Tame
    BY <1>0, <2>1, <2>3 DEF Tame, Grave, Screens
  <2> QED BY <1>0, <2>2, <2>4, ShowsNothing DEF Closing, Returning
<1>5. CASE GitDone
  <2>1. PICK s \in Screens : s = [ui EXCEPT !.busy = FALSE] /\ s.busy = FALSE /\ s.mode = ui.mode /\ s.kind = ui.kind
    <3>1. PICK s \in Screens : s = [ui EXCEPT !.busy = FALSE]
      BY <1>0 DEF Screens
    <3>2. s.busy = FALSE /\ s.mode = ui.mode /\ s.kind = ui.kind
      BY <1>0, <3>1 DEF Screens
    <3> QED BY <3>1, <3>2
  <2> QED BY <1>0, <1>5, <1>q, <2>1 DEF GitDone, NoEffect, Shows, Reduces, Reduced, PushEnds, Taken, Unstored
<1> QED BY <1>1, <1>2, <1>3, <1>4, <1>5

(* Every branch of the reducer is one of the few things a reduction does to *)
(* the queue, the stores and the screen.                                    *)
LEMMA ReductionIs == TuiInv /\ Reduction => Reduced
<1> SUFFICES ASSUME TuiInv, Reduction PROVE Reduced
  OBVIOUS
<1>1. Reducing
  BY DEF Reduction, Reducing
<1> QED BY <1>1, FieldKeysAre, UsersKeysAre, OtherKeysAre, NukeKeysAre, ReportsAre DEF Reduction

(***************************************************************************)
(* The files and the operations on them.                                   *)
(***************************************************************************)

(* What the calls of a file are made of.                                    *)
LEMMA CallsAre ==
  ASSUME NEW f \in Files, NEW v \in FileValues, Fits(f, v)
  PROVE  /\ Copy(f, v) \in Seq(Calls) /\ Rewrite(f, v) \in Seq(Calls) /\ Put(f, v) \in Seq(Calls)
         /\ Unlink(f) \in Seq(Calls)
<1>1. Torn \in FileValues /\ Missing \in FileValues /\ Fits(f, Torn) /\ Fits(f, Missing)
  BY DEF FileValues, Fits, Content
<1>2. ASSUME NEW c \in {"cut", "copy", "write", "put", "unlink"}, NEW w \in FileValues, Fits(f, w)
      PROVE  [call |-> c, file |-> f, value |-> w] \in Calls
  BY <1>2 DEF Calls
<1>3. PICK a, b, c, d, e \in Calls :
        /\ a = [call |-> "cut", file |-> f, value |-> Torn]
        /\ b = [call |-> "copy", file |-> f, value |-> v]
        /\ c = [call |-> "write", file |-> f, value |-> v]
        /\ d = [call |-> "put", file |-> f, value |-> v]
        /\ e = [call |-> "unlink", file |-> f, value |-> Missing]
  BY <1>1, <1>2
<1>4. <<a, b>> \in Seq(Calls) /\ <<a, c>> \in Seq(Calls) /\ <<d>> \in Seq(Calls) /\ <<e>> \in Seq(Calls)
  OBVIOUS
<1> QED BY <1>3, <1>4 DEF Copy, Rewrite, Put, Unlink, Cut

(* What each file holds.                                                    *)
LEMMA DiskIs ==
  ASSUME NEW d \in Disks
  PROVE  /\ d.store \in Content /\ d.bak \in Content
         /\ d.keys \in Keyrings \cup {Missing, Torn} /\ d.env \in Keyrings \cup {Missing, Torn}
         /\ d.cipher \in Ciphers \cup {Missing, Torn}
         /\ \A f \in Files : d[f] \in FileValues /\ Fits(f, d[f])
BY DEF Disks, Fits, Files

(* Rewriting the ciphertext is made of calls (writeSecretsFile).            *)
LEMMA CipherPlanIs ==
  ASSUME NEW s \in Stores, NEW k \in Keyrings \cup {Missing, Torn}, Whole(k)
  PROVE  CipherPlan(s, k) \in Seq(Calls)
<1>1. PICK v : v = [store |-> s, keys |-> k]
  OBVIOUS
<1>2. v \in Ciphers
  BY <1>1 DEF Ciphers, Whole
<1>3. "cipher" \in Files /\ v \in FileValues /\ Fits("cipher", v)
  BY <1>2 DEF Files, FileValues, Fits
<1> QED BY <1>1, <1>3, CallsAre DEF CipherPlan

(* Replacing the store is made of calls (writeStore).                       *)
LEMMA StorePlanIs ==
  ASSUME disk \in Disks, NEW s \in Content
  PROVE  StorePlan(s) \in Seq(Calls)
<1>1. "store" \in Files /\ "bak" \in Files /\ s \in FileValues /\ Fits("store", s)
  BY DEF Files, FileValues, Fits, Content
<1>2. PICK p \in Seq(Calls) : p = Put("store", s)
  BY <1>1, CallsAre
<1>3. disk.store \in FileValues /\ Fits("bak", disk.store)
  BY DiskIs DEF FileValues, Fits, Content
<1>4. PICK q \in Seq(Calls) : q = Copy("bak", disk.store)
  BY <1>1, <1>3, CallsAre
<1>5. PICK r \in Seq(Calls) : r = IF disk.store = Missing THEN <<>> ELSE Copy("bak", disk.store)
  <2>1. <<>> \in Seq(Calls)
    OBVIOUS
  <2> QED BY <1>4, <2>1
<1>6. r \o p \in Seq(Calls)
  OBVIOUS
<1> QED BY <1>2, <1>5, <1>6 DEF StorePlan

(* An operation has the type of one.                                        *)
LEMMA JobIs ==
  ASSUME disk \in Disks, NEW k \in JobKinds, NEW p \in Seq(Calls), NEW s \in Stores, NEW q \in Seq(Files)
  PROVE  Job(k, p, s, q) \in Jobs
<1>1. disk \in Disks \cup {Missing}
  OBVIOUS
<1> QED BY <1>1 DEF Job, Jobs

(* No operation has it too.                                                 *)
LEMMA IdleIs == Idle \in Jobs /\ Idle.kind = "idle"
<1>1. 0 \in Stores /\ <<>> \in Seq(Calls) /\ <<>> \in Seq(Files)
  BY CredStoreAssumption DEF Stores
<1> QED BY <1>1 DEF Idle, Jobs, JobKinds

(* Putting files back is made of calls (restoreSnapshot).                   *)
LEMMA RestorePlanIs ==
  ASSUME NEW paths \in Seq(Files), NEW now \in Disks, NEW then \in Disks
  PROVE  RestorePlan(paths, now, then) \in Seq(Calls)
<1>1. PICK P : P = Seq(Calls)
  OBVIOUS
<1>2. PICK n \in Nat : n = Len(paths) /\ DOMAIN paths = 1..n
  OBVIOUS
<1>3. PICK c : c = [i \in DOMAIN paths |->
        LET f == paths[i] IN
        IF then[f] # Missing THEN Rewrite(f, then[f])
        ELSE IF now[f] # Missing THEN Unlink(f) ELSE <<>>]
  OBVIOUS
<1>4. \A i \in 1..n : c[i] \in P
  <2> SUFFICES ASSUME NEW i \in 1..n PROVE c[i] \in P
    OBVIOUS
  <2>1. PICK f \in Files : f = paths[i]
    BY <1>2
  <2>2. then[f] \in FileValues /\ Fits(f, then[f])
    BY DiskIs
  <2>3. Rewrite(f, then[f]) \in P /\ Unlink(f) \in P /\ <<>> \in P
    BY <1>1, <2>2, CallsAre
  <2>4. c[i] = IF then[f] # Missing THEN Rewrite(f, then[f])
               ELSE IF now[f] # Missing THEN Unlink(f) ELSE <<>>
    BY <1>2, <1>3, <2>1
  <2> QED BY <2>3, <2>4
<1>5. c \in Seq(P)
  <2>1. DOMAIN c = 1..n /\ c = [i \in 1..n |-> c[i]]
    BY <1>2, <1>3
  <2> QED BY <1>4, <2>1
<1> QED BY <1>1, <1>3, <1>5, FlatType DEF RestorePlan

(* Leaving out a file's calls leaves calls.                                 *)
LEMMA WithoutIs ==
  ASSUME NEW plan \in Seq(Calls), NEW file
  PROVE  Without(plan, file) \in Seq(Calls)
<1>1. PICK P : P = Seq(Calls)
  OBVIOUS
<1>2. PICK n \in Nat : n = Len(plan) /\ DOMAIN plan = 1..n
  OBVIOUS
<1>3. PICK c : c = [i \in DOMAIN plan |-> IF plan[i].file = file THEN <<>> ELSE <<plan[i]>>]
  OBVIOUS
<1>4. \A i \in 1..n : c[i] \in P
  BY <1>1, <1>2, <1>3
<1>5. c \in Seq(P)
  <2>1. DOMAIN c = 1..n /\ c = [i \in 1..n |-> c[i]]
    BY <1>2, <1>3
  <2> QED BY <1>4, <2>1
<1> QED BY <1>1, <1>3, <1>5, FlatType DEF Without

(***************************************************************************)
(* How far an operation is: p is what is left of its plan, old the files   *)
(* it began with, d the files there are.                                   *)
(***************************************************************************)

CutBak == [call |-> "cut", file |-> "bak", value |-> Torn]
CopyBak(v) == [call |-> "copy", file |-> "bak", value |-> v]
PutStore(s) == [call |-> "put", file |-> "store", value |-> s]
CutStore == [call |-> "cut", file |-> "store", value |-> Torn]
CopyStore(v) == [call |-> "copy", file |-> "store", value |-> v]

(* From the k-th call on the plan leaves the store and its backup alone. *)
Beyond(p, k) == \A i \in DOMAIN p : i > k => p[i].file \notin {"store", "bak"}

(* The backup that the change of a store leaves. *)
Backed(old) == IF old.store = Missing THEN old.bak ELSE old.store

Cutting(p, old, d, s) ==
  /\ d.store = old.store /\ d.bak = old.bak /\ old.store # Missing
  /\ Len(p) >= 3 /\ p[1] = CutBak /\ p[2] = CopyBak(old.store) /\ p[3] = PutStore(s) /\ Beyond(p, 3)
Copying(p, old, d, s) ==
  /\ d.store = old.store /\ d.bak = Torn /\ old.store # Missing
  /\ Len(p) >= 2 /\ p[1] = CopyBak(old.store) /\ p[2] = PutStore(s) /\ Beyond(p, 2)
Putting(p, old, d, s) ==
  /\ d.store = old.store /\ d.bak = Backed(old)
  /\ Len(p) >= 1 /\ p[1] = PutStore(s) /\ Beyond(p, 1)
Stored(p, old, d, s) ==
  /\ d.store = s /\ d.bak = Backed(old) /\ Beyond(p, 0)
Saving(p, old, d, s) == Cutting(p, old, d, s) \/ Copying(p, old, d, s) \/ Putting(p, old, d, s) \/ Stored(p, old, d, s)

Undoing(p, old, d) ==
  /\ old.bak # Missing /\ d.bak = old.bak
  /\ \/ d.store = old.store /\ p = <<CutStore, CopyStore(old.bak)>>
     \/ d.store = Torn /\ p = <<CopyStore(old.bak)>>
     \/ d.store = old.bak /\ p = <<>>

Sparing(p, old, d) == d.store = old.store /\ d.bak = old.bak /\ Beyond(p, 0)

(* When the plan is done f holds v. *)
EndsIn(p, d, f, v) ==
  \/ d[f] = v /\ \A j \in DOMAIN p : p[j].file # f
  \/ \E i \in DOMAIN p : p[i].file = f /\ p[i].value = v /\ \A j \in DOMAIN p : j > i => p[j].file # f

After(d, c) == [d EXCEPT ![c.file] = c.value]

(* After a call the files are files.                                        *)
LEMMA AfterIs ==
  ASSUME NEW d \in Disks, NEW c \in Calls
  PROVE  After(d, c) \in Disks
<1>1. c.file \in Files /\ c.value \in FileValues /\ Fits(c.file, c.value)
  BY DEF Calls
<1>2. After(d, c) \in [Files -> FileValues]
  BY <1>1 DEF After, Disks
<1>3. \A f \in Files : Fits(f, After(d, c)[f])
  <2> SUFFICES ASSUME NEW f \in Files PROVE Fits(f, After(d, c)[f])
    OBVIOUS
  <2>1. After(d, c)[f] = IF f = c.file THEN c.value ELSE d[f]
    BY <1>1 DEF After, Disks
  <2>2. Fits(f, d[f])
    BY DiskIs
  <2> QED BY <1>1, <2>1, <2>2
<1> QED BY <1>2, <1>3 DEF Disks

(* A call changes its own file.                                             *)
LEMMA HeldAfter ==
  ASSUME NEW d \in Disks, NEW c \in Calls
  PROVE  \A f \in Files : After(d, c)[f] = IF f = c.file THEN c.value ELSE d[f]
BY DEF After, Disks, Calls

(* The first of a sequence and the rest of it.                              *)
LEMMA TailIs ==
  ASSUME NEW S, NEW p \in Seq(S), p # <<>>
  PROVE  /\ Head(p) = p[1] /\ Head(p) \in S /\ Tail(p) \in Seq(S)
         /\ Len(p) \in Nat /\ Len(p) >= 1 /\ Len(Tail(p)) = Len(p) - 1
         /\ DOMAIN p = 1 .. Len(p) /\ DOMAIN Tail(p) = 1 .. (Len(p) - 1)
         /\ \A i \in 1 .. (Len(p) - 1) : Tail(p)[i] = p[i + 1] /\ i + 1 \in 1 .. Len(p)
OBVIOUS

(* A plan that leaves the store alone after its k + 1 first calls does so   *)
(* after k when the first is done.                                          *)
LEMMA BeyondTail ==
  ASSUME NEW p \in Seq(Calls), p # <<>>, NEW k \in Nat, Beyond(p, k + 1)
  PROVE  Beyond(Tail(p), k)
BY TailIs DEF Beyond

(* A call of a save that succeeds moves it one stage on (writeStore).       *)
LEMMA SavingCall ==
  ASSUME NEW p \in Seq(Calls), p # <<>>, NEW old, NEW d \in Disks, NEW s, Saving(p, old, d, s)
  PROVE  Saving(Tail(p), old, After(d, Head(p)), s)
<1>0. PICK c \in Calls : c = Head(p) /\ c = p[1]
  BY TailIs
<1>1. PICK e \in Disks : e = After(d, c)
  BY AfterIs
<1>2. \A f \in Files : e[f] = IF f = c.file THEN c.value ELSE d[f]
  BY <1>1, HeldAfter
<1>3. e.store = (IF "store" = c.file THEN c.value ELSE d.store) /\ e.bak = (IF "bak" = c.file THEN c.value ELSE d.bak)
  BY <1>2 DEF Files
<1>t. PICK q \in Seq(Calls) : q = Tail(p) /\ Len(q) = Len(p) - 1 /\ Len(p) \in Nat
                              /\ \A i \in 1 .. (Len(p) - 1) : q[i] = p[i + 1]
  <2>1. Tail(p) \in Seq(Calls) /\ Len(Tail(p)) = Len(p) - 1 /\ Len(p) \in Nat
    BY TailIs
  <2>2. \A i \in 1 .. (Len(p) - 1) : Tail(p)[i] = p[i + 1]
    BY TailIs
  <2> QED BY <2>1, <2>2
<1>4. CASE Cutting(p, old, d, s)
  <2>1. c.file = "bak" /\ c.value = Torn
    BY <1>0, <1>4 DEF Cutting, CutBak
  <2>2. q[1] = p[2] /\ q[2] = p[3] /\ Len(q) >= 2
    BY <1>t, <1>4 DEF Cutting
  <2>3. Beyond(q, 2)
    BY <1>t, <1>4, BeyondTail DEF Cutting
  <2>4. Copying(q, old, e, s)
    BY <1>3, <1>4, <2>1, <2>2, <2>3 DEF Cutting, Copying
  <2> QED BY <1>0, <1>1, <1>t, <2>4 DEF Saving
<1>5. CASE Copying(p, old, d, s)
  <2>1. c.file = "bak" /\ c.value = old.store
    BY <1>0, <1>5 DEF Copying, CopyBak
  <2>2. q[1] = p[2] /\ Len(q) >= 1
    BY <1>t, <1>5 DEF Copying
  <2>3. Beyond(q, 1)
    BY <1>t, <1>5, BeyondTail DEF Copying
  <2>4. Putting(q, old, e, s)
    BY <1>3, <1>5, <2>1, <2>2, <2>3 DEF Copying, Putting, Backed
  <2> QED BY <1>0, <1>1, <1>t, <2>4 DEF Saving
<1>6. CASE Putting(p, old, d, s)
  <2>1. c.file = "store" /\ c.value = s
    BY <1>0, <1>6 DEF Putting, PutStore
  <2>3. Beyond(q, 0)
    BY <1>t, <1>6, BeyondTail DEF Putting
  <2>4. Stored(q, old, e, s)
    BY <1>3, <1>6, <2>1, <2>3 DEF Putting, Stored
  <2> QED BY <1>0, <1>1, <1>t, <2>4 DEF Saving
<1>7. CASE Stored(p, old, d, s)
  <2>1. c.file \notin {"store", "bak"}
    BY <1>0, <1>7, TailIs DEF Stored, Beyond
  <2>3. Beyond(q, 0)
    <3>1. Beyond(p, 0 + 1)
      BY <1>7 DEF Stored, Beyond
    <3> QED BY <1>t, <3>1, BeyondTail
  <2>4. Stored(q, old, e, s)
    BY <1>3, <1>7, <2>1, <2>3 DEF Stored
  <2> QED BY <1>0, <1>1, <1>t, <2>4 DEF Saving
<1> QED BY <1>4, <1>5, <1>6, <1>7 DEF Saving

(* So does a call of an undo (restoreBackup).                               *)
LEMMA UndoingCall ==
  ASSUME NEW p \in Seq(Calls), p # <<>>, NEW old, NEW d \in Disks, Undoing(p, old, d)
  PROVE  Undoing(Tail(p), old, After(d, Head(p)))
<1>0. PICK c \in Calls : c = Head(p) /\ c = p[1]
  BY TailIs
<1>1. PICK e \in Disks : e = After(d, c)
  BY AfterIs
<1>2. \A f \in Files : e[f] = IF f = c.file THEN c.value ELSE d[f]
  BY <1>1, HeldAfter
<1>3. e.store = (IF "store" = c.file THEN c.value ELSE d.store) /\ e.bak = (IF "bak" = c.file THEN c.value ELSE d.bak)
  BY <1>2 DEF Files
<1>4. CASE d.store = old.store /\ p = <<CutStore, CopyStore(old.bak)>>
  <2>1. c = CutStore /\ Tail(p) = <<CopyStore(old.bak)>>
    BY <1>0, <1>4
  <2>2. c.file = "store" /\ c.value = Torn
    BY <2>1 DEF CutStore
  <2>3. e.store = Torn /\ e.bak = old.bak
    BY <1>3, <2>2 DEF Undoing
  <2> QED BY <1>0, <1>1, <2>1, <2>3 DEF Undoing
<1>5. CASE d.store = Torn /\ p = <<CopyStore(old.bak)>>
  <2>1. c = CopyStore(old.bak) /\ Tail(p) = <<>>
    BY <1>0, <1>5
  <2>2. c.file = "store" /\ c.value = old.bak
    BY <2>1 DEF CopyStore
  <2>3. e.store = old.bak /\ e.bak = old.bak
    BY <1>3, <2>2 DEF Undoing
  <2> QED BY <1>0, <1>1, <2>1, <2>3 DEF Undoing
<1> QED BY <1>4, <1>5 DEF Undoing

(* A call on another file leaves the store and its backup alone.            *)
LEMMA SparingCall ==
  ASSUME NEW p \in Seq(Calls), p # <<>>, NEW old, NEW d \in Disks, Sparing(p, old, d)
  PROVE  Sparing(Tail(p), old, After(d, Head(p)))
<1>0. PICK c \in Calls : c = Head(p) /\ c = p[1]
  BY TailIs
<1>1. PICK e \in Disks : e = After(d, c)
  BY AfterIs
<1>2. \A f \in Files : e[f] = IF f = c.file THEN c.value ELSE d[f]
  BY <1>1, HeldAfter
<1>3. c.file \notin {"store", "bak"}
  BY <1>0, TailIs DEF Sparing, Beyond
<1>4. e.store = d.store /\ e.bak = d.bak
  BY <1>2, <1>3 DEF Files
<1>5. Beyond(Tail(p), 0)
  <2>1. Beyond(p, 0 + 1)
    BY DEF Sparing, Beyond
  <2> QED BY <2>1, BeyondTail
<1> QED BY <1>0, <1>1, <1>4, <1>5 DEF Sparing

(* A call brings a file nearer to what it is to hold.                       *)
LEMMA EndsCall ==
  ASSUME NEW p \in Seq(Calls), p # <<>>, NEW d \in Disks, NEW f \in Files, NEW v, EndsIn(p, d, f, v)
  PROVE  EndsIn(Tail(p), After(d, Head(p)), f, v)
<1>0. PICK c \in Calls : c = Head(p) /\ c = p[1]
  BY TailIs
<1>1. PICK e \in Disks : e = After(d, c)
  BY AfterIs
<1>2. e[f] = IF f = c.file THEN c.value ELSE d[f]
  BY <1>1, HeldAfter
<1>n. PICK n \in Nat : Len(p) = n + 1
  <2>1. Len(p) - 1 \in Nat /\ Len(p) = (Len(p) - 1) + 1
    BY TailIs
  <2> QED BY <2>1
<1>m. n = Len(p) - 1
  BY <1>n
<1>t. PICK q \in Seq(Calls) :
        /\ q = Tail(p) /\ DOMAIN p = 1 .. (n + 1) /\ DOMAIN q = 1 .. n
        /\ \A i \in 1 .. n : q[i] = p[i + 1]
  <2>1. Tail(p) \in Seq(Calls) /\ DOMAIN p = 1 .. (n + 1) /\ DOMAIN Tail(p) = 1 .. n
    BY <1>n, <1>m, TailIs
  <2>2. \A i \in 1 .. n : Tail(p)[i] = p[i + 1]
    BY <1>m, TailIs
  <2> QED BY <2>1, <2>2
<1>3. CASE d[f] = v /\ \A j \in DOMAIN p : p[j].file # f
  <2>1. c.file # f
    BY <1>0, <1>t, <1>3
  <2>2. \A j \in 1 .. n : q[j].file # f
    BY <1>t, <1>3
  <2> QED BY <1>0, <1>1, <1>2, <1>3, <1>t, <2>1, <2>2 DEF EndsIn
<1>4. ASSUME NEW i \in DOMAIN p, p[i].file = f, p[i].value = v, \A j \in DOMAIN p : j > i => p[j].file # f
      PROVE  EndsIn(q, e, f, v)
  <2>1. CASE i = 1
    <3>1. e[f] = v
      BY <1>0, <1>2, <1>4, <2>1
    <3>2. \A j \in 1 .. n : q[j].file # f
      BY <1>t, <1>4, <2>1
    <3> QED BY <1>t, <3>1, <3>2 DEF EndsIn
  <2>2. CASE i # 1
    <3>1. PICK k \in 1 .. n : i = k + 1
      <4>1. i - 1 \in 1 .. n /\ i = (i - 1) + 1
        BY <1>t, <2>2
      <4> QED BY <4>1
    <3>2. q[k].file = f /\ q[k].value = v
      BY <1>t, <1>4, <3>1
    <3>3. \A j \in 1 .. n : j > k => q[j].file # f
      BY <1>t, <1>4, <3>1
    <3>4. k \in DOMAIN q /\ \A j \in DOMAIN q : j > k => q[j].file # f
      BY <1>t, <3>3
    <3> QED BY <3>2, <3>4 DEF EndsIn
  <2> QED BY <2>1, <2>2
<1> QED BY <1>0, <1>1, <1>t, <1>3, <1>4 DEF EndsIn

(***************************************************************************)
(* A nuke puts its files back.                                             *)
(***************************************************************************)

(* What restoreSnapshot does to one file. *)
Piece(f, now, then) ==
  IF then[f] # Missing THEN Rewrite(f, then[f]) ELSE IF now[f] # Missing THEN Unlink(f) ELSE <<>>

Pieces(paths, now, then) == [i \in DOMAIN paths |-> Piece(paths[i], now, then)]

(* p puts back the files of Q, and leaves the others alone. *)
PutsBackAll(Q, p, now, then) ==
  /\ \A i \in DOMAIN p : p[i].file \in Q
  /\ \A f \in Q : EndsIn(p, now, f, then[f])

NukePaths == {<<"bak", "store">>, <<"cipher", "bak", "store">>, <<"cipher", "keys", "bak", "store">>}

(* Putting files back is one piece per path.                                *)
LEMMA PlanIsPieces == \A paths, now, then : RestorePlan(paths, now, then) = FlattenSeq(Pieces(paths, now, then))
BY DEF RestorePlan, Pieces, Piece

(* A piece works on its own file, which ends as it was.                     *)
LEMMA PieceIs ==
  ASSUME NEW f \in Files, NEW now \in Disks, NEW then \in Disks
  PROVE  /\ Piece(f, now, then) \in Seq(Calls)
         /\ \A i \in DOMAIN Piece(f, now, then) : Piece(f, now, then)[i].file = f
         /\ EndsIn(Piece(f, now, then), now, f, then[f])
<1>1. PICK v \in FileValues : v = then[f] /\ Fits(f, v)
  BY DiskIs
<1>2. Rewrite(f, v) \in Seq(Calls) /\ Unlink(f) \in Seq(Calls)
  BY <1>1, CallsAre
<1>3. CASE v # Missing
  <2>1. PICK x \in Seq(Calls) : x = Rewrite(f, v)
    BY <1>2
  <2>2. Piece(f, now, then) = x
    BY <1>1, <1>3, <2>1 DEF Piece
  <2>3. DOMAIN x = 1 .. 2 /\ x[1].file = f /\ x[2].file = f /\ x[2].value = v
    BY <2>1 DEF Rewrite, Cut
  <2>4. \A j \in DOMAIN x : ~(j > 2)
    BY <2>3
  <2>5. 2 \in DOMAIN x /\ \A i \in DOMAIN x : x[i].file = f
    BY <2>3
  <2> QED BY <1>1, <2>2, <2>3, <2>4, <2>5 DEF EndsIn
<1>4. CASE v = Missing /\ now[f] # Missing
  <2>1. PICK x \in Seq(Calls) : x = Unlink(f)
    BY <1>2
  <2>2. Piece(f, now, then) = x
    BY <1>1, <1>4, <2>1 DEF Piece
  <2>3. DOMAIN x = 1 .. 1 /\ x[1].file = f /\ x[1].value = v
    BY <1>4, <2>1 DEF Unlink
  <2>4. \A j \in DOMAIN x : ~(j > 1)
    BY <2>3
  <2>5. 1 \in DOMAIN x /\ \A i \in DOMAIN x : x[i].file = f
    BY <2>3
  <2> QED BY <1>1, <2>2, <2>3, <2>4, <2>5 DEF EndsIn
<1>5. CASE v = Missing /\ now[f] = Missing
  <2>1. Piece(f, now, then) = <<>>
    BY <1>1, <1>5 DEF Piece
  <2>2. <<>> \in Seq(Calls) /\ DOMAIN <<>> = {}
    OBVIOUS
  <2>3. EndsIn(<<>>, now, f, v)
    BY <1>5, <2>2 DEF EndsIn
  <2> QED BY <1>1, <2>1, <2>2, <2>3
<1> QED BY <1>3, <1>4, <1>5

(* The elements of a concatenation. *)
Joined(r, p, x, n, m) ==
  /\ DOMAIN r = 1 .. (n + m) /\ DOMAIN p = 1 .. n /\ DOMAIN x = 1 .. m
  /\ \A i \in 1 .. n : r[i] = p[i] /\ i \in 1 .. (n + m)
  /\ \A i \in 1 .. m : r[n + i] = x[i] /\ n + i \in 1 .. (n + m)
  /\ \A k \in 1 .. (n + m) : k \notin 1 .. n => \E i \in 1 .. m : k = n + i

(* One plan after another.                                                  *)
LEMMA ConcatIs ==
  ASSUME NEW S, NEW p \in Seq(S), NEW x \in Seq(S)
  PROVE  \E r \in Seq(S), n \in Nat, m \in Nat : r = p \o x /\ Joined(r, p, x, n, m)
<1>0. PICK n, m \in Nat : n = Len(p) /\ m = Len(x)
  OBVIOUS
<1>1. \A k \in 1 .. (n + m) : k \notin 1 .. n => \E i \in 1 .. m : k = n + i
  <2> SUFFICES ASSUME NEW k \in 1 .. (n + m), k \notin 1 .. n PROVE \E i \in 1 .. m : k = n + i
    OBVIOUS
  <2>1. k - n \in 1 .. m /\ k = n + (k - n)
    OBVIOUS
  <2> QED BY <2>1
<1>2. PICK r : r = p \o x
  OBVIOUS
<1>3. r \in Seq(S) /\ DOMAIN r = 1 .. (n + m) /\ DOMAIN p = 1 .. n /\ DOMAIN x = 1 .. m
  BY <1>0, <1>2
<1>4. \A i \in 1 .. n : r[i] = p[i] /\ i \in 1 .. (n + m)
  BY <1>0, <1>2
<1>5. \A i \in 1 .. m : r[n + i] = x[i] /\ n + i \in 1 .. (n + m)
  BY <1>0, <1>2
<1>6. Joined(r, p, x, n, m)
  BY <1>1, <1>3, <1>4, <1>5 DEF Joined
<1> QED BY <1>2, <1>3, <1>6

(* What a concatenation ends in: what the second ends in, or the first when the second leaves f alone. *)
LEMMA EndsConcat ==
  ASSUME NEW p \in Seq(Calls), NEW x \in Seq(Calls), NEW d, NEW f, NEW v
  PROVE  /\ EndsIn(p, d, f, v) /\ (\A i \in DOMAIN x : x[i].file # f) => EndsIn(p \o x, d, f, v)
         /\ EndsIn(x, d, f, v) /\ (\A i \in DOMAIN p : p[i].file # f) => EndsIn(p \o x, d, f, v)
<1>1. PICK r \in Seq(Calls), n \in Nat, m \in Nat : r = p \o x /\ Joined(r, p, x, n, m)
  BY ConcatIs
<1>2. r = p \o x
  BY <1>1
<1>3. /\ DOMAIN r = 1 .. (n + m) /\ DOMAIN p = 1 .. n /\ DOMAIN x = 1 .. m
      /\ \A i \in 1 .. n : r[i] = p[i] /\ i \in 1 .. (n + m)
      /\ \A i \in 1 .. m : r[n + i] = x[i] /\ n + i \in 1 .. (n + m)
      /\ \A k \in 1 .. (n + m) : k \notin 1 .. n => \E i \in 1 .. m : k = n + i
  BY <1>1 DEF Joined
<1>4. ASSUME EndsIn(p, d, f, v), \A i \in DOMAIN x : x[i].file # f
      PROVE  EndsIn(r, d, f, v)
  <2>1. CASE d[f] = v /\ \A j \in DOMAIN p : p[j].file # f
    <3>1. \A j \in 1 .. (n + m) : r[j].file # f
      <4> SUFFICES ASSUME NEW j \in 1 .. (n + m) PROVE r[j].file # f
        OBVIOUS
      <4>1. CASE j \in 1 .. n
        BY <1>3, <2>1, <4>1
      <4>2. CASE j \notin 1 .. n
        <5>1. PICK h \in 1 .. m : j = n + h
          BY <1>3, <4>2
        <5>2. r[n + h] = x[h]
          BY <1>3
        <5>3. x[h].file # f
          BY <1>3, <1>4
        <5> QED BY <5>1, <5>2, <5>3
      <4> QED BY <4>1, <4>2
    <3> QED BY <1>3, <2>1, <3>1 DEF EndsIn
  <2>2. ASSUME NEW i \in DOMAIN p, p[i].file = f, p[i].value = v, \A j \in DOMAIN p : j > i => p[j].file # f
        PROVE  EndsIn(r, d, f, v)
    <3>1. i \in 1 .. (n + m) /\ r[i].file = f /\ r[i].value = v
      BY <1>3, <2>2
    <3>2. \A j \in 1 .. (n + m) : j > i => r[j].file # f
      <4> SUFFICES ASSUME NEW j \in 1 .. (n + m), j > i PROVE r[j].file # f
        OBVIOUS
      <4>1. CASE j \in 1 .. n
        BY <1>3, <2>2, <4>1
      <4>2. CASE j \notin 1 .. n
        <5>1. PICK h \in 1 .. m : j = n + h
          BY <1>3, <4>2
        <5>2. r[n + h] = x[h]
          BY <1>3
        <5>3. x[h].file # f
          BY <1>3, <1>4
        <5> QED BY <5>1, <5>2, <5>3
      <4> QED BY <4>1, <4>2
    <3> QED BY <1>3, <3>1, <3>2 DEF EndsIn
  <2> QED BY <1>4, <2>1, <2>2 DEF EndsIn
<1>5. ASSUME EndsIn(x, d, f, v), \A i \in DOMAIN p : p[i].file # f
      PROVE  EndsIn(r, d, f, v)
  <2>1. CASE d[f] = v /\ \A j \in DOMAIN x : x[j].file # f
    <3>1. \A j \in 1 .. (n + m) : r[j].file # f
      <4> SUFFICES ASSUME NEW j \in 1 .. (n + m) PROVE r[j].file # f
        OBVIOUS
      <4>1. CASE j \in 1 .. n
        BY <1>3, <1>5, <4>1
      <4>2. CASE j \notin 1 .. n
        <5>1. PICK h \in 1 .. m : j = n + h
          BY <1>3, <4>2
        <5>2. r[n + h] = x[h]
          BY <1>3
        <5>3. x[h].file # f
          BY <1>3, <2>1
        <5> QED BY <5>1, <5>2, <5>3
      <4> QED BY <4>1, <4>2
    <3> QED BY <1>3, <2>1, <3>1 DEF EndsIn
  <2>2. ASSUME NEW i \in DOMAIN x, x[i].file = f, x[i].value = v, \A j \in DOMAIN x : j > i => x[j].file # f
        PROVE  EndsIn(r, d, f, v)
    <3>1. i \in 1 .. m
      BY <1>3, <2>2
    <3>2. PICK k \in 1 .. (n + m) : k = n + i
      BY <1>3, <3>1
    <3>3. r[k].file = f /\ r[k].value = v
      BY <1>3, <2>2, <3>1, <3>2
    <3>4. \A j \in 1 .. (n + m) : j > k => r[j].file # f
      <4> SUFFICES ASSUME NEW j \in 1 .. (n + m), j > k PROVE r[j].file # f
        OBVIOUS
      <4>1. j \notin 1 .. n
        BY <3>1, <3>2
      <4>2. PICK h \in 1 .. m : j = n + h
        BY <1>3, <4>1
      <4>3. h > i
        BY <3>1, <3>2, <4>2
      <4>4. r[n + h] = x[h]
        BY <1>3
      <4>5. x[h].file # f
        BY <1>3, <2>2, <4>3
      <4> QED BY <4>2, <4>4, <4>5
    <3> QED BY <1>3, <3>3, <3>4 DEF EndsIn
  <2> QED BY <1>5, <2>1, <2>2 DEF EndsIn
<1> QED BY <1>2, <1>4, <1>5

(* One more path is one more file that ends as it was.                      *)
LEMMA RestoreMore ==
  ASSUME NEW paths \in Seq(Files), NEW g \in Files, NEW now \in Disks, NEW then \in Disks,
         NEW Q \in SUBSET Files, g \notin Q, PutsBackAll(Q, RestorePlan(paths, now, then), now, then)
  PROVE  PutsBackAll(Q \cup {g}, RestorePlan(Append(paths, g), now, then), now, then)
<1>1. PICK P : P = Seq(Calls)
  OBVIOUS
<1>2. PICK x \in P : x = Piece(g, now, then) /\ (\A i \in DOMAIN x : x[i].file = g) /\ EndsIn(x, now, g, then[g])
  BY <1>1, PieceIs
<1>3. PICK n \in Nat : n = Len(paths) /\ DOMAIN paths = 1 .. n
  OBVIOUS
<1>4. PICK c \in Seq(P) : c = Pieces(paths, now, then)
  <2>1. PICK c : c = Pieces(paths, now, then)
    OBVIOUS
  <2>2. DOMAIN c = 1 .. n /\ c = [i \in 1 .. n |-> c[i]]
    BY <1>3, <2>1 DEF Pieces
  <2>3. \A i \in 1 .. n : c[i] \in P
    <3> SUFFICES ASSUME NEW i \in 1 .. n PROVE c[i] \in P
      OBVIOUS
    <3>1. PICK f \in Files : f = paths[i]
      BY <1>3
    <3>2. c[i] = Piece(f, now, then)
      BY <1>3, <2>1, <3>1 DEF Pieces
    <3> QED BY <1>1, <3>2, PieceIs
  <2> QED BY <2>1, <2>2, <2>3
<1>5. Pieces(Append(paths, g), now, then) = Append(c, x)
  <2>1. PICK r \in Seq(Files) : r = Append(paths, g)
    <3>1. Append(paths, g) \in Seq(Files)
      OBVIOUS
    <3> QED BY <3>1
  <2>2. DOMAIN r = 1 .. (n + 1) /\ r[n + 1] = g /\ \A i \in 1 .. n : r[i] = paths[i]
    BY <1>3, <2>1
  <2>3. PICK b : b = Pieces(r, now, then)
    OBVIOUS
  <2>4. DOMAIN b = 1 .. (n + 1) /\ b[n + 1] = x /\ \A i \in 1 .. n : b[i] = c[i]
    BY <1>2, <1>3, <1>4, <2>2, <2>3 DEF Pieces
  <2>5. Len(c) = n
    <3>1. DOMAIN c = 1 .. n
      BY <1>3, <1>4 DEF Pieces
    <3> QED BY <1>3, <3>1
  <2>6. b = [i \in 1 .. (n + 1) |-> b[i]]
    BY <2>3, <2>4 DEF Pieces
  <2>7. b = Append(c, x)
    <3>1. PICK a \in Seq(P) : a = Append(c, x)
      BY AppendProperties
    <3>2. Len(a) = n + 1 /\ a[n + 1] = x /\ \A i \in 1 .. n : a[i] = c[i]
      BY <2>5, <3>1
    <3>3. DOMAIN a = 1 .. (n + 1) /\ a = [i \in 1 .. (n + 1) |-> a[i]]
      BY <3>2
    <3>4. \A i \in 1 .. (n + 1) : a[i] = b[i]
      BY <2>4, <3>2
    <3> QED BY <2>6, <3>1, <3>3, <3>4
  <2> QED BY <2>1, <2>3, <2>7
<1>6. PICK p \in P : p = RestorePlan(paths, now, then) /\ p = FlattenSeq(c)
  BY <1>1, <1>4, RestorePlanIs, PlanIsPieces
<1>7. RestorePlan(Append(paths, g), now, then) = p \o x
  <2>1. FlattenSeq(Append(c, x)) = FlattenSeq(c) \o x
    BY <1>1, FlatAppend
  <2> QED BY <1>5, <1>6, <2>1, PlanIsPieces
<1>8. PICK r \in Seq(Calls), k \in Nat, m \in Nat : r = p \o x /\ Joined(r, p, x, k, m)
  BY <1>1, ConcatIs
<1>10. \A i \in DOMAIN r : r[i].file \in Q \cup {g}
  <2>1. /\ DOMAIN r = 1 .. (k + m) /\ DOMAIN p = 1 .. k /\ DOMAIN x = 1 .. m
        /\ \A i \in 1 .. k : r[i] = p[i]
        /\ \A i \in 1 .. m : r[k + i] = x[i]
        /\ \A j \in 1 .. (k + m) : j \notin 1 .. k => \E i \in 1 .. m : j = k + i
    BY <1>8 DEF Joined
  <2>2. \A i \in 1 .. k : r[i].file \in Q
    BY <1>6, <2>1 DEF PutsBackAll
  <2>3. \A i \in 1 .. m : r[k + i].file = g
    BY <1>2, <2>1
  <2> SUFFICES ASSUME NEW j \in 1 .. (k + m) PROVE r[j].file \in Q \cup {g}
    BY <2>1
  <2>4. CASE j \in 1 .. k
    BY <2>2, <2>4
  <2>5. CASE j \notin 1 .. k
    <3>1. PICK i \in 1 .. m : j = k + i
      BY <2>1, <2>5
    <3>2. r[k + i].file = g
      BY <2>3
    <3> QED BY <3>1, <3>2
  <2> QED BY <2>4, <2>5
<1>11. \A f \in Q \cup {g} : EndsIn(r, now, f, then[f])
  <2> SUFFICES ASSUME NEW f \in Q \cup {g} PROVE EndsIn(r, now, f, then[f])
    OBVIOUS
  <2>1. CASE f = g
    <3>1. \A i \in DOMAIN p : p[i].file # g
      BY <1>6 DEF PutsBackAll
    <3> QED BY <1>1, <1>2, <1>8, <2>1, <3>1, EndsConcat
  <2>2. CASE f # g
    <3>1. EndsIn(p, now, f, then[f])
      BY <1>6, <2>2 DEF PutsBackAll
    <3>2. \A i \in DOMAIN x : x[i].file # f
      BY <1>2, <2>2
    <3> QED BY <1>1, <1>8, <3>1, <3>2, EndsConcat
  <2> QED BY <2>1, <2>2
<1> QED BY <1>7, <1>8, <1>10, <1>11 DEF PutsBackAll

(* Short sequences, made one by one.                                        *)
LEMMA AppendsAre ==
  /\ \A a : Append(<<>>, a) = <<a>>
  /\ \A a, b : Append(<<a>>, b) = <<a, b>>
  /\ \A a, b, c : Append(<<a, b>>, c) = <<a, b, c>>
  /\ \A a, b, c, d : Append(<<a, b, c>>, d) = <<a, b, c, d>>
<1>1. \A a : Append(<<>>, a) = <<a>>
  OBVIOUS
<1>2. ASSUME NEW a, NEW b, NEW c, NEW d
      PROVE  /\ Append(<<a>>, b) = <<a, b>>
             /\ Append(<<a, b>>, c) = <<a, b, c>>
  <2>1. PICK S : S = {a, b, c, d}
    OBVIOUS
  <2>0. <<a>> \in Seq(S) /\ <<a, b>> \in Seq(S) /\ <<a, b, c>> \in Seq(S) /\ <<a, b, c, d>> \in Seq(S)
    BY <2>1
  <2>2. PICK s, t, u, v \in Seq(S) : s = <<a>> /\ t = <<a, b>> /\ u = <<a, b, c>> /\ v = <<a, b, c, d>>
    BY <2>0
  <2>3. Append(s, b) = t
    <3>1. Append(s, b) \in Seq(S) /\ Len(Append(s, b)) = Len(t) /\ Len(t) = 2
      BY <2>1, <2>2
    <3>2. \A i \in 1 .. Len(t) : Append(s, b)[i] = t[i]
      BY <2>1, <2>2
    <3> QED BY <3>1, <3>2, SeqEqual
  <2>4. Append(t, c) = u
    <3>1. Append(t, c) \in Seq(S) /\ Len(Append(t, c)) = Len(u) /\ Len(u) = 3
      BY <2>1, <2>2
    <3>2. \A i \in 1 .. Len(u) : Append(t, c)[i] = u[i]
      BY <2>1, <2>2
    <3> QED BY <3>1, <3>2, SeqEqual
  <2> QED BY <2>2, <2>3, <2>4
<1>3. \A a, b : Append(<<a>>, b) = <<a, b>>
  BY <1>2
<1>4. \A a, b, c : Append(<<a, b>>, c) = <<a, b, c>>
  BY <1>2
<1>5. \A a, b, c, d : Append(<<a, b, c>>, d) = <<a, b, c, d>>
  <2> SUFFICES ASSUME NEW a, NEW b, NEW c, NEW d PROVE Append(<<a, b, c>>, d) = <<a, b, c, d>>
    OBVIOUS
  <2>1. PICK S : S = {a, b, c, d}
    OBVIOUS
  <2>0. <<a, b, c>> \in Seq(S) /\ <<a, b, c, d>> \in Seq(S)
    BY <2>1
  <2>2. PICK u, v \in Seq(S) : u = <<a, b, c>> /\ v = <<a, b, c, d>>
    BY <2>0
  <2>5. Append(u, d) = v
    <3>1. Append(u, d) \in Seq(S) /\ Len(Append(u, d)) = Len(v) /\ Len(v) = 4
      BY <2>1, <2>2
    <3>2. \A i \in 1 .. Len(v) : Append(u, d)[i] = v[i]
      BY <2>1, <2>2
    <3> QED BY <3>1, <3>2, SeqEqual
  <2> QED BY <2>2, <2>5
<1> QED BY <1>1, <1>3, <1>4, <1>5

(* Every file it did not touch is as it was: the plan puts back them all. *)
LEMMA RestoreEnds ==
  ASSUME NEW paths \in NukePaths, NEW now \in Disks, NEW then \in Disks,
         \A f \in Files : (\A i \in DOMAIN paths : paths[i] # f) => now[f] = then[f]
  PROVE  \A f \in Files : EndsIn(RestorePlan(paths, now, then), now, f, then[f])
<1>1. PutsBackAll({}, RestorePlan(<<>>, now, then), now, then)
  <2>1. Pieces(<<>>, now, then) = <<>>
    BY DEF Pieces
  <2>2. RestorePlan(<<>>, now, then) = <<>>
    BY <2>1, PlanIsPieces, FlatEmpty
  <2> QED BY <2>2 DEF PutsBackAll
<1>2. \E Q \in SUBSET Files : /\ PutsBackAll(Q, RestorePlan(paths, now, then), now, then)
                              /\ \A f \in Files \ Q : \A i \in DOMAIN paths : paths[i] # f
  <2>0. <<>> \in Seq(Files) /\ <<"cipher">> \in Seq(Files) /\ <<"bak">> \in Seq(Files) /\ <<"cipher", "bak">> \in Seq(Files)
        /\ <<"cipher", "keys">> \in Seq(Files) /\ <<"cipher", "keys", "bak">> \in Seq(Files)
    BY DEF Files
  <2>1. /\ Append(<<>>, "cipher") = <<"cipher">> /\ Append(<<"cipher">>, "bak") = <<"cipher", "bak">>
        /\ Append(<<"cipher", "bak">>, "store") = <<"cipher", "bak", "store">>
        /\ Append(<<>>, "bak") = <<"bak">> /\ Append(<<"bak">>, "store") = <<"bak", "store">>
        /\ Append(<<"cipher">>, "keys") = <<"cipher", "keys">>
        /\ Append(<<"cipher", "keys">>, "bak") = <<"cipher", "keys", "bak">>
        /\ Append(<<"cipher", "keys", "bak">>, "store") = <<"cipher", "keys", "bak", "store">>
    <3> QED BY AppendsAre
  <2>c. PutsBackAll({} \cup {"cipher"}, RestorePlan(<<"cipher">>, now, then), now, then)
    BY <1>1, <2>0, <2>1, RestoreMore DEF Files
  <2>2. CASE paths = <<"bak", "store">>
    <3>1. PutsBackAll({} \cup {"bak"}, RestorePlan(<<"bak">>, now, then), now, then)
      BY <1>1, <2>0, <2>1, RestoreMore DEF Files
    <3>2. PutsBackAll(({} \cup {"bak"}) \cup {"store"}, RestorePlan(<<"bak", "store">>, now, then), now, then)
      BY <2>0, <2>1, <3>1, RestoreMore DEF Files
    <3>3. \A f \in Files \ (({} \cup {"bak"}) \cup {"store"}) : \A i \in DOMAIN paths : paths[i] # f
      BY <2>2
    <3> QED BY <2>2, <3>2, <3>3 DEF Files
  <2>3. CASE paths = <<"cipher", "bak", "store">>
    <3>1. PutsBackAll(({} \cup {"cipher"}) \cup {"bak"}, RestorePlan(<<"cipher", "bak">>, now, then), now, then)
      BY <2>0, <2>1, <2>c, RestoreMore DEF Files
    <3>2. PutsBackAll((({} \cup {"cipher"}) \cup {"bak"}) \cup {"store"}, RestorePlan(<<"cipher", "bak", "store">>, now, then), now, then)
      BY <2>0, <2>1, <3>1, RestoreMore DEF Files
    <3>3. \A f \in Files \ ((({} \cup {"cipher"}) \cup {"bak"}) \cup {"store"}) : \A i \in DOMAIN paths : paths[i] # f
      BY <2>3
    <3> QED BY <2>3, <3>2, <3>3 DEF Files
  <2>4. CASE paths = <<"cipher", "keys", "bak", "store">>
    <3>1. PutsBackAll(({} \cup {"cipher"}) \cup {"keys"}, RestorePlan(<<"cipher", "keys">>, now, then), now, then)
      BY <2>0, <2>1, <2>c, RestoreMore DEF Files
    <3>2. PutsBackAll((({} \cup {"cipher"}) \cup {"keys"}) \cup {"bak"}, RestorePlan(<<"cipher", "keys", "bak">>, now, then), now, then)
      BY <2>0, <2>1, <3>1, RestoreMore DEF Files
    <3>3. PutsBackAll(((({} \cup {"cipher"}) \cup {"keys"}) \cup {"bak"}) \cup {"store"},
                      RestorePlan(<<"cipher", "keys", "bak", "store">>, now, then), now, then)
      BY <2>0, <2>1, <3>2, RestoreMore DEF Files
    <3>4. \A f \in Files \ (((({} \cup {"cipher"}) \cup {"keys"}) \cup {"bak"}) \cup {"store"}) :
             \A i \in DOMAIN paths : paths[i] # f
      BY <2>4
    <3> QED BY <2>4, <3>3, <3>4 DEF Files
  <2> QED BY <2>2, <2>3, <2>4 DEF NukePaths
<1>3. PICK Q \in SUBSET Files : /\ PutsBackAll(Q, RestorePlan(paths, now, then), now, then)
                                /\ \A f \in Files \ Q : \A i \in DOMAIN paths : paths[i] # f
  BY <1>2
<1> SUFFICES ASSUME NEW f \in Files PROVE EndsIn(RestorePlan(paths, now, then), now, f, then[f])
  OBVIOUS
<1>4. CASE f \in Q
  BY <1>3, <1>4 DEF PutsBackAll
<1>5. CASE f \notin Q
  <2>1. now[f] = then[f]
    BY <1>3, <1>5
  <2>2. \A i \in DOMAIN RestorePlan(paths, now, then) : RestorePlan(paths, now, then)[i].file # f
    BY <1>3, <1>5 DEF PutsBackAll
  <2> QED BY <2>1, <2>2 DEF EndsIn
<1> QED BY <1>4, <1>5

(***************************************************************************)
(* The operation j, the files d and n faults.                              *)
(***************************************************************************)

Named(paths, f) == \E k \in DOMAIN paths : paths[k] = f

(* Where the operation stands while nothing failed ... *)
Going(j, d) ==
  /\ j.kind \in {"write", "nuke"} => Saving(j.plan, j.snap, d, j.store)
  /\ j.kind \in {"decrypt", "import"} => \E s \in Stores : Saving(j.plan, j.snap, d, s)
  /\ j.kind = "undo" => Undoing(j.plan, j.snap, d)
  /\ j.kind = "write" => \A i \in DOMAIN j.plan : j.plan[i].file \in {"store", "bak", "cipher"}

(* ... and when something did. *)
Stopped(j, d) ==
  /\ j.kind \in {"decrypt", "import"} => j.plan = <<>>
  /\ j.kind = "write" => j.plan = <<>> /\ d.store \in {j.snap.store, Torn}
  /\ j.kind = "undo" => j.plan = <<>> /\ d.store \in {j.snap.store, Missing}

Stage(j, d, n) ==
  /\ j.failed => n >= 1
  /\ IF j.failed THEN Stopped(j, d) ELSE Going(j, d)
  /\ j.kind \in {"export", "init-keys", "encrypt"} => Sparing(j.plan, j.snap, d)
  /\ IF j.kind = "idle" THEN j = Idle ELSE j.snap \in Disks

(* The keyring a nuke ends with is the one the ciphertext is made with. *)
Rekeys(j, d) ==
  \E k : /\ EndsIn(j.plan, d, "keys", k)
         /\ Whole(k) => EndsIn(j.plan, d, "cipher", [store |-> j.store, keys |-> k])

NukeStage(j, d, n) ==
  j.kind = "nuke" =>
    /\ j.paths \in NukePaths
    /\ ~j.failed => /\ \A i \in DOMAIN j.plan : Named(j.paths, j.plan[i].file)
                    /\ \A f \in Files : ~Named(j.paths, f) => d[f] = j.snap[f]
                    /\ Rekeys(j, d)
    /\ j.failed /\ n <= 1 => \A f \in Files : EndsIn(j.plan, d, f, j.snap[f])

(* Until the first fault the files an operation began with are not torn. *)
Unhurt(j, d, n) ==
  n = 0 => IF j.plan # <<>> THEN j.snap.store # Torn /\ j.snap.bak # Torn ELSE d.store # Torn /\ d.bak # Torn

FilesInv(j, d, n) == Stage(j, d, n) /\ NukeStage(j, d, n) /\ Unhurt(j, d, n)

(* A save that is over has its store and the backup of the one before. *)
LEMMA SavingOver ==
  ASSUME NEW p, p = <<>>, NEW old, NEW d, NEW s, Saving(p, old, d, s)
  PROVE  d.store = s /\ d.bak = Backed(old)
<1>1. Len(p) = 0
  OBVIOUS
<1> QED BY <1>1 DEF Saving, Cutting, Copying, Putting, Stored

(* An undo that is over has the backup in both files.                       *)
LEMMA UndoingOver ==
  ASSUME NEW p, p = <<>>, NEW old, NEW d, Undoing(p, old, d)
  PROVE  d.store = old.bak /\ d.bak = old.bak
<1>1. \A a : p # <<a>>
  OBVIOUS
<1>2. \A a, b : p # <<a, b>>
  OBVIOUS
<1> QED BY <1>1, <1>2 DEF Undoing

(* A store is not one of the marks for a missing or a torn file.            *)
LEMMA NotTorn == \A s \in Stores : s # Torn /\ s # Missing /\ Whole(s)
BY CredStoreAssumption DEF Stores, Whole

(* A call that succeeds keeps the stages of its operation.                  *)
LEMMA CallStep ==
  ASSUME NEW j \in Jobs, NEW d \in Disks, NEW n \in Nat, j.plan # <<>>, FilesInv(j, d, n)
  PROVE  /\ [j EXCEPT !.plan = Tail(@)] \in Jobs
         /\ After(d, Head(j.plan)) \in Disks
         /\ FilesInv([j EXCEPT !.plan = Tail(@)], After(d, Head(j.plan)), n)
<1>1. PICK p \in Seq(Calls) : p = j.plan /\ p # <<>>
  BY DEF Jobs
<1>2. PICK q \in Seq(Calls) : q = Tail(p)
  BY <1>1, TailIs
<1>3. PICK c \in Calls : c = Head(p)
  BY <1>1, TailIs
<1>4. PICK e \in Disks : e = After(d, c)
  BY AfterIs
<1>5. PICK k \in Jobs : k = [j EXCEPT !.plan = Tail(@)]
  <2>1. [j EXCEPT !.plan = q] \in Jobs
    BY DEF Jobs
  <2> QED BY <1>1, <1>2, <2>1
<1>6. k.plan = q /\ k.kind = j.kind /\ k.failed = j.failed /\ k.snap = j.snap /\ k.store = j.store /\ k.paths = j.paths
  BY <1>1, <1>2, <1>5 DEF Jobs
<1>7. j.kind # "idle"
  <2>1. Idle.plan = <<>>
    BY DEF Idle
  <2> QED BY <2>1 DEF FilesInv, Stage
<1>8. Stage(k, e, n)
  <2>1. j.failed => Stopped(k, e)
    BY <1>1, <1>6 DEF FilesInv, Stage, Stopped
  <2>2. ASSUME ~j.failed PROVE Going(k, e)
    <3>1. Going(j, d)
      BY <2>2 DEF FilesInv, Stage
    <3>2. \A s : Saving(p, j.snap, d, s) => Saving(q, j.snap, e, s)
      BY <1>1, <1>2, <1>3, <1>4, SavingCall
    <3>3. Undoing(p, j.snap, d) => Undoing(q, j.snap, e)
      BY <1>1, <1>2, <1>3, <1>4, UndoingCall
    <3>4. (\A i \in DOMAIN p : p[i].file \in {"store", "bak", "cipher"}) =>
             \A i \in DOMAIN q : q[i].file \in {"store", "bak", "cipher"}
      BY <1>1, <1>2, TailIs
    <3>5. j.kind = "write" => \A i \in DOMAIN q : q[i].file \in {"store", "bak", "cipher"}
      BY <1>1, <3>1, <3>4 DEF Going
    <3>6. /\ j.kind \in {"write", "nuke"} => Saving(q, j.snap, e, j.store)
          /\ j.kind \in {"decrypt", "import"} => \E s \in Stores : Saving(q, j.snap, e, s)
          /\ j.kind = "undo" => Undoing(q, j.snap, e)
      BY <1>1, <3>1, <3>2, <3>3 DEF Going
    <3> QED BY <1>6, <3>5, <3>6 DEF Going
  <2>3. Sparing(p, j.snap, d) => Sparing(q, j.snap, e)
    BY <1>1, <1>2, <1>3, <1>4, SparingCall
  <2> QED BY <1>1, <1>6, <1>7, <2>1, <2>2, <2>3 DEF FilesInv, Stage
<1>9. NukeStage(k, e, n)
  <2> SUFFICES ASSUME j.kind = "nuke" PROVE NukeStage(k, e, n)
    BY <1>6 DEF NukeStage
  <2>0. NukeStage(j, d, n)
    BY DEF FilesInv
  <2>e. \A f \in Files : \A v : EndsIn(p, d, f, v) => EndsIn(q, e, f, v)
    BY <1>1, <1>2, <1>3, <1>4, EndsCall
  <2>1. ASSUME ~j.failed
        PROVE  /\ \A i \in DOMAIN q : Named(j.paths, q[i].file)
               /\ \A f \in Files : ~Named(j.paths, f) => e[f] = j.snap[f]
               /\ Rekeys(k, e)
    <3>1. /\ \A i \in DOMAIN p : Named(j.paths, p[i].file)
          /\ \A f \in Files : ~Named(j.paths, f) => d[f] = j.snap[f]
          /\ Rekeys(j, d)
      BY <1>1, <2>0, <2>1 DEF NukeStage
    <3>2. \A i \in DOMAIN q : Named(j.paths, q[i].file)
      BY <1>1, <1>2, <3>1, TailIs
    <3>3. Named(j.paths, c.file)
      BY <1>1, <1>3, <3>1, TailIs
    <3>4. \A f \in Files : ~Named(j.paths, f) => e[f] = j.snap[f]
      BY <1>4, <3>1, <3>3, HeldAfter
    <3>5. PICK w : EndsIn(p, d, "keys", w) /\ (Whole(w) => EndsIn(p, d, "cipher", [store |-> j.store, keys |-> w]))
      BY <1>1, <3>1 DEF Rekeys
    <3>6. EndsIn(q, e, "keys", w) /\ (Whole(w) => EndsIn(q, e, "cipher", [store |-> j.store, keys |-> w]))
      <4>1. "keys" \in Files /\ "cipher" \in Files
        BY DEF Files
      <4> QED BY <2>e, <3>5, <4>1
    <3>7. Rekeys(k, e)
      BY <1>6, <3>6 DEF Rekeys
    <3> QED BY <3>2, <3>4, <3>7
  <2>2. j.failed /\ n <= 1 => \A f \in Files : EndsIn(q, e, f, j.snap[f])
    BY <1>1, <2>0, <2>e DEF NukeStage
  <2>3. j.paths \in NukePaths
    BY <2>0 DEF NukeStage
  <2> QED BY <1>6, <2>1, <2>2, <2>3 DEF NukeStage
<1>10. Unhurt(k, e, n)
  <2> SUFFICES ASSUME n = 0 PROVE IF q # <<>> THEN j.snap.store # Torn /\ j.snap.bak # Torn ELSE e.store # Torn /\ e.bak # Torn
    BY <1>6 DEF Unhurt
  <2>1. j.snap.store # Torn /\ j.snap.bak # Torn
    BY DEF FilesInv, Unhurt
  <2>2. ASSUME q = <<>> PROVE e.store # Torn /\ e.bak # Torn
    <3>1. ~j.failed /\ ~k.failed /\ k.kind # "idle"
      BY <1>6, <1>7 DEF FilesInv, Stage
    <3>2. Going(k, e)
      BY <1>8, <3>1 DEF Stage
    <3>3. ASSUME NEW s \in Stores, Saving(q, j.snap, e, s) PROVE e.store # Torn /\ e.bak # Torn
      BY <2>1, <2>2, <3>3, SavingOver, NotTorn DEF Backed
    <3>4. Undoing(q, j.snap, e) => e.store # Torn /\ e.bak # Torn
      BY <2>1, <2>2, UndoingOver
    <3>5. Sparing(q, j.snap, e) => e.store # Torn /\ e.bak # Torn
      BY <2>1 DEF Sparing
    <3>6. j.store \in Stores /\ k.kind \in JobKinds
      BY DEF Jobs
    <3>7. CASE k.kind \in {"write", "nuke"}
      BY <1>6, <3>2, <3>3, <3>6, <3>7 DEF Going
    <3>8. CASE k.kind \in {"decrypt", "import"}
      BY <1>6, <3>2, <3>3, <3>8 DEF Going
    <3>9. CASE k.kind = "undo"
      BY <1>6, <3>2, <3>4, <3>9 DEF Going
    <3>10. CASE k.kind \in {"export", "init-keys", "encrypt"}
      BY <1>6, <1>8, <3>5, <3>10 DEF Stage
    <3> QED BY <3>1, <3>6, <3>7, <3>8, <3>9, <3>10 DEF JobKinds
  <2> QED BY <2>1, <2>2
<1>11. FilesInv(k, e, n)
  BY <1>8, <1>9, <1>10 DEF FilesInv
<1> QED BY <1>1, <1>3, <1>4, <1>5, <1>11

(* What a file may hold after c failed on it (AfterFailing). *)
FailValues(c, d) ==
  CASE c.call = "copy" -> {Missing}
    [] c.call = "put"  -> {d[c.file], Torn}
    [] OTHER           -> {d[c.file]}

(* e is d after c failed. *)
FailedBy(e, d, c) == \E a \in FailValues(c, d) : \A f \in Files : e[f] = IF f = c.file THEN a ELSE d[f]

(* What a failing call does to a save. *)
LEMMA SavingFails ==
  ASSUME NEW p \in Seq(Calls), p # <<>>, NEW old, NEW d, NEW s, NEW e, Saving(p, old, d, s), FailedBy(e, d, Head(p))
  PROVE  /\ Head(p).file \in {"store", "bak"} => e.store \in {old.store, Torn}
         /\ Head(p).file \notin {"store", "bak"} => e.store = s /\ e.bak = Backed(old)
<1>c. PICK c : c = Head(p)
  OBVIOUS
<1>a. PICK a \in FailValues(c, d) : \A f \in Files : e[f] = IF f = c.file THEN a ELSE d[f]
  BY <1>c DEF FailedBy
<1>1. c = p[1] /\ 1 \in DOMAIN p /\ 1 > 0
  BY <1>c, TailIs
<1>2. e.store = (IF "store" = c.file THEN a ELSE d.store) /\ e.bak = (IF "bak" = c.file THEN a ELSE d.bak)
  BY <1>a DEF Files
<1>3. CASE Cutting(p, old, d, s)
  BY <1>1, <1>2, <1>3, <1>c DEF Cutting, CutBak
<1>4. CASE Copying(p, old, d, s)
  BY <1>1, <1>2, <1>4, <1>c DEF Copying, CopyBak
<1>5. CASE Putting(p, old, d, s)
  <2>1. c.call = "put" /\ c.file = "store" /\ d.store = old.store
    BY <1>1, <1>5 DEF Putting, PutStore
  <2>2. a \in {d.store, Torn}
    BY <1>a, <2>1 DEF FailValues
  <2> QED BY <1>c, <1>2, <2>1, <2>2
<1>6. CASE Stored(p, old, d, s)
  <2>1. c.file \notin {"store", "bak"}
    BY <1>1, <1>6 DEF Stored, Beyond
  <2> QED BY <1>c, <1>2, <1>6, <2>1 DEF Stored
<1> QED BY <1>3, <1>4, <1>5, <1>6 DEF Saving

(* A save whose first call, on neither the store nor its backup, failed. *)
Spared(p, old, d, s, e) ==
  /\ p \in Seq(Calls) /\ p # <<>>
  /\ Saving(p, old, d, s) /\ FailedBy(e, d, Head(p)) /\ Head(p).file \notin {"store", "bak"}

(* Such a save ends as if nothing had failed.                               *)
LEMMA SavingSpared ==
  ASSUME NEW p, NEW old, NEW d, NEW s, NEW e, Spared(p, old, d, s, e)
  PROVE  e.store = s /\ e.bak = Backed(old)
BY SavingFails DEF Spared

(* An undo that fails keeps the backup, and the store it had or none: a     *)
(* copy that fails removes its target.                                      *)
LEMMA UndoingFails ==
  ASSUME NEW p \in Seq(Calls), p # <<>>, NEW old, NEW d, NEW e, Undoing(p, old, d), FailedBy(e, d, Head(p))
  PROVE  e.store \in {old.store, Missing} /\ e.bak = old.bak
<1>c. PICK c : c = Head(p)
  OBVIOUS
<1>a. PICK a \in FailValues(c, d) : \A f \in Files : e[f] = IF f = c.file THEN a ELSE d[f]
  BY <1>c DEF FailedBy
<1>2. e.store = (IF "store" = c.file THEN a ELSE d.store) /\ e.bak = (IF "bak" = c.file THEN a ELSE d.bak)
  BY <1>a DEF Files
<1>3. CASE d.store = old.store /\ p = <<CutStore, CopyStore(old.bak)>>
  <2>1. c = CutStore
    BY <1>c, <1>3
  <2>2. c.file = "store" /\ c.call = "cut"
    BY <2>1 DEF CutStore
  <2>3. a = d.store
    BY <1>a, <2>2 DEF FailValues
  <2> QED BY <1>2, <1>3, <2>2, <2>3 DEF Undoing
<1>4. CASE d.store = Torn /\ p = <<CopyStore(old.bak)>>
  <2>1. c = CopyStore(old.bak)
    BY <1>c, <1>4
  <2>2. c.file = "store" /\ c.call = "copy"
    BY <2>1 DEF CopyStore
  <2>3. a = Missing
    BY <1>a, <2>2 DEF FailValues
  <2> QED BY <1>2, <2>2, <2>3 DEF Undoing
<1> QED BY <1>3, <1>4 DEF Undoing

(* c, the next call of j, leaves a in its file: d becomes e, and j k. *)
FailsTo(j, d, n, c, a, e, k) ==
  /\ j \in Jobs /\ d \in Disks /\ n \in Nat /\ j.plan # <<>> /\ FilesInv(j, d, n)
  /\ c = Head(j.plan) /\ a \in FailValues(c, d) /\ e = [d EXCEPT ![c.file] = a]
  /\ k.kind = j.kind /\ k.snap = j.snap /\ k.store = j.store /\ k.paths = j.paths
  /\ k.failed = (j.failed \/ ~(j.kind = "write" /\ c.file = "cipher"))
  /\ k.plan = IF j.kind # "nuke" THEN <<>>
              ELSE IF j.failed THEN Without(j.plan, c.file) ELSE RestorePlan(j.paths, e, j.snap)

(* A call that fails leaves its operation stopped, or a nuke putting back   *)
(* all of its files.                                                        *)
LEMMA FailStep ==
  ASSUME NEW j, NEW d, NEW n, NEW c, NEW a, NEW e, NEW k, FailsTo(j, d, n, c, a, e, k)
  PROVE  e \in Disks /\ FilesInv(k, e, n + 1)
<1>0. /\ j \in Jobs /\ d \in Disks /\ n \in Nat /\ j.plan # <<>> /\ FilesInv(j, d, n)
      /\ c = Head(j.plan) /\ a \in FailValues(c, d) /\ e = [d EXCEPT ![c.file] = a]
      /\ k.kind = j.kind /\ k.snap = j.snap /\ k.store = j.store /\ k.paths = j.paths
      /\ k.failed = (j.failed \/ ~(j.kind = "write" /\ c.file = "cipher"))
      /\ k.plan = IF j.kind # "nuke" THEN <<>>
                  ELSE IF j.failed THEN Without(j.plan, c.file) ELSE RestorePlan(j.paths, e, j.snap)
  BY DEF FailsTo
<1> USE <1>0
<1>1. PICK p \in Seq(Calls) : p = j.plan /\ p # <<>>
  BY DEF Jobs
<1>2. c \in Calls /\ c = p[1] /\ 1 \in DOMAIN p
  BY <1>1, TailIs
<1>o. PICK old, s, paths : old = j.snap /\ s = j.store /\ paths = j.paths
  OBVIOUS
<1>h. c = Head(p)
  BY <1>1
<1>3. c.file \in Files
  BY <1>2 DEF Calls
<1>4. a \in FileValues /\ Fits(c.file, a)
  <2>1. d[c.file] \in FileValues /\ Fits(c.file, d[c.file])
    BY <1>3, DiskIs
  <2>2. a \in {Missing, Torn, d[c.file]}
    BY DEF FailValues
  <2>3. Missing \in FileValues /\ Torn \in FileValues /\ Fits(c.file, Missing) /\ Fits(c.file, Torn)
    BY DEF FileValues, Fits, Content
  <2> QED BY <2>1, <2>2, <2>3
<1>5. \A f \in Files : e[f] = IF f = c.file THEN a ELSE d[f]
  BY <1>3 DEF Disks
<1>f. FailedBy(e, d, Head(p))
  <2>1. FailedBy(e, d, c)
    BY <1>5, Zenon DEF FailedBy
  <2> QED BY <1>h, <2>1
<1>6. e \in Disks
  <2>1. e \in [Files -> FileValues]
    BY <1>3, <1>4 DEF Disks
  <2>2. \A f \in Files : Fits(f, e[f])
    BY <1>4, <1>5, DiskIs
  <2> QED BY <2>1, <2>2 DEF Disks
<1>7. j.kind # "idle"
  <2>1. Idle.plan = <<>>
    BY DEF Idle
  <2> QED BY <2>1 DEF FilesInv, Stage
<1>8. ASSUME j.kind \in {"write", "undo"} PROVE ~j.failed
  BY <1>8 DEF FilesInv, Stage, Stopped
<1>9. Stage(k, e, n + 1)
  <2>1. ASSUME k.failed PROVE Stopped(k, e)
    <3>1. CASE j.kind = "write"
      <4>1. Saving(p, old, d, s) /\ c.file \in {"store", "bak", "cipher"}
        BY <1>1, <1>2, <1>8, <1>o, <3>1 DEF FilesInv, Stage, Going
      <4>2. c.file \in {"store", "bak"}
        BY <1>8, <2>1, <3>1, <4>1
      <4>3. e.store \in {old.store, Torn}
        BY <1>1, <1>h, <1>f, <4>1, <4>2, SavingFails
      <4> QED BY <1>o, <3>1, <4>3 DEF Stopped
    <3>2. CASE j.kind = "undo"
      <4>1. Undoing(p, old, d)
        BY <1>1, <1>o, <1>8, <3>2 DEF FilesInv, Stage, Going
      <4>2. e.store \in {old.store, Missing}
        BY <1>1, <1>h, <1>f, <4>1, UndoingFails
      <4> QED BY <1>o, <3>2, <4>2 DEF Stopped
    <3> QED BY <3>1, <3>2 DEF Stopped
  <2>2. ASSUME ~k.failed PROVE Going(k, e)
    <3>1. j.kind = "write" /\ c.file = "cipher" /\ ~j.failed
      BY <2>2
    <3>2. Saving(p, old, d, s)
      BY <1>1, <1>o, <3>1 DEF FilesInv, Stage, Going
    <3>3. e.store = s /\ e.bak = Backed(old)
      <4>1. Head(p).file \notin {"store", "bak"}
        BY <1>h, <3>1
      <4>2. Spared(p, old, d, s, e)
        BY <1>1, <1>f, <3>2, <4>1 DEF Spared
      <4>3. PICK g : g = e
        OBVIOUS
      <4>4. Spared(p, old, d, s, g)
        BY ONLY <4>2, <4>3
      <4>5. g.store = s /\ g.bak = Backed(old)
        BY ONLY <4>4, SavingSpared
      <4> QED BY ONLY <4>3, <4>5
    <3>4. k.plan = <<>> /\ DOMAIN k.plan = {}
      BY <3>1
    <3>5. Saving(k.plan, j.snap, e, j.store)
      BY <1>o, <3>3, <3>4 DEF Saving, Stored, Beyond
    <3> QED BY <3>1, <3>4, <3>5 DEF Going
  <2>3. ASSUME j.kind \in {"export", "init-keys", "encrypt"} PROVE Sparing(k.plan, j.snap, e)
    <3>1. Sparing(p, j.snap, d)
      BY <1>1, <2>3 DEF FilesInv, Stage
    <3>2. c.file \notin {"store", "bak"}
      BY <1>2, <3>1 DEF Sparing, Beyond
    <3>3. e.store = d.store /\ e.bak = d.bak
      BY <1>5, <3>2 DEF Files
    <3>4. k.plan = <<>> /\ DOMAIN k.plan = {}
      BY <2>3
    <3> QED BY <3>1, <3>3, <3>4 DEF Sparing, Beyond
  <2>4. j.snap \in Disks
    BY <1>7 DEF FilesInv, Stage
  <2> QED BY <1>7, <2>1, <2>2, <2>3, <2>4 DEF Stage
<1>10. NukeStage(k, e, n + 1)
  <2> SUFFICES ASSUME j.kind = "nuke" PROVE NukeStage(k, e, n + 1)
    BY DEF NukeStage
  <2>0. NukeStage(j, d, n) /\ j.paths \in NukePaths /\ k.failed
    BY DEF FilesInv, NukeStage
  <2>1. ASSUME n + 1 <= 1 PROVE \A f \in Files : EndsIn(k.plan, e, f, j.snap[f])
    <3>1. ~j.failed
      BY <2>1 DEF FilesInv, Stage
    <3>2. /\ \A i \in DOMAIN p : Named(j.paths, p[i].file)
          /\ \A f \in Files : ~Named(j.paths, f) => d[f] = j.snap[f]
      BY <1>1, <2>0, <3>1 DEF NukeStage
    <3>3. \A f \in Files : ~Named(j.paths, f) => e[f] = j.snap[f]
      BY <1>2, <1>5, <3>2
    <3>4. \A f \in Files : (\A i \in DOMAIN paths : paths[i] # f) => e[f] = old[f]
      BY <1>o, <3>3 DEF Named
    <3>5. old \in Disks /\ paths \in NukePaths
      BY <1>o, <1>7, <2>0 DEF FilesInv, Stage
    <3>6. k.plan = RestorePlan(paths, e, old)
      BY <1>o, <3>1
    <3>7. \A f \in Files : EndsIn(RestorePlan(paths, e, old), e, f, old[f])
      BY <1>6, <3>4, <3>5, RestoreEnds
    <3> QED BY <1>o, <3>6, <3>7
  <2> QED BY <2>0, <2>1 DEF NukeStage
<1>11. Unhurt(k, e, n + 1)
  BY DEF Unhurt
<1> QED BY <1>6, <1>9, <1>10, <1>11 DEF FilesInv

(***************************************************************************)
(* What an operation begins with.                                          *)
(***************************************************************************)

(* Short sequences, one after another.                                      *)
LEMMA ConcatsAre ==
  /\ <<>> \o <<>> = <<>>
  /\ \A a : <<>> \o <<a>> = <<a>> /\ <<a>> \o <<>> = <<a>>
  /\ \A a, b : <<>> \o <<a, b>> = <<a, b>> /\ <<a>> \o <<b>> = <<a, b>>
  /\ \A a, b, c : <<a>> \o <<b, c>> = <<a, b, c>> /\ <<a, b>> \o <<c>> = <<a, b, c>>
  /\ \A a, b, c, d : <<a, b>> \o <<c, d>> = <<a, b, c, d>>
<1>1. /\ <<>> \o <<>> = <<>>
      /\ \A a : <<>> \o <<a>> = <<a>> /\ <<a>> \o <<>> = <<a>>
      /\ \A a, b : <<>> \o <<a, b>> = <<a, b>> 
  OBVIOUS
<1>2. ASSUME NEW a, NEW b, NEW c
      PROVE  <<a>> \o <<b>> = <<a, b>> /\ <<a, b>> \o <<c>> = <<a, b, c>> /\ <<a>> \o <<b, c>> = <<a, b, c>>
  <2>1. PICK S : S = {a, b, c}
    OBVIOUS
  <2>2. <<a>> \in Seq(S) /\ <<b>> \in Seq(S) /\ <<c>> \in Seq(S) /\ <<a, b>> \in Seq(S) /\ <<b, c>> \in Seq(S)
    BY <2>1
  <2>3. PICK s1, s2, s3, t1, t2 \in Seq(S) : s1 = <<a>> /\ s2 = <<b>> /\ s3 = <<c>> /\ t1 = <<a, b>> /\ t2 = <<b, c>>
    BY <2>2
  <2>4. s1 \o s2 = <<a, b>>
    <3>1. PICK r \in Seq(S), n \in Nat, m \in Nat : r = s1 \o s2 /\ Joined(r, s1, s2, n, m)
      BY ConcatIs
    <3>2. n = 1 /\ m = 1
      BY <2>3, <3>1 DEF Joined
    <3>3. r[1] = a /\ r[1 + 1] = b /\ DOMAIN r = 1 .. 2
      BY <2>3, <3>1, <3>2 DEF Joined
    <3>4. r = <<a, b>>
      BY <3>3
    <3> QED BY <3>1, <3>4
  <2>5. t1 \o s3 = <<a, b, c>>
    <3>1. PICK r \in Seq(S), n \in Nat, m \in Nat : r = t1 \o s3 /\ Joined(r, t1, s3, n, m)
      BY ConcatIs
    <3>2. n = 2 /\ m = 1
      BY <2>3, <3>1 DEF Joined
    <3>3. r[1] = a /\ r[2] = b /\ r[2 + 1] = c /\ DOMAIN r = 1 .. 3
      BY <2>3, <3>1, <3>2 DEF Joined
    <3>4. r = <<a, b, c>>
      BY <3>3
    <3> QED BY <3>1, <3>4
  <2>6. s1 \o t2 = <<a, b, c>>
    <3>1. PICK r \in Seq(S), n \in Nat, m \in Nat : r = s1 \o t2 /\ Joined(r, s1, t2, n, m)
      BY ConcatIs
    <3>2. n = 1 /\ m = 2
      BY <2>3, <3>1 DEF Joined
    <3>3. r[1] = a /\ r[1 + 1] = b /\ r[1 + 2] = c /\ DOMAIN r = 1 .. 3
      BY <2>3, <3>1, <3>2 DEF Joined
    <3>4. r = <<a, b, c>>
      BY <3>3
    <3> QED BY <3>1, <3>4
  <2> QED BY <2>3, <2>4, <2>5, <2>6
<1>3. \A a, b : <<a>> \o <<b>> = <<a, b>>
  BY <1>2
<1>4. \A a, b, c : <<a>> \o <<b, c>> = <<a, b, c>> /\ <<a, b>> \o <<c>> = <<a, b, c>>
  BY <1>2
<1>5. \A a, b, c, d : <<a, b>> \o <<c, d>> = <<a, b, c, d>>
  <2> SUFFICES ASSUME NEW a, NEW b, NEW c, NEW d PROVE <<a, b>> \o <<c, d>> = <<a, b, c, d>>
    OBVIOUS
  <2>1. PICK S : S = {a, b, c, d}
    OBVIOUS
  <2>2. <<a, b>> \in Seq(S) /\ <<c, d>> \in Seq(S)
    BY <2>1
  <2>3. PICK t1, t3 \in Seq(S) : t1 = <<a, b>> /\ t3 = <<c, d>>
    BY <2>2
  <2>7. t1 \o t3 = <<a, b, c, d>>
    <3>1. PICK r \in Seq(S), n \in Nat, m \in Nat : r = t1 \o t3 /\ Joined(r, t1, t3, n, m)
      BY ConcatIs
    <3>2. n = 2 /\ m = 2
      BY <2>3, <3>1 DEF Joined
    <3>3. r[1] = a /\ r[2] = b /\ r[2 + 1] = c /\ r[2 + 2] = d /\ DOMAIN r = 1 .. 4
      BY <2>3, <3>1, <3>2 DEF Joined
    <3>4. r = <<a, b, c, d>>
      BY <3>3
    <3> QED BY <3>1, <3>4
  <2> QED BY <2>3, <2>7
<1> QED BY <1>1, <1>3, <1>4, <1>5

(* The calls that replace the store (writeStore).                           *)
LEMMA StorePlanCalls ==
  ASSUME NEW s
  PROVE  StorePlan(s) = IF disk.store = Missing THEN <<PutStore(s)>> ELSE <<CutBak, CopyBak(disk.store), PutStore(s)>>
<1>1. PICK a, b, c : a = CutBak /\ b = CopyBak(disk.store) /\ c = PutStore(s)
  OBVIOUS
<1>2. Copy("bak", disk.store) = <<a, b>> /\ Put("store", s) = <<c>>
  BY <1>1 DEF Copy, Cut, Put, CutBak, CopyBak, PutStore
<1>3. <<>> \o <<c>> = <<c>> /\ <<a, b>> \o <<c>> = <<a, b, c>>
  BY ConcatsAre
<1>4. CASE disk.store = Missing
  BY <1>1, <1>2, <1>3, <1>4 DEF StorePlan
<1>5. CASE disk.store # Missing
  BY <1>1, <1>2, <1>3, <1>5 DEF StorePlan
<1> QED BY <1>4, <1>5

(* A plan that begins by changing the store, and then works on other files, *)
(* is a save under way.                                                     *)
LEMMA SavingBegins ==
  ASSUME disk \in Disks, NEW s \in Content, NEW x \in Seq(Calls), Beyond(x, 0)
  PROVE  StorePlan(s) \o x \in Seq(Calls) /\ Saving(StorePlan(s) \o x, disk, disk, s)
<1>1. PICK p \in Seq(Calls) : p = StorePlan(s)
  BY StorePlanIs
<1>2. PICK r \in Seq(Calls), n \in Nat, m \in Nat : r = p \o x /\ Joined(r, p, x, n, m)
  BY ConcatIs
<1>3. Len(r) = n + m /\ Len(p) = n
  BY <1>2 DEF Joined
<1>4. ASSUME NEW k \in DOMAIN r, k > n PROVE r[k].file \notin {"store", "bak"}
  <2>1. PICK h \in 1 .. m : k = n + h
    BY <1>2, <1>4 DEF Joined
  <2>2. r[k] = x[h] /\ h \in DOMAIN x /\ h > 0
    BY <1>2, <2>1 DEF Joined
  <2> QED BY <2>2 DEF Beyond
<1>5. Beyond(r, n)
  BY <1>4 DEF Beyond
<1>6. CASE disk.store = Missing
  <2>1. p = <<PutStore(s)>>
    BY <1>1, <1>6, StorePlanCalls
  <2>2. n = 1 /\ p[1] = PutStore(s)
    BY <1>3, <2>1
  <2>3. r[1] = PutStore(s) /\ Len(r) >= 1
    BY <1>2, <1>3, <2>2 DEF Joined
  <2>4. Putting(r, disk, disk, s)
    BY <1>5, <1>6, <2>2, <2>3 DEF Putting, Backed
  <2> QED BY <1>1, <1>2, <2>4 DEF Saving
<1>7. CASE disk.store # Missing
  <2>1. p = <<CutBak, CopyBak(disk.store), PutStore(s)>>
    BY <1>1, <1>7, StorePlanCalls
  <2>2. n = 3 /\ p[1] = CutBak /\ p[2] = CopyBak(disk.store) /\ p[3] = PutStore(s)
    BY <1>3, <2>1
  <2>3. r[1] = CutBak /\ r[2] = CopyBak(disk.store) /\ r[3] = PutStore(s) /\ Len(r) >= 3
    BY <1>2, <1>3, <2>2 DEF Joined
  <2>4. Cutting(r, disk, disk, s)
    BY <1>5, <1>7, <2>2, <2>3 DEF Cutting
  <2> QED BY <1>1, <1>2, <2>4 DEF Saving
<1> QED BY <1>6, <1>7

(* Rewriting a file in place.                                               *)
LEMMA RewriteIs ==
  ASSUME NEW f, NEW v, NEW p, p = Rewrite(f, v)
  PROVE  /\ DOMAIN p = {1, 2} /\ p[1].file = f /\ p[2].file = f /\ p[2].value = v
         /\ \A d : EndsIn(p, d, f, v)
<1>1. DOMAIN p = {1, 2} /\ p[1].file = f /\ p[2].file = f /\ p[2].value = v
  BY DEF Rewrite, Cut
<1>2. ASSUME NEW d PROVE EndsIn(p, d, f, v)
  BY <1>1 DEF EndsIn
<1> QED BY <1>1, <1>2

(* Renaming a whole file over one.                                          *)
LEMMA PutIs ==
  ASSUME NEW f, NEW v, NEW p, p = Put(f, v)
  PROVE  /\ DOMAIN p = {1} /\ p[1].file = f /\ p[1].value = v
         /\ \A d : EndsIn(p, d, f, v)
<1>1. DOMAIN p = {1} /\ p[1].file = f /\ p[1].value = v
  BY DEF Put
<1>2. ASSUME NEW d PROVE EndsIn(p, d, f, v)
  BY <1>1 DEF EndsIn
<1> QED BY <1>1, <1>2

(* The files that a plan works on. *)
On(p, Q) == \A i \in DOMAIN p : p[i].file \in Q

(* Two plans on some files, one after the other, are on these files.        *)
LEMMA OnConcat ==
  ASSUME NEW p \in Seq(Calls), NEW x \in Seq(Calls), NEW Q, On(p, Q), On(x, Q)
  PROVE  On(p \o x, Q)
<1>1. PICK r \in Seq(Calls), n \in Nat, m \in Nat : r = p \o x /\ Joined(r, p, x, n, m)
  BY ConcatIs
<1>2. ASSUME NEW k \in 1 .. (n + m) PROVE r[k].file \in Q
  <2>1. CASE k \in 1 .. n
    BY <1>1, <2>1 DEF Joined, On
  <2>2. CASE k \notin 1 .. n
    <3>1. PICK h \in 1 .. m : k = n + h
      BY <1>1, <2>2 DEF Joined
    <3>2. r[k] = x[h] /\ h \in DOMAIN x
      BY <1>1, <3>1 DEF Joined
    <3> QED BY <3>2 DEF On
  <2> QED BY <2>1, <2>2
<1>3. On(r, Q)
  BY <1>1, <1>2 DEF Joined, On
<1> QED BY <1>1, <1>3

(* Replacing the store is on the store and its backup.                      *)
LEMMA OnStorePlan ==
  ASSUME NEW s
  PROVE  On(StorePlan(s), {"store", "bak"})
<1>1. CASE disk.store = Missing
  BY <1>1, StorePlanCalls DEF On, PutStore
<1>2. CASE disk.store # Missing
  <2>1. PICK p : p = StorePlan(s) /\ p = <<CutBak, CopyBak(disk.store), PutStore(s)>>
    BY <1>2, StorePlanCalls
  <2>2. DOMAIN p = {1, 2, 3} /\ p[1].file = "bak" /\ p[2].file = "bak" /\ p[3].file = "store"
    BY <2>1 DEF CutBak, CopyBak, PutStore
  <2> QED BY <2>1, <2>2 DEF On
<1> QED BY <1>1, <1>2

(* Without a fault no file of the store is torn. *)
Sound(d, n) == n = 0 => d.store # Torn /\ d.bak # Torn

(* What an operation begins with.                                           *)
LEMMA JobHas ==
  ASSUME NEW kind, NEW plan, NEW s, NEW paths, NEW j, j = Job(kind, plan, s, paths)
  PROVE  j.kind = kind /\ j.plan = plan /\ j.store = s /\ j.paths = paths /\ j.snap = disk /\ ~j.failed
BY DEF Job

(* What no operation is.                                                    *)
LEMMA IdleHas == Idle.kind = "idle" /\ Idle.plan = <<>> /\ ~Idle.failed /\ Idle.snap = Missing
BY DEF Idle

(* A plan on other files leaves the store and its backup alone.             *)
LEMMA BeyondOn ==
  ASSUME NEW p, NEW Q, On(p, Q), "store" \notin Q, "bak" \notin Q
  PROVE  Beyond(p, 0)
BY DEF On, Beyond

(* Rewriting the ciphertext ends with it made from the store and the        *)
(* keyring.                                                                 *)
LEMMA CipherCalls ==
  ASSUME NEW s \in Stores, NEW k \in Keyrings
  PROVE  /\ CipherPlan(s, k) \in Seq(Calls) /\ On(CipherPlan(s, k), {"cipher"})
         /\ \A d : EndsIn(CipherPlan(s, k), d, "cipher", [store |-> s, keys |-> k])
<1>1. Whole(k)
  BY CredStoreAssumption DEF Whole, Keyrings
<1>2. PICK v : v = [store |-> s, keys |-> k]
  OBVIOUS
<1>3. PICK p : p = Rewrite("cipher", v) /\ p = CipherPlan(s, k)
  BY <1>2 DEF CipherPlan
<1>4. p \in Seq(Calls)
  BY <1>1, <1>3, CipherPlanIs
<1>5. On(p, {"cipher"})
  BY <1>3, RewriteIs DEF On
<1> QED BY <1>2, <1>3, <1>4, <1>5, RewriteIs

(* A write-store at its first call (runEffect, writeStore,                  *)
(* syncSecretsFile).                                                        *)
LEMMA WriteBegins ==
  ASSUME disk \in Disks, NEW s \in Stores, NEW n, Sound(disk, n), NEW j, j = WriteJob(s)
  PROVE  j \in Jobs /\ j.kind = "write" /\ j.store = s /\ FilesInv(j, disk, n)
<1>1. PICK x \in Seq(Calls) : x = SyncPlan(s) /\ On(x, {"cipher"})
  <2>1. CASE Whole(disk.keys)
    <3>1. disk.keys \in Keyrings
      BY <2>1, DiskIs DEF Whole
    <3> QED BY <2>1, <3>1, CipherCalls DEF SyncPlan
  <2>2. CASE ~Whole(disk.keys)
    <3>1. <<>> \in Seq(Calls) /\ On(<<>>, {"cipher"})
      BY DEF On
    <3> QED BY <2>2, <3>1 DEF SyncPlan
  <2> QED BY <2>1, <2>2
<1>2. Beyond(x, 0)
  BY <1>1, BeyondOn
<1>s. s \in Content
  BY DEF Content
<1>3. PICK p \in Seq(Calls) : p = StorePlan(s) \o x /\ Saving(p, disk, disk, s)
  BY <1>2, <1>s, SavingBegins
<1>4. On(p, {"store", "bak", "cipher"})
  <2>1. PICK a \in Seq(Calls) : a = StorePlan(s) /\ On(a, {"store", "bak"})
    BY <1>s, StorePlanIs, OnStorePlan
  <2>2. On(a, {"store", "bak", "cipher"}) /\ On(x, {"store", "bak", "cipher"})
    BY <1>1, <2>1 DEF On
  <2> QED BY <1>3, <2>1, <2>2, OnConcat
<1>5. j = Job("write", p, s, <<>>)
  BY <1>1, <1>3 DEF WriteJob
<1>6. j \in Jobs
  <2>1. <<>> \in Seq(Files) /\ "write" \in JobKinds
    BY DEF JobKinds
  <2> QED BY <1>5, <2>1, JobIs
<1>7. j.kind = "write" /\ j.plan = p /\ j.store = s /\ j.snap = disk /\ ~j.failed
  BY <1>5, JobHas
<1>8. Going(j, disk)
  BY <1>3, <1>4, <1>7 DEF Going, On
<1>9. Stage(j, disk, n) /\ NukeStage(j, disk, n) /\ Unhurt(j, disk, n)
  BY <1>7, <1>8 DEF Stage, NukeStage, Unhurt, Sound
<1> QED BY <1>6, <1>7, <1>9 DEF FilesInv

(* A restore-backup at its first call.                                      *)
LEMMA UndoBegins ==
  ASSUME disk \in Disks, disk.bak # Missing, NEW n, Sound(disk, n), NEW j, j = UndoJob
  PROVE  j \in Jobs /\ j.kind = "undo" /\ FilesInv(j, disk, n)
<1>1. "store" \in Files /\ disk.bak \in FileValues /\ Fits("store", disk.bak)
  BY DiskIs DEF Files, FileValues, Fits, Content
<1>2. PICK p \in Seq(Calls) : p = Copy("store", disk.bak)
  BY <1>1, CallsAre
<1>3. p = <<CutStore, CopyStore(disk.bak)>>
  BY <1>2 DEF Copy, Cut, CutStore, CopyStore
<1>4. j = Job("undo", p, 0, <<>>)
  BY <1>2 DEF UndoJob
<1>5. j \in Jobs
  <2>1. <<>> \in Seq(Files) /\ "undo" \in JobKinds /\ 0 \in Stores
    BY CredStoreAssumption DEF JobKinds, Stores
  <2> QED BY <1>4, <2>1, JobIs
<1>6. j.kind = "undo" /\ j.plan = p /\ j.snap = disk /\ ~j.failed
  BY <1>4, JobHas
<1>7. Going(j, disk)
  BY <1>3, <1>6 DEF Going, Undoing
<1>8. Stage(j, disk, n) /\ NukeStage(j, disk, n) /\ Unhurt(j, disk, n)
  BY <1>6, <1>7 DEF Stage, NukeStage, Unhurt, Sound
<1> QED BY <1>5, <1>6, <1>8 DEF FilesInv

(* An operation that leaves the store and its backup alone. *)
LEMMA OtherBegins ==
  ASSUME disk \in Disks, NEW n, Sound(disk, n), NEW kind \in {"export", "init-keys", "encrypt"},
         NEW p \in Seq(Calls), Beyond(p, 0), NEW j, j = Job(kind, p, 0, <<>>)
  PROVE  j \in Jobs /\ j.kind = kind /\ FilesInv(j, disk, n)
<1>1. j \in Jobs
  <2>1. <<>> \in Seq(Files) /\ kind \in JobKinds /\ 0 \in Stores
    BY CredStoreAssumption DEF JobKinds, Stores
  <2> QED BY <2>1, JobIs
<1>2. j.kind = kind /\ j.plan = p /\ j.snap = disk /\ ~j.failed
  BY JobHas
<1>3. Going(j, disk) /\ Sparing(j.plan, j.snap, disk)
  BY <1>2 DEF Going, Sparing
<1>4. Stage(j, disk, n) /\ NukeStage(j, disk, n) /\ Unhurt(j, disk, n)
  BY <1>2, <1>3 DEF Stage, NukeStage, Unhurt, Sound
<1> QED BY <1>1, <1>2, <1>4 DEF FilesInv

(* A command that changes the store. *)
LEMMA ChangeBegins ==
  ASSUME disk \in Disks, NEW n, Sound(disk, n), NEW kind \in {"decrypt", "import"}, NEW s \in Stores,
         NEW j, j = Job(kind, StorePlan(s), 0, <<>>)
  PROVE  j \in Jobs /\ j.kind = kind /\ FilesInv(j, disk, n)
<1>1. <<>> \in Seq(Calls) /\ Beyond(<<>>, 0) /\ s \in Content
  BY DEF Beyond, Content
<1>2. PICK p \in Seq(Calls) : p = StorePlan(s) \o <<>> /\ Saving(p, disk, disk, s)
  BY <1>1, SavingBegins
<1>3. p = StorePlan(s)
  <2>1. PICK a \in Seq(Calls) : a = StorePlan(s)
    BY <1>1, StorePlanIs
  <2>2. a \o <<>> = a
    BY <2>1, ConcatEmptySeq
  <2> QED BY <1>2, <2>1, <2>2
<1>4. j \in Jobs
  <2>1. <<>> \in Seq(Files) /\ kind \in JobKinds /\ 0 \in Stores
    BY CredStoreAssumption DEF JobKinds, Stores
  <2> QED BY <1>3, <2>1, JobIs
<1>5. j.kind = kind /\ j.plan = p /\ j.snap = disk /\ ~j.failed
  BY <1>3, JobHas
<1>6. Going(j, disk)
  BY <1>2, <1>5 DEF Going
<1>7. Stage(j, disk, n) /\ NukeStage(j, disk, n) /\ Unhurt(j, disk, n)
  BY <1>5, <1>6 DEF Stage, NukeStage, Unhurt, Sound
<1> QED BY <1>4, <1>5, <1>7 DEF FilesInv

(* No operation has nothing under way.                                      *)
LEMMA IdleBegins ==
  ASSUME NEW d, NEW n, Sound(d, n)
  PROVE  Idle \in Jobs /\ FilesInv(Idle, d, n)
<1>1. Going(Idle, d)
  BY IdleHas DEF Going
<1>2. Stage(Idle, d, n) /\ NukeStage(Idle, d, n) /\ Unhurt(Idle, d, n)
  BY <1>1, IdleHas DEF Stage, NukeStage, Unhurt, Sound
<1> QED BY <1>2, IdleIs DEF FilesInv

(* The calls of a nuke after those on the store, and the paths it keeps. *)
NukeRest(kind, s, k) ==
  (IF kind = "full" THEN Put("keys", k) ELSE <<>>) \o (IF k # Missing THEN CipherPlan(s, k) ELSE <<>>)
NukeKept(kind, k) ==
  (IF k # Missing THEN <<"cipher">> ELSE <<>>) \o (IF kind = "full" THEN <<"keys">> ELSE <<>>) \o <<"bak", "store">>

(* The keyring it ends with: a new one, or the one there is, if any. *)
NukeKey(kind, k) ==
  /\ kind \in {"soft", "full"}
  /\ k \in Keyrings \/ (k = Missing /\ kind = "soft")
  /\ kind = "soft" => k = disk.keys

(* A keyring is a whole one.                                                *)
LEMMA KeyIs == \A k \in Keyrings : k # Missing /\ Whole(k) /\ k \in Keyrings \cup {Missing, Torn} /\ Fits("keys", k)
BY CredStoreAssumption DEF Keyrings, Whole, Fits

(* The paths a nuke puts back hold every file it writes.                    *)
LEMMA NukeKeeps ==
  ASSUME NEW kind, NEW k, NukeKey(kind, k), NEW q, q = NukeKept(kind, k)
  PROVE  /\ q \in NukePaths /\ q \in Seq(Files)
         /\ Named(q, "store") /\ Named(q, "bak")
         /\ k # Missing => Named(q, "cipher")
         /\ kind = "full" => Named(q, "keys")
<1>1. CASE k = Missing
  <2>1. q = (<<>> \o <<>>) \o <<"bak", "store">>
    BY <1>1, KeyIs DEF NukeKept, NukeKey
  <2>2. q = <<"bak", "store">>
    BY <2>1, ConcatsAre
  <2>3. DOMAIN q = {1, 2} /\ q[1] = "bak" /\ q[2] = "store"
    BY <2>2
  <2>4. q \in NukePaths /\ q \in Seq(Files)
    BY <2>2 DEF NukePaths, Files
  <2>5. Named(q, "store") /\ Named(q, "bak")
    BY <2>3 DEF Named
  <2>6. kind # "full"
    BY <1>1, KeyIs DEF NukeKey
  <2> QED BY <1>1, <2>4, <2>5, <2>6
<1>2. CASE k # Missing /\ kind = "soft"
  <2>1. q = (<<"cipher">> \o <<>>) \o <<"bak", "store">>
    BY <1>2 DEF NukeKept, NukeKey
  <2>2. q = <<"cipher", "bak", "store">>
    BY <2>1, ConcatsAre
  <2>3. DOMAIN q = {1, 2, 3} /\ q[1] = "cipher" /\ q[2] = "bak" /\ q[3] = "store"
    BY <2>2
  <2>4. q \in NukePaths /\ q \in Seq(Files)
    BY <2>2 DEF NukePaths, Files
  <2>5. Named(q, "store") /\ Named(q, "bak") /\ Named(q, "cipher")
    BY <2>3 DEF Named
  <2> QED BY <1>2, <2>4, <2>5
<1>3. CASE k # Missing /\ kind = "full"
  <2>1. q = (<<"cipher">> \o <<"keys">>) \o <<"bak", "store">>
    BY <1>3 DEF NukeKept, NukeKey
  <2>0. <<"cipher">> \o <<"keys">> = <<"cipher", "keys">>
    BY ConcatsAre
  <2>2. q = <<"cipher", "keys", "bak", "store">>
    <3>1. PICK a, b, c, d : a = "cipher" /\ b = "keys" /\ c = "bak" /\ d = "store"
      OBVIOUS
    <3>2. <<a, b>> \o <<c, d>> = <<a, b, c, d>>
      BY ConcatsAre
    <3> QED BY <2>0, <2>1, <3>1, <3>2
  <2>3. DOMAIN q = {1, 2, 3, 4} /\ q[1] = "cipher" /\ q[2] = "keys" /\ q[3] = "bak" /\ q[4] = "store"
    BY <2>2
  <2>4. q \in NukePaths /\ q \in Seq(Files)
    BY <2>2 DEF NukePaths, Files
  <2>5. Named(q, "store") /\ Named(q, "bak") /\ Named(q, "cipher") /\ Named(q, "keys")
    BY <2>3 DEF Named
  <2> QED BY <2>4, <2>5
<1> QED BY <1>1, <1>2, <1>3 DEF NukeKey

(* After the store a nuke writes the keyring and the ciphertext made with   *)
(* it.                                                                      *)
LEMMA NukeRestIs ==
  ASSUME NEW kind, NEW k, NukeKey(kind, k), NEW s \in Stores, NEW x, x = NukeRest(kind, s, k)
  PROVE  /\ x \in Seq(Calls) /\ On(x, {"keys", "cipher"})
         /\ k = Missing => On(x, {})
         /\ kind = "soft" => On(x, {"cipher"})
         /\ EndsIn(x, disk, "keys", k)
         /\ k # Missing => EndsIn(x, disk, "cipher", [store |-> s, keys |-> k])
<1>0. <<>> \in Seq(Calls) /\ \A Q : On(<<>>, Q)
  BY DEF On
<1>1. CASE k = Missing
  <2>1. x = <<>> \o <<>>
    BY <1>1, KeyIs DEF NukeRest, NukeKey
  <2>2. x = <<>>
    BY <2>1, ConcatsAre
  <2>3. EndsIn(x, disk, "keys", k)
    BY <1>1, <2>2, KeyIs DEF EndsIn, NukeKey
  <2> QED BY <1>0, <1>1, <2>2, <2>3
<1>2. CASE k # Missing
  <2>1. k \in Keyrings
    BY <1>2 DEF NukeKey
  <2>2. PICK c \in Seq(Calls) : c = CipherPlan(s, k) /\ On(c, {"cipher"}) /\ EndsIn(c, disk, "cipher", [store |-> s, keys |-> k])
    BY <2>1, CipherCalls
  <2>3. CASE kind = "soft"
    <3>1. x = <<>> \o c
      BY <1>2, <2>2, <2>3 DEF NukeRest
    <3>2. x = c
      BY <2>2, <3>1, ConcatEmptySeq
    <3>3. EndsIn(x, disk, "keys", k)
      BY <2>2, <2>3, <3>2 DEF EndsIn, On, NukeKey
    <3>4. On(x, {"keys", "cipher"})
      BY <2>2, <3>2 DEF On
    <3> QED BY <1>2, <2>2, <3>2, <3>3, <3>4
  <2>4. CASE kind = "full"
    <3>1. PICK p \in Seq(Calls) : p = Put("keys", k)
      <4>1. "keys" \in Files /\ k \in FileValues /\ Fits("keys", k)
        BY <2>1, KeyIs DEF Files, FileValues
      <4> QED BY <4>1, CallsAre
    <3>2. On(p, {"keys"}) /\ EndsIn(p, disk, "keys", k)
      BY <3>1, PutIs DEF On
    <3>3. x = p \o c
      BY <1>2, <2>2, <2>4, <3>1 DEF NukeRest
    <3>4. On(p, {"keys", "cipher"}) /\ On(c, {"keys", "cipher"})
      BY <2>2, <3>2 DEF On
    <3>5. On(p \o c, {"keys", "cipher"})
      BY <3>4, OnConcat
    <3>6. PICK v : v = [store |-> s, keys |-> k]
      OBVIOUS
    <3>7. \A i \in DOMAIN c : c[i].file # "keys"
      BY <2>2 DEF On
    <3>8. \A i \in DOMAIN p : p[i].file # "cipher"
      BY <3>2 DEF On
    <3>9. EndsIn(p \o c, disk, "keys", k)
      BY <3>2, <3>7, EndsConcat
    <3>10. EndsIn(c, disk, "cipher", v)
      BY <2>2, <3>6
    <3>11. EndsIn(p \o c, disk, "cipher", v)
      BY <3>8, <3>10, EndsConcat
    <3>12. p \o c \in Seq(Calls)
      BY ConcatProperties
    <3> QED BY <1>2, <2>4, <3>3, <3>5, <3>6, <3>9, <3>11, <3>12
  <2> QED BY <2>3, <2>4 DEF NukeKey
<1> QED BY <1>1, <1>2

(* Three plans in a row, either way.                                        *)
LEMMA ConcatAssoc ==
  ASSUME NEW a \in Seq(Calls), NEW b \in Seq(Calls), NEW c \in Seq(Calls)
  PROVE  (a \o b) \o c = a \o (b \o c)
BY ConcatAssociative

(* A nuke at its first call (commitCredentialNuke).                         *)
LEMMA NukeBegins ==
  ASSUME disk \in Disks, NEW n, Sound(disk, n), NEW kind, NEW k, NukeKey(kind, k), NEW s \in Stores,
         k = (IF kind = "full" THEN keyed + 1 ELSE disk.keys), NEW j, j = NukeJob(kind, s)
  PROVE  j \in Jobs /\ j.kind = "nuke" /\ j.store = s /\ FilesInv(j, disk, n)
<1>1. PICK x \in Seq(Calls) : x = NukeRest(kind, s, k)
  BY NukeRestIs
<1>2. PICK q \in Seq(Files) : q = NukeKept(kind, k)
  BY NukeKeeps
<1>s. s \in Content
  BY DEF Content
<1>3. PICK a \in Seq(Calls) : a = StorePlan(s) /\ On(a, {"store", "bak"})
  BY <1>s, StorePlanIs, OnStorePlan
<1>x. On(x, {"keys", "cipher"})
  BY <1>1, NukeRestIs
<1>4. PICK p \in Seq(Calls) : p = a \o x /\ Saving(p, disk, disk, s)
  <2>1. Beyond(x, 0)
    BY <1>x, BeyondOn
  <2> QED BY <1>3, <1>s, <2>1, SavingBegins
<1>5. j = Job("nuke", p, s, q)
  <2>1. PICK b : b = (IF kind = "full" THEN Put("keys", k) ELSE <<>>)
    OBVIOUS
  <2>2. PICK c : c = (IF k # Missing THEN CipherPlan(s, k) ELSE <<>>)
    OBVIOUS
  <2>3. b \in Seq(Calls) /\ c \in Seq(Calls)
    <3>0. <<>> \in Seq(Calls)
      OBVIOUS
    <3>1. k \in Keyrings => CipherPlan(s, k) \in Seq(Calls)
      BY CipherCalls
    <3>2. k \in Keyrings => Put("keys", k) \in Seq(Calls)
      <4>1. k \in Keyrings => "keys" \in Files /\ k \in FileValues /\ Fits("keys", k)
        BY KeyIs DEF Files, FileValues
      <4> QED BY <4>1, CallsAre
    <3> QED BY <2>1, <2>2, <3>0, <3>1, <3>2 DEF NukeKey
  <2>4. x = b \o c
    BY <1>1, <2>1, <2>2 DEF NukeRest
  <2>5. p = (a \o b) \o c
    <3>1. PICK b1, c1 \in Seq(Calls) : b1 = b /\ c1 = c
      BY <2>3
    <3>2. (a \o b1) \o c1 = a \o (b1 \o c1)
      BY ONLY a \in Seq(Calls), b1 \in Seq(Calls), c1 \in Seq(Calls), ConcatAssoc, Zenon
    <3> QED BY <1>4, <2>4, <3>1, <3>2
  <2>6. j = Job("nuke", (StorePlan(s) \o b) \o c, s, q)
    <3>1. q = ((IF k # Missing THEN <<"cipher">> ELSE <<>>) \o (IF kind = "full" THEN <<"keys">> ELSE <<>>)) \o <<"bak", "store">>
      BY <1>2 DEF NukeKept
    <3> QED BY <2>1, <2>2, <3>1, Zenon DEF NukeJob
  <2> QED BY <1>3, <2>5, <2>6
<1>6. j \in Jobs
  <2>1. "nuke" \in JobKinds
    BY DEF JobKinds
  <2> QED BY <1>5, <2>1, JobIs
<1>7. j.kind = "nuke" /\ j.plan = p /\ j.store = s /\ j.paths = q /\ j.snap = disk /\ ~j.failed
  BY <1>5, JobHas
<1>8. Going(j, disk)
  BY <1>4, <1>7 DEF Going
<1>9. \A i \in DOMAIN p : Named(q, p[i].file)
  <2>0. Named(q, "store") /\ Named(q, "bak") /\ (k # Missing => Named(q, "cipher")) /\ (kind = "full" => Named(q, "keys"))
    BY <1>2, NukeKeeps
  <2>1. PICK Q : Q = {f \in Files : Named(q, f)}
    OBVIOUS
  <2>2. On(a, Q)
    BY <1>3, <2>0, <2>1 DEF On, Files
  <2>3. (k = Missing => On(x, {})) /\ (kind = "soft" => On(x, {"cipher"}))
    BY <1>1, NukeRestIs
  <2>4. On(x, Q)
    <3>1. CASE k = Missing
      BY <2>3, <3>1 DEF On
    <3>2. CASE k # Missing /\ kind = "soft"
      BY <2>0, <2>1, <2>3, <3>2 DEF On, Files
    <3>3. CASE k # Missing /\ kind = "full"
      BY <1>x, <2>0, <2>1, <3>3 DEF On, Files
    <3> QED BY <3>1, <3>2, <3>3 DEF NukeKey
  <2>5. On(p, Q)
    BY <1>4, <2>2, <2>4, OnConcat
  <2> QED BY <2>1, <2>5 DEF On
<1>10. Rekeys(j, disk)
  <2>1. EndsIn(x, disk, "keys", k)
    BY <1>1, NukeRestIs
  <2>2. PICK v : v = [store |-> s, keys |-> k]
    OBVIOUS
  <2>3. k # Missing => EndsIn(x, disk, "cipher", v)
    BY <1>1, <2>2, NukeRestIs
  <2>4. \A i \in DOMAIN a : a[i].file # "keys" /\ a[i].file # "cipher"
    BY <1>3 DEF On
  <2>5. EndsIn(p, disk, "keys", k)
    BY <1>4, <2>1, <2>4, EndsConcat
  <2>6. k # Missing => EndsIn(p, disk, "cipher", v)
    BY <1>4, <2>3, <2>4, EndsConcat
  <2>7. Whole(k) => k # Missing
    BY DEF Whole
  <2> QED BY <1>7, <2>2, <2>5, <2>6, <2>7 DEF Rekeys
<1>11. q \in NukePaths
  BY <1>2, NukeKeeps
<1>12. Stage(j, disk, n) /\ Unhurt(j, disk, n)
  BY <1>7, <1>8 DEF Stage, Unhurt, Sound
<1>13. NukeStage(j, disk, n)
  BY <1>7, <1>9, <1>10, <1>11 DEF NukeStage
<1> QED BY <1>6, <1>7, <1>12, <1>13 DEF FilesInv

(***************************************************************************)
(* Pushes and nukes under way, each counted where it is: waiting to run,   *)
(* running, or reported and waiting to be reduced.                         *)
(***************************************************************************)
Tokens ==
  /\ pushes + Count(queue, {"git-commit-push"}) + Count(inbox, {"GIT_DONE"}) = (IF ui.busy THEN 1 ELSE 0)
  /\ ui.mode = "push-confirm" => ~ui.busy

NukeReports == {"NUKE_OK", "NUKE_FAILED"}
Launched == Count(queue, {"nuke"})
Answered == Count(inbox, NukeReports)
Confirmed == Count(inbox, {"NUKE_SUBMIT"})

(* What the nuke's screen takes, and the keys it does not. *)
Hold  == {"TYPE", "NUKE_SUBMIT", "NUKE_CANCEL", "QUIT"} \cup Reports
Other == KeyTypes \ Hold
Calm == Count(inbox, Other) = 0

Nukes ==
  /\ Launched + Answered <= 1
  /\ ui.mode = "nuke-running" => Launched + Answered >= 1
  /\ Launched + Answered = 1 /\ ui.mode = "nuke-confirm" => phase = "reduce" /\ Confirmed = 0 /\ Launched = 0
  /\ Launched + Answered = 1 /\ Confirmed > 0 => phase = "reduce" /\ Answered = 0
  /\ phase = "reduce" /\ Launched = 1 => Calm
  /\ phase # "reduce" => (Confirmed > 0 => ui.mode = "nuke-confirm") /\ (ui.mode = "nuke-confirm" => Calm)
  /\ Confirmed > 0 => Calm

(* A keyring is left for a full nuke that was confirmed. *)
Keyable ==
  /\ \A i \in DOMAIN queue : queue[i].type = "nuke" /\ queue[i].kind = "full" /\ job.kind # "nuke" => keyed < MaxKeyrings
  /\ Confirmed > 0 /\ ui.mode = "nuke-confirm" /\ ui.kind = "full" => keyed < MaxKeyrings

Inv == TuiInv /\ Tokens /\ Nukes /\ Keyable /\ FilesInv(job, disk, faults)

(* The keys that the screen takes. *)
Offered(key) ==
  /\ key \in Keystrokes
  /\ key.type = "NUKE_SUBMIT" => ui.mode = "nuke-confirm"
  /\ ui.mode = "nuke-confirm" => key.type \in Hold

(* A key is its type and an argument.                                       *)
LEMMA KeysAre ==
  ASSUME NEW t, NEW A, NEW key \in Keys(t, A)
  PROVE  key.type = t /\ key.arg \in A /\ key \in [type : {t}, arg : A]
BY DEF Keys

(* The keys a screen takes (keymap).                                        *)
LEMMA KeymapIs ==
  ASSUME ui \in Screens, NEW key \in Keymap
  PROVE  Offered(key)
<1>1. ASSUME NEW t \in KeyTypes, NEW A \in SUBSET KeyArgs, key \in Keys(t, A),
             t \notin {"TYPE", "OPEN_EDIT", "USERS_INPUT", "NUKE_OPEN"}
      PROVE  key \in Keystrokes /\ key.type = t
  BY <1>1, KeysAre DEF Keystrokes
<1>2. ASSUME key \in Keys("TYPE", {"empty", "valid", "invalid"}) \/ key \in Keys("TYPE", {"empty", "valid"})
      PROVE  key \in Keystrokes /\ key.type = "TYPE"
  <2>1. key.type = "TYPE" /\ key.arg \in {"empty", "valid", "invalid"}
    BY <1>2, KeysAre
  <2>2. key \in [type : KeyTypes, arg : KeyArgs]
    BY <1>2 DEF Keys, KeyTypes, KeyArgs
  <2> QED BY <2>1, <2>2 DEF Keystrokes
<1>3. ASSUME key \in Keys("OPEN_EDIT", {"edit", "users", "ca-select"})
      PROVE  key \in Keystrokes /\ key.type = "OPEN_EDIT"
  BY <1>3, KeysAre DEF Keystrokes, KeyTypes, KeyArgs
<1>4. ASSUME key \in Keys("USERS_INPUT", {"add", "rename"})
      PROVE  key \in Keystrokes /\ key.type = "USERS_INPUT"
  BY <1>4, KeysAre DEF Keystrokes, KeyTypes, KeyArgs
<1>5. ASSUME key \in Keys("NUKE_OPEN", {"soft", "full"})
      PROVE  key \in Keystrokes /\ key.type = "NUKE_OPEN"
  BY <1>5, KeysAre DEF Keystrokes, KeyTypes, KeyArgs
<1>6. \A t \in KeyTypes \ {"TYPE", "OPEN_EDIT", "USERS_INPUT", "NUKE_OPEN"} :
         key \in Key(t) \/ key \in YesNo(t) => key \in Keystrokes /\ key.type = t
  BY <1>1 DEF Key, YesNo, KeyArgs
<1>7. CASE key \in Key("QUIT")
  BY <1>6, <1>7 DEF Offered, KeyTypes, Hold
<1>8. CASE ui.mode = "users" /\ key \in UsersKeys
  <2>1. key \in Keys("USERS_REMOVE", {"delete", "clear"}) => key \in Keystrokes /\ key.type = "USERS_REMOVE"
    BY <1>1 DEF KeyTypes, KeyArgs
  <2>2. \/ key \in YesNo("USERS_CONFIRM") \/ key \in Typing \/ key \in Key("USERS_SUBMIT") \/ key \in Key("USERS_CANCEL")
        \/ key \in Keys("USERS_INPUT", {"add", "rename"}) \/ key \in Keys("USERS_REMOVE", {"delete", "clear"})
    BY <1>8 DEF UsersKeys
  <2>3. key \in Keystrokes /\ key.type # "NUKE_SUBMIT"
    BY <1>2, <1>4, <1>6, <2>1, <2>2 DEF Typing, KeyTypes
  <2> QED BY <1>8, <2>3 DEF Offered
<1>9. CASE ui.mode = "nuke-confirm" /\ key \in Keys("TYPE", {"empty", "valid"}) \cup Keys("NUKE_SUBMIT", {Enriched}) \cup Key("NUKE_CANCEL")
  <2>1. key \in Keys("NUKE_SUBMIT", {Enriched}) => key \in Keystrokes /\ key.type = "NUKE_SUBMIT"
    BY <1>1 DEF KeyTypes, KeyArgs, Enriched
  <2>2. key \in Keystrokes /\ key.type \in {"TYPE", "NUKE_SUBMIT", "NUKE_CANCEL"}
    BY <1>2, <1>6, <1>9, <2>1 DEF KeyTypes
  <2> QED BY <1>9, <2>2 DEF Offered, Hold
<1>10. CASE ui.mode = "nuke-done" /\ key \in Key("NUKE_CANCEL") \cup Key("TAB_MOVE")
  BY <1>6, <1>10 DEF Offered, KeyTypes
<1>11. CASE ui.mode = "edit" /\ key \in Typing \cup Key("SUBMIT") \cup Key("CANCEL")
  BY <1>2, <1>6, <1>11 DEF Offered, KeyTypes, Typing
<1>12. CASE ui.mode = "ca-select" /\ key \in Keys("CA_PICK", {"value", "path"}) \cup Key("CANCEL")
  <2>1. key \in Keys("CA_PICK", {"value", "path"}) => key \in Keystrokes /\ key.type = "CA_PICK"
    BY <1>1 DEF KeyTypes, KeyArgs
  <2> QED BY <1>6, <1>12, <2>1 DEF Offered, KeyTypes
<1>13. CASE ui.mode = "reveal-confirm" /\ key \in YesNo("REVEAL_CONFIRM")
  BY <1>6, <1>13 DEF Offered, KeyTypes
<1>14. CASE ui.mode = "push-confirm" /\ key \in YesNo("PUSH_CONFIRM")
  BY <1>6, <1>14 DEF Offered, KeyTypes
<1>15. CASE ui.mode = "setup-secrets" /\ key \in YesNo("SETUP_SECRETS")
  BY <1>6, <1>15 DEF Offered, KeyTypes
<1>16. CASE ui.mode = "dashboard" /\ key \in DashboardKeys
  <2>1. \/ key \in Key("TAB_MOVE") \/ key \in Key("UPDATE_ENVS") \/ key \in Key("PUSH_OPEN")
        \/ key \in Keys("NUKE_OPEN", {"soft", "full"}) \/ key \in Keys("OPEN_EDIT", {"edit", "users", "ca-select"})
        \/ \E t \in {"CHANGE", "REVEAL_OPEN", "EXPORT", "UNDO", "SETUP_START"} : key \in Key(t)
    BY <1>16 DEF DashboardKeys
  <2>2. key \in Keystrokes /\ key.type # "NUKE_SUBMIT"
    BY <1>3, <1>5, <1>6, <2>1 DEF KeyTypes
  <2> QED BY <1>16, <2>2 DEF Offered
<1>17. ui.mode \in Modes
  BY DEF Screens
<1> QED BY <1>7, <1>8, <1>9, <1>10, <1>11, <1>12, <1>13, <1>14, <1>15, <1>16, <1>17 DEF Keymap, Modes

(* How many wait is a number.                                               *)
LEMMA CountsAre ==
  ASSUME inbox \in Seq(Actions), queue \in Seq(Effects)
  PROVE  /\ \A T : Count(inbox, T) \in Nat
         /\ \A T : Count(queue, T) \in Nat
BY CountIs

(* A key pressed keeps the invariant.                                       *)
LEMMA PressKeeps ==
  ASSUME Inv, Press
  PROVE  Inv'
<1>1. PICK key \in Keymap :
        /\ key.type \in Makes => made + Pressed(Makes) < MaxStores
        /\ key.type = "NUKE_SUBMIT" /\ ui.kind = "full" => keyed < MaxKeyrings
        /\ inbox' = Append(inbox, key)
  BY DEF Press
<1>2. /\ proc = "tui" /\ phase \in {"wait", "commit"}
      /\ disk' = disk /\ proc' = proc /\ job' = job /\ made' = made /\ keyed' = keyed /\ faults' = faults
      /\ mem' = mem /\ ui' = ui /\ queue' = queue /\ phase' = phase /\ pushes' = pushes /\ crossed' = crossed
  BY DEF Press
<1>3. Offered(key)
  BY KeymapIs DEF Inv, TuiInv, TuiType
<1>4. key \in Actions /\ inbox \in Seq(Actions) /\ queue \in Seq(Effects)
  BY <1>3 DEF Offered, Actions, Inv, TuiInv, TuiType
<1>5. inbox' \in Seq(Actions) /\ inbox' # <<>>
  BY <1>1, <1>4, AppendProperties
<1>6. \A T : Count(inbox', T) = Count(inbox, T) + (IF key.type \in T THEN 1 ELSE 0)
  BY <1>1, <1>4, CountAppend
<1>7. (\A T : Count(inbox, T) \in Nat) /\ (\A T : Count(queue, T) \in Nat)
  BY <1>4, CountsAre
<1>8. TuiInv'
  <2>1. DiskType' /\ TuiType' /\ Linked'
    BY <1>2, <1>5 DEF Inv, TuiInv, DiskType, TuiType, Linked
  <2>2. Flow'
    BY <1>2, <1>5 DEF Inv, TuiInv, Flow
  <2>3. MadeInv'
    <3>1. Pressed(Makes) = Count(inbox, Makes)
      BY DEF Pressed, Count, Hits
    <3>2. made + Count(inbox, Makes) <= MaxStores /\ made \in Nat /\ Count(inbox, Makes) \in Nat /\ MaxStores \in Nat
      BY <1>7, CredStoreAssumption DEF Inv, TuiInv, DiskType, MadeInv
    <3>3. Count(inbox', Makes) = Count(inbox, Makes) + (IF key.type \in Makes THEN 1 ELSE 0)
      BY <1>6
    <3>4. made + Count(inbox', Makes) <= MaxStores
      BY <1>1, <3>1, <3>2, <3>3
    <3> QED BY <1>2, <3>4 DEF MadeInv
  <2> QED BY <2>1, <2>2, <2>3 DEF TuiInv
<1>9. Tokens'
  <2>1. key.type \notin {"GIT_DONE"}
    BY <1>3 DEF Offered, Keystrokes, KeyTypes
  <2>2. Count(inbox', {"GIT_DONE"}) = Count(inbox, {"GIT_DONE"})
    BY <1>6, <1>7, <2>1
  <2> QED BY <1>2, <2>2 DEF Inv, Tokens
<1>10. Answered' = Answered /\ Launched' = Launched /\ Answered \in Nat /\ Launched \in Nat
  <2>1. key.type \notin NukeReports
    BY <1>3 DEF Offered, Keystrokes, KeyTypes, NukeReports
  <2> QED BY <1>2, <1>6, <1>7, <2>1 DEF Answered, Launched
<1>11. Confirmed' = Confirmed + (IF key.type = "NUKE_SUBMIT" THEN 1 ELSE 0) /\ Confirmed \in Nat
  BY <1>6, <1>7 DEF Confirmed
<1>12. Calm' <=> Calm /\ key.type \notin Other
  BY <1>6, <1>7 DEF Calm
<1>13. Nukes'
  <2>1. Nukes /\ phase # "reduce" /\ phase' # "reduce"
    BY <1>2 DEF Inv
  <2>2. Confirmed' > 0 => ui.mode = "nuke-confirm"
    BY <1>3, <1>11, <2>1 DEF Nukes, Offered
  <2>3. ui.mode = "nuke-confirm" => Calm'
    BY <1>3, <1>12, <2>1 DEF Nukes, Offered, Other
  <2>4. Launched + Answered = 1 => ui.mode # "nuke-confirm"
    BY <2>1 DEF Nukes
  <2> QED BY <1>2, <1>10, <2>1, <2>2, <2>3, <2>4 DEF Nukes
<1>14. Keyable'
  <2>1. Keyable
    BY DEF Inv
  <2>2. Confirmed' > 0 /\ ui.mode = "nuke-confirm" /\ ui.kind = "full" => keyed < MaxKeyrings
    BY <1>1, <1>11, <2>1 DEF Keyable
  <2> QED BY <1>2, <2>1, <2>2 DEF Keyable
<1>15. FilesInv(job, disk, faults)'
  BY <1>2 DEF Inv
<1> QED BY <1>8, <1>9, <1>13, <1>14, <1>15 DEF Inv

(* What a reduction adds to the queue is of the types T. *)
Added(T) ==
  /\ queue' \in Seq(Effects)
  /\ \A i \in DOMAIN queue' : queue'[i].type \in T \/ (i \in DOMAIN queue /\ queue'[i] = queue[i])
  /\ \A U : U \cap T = {} => Count(queue', U) = Count(queue, U)

(* A reduction that leaves no effect.                                       *)
LEMMA AddedNone ==
  ASSUME queue \in Seq(Effects), queue' = queue, NEW T
  PROVE  Added(T)
BY DEF Added

(* r is q and then e. *)
Grown(r, q, e) ==
  /\ r \in Seq(Effects) /\ r # <<>>
  /\ \A i \in DOMAIN r : (i \in DOMAIN q /\ r[i] = q[i]) \/ r[i] = e
  /\ \A U : Count(r, U) = Count(q, U) + (IF e.type \in U THEN 1 ELSE 0)
  /\ \A U : Count(q, U) \in Nat

(* A queue and one more.                                                    *)
LEMMA GrownBy ==
  ASSUME NEW q \in Seq(Effects), NEW e \in Effects
  PROVE  Grown(Append(q, e), q, e)
<1>0. PICK r : r = Append(q, e)
  OBVIOUS
<1>1. r \in Seq(Effects) /\ r # <<>> /\ Len(r) = Len(q) + 1
  BY <1>0, AppendProperties
<1>2. ASSUME NEW i \in DOMAIN r PROVE (i \in DOMAIN q /\ r[i] = q[i]) \/ r[i] = e
  BY <1>0, AppendProperties
<1>3. \A U : Count(r, U) = Count(q, U) + (IF e.type \in U THEN 1 ELSE 0)
  BY <1>0, CountAppend
<1>4. \A U : Count(q, U) \in Nat
  BY CountIs
<1> QED BY <1>0, <1>1, <1>2, <1>3, <1>4 DEF Grown

(* A reduction that leaves one effect.                                      *)
LEMMA AddedOne ==
  ASSUME queue \in Seq(Effects), NEW e \in Effects, queue' = Append(queue, e), NEW T, e.type \in T
  PROVE  Added(T) /\ \A U : Count(queue', U) = Count(queue, U) + (IF e.type \in U THEN 1 ELSE 0)
<1>1. Grown(queue', queue, e)
  BY GrownBy
<1>2. \A U : U \cap T = {} => Count(queue', U) = Count(queue, U)
  BY <1>1 DEF Grown
<1> QED BY <1>1, <1>2 DEF Added, Grown

(* A reduction that leaves two.                                             *)
LEMMA AddedTwo ==
  ASSUME queue \in Seq(Effects), NEW e \in Effects, NEW f \in Effects, queue' = Append(Append(queue, e), f),
         NEW T, e.type \in T, f.type \in T
  PROVE  Added(T)
<1>1. PICK q \in Seq(Effects) : q = Append(queue, e)
  BY AppendProperties
<1>2. Grown(q, queue, e)
  BY <1>1, GrownBy
<1>3. Grown(queue', q, f)
  BY <1>1, GrownBy
<1>5. \A U : U \cap T = {} => Count(queue', U) = Count(queue, U)
  BY <1>2, <1>3 DEF Grown
<1>6. \A i \in DOMAIN queue' : queue'[i].type \in T \/ (i \in DOMAIN queue /\ queue'[i] = queue[i])
  BY <1>2, <1>3 DEF Grown
<1>7. queue' \in Seq(Effects)
  BY <1>3 DEF Grown
<1> QED BY <1>5, <1>6, <1>7 DEF Added

Ordinary == (Quiet \ {"git-commit-push"}) \cup {"write-store"}

(* A reduction that stores nothing leaves ordinary effects.                 *)
LEMMA QuietAdds ==
  ASSUME queue \in Seq(Effects), LeavesQuiet
  PROVE  Added(Ordinary)
<1>1. CASE queue' = queue
  BY <1>1, AddedNone
<1>2. CASE \E e \in Effects : /\ e.type \in Quiet \ {"git-commit-push"} /\ (e.type = "restore-backup" => e.over = mem)
                              /\ queue' = Append(queue, e)
  BY <1>2, AddedOne DEF Ordinary
<1>3. CASE queue' = Append(Append(queue, Effect("export-envs")), Effect("check-envs"))
  <2>1. PICK e, f \in Effects : e = Effect("export-envs") /\ f = Effect("check-envs") /\ e.type = "export-envs" /\ f.type = "check-envs"
    BY EffectIs DEF Quiet
  <2>2. e.type \in Ordinary /\ f.type \in Ordinary
    BY <2>1 DEF Ordinary, Quiet
  <2> QED BY <1>3, <2>1, <2>2, AddedTwo
<1> QED BY <1>1, <1>2, <1>3 DEF LeavesQuiet

(* So does one that writes the store.                                       *)
LEMMA PlainAdds ==
  ASSUME queue \in Seq(Effects), Plain
  PROVE  Added(Ordinary)
<1>1. CASE LeavesQuiet
  BY <1>1, QuietAdds
<1>2. CASE PutsBack
  BY <1>2, AddedNone DEF PutsBack
<1>3. CASE \E e \in Effects : e.type = "write-store" /\ Saves(e)
  BY <1>3, AddedOne DEF Ordinary, Saves
<1> QED BY <1>1, <1>2, <1>3 DEF Plain

(* Whatever it does to the screen, a reduction that starts no nuke and ends none. *)
Alike ==
  /\ Head(inbox).type \notin NukeReports
  /\ ui'.mode \in {"nuke-confirm", "nuke-running"} => ui'.mode = ui.mode /\ ui'.kind = ui.kind
  /\ Added(Ordinary \cup {"git-commit-push"})

(* The reductions that matter to a nuke, and the rest.                      *)
LEMMA ReducedIs ==
  ASSUME queue \in Seq(Effects), Reduced
  PROVE  Alike \/ NukeStarts \/ NukeOpens \/ NukeFails \/ NukeEnds
<1>1. ASSUME NEW T \in SUBSET (Ordinary \cup {"git-commit-push"}), Added(T) PROVE Added(Ordinary \cup {"git-commit-push"})
  BY <1>1 DEF Added
<1>2. CASE Plain
  <2>1. Added(Ordinary \cup {"git-commit-push"})
    BY <1>1, <1>2, PlainAdds
  <2>2. ui'.mode \in {"nuke-confirm", "nuke-running"} => ui'.mode = ui.mode /\ ui'.kind = ui.kind
    BY <1>2 DEF Plain, Tame, Grave
  <2>3. Head(inbox).type \notin NukeReports
    BY <1>2 DEF Plain, Closing, NukeReports
  <2> QED BY <1>2, <2>1, <2>2, <2>3 DEF Alike
<1>3. CASE PushOpens
  BY <1>3, AddedNone DEF PushOpens, Alike, NukeReports
<1>4. CASE PushStarts
  <2>1. Added(Ordinary \cup {"git-commit-push"})
    BY <1>4, AddedOne DEF PushStarts
  <2> QED BY <1>4, <2>1 DEF PushStarts, Alike, NukeReports
<1>5. CASE PushEnds
  BY <1>5, AddedNone DEF PushEnds, Alike, NukeReports
<1> QED BY <1>2, <1>3, <1>4, <1>5 DEF Reduced

(* What any reduction does to the actions that wait. *)
Takes ==
  /\ proc = "tui" /\ job = Idle /\ inbox' \in Seq(Actions) /\ Head(inbox) \in Actions
  /\ \A T : Count(inbox, T) = Count(inbox', T) + (IF Head(inbox).type \in T THEN 1 ELSE 0)
  /\ \A T : Count(inbox', T) \in Nat /\ Count(inbox, T) \in Nat /\ Count(queue, T) \in Nat
  /\ inbox' = <<>> => \A T : Count(inbox', T) = 0
  /\ phase = "wait" => \A T : Count(queue, T) = 0

(* A reduction takes the first of what waits.                               *)
LEMMA TakenIs ==
  ASSUME TuiInv, Taken
  PROVE  Takes
<1>1. inbox \in Seq(Actions) /\ inbox # <<>> /\ inbox' = Tail(inbox) /\ queue \in Seq(Effects)
  BY DEF Taken, TuiInv, TuiType
<1>2. inbox' \in Seq(Actions) /\ Head(inbox) \in Actions
  BY <1>1, TailIs
<1>3. \A T : Count(inbox, T) = Count(inbox', T) + (IF Head(inbox).type \in T THEN 1 ELSE 0)
  BY <1>1, CountTail
<1>4. \A T : Count(inbox', T) \in Nat /\ Count(inbox, T) \in Nat /\ Count(queue, T) \in Nat
  BY <1>1, <1>2, CountIs
<1>5. proc = "tui" /\ job = Idle
  BY <1>1 DEF Taken, TuiInv, Flow
<1>6. inbox' = <<>> => \A T : Count(inbox', T) = 0
  BY CountEmpty
<1>7. phase = "wait" => \A T : Count(queue, T) = 0
  BY CountEmpty DEF TuiInv, Flow
<1> QED BY <1>2, <1>3, <1>4, <1>5, <1>6, <1>7 DEF Takes

(* What an action of a type carries.                                        *)
LEMMA MessageIs ==
  ASSUME NEW a \in Actions
  PROVE  /\ a.type \in Returning => a \in Messages /\ a.store \in Stores /\ a.over \in Stores
         /\ a.type \in KeyTypes => a \in Keystrokes
BY DEF Actions, Keystrokes, Messages, KeyTypes, Reports, Returning

(* What a reduction leaves is made of effects.                              *)
LEMMA ReducedQueue ==
  ASSUME queue \in Seq(Effects), Reduced
  PROVE  queue' \in Seq(Effects) /\ Added(Ordinary \cup {"git-commit-push", "nuke"})
<1>1. CASE Alike
  BY <1>1 DEF Alike, Added
<1>2. CASE NukeStarts
  BY <1>2, AddedOne DEF NukeStarts, Saves, Added
<1>3. CASE NukeOpens \/ NukeFails \/ NukeEnds
  BY <1>3, AddedNone DEF NukeOpens, NukeFails, NukeEnds, PutsBack, Added
<1> QED BY <1>1, <1>2, <1>3, ReducedIs

(* What it does to the stores. *)
LEMMA ReducedStores ==
  ASSUME Reduced
  PROVE  \/ Unstored
         \/ PutsBack
         \/ \E e \in Effects : Saves(e)
BY DEF Reduced, Plain, LeavesQuiet, NukeStarts, NukeOpens, NukeFails, NukeEnds, PushOpens, PushStarts, PushEnds

(* A reduction keeps the types and the flow of the dashboard.               *)
LEMMA ReductionKeepsTui ==
  ASSUME TuiInv, Reduced
  PROVE  TuiInv'
<1>1. Taken /\ Takes /\ ui' \in Screens
  BY TakenIs DEF Reduced
<1>2. queue' \in Seq(Effects)
  BY ReducedQueue DEF TuiInv, TuiType
<1>3. /\ disk' = disk /\ proc' = proc /\ job' = job /\ keyed' = keyed /\ faults' = faults /\ pushes' = pushes
      /\ phase' = IF inbox' # <<>> THEN "reduce" ELSE IF queue' # <<>> THEN "commit" ELSE "wait"
  BY <1>1 DEF Taken
<1>4. /\ mem' \in Stores /\ made' \in Nat /\ crossed' \in BOOLEAN /\ made' + Count(inbox', Makes) <= MaxStores
  <2>1. PICK a, b \in Nat : a = Count(inbox', Makes) /\ b = Count(inbox, Makes)
    BY <1>1 DEF Takes
  <2>2. a <= b /\ made + b <= MaxStores /\ MaxStores \in Nat /\ made \in Nat /\ mem \in Stores /\ crossed \in BOOLEAN
    <3>1. b = a + (IF Head(inbox).type \in Makes THEN 1 ELSE 0)
      BY <1>1, <2>1 DEF Takes
    <3> QED BY <2>1, <3>1, CredStoreAssumption DEF TuiInv, TuiType, DiskType, MadeInv
  <2>3. made + a <= MaxStores
    BY <2>2
  <2>4. CASE Unstored
    BY <2>1, <2>2, <2>3, <2>4 DEF Unstored
  <2>5. CASE PutsBack
    <3>1. mem' = Head(inbox).store /\ Head(inbox).store \in Stores /\ made' = made
      BY <1>1, <2>5, MessageIs DEF PutsBack, Takes
    <3>2. crossed' \in BOOLEAN
      BY <2>2, <2>5 DEF PutsBack
    <3> QED BY <2>1, <2>2, <2>3, <3>1, <3>2
  <2>6. CASE \E e \in Effects : Saves(e)
    <3>1. Head(inbox).type \in Makes /\ mem' = made + 1 /\ made' = made + 1 /\ crossed' = crossed
      BY <2>6 DEF Saves
    <3>2. made + 1 \in Stores /\ made + 1 + a <= MaxStores
      BY <1>1, <2>1, <3>1, MadeFits DEF Taken
    <3>3. made + 1 \in Nat
      BY <2>2
    <3> QED BY <2>1, <2>2, <3>1, <3>2, <3>3
  <2> QED BY <2>4, <2>5, <2>6, ReducedStores
<1>5. DiskType'
  BY <1>3, <1>4 DEF TuiInv, DiskType
<1>6. TuiType'
  BY <1>1, <1>2, <1>3, <1>4 DEF TuiInv, TuiType, Takes
<1>7. Flow'
  BY <1>1, <1>3 DEF TuiInv, Flow, Takes
<1>8. Linked'
  BY <1>1, <1>3 DEF Linked, Takes
<1>9. MadeInv'
  BY <1>4 DEF MadeInv
<1> QED BY <1>5, <1>6, <1>7, <1>8, <1>9 DEF TuiInv

(* A reduction keeps one push, at most, from its confirmation to its end.   *)
LEMMA ReductionKeepsTokens ==
  ASSUME TuiInv, Tokens, Reduced
  PROVE  Tokens'
<1>0. queue \in Seq(Effects) /\ ui \in Screens /\ pushes \in Nat /\ pushes' = pushes
  BY DEF TuiInv, TuiType, Reduced, Taken
<1>1. Takes
  BY TakenIs DEF Reduced
<1>2. PICK g, h, g1, h1 \in Nat : /\ g = Count(queue, {"git-commit-push"}) /\ h = Count(inbox, {"GIT_DONE"})
                                /\ h1 = Count(inbox', {"GIT_DONE"}) /\ g1 = Count(queue', {"git-commit-push"})
  <2>1. queue' \in Seq(Effects)
    BY <1>0, ReducedQueue
  <2>2. Count(queue', {"git-commit-push"}) \in Nat
    BY <2>1, CountIs
  <2> QED BY <1>1, <2>2 DEF Takes
<1>3. h = h1 + (IF Head(inbox).type = "GIT_DONE" THEN 1 ELSE 0)
  BY <1>1, <1>2 DEF Takes
<1>4. pushes + g + h = (IF ui.busy THEN 1 ELSE 0) /\ (ui.mode = "push-confirm" => ~ui.busy)
  BY <1>2 DEF Tokens
<1>5. ASSUME queue' = queue PROVE g1 = g
  BY <1>2, <1>5
<1>n. NukeReports \subseteq Closing /\ "GIT_DONE" \in Closing
  BY DEF NukeReports, Closing
<1>6. pushes + g1 + h1 = (IF ui'.busy THEN 1 ELSE 0) /\ (ui'.mode = "push-confirm" => ~ui'.busy)
  <2>1. CASE Plain
    <3>1. Added(Ordinary)
      BY <1>0, <2>1, PlainAdds
    <3>2. g1 = g
      <4>1. {"git-commit-push"} \cap Ordinary = {}
        BY DEF Ordinary
      <4> QED BY <1>2, <3>1, <4>1 DEF Added
    <3>3. h1 = h
      BY <1>3, <1>n, <2>1 DEF Plain
    <3>4. ui'.busy = ui.busy /\ (ui'.mode = "push-confirm" => ui.mode = "push-confirm")
      BY <2>1 DEF Plain, Tame, Grave
    <3> QED BY <1>4, <3>2, <3>3, <3>4
  <2>2. CASE NukeStarts
    <3>1. g1 = g
      BY <1>0, <1>2, <2>2, AddedOne DEF NukeStarts, Saves
    <3> QED BY <1>3, <1>4, <2>2, <3>1 DEF NukeStarts
  <2>3. CASE NukeOpens
    BY <1>3, <1>4, <1>5, <2>3 DEF NukeOpens
  <2>4. CASE NukeFails
    BY <1>3, <1>4, <1>5, <2>4 DEF NukeFails, PutsBack
  <2>5. CASE NukeEnds
    BY <1>3, <1>4, <1>5, <2>5 DEF NukeEnds
  <2>6. CASE PushOpens
    BY <1>3, <1>4, <1>5, <2>6 DEF PushOpens
  <2>7. CASE PushStarts
    <3>1. g1 = g + 1
      BY <1>0, <1>2, <2>7, AddedOne DEF PushStarts
    <3>2. ~ui.busy /\ h1 = h
      BY <1>3, <1>4, <2>7 DEF PushStarts
    <3>3. pushes + g + h = 0
      BY <1>4, <3>2
    <3>4. pushes + g1 + h1 = 1
      BY <1>0, <3>1, <3>2, <3>3
    <3>5. ui'.busy /\ ui'.mode # "push-confirm"
      BY <2>7 DEF PushStarts
    <3> QED BY <3>4, <3>5
  <2>8. CASE PushEnds
    <3>1. ui.busy
      BY <1>3, <1>4, <2>8, <1>0 DEF PushEnds
    <3> QED BY <1>0, <1>3, <1>4, <1>5, <2>8, <3>1 DEF PushEnds
  <2> QED BY <2>1, <2>2, <2>3, <2>4, <2>5, <2>6, <2>7, <2>8 DEF Reduced
<1> QED BY <1>0, <1>2, <1>6 DEF Tokens

(* The counts before and after a reduction: launched l, answered a,        *)
(* confirmed c, other keys o.                                              *)
Counted(l, a, c, o, l1, a1, c1, o1) ==
  /\ l = Launched /\ a = Answered /\ c = Confirmed /\ o = Count(inbox, Other)
  /\ l1 = Launched' /\ a1 = Answered' /\ c1 = Confirmed' /\ o1 = Count(inbox, Other)'

(* A reduction, by the numbers of what waits.                               *)
LEMMA ReductionCounts ==
  ASSUME TuiInv, Reduced
  PROVE  \E l, a, c, o, l1, a1, c1, o1 \in Nat :
           /\ Counted(l, a, c, o, l1, a1, c1, o1)
           /\ a = a1 + (IF Head(inbox).type \in NukeReports THEN 1 ELSE 0)
           /\ c = c1 + (IF Head(inbox).type = "NUKE_SUBMIT" THEN 1 ELSE 0)
           /\ o = o1 + (IF Head(inbox).type \in Other THEN 1 ELSE 0)
           /\ inbox' = <<>> => a1 = 0 /\ c1 = 0 /\ o1 = 0
           /\ phase = "wait" => l = 0
<1>1. Takes
  BY TakenIs DEF Reduced
<1>2. queue' \in Seq(Effects)
  BY ReducedQueue DEF TuiInv, TuiType
<1>3. PICK l, a, c, o \in Nat : l = Launched /\ a = Answered /\ c = Confirmed /\ o = Count(inbox, Other)
  <2>1. Launched \in Nat /\ Answered \in Nat /\ Confirmed \in Nat /\ Count(inbox, Other) \in Nat
    BY <1>1 DEF Takes, Launched, Answered, Confirmed
  <2> QED BY <2>1
<1>4. PICK l1, a1, c1, o1 \in Nat : l1 = Launched' /\ a1 = Answered' /\ c1 = Confirmed' /\ o1 = Count(inbox, Other)'
  <2>1. Launched' \in Nat
    BY <1>2, CountIs DEF Launched
  <2>2. Answered' \in Nat /\ Confirmed' \in Nat /\ Count(inbox, Other)' \in Nat
    BY <1>1 DEF Takes, Answered, Confirmed
  <2> QED BY <2>1, <2>2
<1>8. /\ a = a1 + (IF Head(inbox).type \in NukeReports THEN 1 ELSE 0)
      /\ c = c1 + (IF Head(inbox).type = "NUKE_SUBMIT" THEN 1 ELSE 0)
      /\ o = o1 + (IF Head(inbox).type \in Other THEN 1 ELSE 0)
  <2>1. \A T : Count(inbox, T) = Count(inbox', T) + (IF Head(inbox).type \in T THEN 1 ELSE 0)
    BY <1>1 DEF Takes
  <2>2. /\ Count(inbox, NukeReports) = Count(inbox', NukeReports) + (IF Head(inbox).type \in NukeReports THEN 1 ELSE 0)
        /\ Count(inbox, {"NUKE_SUBMIT"}) = Count(inbox', {"NUKE_SUBMIT"}) + (IF Head(inbox).type \in {"NUKE_SUBMIT"} THEN 1 ELSE 0)
        /\ Count(inbox, Other) = Count(inbox', Other) + (IF Head(inbox).type \in Other THEN 1 ELSE 0)
    BY <2>1
  <2> QED BY <1>3, <1>4, <2>2 DEF Answered, Confirmed
<1>9. inbox' = <<>> => a1 = 0 /\ c1 = 0 /\ o1 = 0
  BY <1>1, <1>4 DEF Takes, Answered, Confirmed
<1>10. phase = "wait" => l = 0
  BY <1>1, <1>3 DEF Takes, Launched
<1>11. Counted(l, a, c, o, l1, a1, c1, o1)
  BY <1>3, <1>4 DEF Counted
<1> WITNESS l \in Nat, a \in Nat, c \in Nat, o \in Nat, l1 \in Nat, a1 \in Nat, c1 \in Nat, o1 \in Nat
<1> QED BY <1>8, <1>9, <1>10, <1>11

(* A reduction keeps one nuke, at most, from its confirmation to its        *)
(* report.                                                                  *)
LEMMA ReductionKeepsNukes ==
  ASSUME TuiInv, Nukes, Keyable, Reduced
  PROVE  Nukes' /\ Keyable'
<1>1. PICK l, a, c, o, l1, a1, c1, o1 \in Nat :
           /\ Counted(l, a, c, o, l1, a1, c1, o1)
           /\ a = a1 + (IF Head(inbox).type \in NukeReports THEN 1 ELSE 0)
           /\ c = c1 + (IF Head(inbox).type = "NUKE_SUBMIT" THEN 1 ELSE 0)
           /\ o = o1 + (IF Head(inbox).type \in Other THEN 1 ELSE 0)
           /\ inbox' = <<>> => a1 = 0 /\ c1 = 0 /\ o1 = 0
           /\ phase = "wait" => l = 0
  BY ReductionCounts
<1>2. /\ phase \in {"wait", "reduce"} /\ keyed' = keyed /\ job' = job
      /\ phase' = "reduce" <=> inbox' # <<>>
  BY DEF Reduced, Taken
<1>3. queue \in Seq(Effects) /\ queue' \in Seq(Effects)
  BY ReducedQueue DEF TuiInv, TuiType
<1>4. /\ l + a <= 1
      /\ ui.mode = "nuke-running" => l + a >= 1
      /\ l + a = 1 /\ ui.mode = "nuke-confirm" => phase = "reduce" /\ c = 0 /\ l = 0
      /\ l + a = 1 /\ c > 0 => phase = "reduce" /\ a = 0
      /\ phase = "reduce" /\ l = 1 => o = 0
      /\ phase # "reduce" => (c > 0 => ui.mode = "nuke-confirm") /\ (ui.mode = "nuke-confirm" => o = 0)
      /\ c > 0 => o = 0
  BY <1>1 DEF Counted, Nukes, Calm
<1>5. \/ Alike /\ l1 = l /\ Head(inbox).type \notin NukeReports
      \/ NukeStarts /\ l1 = l + 1 /\ Head(inbox).type = "NUKE_SUBMIT"
      \/ NukeOpens /\ l1 = l /\ Head(inbox).type \in Other /\ Head(inbox).type \notin NukeReports
      \/ NukeFails /\ l1 = l /\ Head(inbox).type \in NukeReports
      \/ NukeEnds /\ l1 = l /\ Head(inbox).type \in NukeReports
  <2>0. ASSUME queue' = queue PROVE l1 = l
    BY <1>1, <2>0 DEF Counted, Launched
  <2>1. CASE Alike
    <3>1. {"nuke"} \cap (Ordinary \cup {"git-commit-push"}) = {}
      BY DEF Ordinary, Quiet
    <3>2. l1 = l
      BY <1>1, <2>1, <3>1 DEF Alike, Added, Counted, Launched
    <3> QED BY <2>1, <3>2 DEF Alike
  <2>2. CASE NukeStarts
    <3>1. PICK e \in Effects : e.type = "nuke" /\ queue' = Append(queue, e)
      BY <2>2 DEF NukeStarts, Saves
    <3>2. Count(queue', {"nuke"}) = Count(queue, {"nuke"}) + (IF e.type \in {"nuke"} THEN 1 ELSE 0)
      BY <1>3, <3>1, AddedOne
    <3> QED BY <1>1, <2>2, <3>1, <3>2 DEF NukeStarts, Counted, Launched
  <2>3. CASE NukeOpens
    BY <2>0, <2>3 DEF NukeOpens, Other, KeyTypes, Hold, Reports, NukeReports
  <2>4. CASE NukeFails
    BY <2>0, <2>4 DEF NukeFails, NukeReports, PutsBack
  <2>5. CASE NukeEnds
    BY <2>0, <2>5 DEF NukeEnds, NukeReports
  <2> QED BY <1>3, <2>1, <2>2, <2>3, <2>4, <2>5, ReducedIs
<1>6. Nukes' <=>
      /\ l1 + a1 <= 1
      /\ ui'.mode = "nuke-running" => l1 + a1 >= 1
      /\ l1 + a1 = 1 /\ ui'.mode = "nuke-confirm" => phase' = "reduce" /\ c1 = 0 /\ l1 = 0
      /\ l1 + a1 = 1 /\ c1 > 0 => phase' = "reduce" /\ a1 = 0
      /\ phase' = "reduce" /\ l1 = 1 => o1 = 0
      /\ phase' # "reduce" => (c1 > 0 => ui'.mode = "nuke-confirm") /\ (ui'.mode = "nuke-confirm" => o1 = 0)
      /\ c1 > 0 => o1 = 0
  BY <1>1 DEF Counted, Nukes, Calm
<1>7. Keyable' <=>
      /\ \A i \in DOMAIN queue' : queue'[i].type = "nuke" /\ queue'[i].kind = "full" /\ job.kind # "nuke" => keyed < MaxKeyrings
      /\ c1 > 0 /\ ui'.mode = "nuke-confirm" /\ ui'.kind = "full" => keyed < MaxKeyrings
  BY <1>1, <1>2 DEF Counted, Keyable
<1>8. /\ \A i \in DOMAIN queue : queue[i].type = "nuke" /\ queue[i].kind = "full" /\ job.kind # "nuke" => keyed < MaxKeyrings
      /\ c > 0 /\ ui.mode = "nuke-confirm" /\ ui.kind = "full" => keyed < MaxKeyrings
  BY <1>1 DEF Counted, Keyable
<1>9. CASE Alike /\ l1 = l /\ Head(inbox).type \notin NukeReports
  <2>1. ui'.mode \in {"nuke-confirm", "nuke-running"} => ui'.mode = ui.mode /\ ui'.kind = ui.kind
    BY <1>9 DEF Alike
  <2>2. a1 = a /\ (c1 > 0 => c > 0) /\ (c = 0 => c1 = 0) /\ (o = 0 => o1 = 0) /\ (a1 > 0 => inbox' # <<>>) /\ (c1 > 0 => inbox' # <<>>)
    BY <1>1, <1>9
  <2>5. l1 + a1 <= 1 /\ (ui'.mode = "nuke-running" => l1 + a1 >= 1)
    BY <1>4, <1>9, <2>1, <2>2
  <2>6. l1 + a1 = 1 /\ ui'.mode = "nuke-confirm" => phase' = "reduce" /\ c1 = 0 /\ l1 = 0
    BY <1>2, <1>4, <1>9, <2>1, <2>2
  <2>7. l1 + a1 = 1 /\ c1 > 0 => phase' = "reduce" /\ a1 = 0
    BY <1>2, <1>4, <1>9, <2>2
  <2>8. phase' = "reduce" /\ l1 = 1 => o1 = 0
    BY <1>1, <1>2, <1>4, <1>9, <2>2
  <2>9. phase' # "reduce" => (c1 > 0 => ui'.mode = "nuke-confirm") /\ (ui'.mode = "nuke-confirm" => o1 = 0)
    BY <1>1, <1>2
  <2>10. c1 > 0 => o1 = 0
    BY <1>4, <2>2
  <2>3. Nukes'
    BY <1>6, <2>5, <2>6, <2>7, <2>8, <2>9, <2>10
  <2>4. ASSUME NEW i \in DOMAIN queue', queue'[i].type = "nuke" PROVE i \in DOMAIN queue /\ queue'[i] = queue[i]
    BY <1>9, <2>4 DEF Alike, Added, Ordinary, Quiet
  <2> QED BY <1>7, <1>8, <2>1, <2>2, <2>3, <2>4
<1>10. CASE NukeStarts /\ l1 = l + 1 /\ Head(inbox).type = "NUKE_SUBMIT"
  <2>1. c > 0 /\ ui.mode = "nuke-confirm" /\ ui'.mode = "nuke-running" /\ l + a # 1
    BY <1>1, <1>4, <1>10 DEF NukeStarts
  <2>2. l = 0 /\ a = 0 /\ l1 = 1 /\ a1 = 0 /\ o = 0 /\ o1 = 0
    BY <1>1, <1>4, <1>10, <2>1
  <2>3. Nukes'
    BY <1>1, <1>2, <1>6, <2>1, <2>2
  <2>4. PICK e \in Effects : e.type = "nuke" /\ e.kind = ui.kind /\ queue' = Append(queue, e)
    BY <1>10 DEF NukeStarts, Saves
  <2>5. \A i \in DOMAIN queue' : (i \in DOMAIN queue /\ queue'[i] = queue[i]) \/ queue'[i] = e
    <3>1. Grown(queue', queue, e)
      BY <1>3, <2>4, GrownBy
    <3> QED BY <3>1 DEF Grown
  <2>6. \A i \in DOMAIN queue' : queue'[i].type = "nuke" /\ queue'[i].kind = "full" /\ job.kind # "nuke" => keyed < MaxKeyrings
    BY <1>8, <2>1, <2>4, <2>5
  <2> QED BY <1>7, <2>1, <2>3, <2>6
<1>11. CASE NukeOpens /\ l1 = l /\ Head(inbox).type \in Other /\ Head(inbox).type \notin NukeReports
  <2>1. o > 0 /\ c = 0 /\ c1 = 0 /\ l1 = 0 /\ a1 = a /\ (a1 > 0 => inbox' # <<>>) /\ ui'.mode = "nuke-confirm" /\ queue' = queue
    BY <1>1, <1>2, <1>4, <1>11 DEF NukeOpens
  <2>2. Nukes'
    BY <1>1, <1>2, <1>4, <1>6, <2>1
  <2> QED BY <1>7, <1>8, <2>1, <2>2
<1>12. CASE (NukeFails \/ NukeEnds) /\ l1 = l /\ Head(inbox).type \in NukeReports
  <2>1. a = 1 /\ a1 = 0 /\ l1 = 0 /\ c = 0 /\ c1 = 0 /\ ui'.mode \in {"nuke-confirm", "nuke-done"} /\ queue' = queue
    BY <1>1, <1>4, <1>12 DEF NukeFails, NukeEnds, PutsBack
  <2>2. Nukes'
    BY <1>1, <1>2, <1>4, <1>6, <2>1
  <2> QED BY <1>7, <1>8, <2>1, <2>2
<1> QED BY <1>5, <1>9, <1>10, <1>11, <1>12

(* A reduction keeps the invariant.                                         *)
LEMMA ReductionKeeps ==
  ASSUME Inv, Reduction
  PROVE  Inv'
<1>1. Reduced
  BY ReductionIs DEF Inv
<1>2. FilesInv(job, disk, faults)'
  BY <1>1 DEF Reduced, Taken, Inv
<1> QED BY <1>1, <1>2, ReductionKeepsTui, ReductionKeepsTokens, ReductionKeepsNukes DEF Inv

(* When there are none there is none.                                       *)
LEMMA CountZero ==
  ASSUME NEW S, NEW s \in Seq(S), NEW T, Count(s, T) = 0
  PROVE  \A i \in DOMAIN s : s[i].type \notin T
<1>1. IsFiniteSet(Hits(s, T)) /\ Cardinality(Hits(s, T)) = 0
  BY CountIs DEF Count
<1>2. Hits(s, T) = {}
  BY <1>1, FS_EmptySet
<1> QED BY <1>2 DEF Hits

(* Nothing on the screen, nothing that waits. *)
LEMMA DownKeeps ==
  ASSUME inbox' = <<>>, queue' = <<>>, pushes' = 0, ui' = Dashboard, phase' = "wait", mem' \in Stores, crossed' \in BOOLEAN
  PROVE  /\ TuiType' /\ Tokens' /\ Nukes' /\ Keyable'
         /\ made' \in Nat /\ made' <= MaxStores => MadeInv'
<1>1. \A T : Count(<<>>, T) = 0
  BY CountEmpty
<1>2. (\A T : Count(inbox', T) = 0) /\ (\A T : Count(queue', T) = 0)
  BY <1>1
<1>3. Launched' = 0 /\ Answered' = 0 /\ Confirmed' = 0 /\ Calm'
  BY <1>2 DEF Launched, Answered, Confirmed, Calm
<1>4. Dashboard \in Screens /\ Dashboard.mode = "dashboard" /\ ~Dashboard.busy
  BY CredTuiAssumption DEF Dashboard, Screens, Tabs, Modes, Views, Drafts, Kinds, Statuses
<1>5. TuiType'
  <2>1. <<>> \in Seq(Actions) /\ <<>> \in Seq(Effects)
    OBVIOUS
  <2> QED BY <1>4, <2>1 DEF TuiType
<1>6. Tokens'
  BY <1>2, <1>4 DEF Tokens
<1>7. Nukes'
  BY <1>3, <1>4 DEF Nukes
<1>8. Keyable'
  <2>1. DOMAIN queue' = {}
    OBVIOUS
  <2> QED BY <1>3, <2>1 DEF Keyable
<1>9. made' \in Nat /\ made' <= MaxStores => MadeInv'
  <2>1. Count(inbox', Makes) = 0
    BY <1>2
  <2> QED BY <2>1 DEF MadeInv
<1> QED BY <1>5, <1>6, <1>7, <1>8, <1>9

(* The stores made so far are stores.                                       *)
LEMMA MadeIs ==
  ASSUME TuiInv
  PROVE  made \in Nat /\ made <= MaxStores /\ made \in Stores
<1>1. PICK n \in Nat : n = Count(inbox, Makes)
  BY CountsAre DEF TuiInv, TuiType
<1>2. made + n <= MaxStores /\ made \in Nat /\ MaxStores \in Nat
  BY <1>1, CredStoreAssumption DEF TuiInv, DiskType, MadeInv
<1>3. made <= MaxStores
  BY <1>2
<1> QED BY <1>2, <1>3 DEF Stores

(* With no dashboard at work. *)
LEMMA NoTui ==
  ASSUME TuiInv, proc # "tui"
  PROVE  inbox = <<>> /\ queue = <<>> /\ pushes = 0 /\ ui = Dashboard /\ phase = "wait" /\ mem = 0 /\ ~crossed
BY DEF TuiInv, Flow

(* The empty store is one.                                                  *)
LEMMA ZeroIs == 0 \in Stores
BY CredStoreAssumption DEF Stores

(* A call that succeeds keeps the invariant.                                *)
LEMMA CallKeeps ==
  ASSUME Inv, Call, UNCHANGED tuiVars
  PROVE  Inv'
<1>1. job \in Jobs /\ disk \in Disks /\ faults \in Nat /\ job.plan # <<>> /\ FilesInv(job, disk, faults)
  BY CredStoreAssumption DEF Inv, TuiInv, DiskType, Call, Working
<1>2. disk' = After(disk, Head(job.plan)) /\ job' = [job EXCEPT !.plan = Tail(@)]
  BY DEF Call, After
<1>3. job' \in Jobs /\ disk' \in Disks /\ FilesInv(job', disk', faults)
  BY <1>1, <1>2, CallStep
<1>4. job'.kind = job.kind /\ job'.store = job.store
  BY <1>1, <1>2 DEF Jobs
<1>5. job.kind # "idle" /\ job # Idle /\ job' # Idle
  BY <1>1, <1>4, IdleHas DEF Inv, TuiInv, Flow
<1>6. /\ proc' = proc /\ made' = made /\ keyed' = keyed /\ faults' = faults
      /\ mem' = mem /\ ui' = ui /\ inbox' = inbox /\ queue' = queue /\ phase' = phase /\ pushes' = pushes /\ crossed' = crossed
  BY DEF Call, tuiVars
<1>7. TuiInv'
  <2>1. DiskType' /\ TuiType' /\ MadeInv'
    BY <1>3, <1>6 DEF Inv, TuiInv, DiskType, TuiType, MadeInv
  <2>2. Flow'
    BY <1>4, <1>5, <1>6 DEF Inv, TuiInv, Flow
  <2>3. Linked'
    BY <1>4, <1>5, <1>6 DEF Inv, TuiInv, Linked
  <2> QED BY <2>1, <2>2, <2>3 DEF TuiInv
<1>8. Tokens' /\ Nukes' /\ Keyable'
  BY <1>4, <1>6 DEF Inv, Tokens, Nukes, Keyable, Launched, Answered, Confirmed, Calm
<1> QED BY <1>3, <1>6, <1>7, <1>8 DEF Inv

(* A call that fails, as the stages see it. *)
LEMMA FailsAs ==
  ASSUME Inv, CallFails
  PROVE  \E c, a : FailsTo(job, disk, faults, c, a, disk', job')
<1>1. job \in Jobs /\ disk \in Disks /\ faults \in Nat /\ job.plan # <<>> /\ FilesInv(job, disk, faults)
  BY CredStoreAssumption DEF Inv, TuiInv, DiskType, CallFails, Working
<1>2. PICK c : c = Head(job.plan)
  OBVIOUS
<1>3. PICK a \in AfterFailing(c) :
        /\ disk' = [disk EXCEPT ![c.file] = a]
        /\ job' = [job EXCEPT
              !.failed = @ \/ ~(job.kind = "write" /\ c.file = "cipher"),
              !.plan   = IF job.kind # "nuke" THEN <<>>
                         ELSE IF job.failed THEN Without(@, c.file)
                         ELSE RestorePlan(job.paths, disk', job.snap)]
  BY <1>2 DEF CallFails
<1>4. a \in FailValues(c, disk)
  BY DEF AfterFailing, FailValues
<1>5. PICK e, k : e = disk' /\ k = job'
  OBVIOUS
<1>6. /\ k.kind = job.kind /\ k.snap = job.snap /\ k.store = job.store /\ k.paths = job.paths
      /\ k.failed = (job.failed \/ ~(job.kind = "write" /\ c.file = "cipher"))
      /\ k.plan = IF job.kind # "nuke" THEN <<>>
                  ELSE IF job.failed THEN Without(job.plan, c.file) ELSE RestorePlan(job.paths, e, job.snap)
  BY <1>1, <1>3, <1>5 DEF Jobs
<1>7. FailsTo(job, disk, faults, c, a, e, k)
  BY <1>1, <1>2, <1>3, <1>4, <1>5, <1>6 DEF FailsTo
<1> QED BY ONLY <1>5, <1>7

(* A call that fails keeps the invariant.                                   *)
LEMMA CallFailsKeeps ==
  ASSUME Inv, CallFails, UNCHANGED tuiVars
  PROVE  Inv'
<1>1. job \in Jobs /\ disk \in Disks /\ faults \in Nat /\ FilesInv(job, disk, faults)
  BY CredStoreAssumption DEF Inv, TuiInv, DiskType
<1>2. PICK c, a : FailsTo(job, disk, faults, c, a, disk', job')
  BY FailsAs
<1>5. PICK e : e = disk'
  OBVIOUS
<1>6. PICK k : k = job'
  OBVIOUS
<1>7. /\ k.kind = job.kind /\ k.store = job.store
      /\ k.failed = (job.failed \/ ~(job.kind = "write" /\ c.file = "cipher"))
      /\ k.plan = IF job.kind # "nuke" THEN <<>>
                  ELSE IF job.failed THEN Without(job.plan, c.file) ELSE RestorePlan(job.paths, e, job.snap)
  BY <1>2, <1>5, <1>6 DEF FailsTo
<1>8. e \in Disks /\ FilesInv(k, e, faults + 1)
  BY <1>2, <1>5, <1>6, FailStep
<1>9. k.plan \in Seq(Calls)
  <2>1. <<>> \in Seq(Calls) /\ job.plan \in Seq(Calls) /\ job.paths \in Seq(Files)
    BY <1>1 DEF Jobs
  <2>2. job.kind = "nuke" => job.snap \in Disks
    BY <1>1 DEF FilesInv, Stage
  <2>3. job.kind = "nuke" => RestorePlan(job.paths, e, job.snap) \in Seq(Calls)
    BY <1>8, <2>1, <2>2, RestorePlanIs
  <2>4. Without(job.plan, c.file) \in Seq(Calls)
    BY <2>1, WithoutIs
  <2> QED BY <1>7, <2>1, <2>3, <2>4
<1>10. k \in Jobs
  <2>1. PICK p \in Seq(Calls) : p = k.plan
    BY <1>9
  <2>2. PICK b \in BOOLEAN : b = k.failed
    <3>1. job.failed \in BOOLEAN
      BY <1>1 DEF Jobs
    <3>2. k.failed \in BOOLEAN
      BY <1>7, <3>1
    <3> QED BY <3>2
  <2>3. k = [job EXCEPT !.failed = b, !.plan = p]
    <3>1. \E v, q : job' = [job EXCEPT !.failed = v, !.plan = q]
      BY Zenon DEF CallFails
    <3> QED BY <1>1, <1>6, <2>1, <2>2, <3>1 DEF Jobs
  <2> QED BY <1>1, <2>3 DEF Jobs
<1>11. job.kind # "idle" /\ job # Idle /\ job' # Idle /\ job'.kind = job.kind /\ job'.store = job.store
  BY <1>1, <1>6, <1>7, IdleHas DEF Inv, TuiInv, Flow, CallFails, Working
<1>12. /\ proc' = proc /\ made' = made /\ keyed' = keyed /\ faults' = faults + 1 /\ faults < MaxFaults
       /\ mem' = mem /\ ui' = ui /\ inbox' = inbox /\ queue' = queue /\ phase' = phase /\ pushes' = pushes /\ crossed' = crossed
  BY DEF CallFails, tuiVars
<1>13. TuiInv'
  <2>1. DiskType'
    <3>1. faults + 1 \in 0 .. MaxFaults
      BY <1>1, <1>12, CredStoreAssumption
    <3> QED BY <1>5, <1>6, <1>8, <1>10, <1>12, <3>1 DEF Inv, TuiInv, DiskType
  <2>2. TuiType' /\ MadeInv'
    BY <1>12 DEF Inv, TuiInv, TuiType, MadeInv
  <2>3. Flow'
    BY <1>11, <1>12 DEF Inv, TuiInv, Flow
  <2>4. Linked'
    BY <1>11, <1>12 DEF Inv, TuiInv, Linked
  <2> QED BY <2>1, <2>2, <2>3, <2>4 DEF TuiInv
<1>14. Tokens' /\ Nukes' /\ Keyable'
  BY <1>11, <1>12 DEF Inv, Tokens, Nukes, Keyable, Launched, Answered, Confirmed, Calm
<1> QED BY <1>5, <1>6, <1>8, <1>12, <1>13, <1>14 DEF Inv

(* A crash keeps the invariant.                                             *)
LEMMA CrashKeeps ==
  ASSUME Inv, Crash, TuiDown
  PROVE  Inv'
<1>1. /\ proc' = "none" /\ job' = Idle /\ faults' = faults + 1 /\ faults < MaxFaults
      /\ disk' = disk /\ made' = made /\ keyed' = keyed
  BY DEF Crash
<1>2. faults \in Nat /\ faults + 1 \in 0 .. MaxFaults /\ faults + 1 # 0
  BY <1>1, CredStoreAssumption DEF Inv, TuiInv, DiskType
<1>3. /\ TuiType' /\ Tokens' /\ Nukes' /\ Keyable' /\ MadeInv'
  BY <1>1, DownKeeps, MadeIs, ZeroIs DEF TuiDown, Inv
<1>4. DiskType'
  BY <1>1, <1>2, IdleIs DEF Inv, TuiInv, DiskType
<1>5. Flow' /\ Linked'
  BY <1>1, IdleHas DEF Flow, Linked, TuiDown
<1>6. FilesInv(job', disk', faults')
  BY <1>1, <1>2, IdleBegins DEF Sound
<1> QED BY <1>3, <1>4, <1>5, <1>6 DEF Inv, TuiInv

(* With no operation under way and no fault so far no file of the store is  *)
(* torn.                                                                    *)
LEMMA AtIdle ==
  ASSUME Inv, job = Idle
  PROVE  Sound(disk, faults)
BY IdleHas DEF Inv, FilesInv, Unhurt, Sound

(* While an operation's calls are done the files are sound too. *)
LEMMA AtEnd ==
  ASSUME Inv, ~Working
  PROVE  Sound(disk, faults)
BY DEF Inv, FilesInv, Unhurt, Sound, Working

(* A store that can be read is one.                                         *)
LEMMA HeldIs ==
  ASSUME disk \in Disks, Readable
  PROVE  Held \in Stores
<1>1. disk.store \in Content
  BY DiskIs
<1> QED BY <1>1, ZeroIs DEF Held, Readable, Content

(* A command begins: the dashboard is closed. *)
LEMMA CommandKeeps ==
  ASSUME Inv, NEW name, NEW plan, Command(name, plan), UNCHANGED tuiVars,
         job' \in Jobs, job'.kind # "idle", FilesInv(job', disk, faults),
         made' \in Nat, made' <= MaxStores, keyed' \in 0 .. MaxKeyrings
  PROVE  Inv'
<1>1. proc = "none" /\ proc' = "cli" /\ disk' = disk /\ faults' = faults
  BY DEF Command
<1>2. inbox' = <<>> /\ queue' = <<>> /\ pushes' = 0 /\ ui' = Dashboard /\ phase' = "wait" /\ mem' = 0 /\ crossed' = FALSE
  BY <1>1, NoTui DEF Inv, tuiVars
<1>3. TuiType' /\ Tokens' /\ Nukes' /\ Keyable' /\ MadeInv'
  BY <1>2, DownKeeps, ZeroIs
<1>4. DiskType'
  BY <1>1 DEF Inv, TuiInv, DiskType
<1>5. job' # Idle
  BY IdleHas
<1>6. Flow' /\ Linked'
  BY <1>1, <1>2, <1>5 DEF Flow, Linked
<1>7. FilesInv(job', disk', faults')
  BY <1>1
<1> QED BY <1>3, <1>4, <1>6, <1>7 DEF Inv, TuiInv

(* A command begins with the files there are.                               *)
LEMMA CommandStarts ==
  ASSUME Inv, NEW name, NEW plan, Command(name, plan)
  PROVE  disk \in Disks /\ Sound(disk, faults) /\ job' = Job(name, plan, 0, <<>>)
<1>1. proc = "none" /\ job = Idle
  BY DEF Command, Inv, TuiInv, Flow
<1> QED BY <1>1, AtIdle DEF Command, Inv, TuiInv, DiskType

(* --init-keys keeps the invariant.                                         *)
LEMMA InitKeysKeeps ==
  ASSUME Inv, InitKeys, UNCHANGED tuiVars
  PROVE  Inv'
<1>1. /\ keyed < MaxKeyrings /\ keyed' = keyed + 1 /\ made' = made
      /\ Command("init-keys", Put("keys", keyed') \o IF Readable THEN CipherPlan(Held, keyed') ELSE <<>>)
  BY DEF InitKeys
<1>2. keyed' \in Keyrings /\ keyed' \in 0 .. MaxKeyrings
  <2>1. keyed \in 0 .. MaxKeyrings /\ MaxKeyrings \in Nat
    BY CredStoreAssumption DEF Inv, TuiInv, DiskType
  <2> QED BY <1>1, <2>1 DEF Keyrings
<1>3. PICK k \in Keyrings : k = keyed'
  BY <1>2
<1>4. PICK p \in Seq(Calls) : p = Put("keys", k) /\ On(p, {"keys", "cipher"})
  <2>1. "keys" \in Files /\ k \in FileValues /\ Fits("keys", k)
    BY KeyIs DEF Files, FileValues
  <2> QED BY <2>1, CallsAre, PutIs DEF On
<1>5. PICK x \in Seq(Calls) : x = (IF Readable THEN CipherPlan(Held, k) ELSE <<>>) /\ On(x, {"keys", "cipher"})
  <2>1. CASE Readable
    <3>1. Held \in Stores
      BY <2>1, HeldIs DEF Inv, TuiInv, DiskType
    <3>2. CipherPlan(Held, k) \in Seq(Calls) /\ On(CipherPlan(Held, k), {"cipher"})
      BY <3>1, CipherCalls
    <3> QED BY <2>1, <3>2 DEF On
  <2>2. CASE ~Readable
    <3>1. <<>> \in Seq(Calls) /\ On(<<>>, {"keys", "cipher"})
      BY DEF On
    <3> QED BY <2>2, <3>1
  <2> QED BY <2>1, <2>2
<1>6. PICK q \in Seq(Calls) : q = p \o x
  BY ConcatProperties
<1>7. On(q, {"keys", "cipher"})
  BY <1>4, <1>5, <1>6, OnConcat
<1>8. Command("init-keys", q)
  BY <1>1, <1>3, <1>4, <1>5, <1>6
<1>9. job' \in Jobs /\ job'.kind = "init-keys" /\ FilesInv(job', disk, faults)
  <2>1. Beyond(q, 0)
    BY <1>7, BeyondOn
  <2> QED BY <1>8, <2>1, CommandStarts, OtherBegins
<1> QED BY <1>1, <1>2, <1>8, <1>9, CommandKeeps, MadeIs DEF Inv

(* --encrypt keeps the invariant.                                           *)
LEMMA EncryptKeeps ==
  ASSUME Inv, Encrypt, UNCHANGED tuiVars
  PROVE  Inv'
<1>1. /\ Whole(disk.keys) /\ Readable /\ made' = made /\ keyed' = keyed
      /\ Command("encrypt", CipherPlan(Held, disk.keys))
  BY DEF Encrypt
<1>2. disk \in Disks /\ keyed' \in 0 .. MaxKeyrings
  BY <1>1 DEF Inv, TuiInv, DiskType
<1>3. Held \in Stores /\ disk.keys \in Keyrings
  BY <1>1, <1>2, HeldIs, DiskIs DEF Whole
<1>4. PICK q \in Seq(Calls) : q = CipherPlan(Held, disk.keys) /\ On(q, {"cipher"})
  BY <1>3, CipherCalls
<1>5. job' \in Jobs /\ job'.kind = "encrypt" /\ FilesInv(job', disk, faults)
  <2>1. Beyond(q, 0)
    BY <1>4, BeyondOn
  <2> QED BY <1>1, <1>4, <2>1, CommandStarts, OtherBegins
<1> QED BY <1>1, <1>2, <1>5, CommandKeeps, MadeIs DEF Inv

(* A command over the store, which it may leave as it is or replace. *)
LEMMA ChangeKeeps ==
  ASSUME Inv, UNCHANGED tuiVars, NEW name \in {"decrypt", "import"}, NEW s \in Stores, Command(name, StorePlan(s)),
         keyed' = keyed, made' = made \/ (made < MaxStores /\ made' = made + 1)
  PROVE  Inv'
<1>1. job' \in Jobs /\ job'.kind = name /\ FilesInv(job', disk, faults)
  BY CommandStarts, ChangeBegins
<1>2. made' \in Nat /\ made' <= MaxStores
  <2>1. made \in Nat /\ made <= MaxStores /\ MaxStores \in Nat
    BY MadeIs, CredStoreAssumption DEF Inv
  <2> QED BY <2>1
<1>3. keyed' \in 0 .. MaxKeyrings
  BY DEF Inv, TuiInv, DiskType
<1>4. job'.kind # "idle"
  BY <1>1
<1> QED BY <1>1, <1>2, <1>3, <1>4, CommandKeeps

(* One more store can be made.                                              *)
LEMMA NewStore ==
  ASSUME Inv, made < MaxStores
  PROVE  made + 1 \in Stores
<1>1. made \in Nat /\ MaxStores \in Nat
  BY MadeIs, CredStoreAssumption DEF Inv
<1> QED BY <1>1 DEF Stores

(* --decrypt keeps the invariant.                                           *)
LEMMA DecryptKeeps ==
  ASSUME Inv, Decrypt, UNCHANGED tuiVars
  PROVE  Inv'
<1>1. Readable /\ Whole(disk.cipher) /\ keyed' = keyed
  BY DEF Decrypt
<1>2. Held \in Stores /\ disk.cipher \in Ciphers
  BY <1>1, HeldIs, DiskIs DEF Inv, TuiInv, DiskType, Whole
<1>3. disk.cipher.store \in Stores
  BY <1>2 DEF Ciphers
<1>4. PICK s \in Stores : Command("decrypt", StorePlan(s)) /\ (made' = made \/ (made < MaxStores /\ made' = made + 1))
  <2>1. CASE Command("decrypt", StorePlan(Held)) /\ made' = made
    BY <1>2, <2>1
  <2>2. CASE Command("decrypt", StorePlan(disk.cipher.store)) /\ made' = made
    BY <1>3, <2>2
  <2>3. CASE made < MaxStores /\ made' = made + 1 /\ Command("decrypt", StorePlan(made'))
    <3>1. made' \in Stores
      BY <2>3, NewStore
    <3> QED BY <2>3, <3>1
  <2> QED BY <2>1, <2>2, <2>3 DEF Decrypt
<1> QED BY <1>1, <1>4, ChangeKeeps

(* --import keeps the invariant.                                            *)
LEMMA ImportKeeps ==
  ASSUME Inv, Import, UNCHANGED tuiVars
  PROVE  Inv'
<1>1. Readable /\ keyed' = keyed
  BY DEF Import
<1>2. Held \in Stores
  BY <1>1, HeldIs DEF Inv, TuiInv, DiskType
<1>4. PICK s \in Stores : Command("import", StorePlan(s)) /\ (made' = made \/ (made < MaxStores /\ made' = made + 1))
  <2>1. CASE Command("import", StorePlan(Held)) /\ made' = made
    BY <1>2, <2>1
  <2>3. CASE made < MaxStores /\ made' = made + 1 /\ Command("import", StorePlan(made'))
    <3>1. made' \in Stores
      BY <2>3, NewStore
    <3> QED BY <2>3, <3>1
  <2> QED BY <2>1, <2>3 DEF Import
<1> QED BY <1>1, <1>4, ChangeKeeps

(* A step of the command line that leaves no operation. *)
LEMMA RestKeeps ==
  ASSUME Inv, proc # "tui", UNCHANGED tuiVars, disk' \in Disks, proc' = "none", job' = Idle, Sound(disk', faults'),
         made' = made, keyed' = keyed, faults' = faults
  PROVE  Inv'
<1>2. inbox' = <<>> /\ queue' = <<>> /\ pushes' = 0 /\ ui' = Dashboard /\ phase' = "wait" /\ mem' = 0 /\ crossed' = FALSE
  BY NoTui DEF Inv, tuiVars
<1>3. TuiType' /\ Tokens' /\ Nukes' /\ Keyable' /\ MadeInv'
  BY <1>2, DownKeeps, ZeroIs, MadeIs DEF Inv
<1>4. DiskType'
  BY IdleIs DEF Inv, TuiInv, DiskType
<1>6. Flow' /\ Linked'
  BY <1>2, IdleHas DEF Flow, Linked
<1>7. FilesInv(job', disk', faults')
  BY IdleBegins
<1> QED BY <1>3, <1>4, <1>6, <1>7 DEF Inv, TuiInv

(* A command that ends keeps the invariant.                                 *)
LEMMA CommandEndsKeeps ==
  ASSUME Inv, CommandEnds, UNCHANGED tuiVars
  PROVE  Inv'
<1>1. Sound(disk, faults)
  BY AtEnd DEF CommandEnds
<1>2. disk' = disk /\ faults' = faults /\ disk \in Disks
  BY DEF CommandEnds, Inv, TuiInv, DiskType
<1> QED BY <1>1, <1>2, RestKeeps DEF CommandEnds

(* The repair of a torn store keeps the invariant.                          *)
LEMMA RepairKeeps ==
  ASSUME Inv, Repair, UNCHANGED tuiVars
  PROVE  Inv'
<1>1. /\ proc = "none" /\ disk.store = Torn /\ job = Idle /\ disk \in Disks
      /\ disk' = [disk EXCEPT !.store = IF Whole(disk.bak) THEN disk.bak ELSE Missing]
      /\ proc' = proc /\ job' = job /\ made' = made /\ keyed' = keyed /\ faults' = faults
  BY DEF Repair, Inv, TuiInv, DiskType, Flow
<1>2. Sound(disk, faults) /\ faults # 0
  BY <1>1, AtIdle DEF Sound
<1>3. PICK v \in Content : v = (IF Whole(disk.bak) THEN disk.bak ELSE Missing)
  BY <1>1, DiskIs DEF Content
<1>4. disk' \in Disks
  <2>1. v \in FileValues /\ Fits("store", v) /\ "store" \in Files
    BY <1>3 DEF FileValues, Fits, Content, Files
  <2>2. disk' \in [Files -> FileValues]
    BY <1>1, <1>3, <2>1 DEF Disks
  <2>3. \A f \in Files : disk'[f] = IF f = "store" THEN v ELSE disk[f]
    BY <1>1, <1>3 DEF Disks
  <2>4. \A f \in Files : Fits(f, disk'[f])
    BY <1>1, <2>1, <2>3, DiskIs
  <2> QED BY <2>2, <2>4 DEF Disks
<1>5. Sound(disk', faults')
  BY <1>1, <1>2 DEF Sound
<1> QED BY <1>1, <1>4, <1>5, RestKeeps

(* The dashboard starting keeps the invariant.                              *)
LEMMA StartKeeps ==
  ASSUME Inv, Start
  PROVE  Inv'
<1>1. /\ proc = "none" /\ Readable /\ job = Idle /\ proc' = "tui" /\ mem' = Held
      /\ disk' = disk /\ job' = job /\ made' = made /\ keyed' = keyed /\ faults' = faults /\ ui' = ui
      /\ inbox' = inbox /\ queue' = queue /\ phase' = phase /\ pushes' = pushes /\ crossed' = crossed
  BY DEF Start, Inv, TuiInv, Flow
<1>2. inbox' = <<>> /\ queue' = <<>> /\ pushes' = 0 /\ ui' = Dashboard /\ phase' = "wait" /\ crossed' = FALSE
  BY <1>1, NoTui DEF Inv
<1>3. mem' \in Stores
  BY <1>1, HeldIs DEF Inv, TuiInv, DiskType
<1>4. TuiType' /\ Tokens' /\ Nukes' /\ Keyable' /\ MadeInv'
  BY <1>1, <1>2, <1>3, DownKeeps, MadeIs DEF Inv
<1>5. DiskType'
  BY <1>1 DEF Inv, TuiInv, DiskType
<1>6. Flow' /\ Linked'
  BY <1>1, <1>2, IdleHas DEF Flow, Linked
<1>7. FilesInv(job', disk', faults')
  BY <1>1 DEF Inv
<1> QED BY <1>4, <1>5, <1>6, <1>7 DEF Inv, TuiInv

(* What is known when an effect runs.                                       *)
LEMMA RunningIs ==
  ASSUME Inv, NEW t, Running(t)
  PROVE  /\ proc = "tui" /\ job = Idle /\ phase \in {"commit", "effects"} /\ queue # <<>> /\ Head(queue).type = t
         /\ queue \in Seq(Effects) /\ Head(queue) \in Effects /\ disk \in Disks /\ Sound(disk, faults)
<1>1. phase \in {"commit", "effects"} /\ job = Idle /\ Head(queue).type = t
  BY DEF Running
<1>2. queue # <<>> /\ proc = "tui" /\ queue \in Seq(Effects)
  BY <1>1 DEF Inv, TuiInv, Flow, TuiType
<1>3. Head(queue) \in Effects
  BY <1>2, TailIs
<1> QED BY <1>1, <1>2, <1>3, AtIdle DEF Inv, TuiInv, DiskType

(* One effect less, at the front.                                           *)
LEMMA CountHead ==
  ASSUME queue \in Seq(Effects), queue # <<>>
  PROVE  /\ Tail(queue) \in Seq(Effects)
         /\ \A T : Count(queue, T) = Count(Tail(queue), T) + (IF Head(queue).type \in T THEN 1 ELSE 0)
         /\ \A T : Count(Tail(queue), T) \in Nat
<1>1. Tail(queue) \in Seq(Effects)
  BY TailIs
<1> QED BY <1>1, CountTail, CountIs

(* A file operation begins. *)
LEMMA BeginsKeeps ==
  ASSUME Inv, NEW t, Running(t), NEW j, Begins(j), j \in Jobs, j.kind # "idle", FilesInv(j, disk, faults),
         \/ j.kind = "write" /\ t = "write-store" /\ j.store = Head(queue).store
         \/ j.kind = "nuke" /\ t = "nuke" /\ j.store = Head(queue).store
         \/ j.kind = "undo" /\ t = "restore-backup"
         \/ j.kind = "export" /\ t = "export-envs",
         keyed' \in 0 .. MaxKeyrings, j.kind = "nuke" \/ keyed' = keyed
  PROVE  Inv'
<1>1. /\ proc = "tui" /\ job = Idle /\ phase \in {"commit", "effects"} /\ queue # <<>> /\ Head(queue).type = t
      /\ queue \in Seq(Effects)
  BY RunningIs
<1>2. /\ job' = j /\ phase' = "effects" /\ disk' = disk /\ proc' = proc /\ made' = made /\ faults' = faults /\ mem' = mem
      /\ ui' = ui /\ inbox' = inbox /\ queue' = queue /\ pushes' = pushes /\ crossed' = crossed
  BY DEF Begins
<1>3. j # Idle
  BY IdleHas
<1>4. TuiInv'
  <2>1. DiskType' /\ TuiType' /\ MadeInv'
    BY <1>2 DEF Inv, TuiInv, DiskType, TuiType, MadeInv
  <2>2. Flow'
    BY <1>1, <1>2, <1>3 DEF Inv, TuiInv, Flow
  <2>3. Linked'
    BY <1>1, <1>2 DEF Linked
  <2> QED BY <2>1, <2>2, <2>3 DEF TuiInv
<1>5. Tokens' /\ Nukes'
  BY <1>1, <1>2 DEF Inv, Tokens, Nukes, Launched, Answered, Confirmed, Calm
<1>6. Keyable'
  <2>1. CASE keyed' = keyed
    <3>1. job.kind = "idle"
      BY <1>1, IdleHas
    <3> QED BY <1>2, <2>1, <3>1 DEF Inv, Keyable, Confirmed
  <2>2. CASE j.kind = "nuke"
    <3>1. PICK l, a \in Nat : l = Launched /\ a = Answered
      <4>1. Launched \in Nat /\ Answered \in Nat
        BY <1>1, CountsAre DEF Launched, Answered, Inv, TuiInv, TuiType
      <4> QED BY <4>1
    <3>2. l >= 1
      <4>1. PICK r \in Nat : r = Count(Tail(queue), {"nuke"})
        BY <1>1, CountHead
      <4>2. l = r + (IF t \in {"nuke"} THEN 1 ELSE 0)
        BY <1>1, <3>1, <4>1, CountHead DEF Launched
      <4>3. t = "nuke"
        BY <2>2
      <4> QED BY <4>2, <4>3
    <3>3. l + a = 1
      BY <3>1, <3>2 DEF Inv, Nukes
    <3>4. ui.mode # "nuke-confirm"
      BY <1>1, <3>1, <3>3 DEF Inv, Nukes
    <3> QED BY <1>2, <2>2, <3>4 DEF Keyable
  <2> QED BY <2>1, <2>2
<1> QED BY <1>2, <1>4, <1>5, <1>6 DEF Inv

(* The write of a store, as it starts, keeps the invariant.                 *)
LEMMA RunWriteKeeps ==
  ASSUME Inv, RunWrite
  PROVE  Inv'
<1>1. Running("write-store") /\ Begins(WriteJob(Head(queue).store)) /\ keyed' = keyed
  BY DEF RunWrite
<1>2. Head(queue) \in Effects /\ disk \in Disks /\ Sound(disk, faults)
  BY <1>1, RunningIs
<1>3. PICK s \in Stores : s = Head(queue).store
  BY <1>2 DEF Effects
<1>4. PICK j : j = WriteJob(s)
  OBVIOUS
<1>5. j \in Jobs /\ j.kind = "write" /\ j.store = s /\ FilesInv(j, disk, faults)
  BY <1>2, <1>4, WriteBegins
<1>6. Begins(j) /\ j.kind # "idle"
  BY <1>1, <1>3, <1>4, <1>5
<1>7. keyed' \in 0 .. MaxKeyrings
  BY <1>1 DEF Inv, TuiInv, DiskType
<1> QED BY <1>1, <1>3, <1>5, <1>6, <1>7, BeginsKeeps

(* What an effect that has ended reports: nothing, or how it went. *)
Says(r) ==
  /\ inbox' = inbox \/ (r \in Messages /\ inbox' = Append(inbox, r))
  /\ inbox' # inbox => r.type # "GIT_DONE"
  /\ Head(queue).type = "nuke" <=> inbox' # inbox /\ r.type \in NukeReports

(* An effect that ends and reports nothing.                                 *)
LEMMA SaysNothing ==
  ASSUME inbox \in Seq(Actions), NEW reports, inbox' = inbox \o reports, reports = <<>>, Head(queue).type # "nuke", NEW r
  PROVE  Says(r)
<1>1. inbox' = inbox
  BY ConcatEmptySeq
<1> QED BY <1>1 DEF Says

(* An effect that ends and reports one thing.                               *)
LEMMA SaysOne ==
  ASSUME inbox \in Seq(Actions), NEW r \in Messages, inbox' = inbox \o <<r>>, r.type # "GIT_DONE",
         Head(queue).type = "nuke" <=> r.type \in NukeReports
  PROVE  Says(r)
<1>1. r \in Actions
  BY DEF Actions
<1>2. inbox' = Append(inbox, r)
  <2>1. inbox \o <<r>> = Append(inbox, r)
    BY <1>1
  <2> QED BY <2>1
<1>3. inbox' # inbox
  <2>1. Len(inbox') = Len(inbox) + 1 /\ Len(inbox) \in Nat
    BY <1>1, <1>2, AppendProperties
  <2> QED BY <2>1
<1> QED BY <1>2, <1>3 DEF Says

(* An effect is over. *)
LEMMA EndsKeeps ==
  ASSUME Inv, phase \in {"commit", "effects"}, NEW reports, Ends(reports), NEW r, Says(r),
         job' = Idle, proc' = proc, keyed' = keyed, Sound(disk, faults),
         pushes' = pushes + (IF Head(queue).type = "git-commit-push" THEN 1 ELSE 0)
  PROVE  Inv'
<1>1. queue # <<>> /\ proc = "tui" /\ queue \in Seq(Effects) /\ inbox \in Seq(Actions) /\ pushes \in Nat
  BY DEF Inv, TuiInv, Flow, TuiType
<1>2. /\ queue' = Tail(queue) /\ phase' = IF queue' = <<>> THEN "wait" ELSE "effects"
      /\ disk' = disk /\ made' = made /\ faults' = faults /\ mem' = mem /\ ui' = ui /\ crossed' = crossed
  BY DEF Ends
<1>3. /\ queue' \in Seq(Effects)
      /\ \A T : Count(queue, T) = Count(queue', T) + (IF Head(queue).type \in T THEN 1 ELSE 0)
      /\ \A T : Count(queue', T) \in Nat
  BY <1>1, <1>2, CountHead
<1>4. /\ inbox' \in Seq(Actions)
      /\ \A T : Count(inbox', T) = Count(inbox, T) + (IF inbox' # inbox /\ r.type \in T THEN 1 ELSE 0)
      /\ \A T : Count(inbox, T) \in Nat
  <2>0. \A T : Count(inbox, T) \in Nat
    BY <1>1, CountIs
  <2>1. CASE inbox' = inbox
    BY <1>1, <2>0, <2>1
  <2>2. CASE inbox' # inbox
    <3>1. r \in Actions /\ inbox' = Append(inbox, r)
      BY <2>2 DEF Says, Actions
    <3>2. \A T : Count(inbox', T) = Count(inbox, T) + (IF r.type \in T THEN 1 ELSE 0)
      BY <1>1, <3>1, CountAppend
    <3> QED BY <1>1, <2>0, <2>2, <3>1, <3>2, AppendProperties
  <2> QED BY <2>1, <2>2
<1>5. inbox' # inbox => r.type \in Reports /\ r.type \notin Makes /\ r.type # "NUKE_SUBMIT" /\ r.type \notin Other
  BY DEF Says, Messages, Reports, Makes, Other, Hold
<1>6. /\ Count(inbox', Makes) = Count(inbox, Makes) /\ Confirmed' = Confirmed
      /\ Count(inbox', Other) = Count(inbox, Other) /\ Count(inbox', {"GIT_DONE"}) = Count(inbox, {"GIT_DONE"})
  <2>1. \A T : (inbox' # inbox => r.type \notin T) => Count(inbox', T) = Count(inbox, T)
    BY <1>4
  <2> QED BY <1>5, <2>1 DEF Confirmed, Says
<1>7. TuiInv'
  <2>1. pushes' \in Nat
    BY <1>1
  <2>2. DiskType' /\ TuiType' /\ MadeInv'
    BY <1>2, <1>3, <1>4, <1>6, <2>1, IdleIs DEF Inv, TuiInv, DiskType, TuiType, MadeInv
  <2>3. Flow' /\ Linked'
    BY <1>1, <1>2, IdleHas DEF Flow, Linked
  <2> QED BY <2>2, <2>3 DEF TuiInv
<1>8. Tokens'
  <2>1. PICK g, h, g1 \in Nat : /\ g = Count(queue, {"git-commit-push"}) /\ g1 = Count(queue', {"git-commit-push"})
                               /\ h = Count(inbox, {"GIT_DONE"})
    <3>1. Count(queue, {"git-commit-push"}) \in Nat
      BY <1>1, CountIs
    <3> QED BY <1>3, <1>4, <3>1
  <2>2. g = g1 + (IF Head(queue).type = "git-commit-push" THEN 1 ELSE 0)
    BY <1>3, <2>1
  <2>3. pushes' + g1 + h = pushes + g + h
    BY <1>1, <2>2
  <2> QED BY <1>2, <1>6, <2>1, <2>3 DEF Inv, Tokens
<1>9. PICK l, a, l1, a1, c \in Nat : l = Launched /\ a = Answered /\ l1 = Launched' /\ a1 = Answered' /\ c = Confirmed
  <2>1. Launched \in Nat
    BY <1>1, CountIs DEF Launched
  <2>2. Launched' \in Nat /\ Confirmed \in Nat /\ Answered \in Nat
    BY <1>3, <1>4 DEF Launched, Confirmed, Answered
  <2>3. Answered' \in Nat
    BY <1>4, CountIs DEF Answered
  <2> QED BY <2>1, <2>2, <2>3
<1>10. l1 + a1 = l + a
  <2>1. l = l1 + (IF Head(queue).type = "nuke" THEN 1 ELSE 0)
    BY <1>3, <1>9 DEF Launched
  <2>2. a1 = a + (IF inbox' # inbox /\ r.type \in NukeReports THEN 1 ELSE 0)
    BY <1>4, <1>9 DEF Answered
  <2>3. Head(queue).type = "nuke" <=> inbox' # inbox /\ r.type \in NukeReports
    BY DEF Says
  <2> QED BY <2>1, <2>2, <2>3
<1>11. Nukes'
  <2>1. Confirmed' = c /\ (Calm' <=> Calm) /\ phase # "reduce" /\ phase' # "reduce" /\ ui' = ui
    BY <1>2, <1>6, <1>9 DEF Calm
  <2>2. /\ l + a <= 1
        /\ ui.mode = "nuke-running" => l + a >= 1
        /\ ~(l + a = 1 /\ ui.mode = "nuke-confirm")
        /\ ~(l + a = 1 /\ c > 0)
        /\ (c > 0 => ui.mode = "nuke-confirm") /\ (ui.mode = "nuke-confirm" => Calm)
        /\ c > 0 => Calm
    BY <1>9, <2>1 DEF Inv, Nukes
  <2> QED BY <1>9, <1>10, <2>1, <2>2 DEF Nukes
<1>12. Keyable'
  <2>1. ASSUME NEW i \in DOMAIN queue', queue'[i].type = "nuke" PROVE \E k \in DOMAIN queue : queue'[i] = queue[k]
    BY <1>1, <1>2, TailIs
  <2>2. CASE job.kind # "nuke"
    BY <1>2, <1>6, <2>1, <2>2 DEF Inv, Keyable
  <2>3. CASE job.kind = "nuke"
    <3>1. Head(queue).type = "nuke"
      BY <1>1, <2>3, IdleHas DEF Inv, TuiInv, Linked
    <3>2. l1 = 0
      <4>1. l = l1 + 1 /\ l + a <= 1
        BY <1>3, <1>9, <3>1 DEF Launched, Inv, Nukes
      <4> QED BY <4>1
    <3>3. \A i \in DOMAIN queue' : queue'[i].type # "nuke"
      BY <1>3, <1>9, <3>2, CountZero DEF Launched
    <3> QED BY <1>2, <1>6, <3>3 DEF Inv, Keyable
  <2> QED BY <2>2, <2>3
<1>13. FilesInv(job', disk', faults')
  BY <1>2, IdleBegins
<1> QED BY <1>7, <1>8, <1>11, <1>12, <1>13 DEF Inv

(* A report that carries a store.                                           *)
LEMMA ReportIs ==
  ASSUME TuiInv, queue # <<>>, NEW t \in Reports \ {"ENVS_STATUS"}, NEW s \in Stores
  PROVE  Report(t, s) \in Messages /\ Report(t, s).type = t
<1>1. Head(queue) \in Effects
  BY TailIs DEF TuiInv, TuiType
<1>2. Head(queue).over \in Stores
  BY <1>1 DEF Effects
<1> QED BY <1>2 DEF Report, Messages

(* A report that carries none.                                              *)
LEMMA ToldIs ==
  ASSUME NEW t \in Reports, NEW a \in Statuses \cup {"none"}, t = "ENVS_STATUS" => a \in Statuses
  PROVE  Told(t, a) \in Messages /\ Told(t, a).type = t
BY ZeroIs DEF Told, Messages

(* An effect that does nothing to the files is over at once. *)
LEMMA EndsAtOnce ==
  ASSUME Inv, NEW t, Running(t), NEW reports, Ends(reports), NEW r, Says(r), job' = job, proc' = proc, keyed' = keyed,
         pushes' = pushes + (IF t = "git-commit-push" THEN 1 ELSE 0)
  PROVE  Inv'
<1>1. job = Idle /\ phase \in {"commit", "effects"} /\ Head(queue).type = t /\ Sound(disk, faults)
  BY RunningIs
<1> QED BY <1>1, EndsKeeps

(* An effect that ends at once and reports nothing keeps the invariant.     *)
LEMMA EndsQuietly ==
  ASSUME Inv, NEW t, Running(t), t \notin {"nuke", "git-commit-push"}, Ends(<<>>),
         job' = job, proc' = proc, keyed' = keyed, pushes' = pushes
  PROVE  Inv'
<1>1. inbox \in Seq(Actions) /\ Head(queue).type = t /\ pushes \in Nat
  BY RunningIs DEF Inv, TuiInv, TuiType
<1>2. Says(0)
  BY <1>1, SaysNothing DEF Ends
<1>3. pushes' = pushes + (IF t = "git-commit-push" THEN 1 ELSE 0)
  BY <1>1
<1> QED BY <1>2, <1>3, EndsAtOnce

(* An undo, as it starts or finds no backup, keeps the invariant.           *)
LEMMA RunUndoKeeps ==
  ASSUME Inv, RunUndo
  PROVE  Inv'
<1>1. Running("restore-backup") /\ keyed' = keyed
  BY DEF RunUndo
<1>2. CASE disk.bak # Missing /\ Begins(UndoJob)
  <2>1. PICK j : j = UndoJob
    OBVIOUS
  <2>2. j \in Jobs /\ j.kind = "undo" /\ FilesInv(j, disk, faults)
    BY <1>1, <1>2, <2>1, RunningIs, UndoBegins
  <2>3. Begins(j) /\ j.kind # "idle" /\ keyed' \in 0 .. MaxKeyrings
    BY <1>1, <1>2, <2>1, <2>2 DEF Inv, TuiInv, DiskType
  <2> QED BY <1>1, <2>2, <2>3, BeginsKeeps
<1>3. CASE Ends(<<>>) /\ UNCHANGED <<proc, job, pushes>>
  BY <1>1, <1>3, EndsQuietly
<1> QED BY <1>2, <1>3 DEF RunUndo

(* An export keeps the invariant.                                           *)
LEMMA RunExportKeeps ==
  ASSUME Inv, RunExport
  PROVE  Inv'
<1>1. Running("export-envs") /\ keyed' = keyed
  BY DEF RunExport
<1>2. CASE Whole(disk.keys) /\ Begins(ExportJob)
  <2>1. disk \in Disks /\ Sound(disk, faults)
    BY <1>1, RunningIs
  <2>2. PICK k \in Keyrings : k = disk.keys
    BY <1>2, <2>1, DiskIs DEF Whole
  <2>3. PICK p \in Seq(Calls) : p = Put("env", k) /\ On(p, {"env"})
    <3>1. "env" \in Files /\ k \in FileValues /\ Fits("env", k)
      BY KeyIs DEF Files, FileValues, Fits
    <3> QED BY <3>1, CallsAre, PutIs DEF On
  <2>4. PICK j : j = Job("export", p, 0, <<>>)
    OBVIOUS
  <2>5. j \in Jobs /\ j.kind = "export" /\ FilesInv(j, disk, faults)
    <3>1. Beyond(p, 0)
      BY <2>3, BeyondOn
    <3> QED BY <2>1, <2>4, <3>1, OtherBegins
  <2>6. Begins(j) /\ j.kind # "idle" /\ keyed' \in 0 .. MaxKeyrings
    BY <1>1, <1>2, <2>2, <2>3, <2>4, <2>5 DEF ExportJob, Inv, TuiInv, DiskType
  <2> QED BY <1>1, <2>5, <2>6, BeginsKeeps
<1>3. CASE Ends(<<>>) /\ UNCHANGED <<proc, job, pushes>>
  BY <1>1, <1>3, EndsQuietly
<1> QED BY <1>2, <1>3 DEF RunExport

(* A nuke, as it starts or is refused, keeps the invariant.                 *)
LEMMA RunNukeKeeps ==
  ASSUME Inv, RunNuke
  PROVE  Inv'
<1>1. Running("nuke")
  BY DEF RunNuke
<1>2. PICK nuke \in Effects : nuke = Head(queue)
  BY <1>1, RunningIs
<1>3. job = Idle /\ disk \in Disks /\ Sound(disk, faults) /\ queue # <<>> /\ nuke.type = "nuke" /\ queue \in Seq(Effects)
  BY <1>1, <1>2, RunningIs
<1>4. CASE /\ Ends(<<Report("NUKE_FAILED", nuke.rollback)>>) /\ UNCHANGED <<proc, job, keyed, pushes>>
  <2>1. PICK r \in Messages : r = Report("NUKE_FAILED", nuke.rollback) /\ r.type = "NUKE_FAILED"
    <3>1. nuke.rollback \in Stores /\ "NUKE_FAILED" \in Reports \ {"ENVS_STATUS"}
      BY DEF Effects, Reports
    <3> QED BY <1>3, <3>1, ReportIs DEF Inv
  <2>2. Says(r)
    BY <1>2, <1>3, <1>4, <2>1, SaysOne DEF Ends, NukeReports, Inv, TuiInv, TuiType
  <2>3. pushes' = pushes + (IF "nuke" = "git-commit-push" THEN 1 ELSE 0)
    BY <1>4 DEF Inv, TuiInv, TuiType
  <2> QED BY <1>1, <1>4, <2>2, <2>3, EndsAtOnce
<1>5. CASE /\ ~(nuke.kind \notin {"soft", "full"} \/ (nuke.kind = "soft" /\ disk.keys = Torn))
           /\ Begins(NukeJob(nuke.kind, nuke.store))
           /\ keyed' = IF nuke.kind = "full" THEN keyed + 1 ELSE keyed
  <2>1. PICK kind, s : kind = nuke.kind /\ s = nuke.store /\ s \in Stores
    BY DEF Effects
  <2>2. PICK k : k = (IF kind = "full" THEN keyed + 1 ELSE disk.keys)
    OBVIOUS
  <2>3. keyed \in 0 .. MaxKeyrings /\ MaxKeyrings \in Nat
    BY CredStoreAssumption DEF Inv, TuiInv, DiskType
  <2>4. kind = "full" => keyed < MaxKeyrings
    <3>1. 1 \in DOMAIN queue /\ queue[1] = nuke
      BY <1>2, <1>3, TailIs
    <3>2. job.kind = "idle"
      BY <1>3, IdleHas
    <3> QED BY <1>3, <2>1, <3>1, <3>2 DEF Inv, Keyable
  <2>5. NukeKey(kind, k)
    <3>1. kind = "full" => k \in Keyrings
      BY <2>2, <2>3, <2>4 DEF Keyrings
    <3>2. kind = "soft" => k = disk.keys /\ (k \in Keyrings \/ k = Missing)
      BY <1>3, <1>5, <2>1, <2>2, DiskIs
    <3> QED BY <1>5, <2>1, <3>1, <3>2 DEF NukeKey
  <2>6. PICK j : j = NukeJob(kind, s)
    OBVIOUS
  <2>7. j \in Jobs /\ j.kind = "nuke" /\ j.store = s /\ FilesInv(j, disk, faults)
    BY <1>3, <2>1, <2>2, <2>5, <2>6, NukeBegins
  <2>8. Begins(j) /\ j.kind # "idle"
    BY <1>5, <2>1, <2>6, <2>7
  <2>9. keyed' \in 0 .. MaxKeyrings
    BY <1>5, <2>1, <2>3, <2>4
  <2>10. j.kind = "nuke" /\ j.store = Head(queue).store
    BY <1>2, <2>1, <2>7
  <2> QED BY <1>1, <2>7, <2>8, <2>9, <2>10, BeginsKeeps
<1> QED BY <1>2, <1>4, <1>5, Zenon DEF RunNuke

(* The look at the env files keeps the invariant.                           *)
LEMMA RunCheckEnvsKeeps ==
  ASSUME Inv, RunCheckEnvs
  PROVE  Inv'
<1>1. Running("check-envs") /\ job' = job /\ proc' = proc /\ keyed' = keyed /\ pushes' = pushes
      /\ Ends(IF disk.keys = Torn THEN <<>> ELSE <<Told("ENVS_STATUS", EnvFileStatus)>>)
  BY DEF RunCheckEnvs
<1>2. CASE disk.keys = Torn
  BY <1>1, <1>2, EndsQuietly
<1>3. CASE disk.keys # Torn
  <2>1. EnvFileStatus \in Statuses
    BY DEF EnvFileStatus, Statuses
  <2>2. PICK r \in Messages : r = Told("ENVS_STATUS", EnvFileStatus) /\ r.type = "ENVS_STATUS"
    BY <2>1, ToldIs DEF Reports
  <2>3. Says(r)
    <3>1. Head(queue).type = "check-envs" /\ inbox \in Seq(Actions)
      BY <1>1, RunningIs DEF Inv, TuiInv, TuiType
    <3>2. inbox' = inbox \o <<r>>
      BY <1>1, <1>3, <2>2 DEF Ends
    <3>3. r.type # "GIT_DONE" /\ r.type \notin NukeReports
      BY <2>2 DEF NukeReports
    <3> QED BY <3>1, <3>2, <3>3, SaysOne
  <2>4. pushes' = pushes + (IF "check-envs" = "git-commit-push" THEN 1 ELSE 0)
    BY <1>1 DEF Inv, TuiInv, TuiType
  <2>5. Ends(<<r>>)
    BY <1>1, <1>3, <2>2
  <2> QED BY <1>1, <2>3, <2>4, <2>5, EndsAtOnce
<1> QED BY <1>2, <1>3

(* git commit and push, as they start, keep the invariant.                  *)
LEMMA RunPushKeeps ==
  ASSUME Inv, RunPush
  PROVE  Inv'
<1>1. Running("git-commit-push") /\ Ends(<<>>) /\ pushes' = pushes + 1 /\ job' = job /\ proc' = proc /\ keyed' = keyed
  BY DEF RunPush
<1>2. Says(0)
  <2>1. inbox \in Seq(Actions) /\ Head(queue).type = "git-commit-push"
    BY <1>1, RunningIs DEF Inv, TuiInv, TuiType
  <2> QED BY <1>1, <2>1, SaysNothing DEF Ends
<1>3. pushes' = pushes + (IF "git-commit-push" = "git-commit-push" THEN 1 ELSE 0)
  BY <1>1
<1> QED BY <1>1, <1>2, <1>3, EndsAtOnce

(* git commit and push, as they end, keep the invariant.                    *)
LEMMA GitPushedKeeps ==
  ASSUME Inv, GitPushed
  PROVE  Inv'
<1>1. /\ pushes > 0 /\ pushes' = pushes - 1 /\ phase \in {"wait", "commit"}
      /\ disk' = disk /\ proc' = proc /\ job' = job /\ made' = made /\ keyed' = keyed /\ faults' = faults /\ mem' = mem
      /\ ui' = ui /\ queue' = queue /\ phase' = phase /\ crossed' = crossed
  BY DEF GitPushed
<1>2. pushes \in Nat /\ inbox \in Seq(Actions) /\ queue \in Seq(Effects) /\ proc = "tui"
  BY <1>1 DEF Inv, TuiInv, TuiType, Flow
<1>3. PICK r \in Messages : r = Told("GIT_DONE", "none") /\ r.type = "GIT_DONE"
  BY ToldIs DEF Reports
<1>4. r \in Actions /\ inbox' = Append(inbox, r)
  BY <1>3 DEF Actions, GitPushed
<1>5. inbox' \in Seq(Actions) /\ inbox' # <<>>
  BY <1>2, <1>4, AppendProperties
<1>6. (\A T : Count(inbox', T) = Count(inbox, T) + (IF r.type \in T THEN 1 ELSE 0)) /\ (\A T : Count(inbox, T) \in Nat)
  BY <1>2, <1>4, CountAppend, CountIs
<1>7. /\ Count(inbox', Makes) = Count(inbox, Makes) /\ Confirmed' = Confirmed /\ Answered' = Answered
      /\ Count(inbox', Other) = Count(inbox, Other) /\ Count(inbox', {"GIT_DONE"}) = Count(inbox, {"GIT_DONE"}) + 1
  <2>1. \A T : r.type \notin T => Count(inbox', T) = Count(inbox, T)
    BY <1>6
  <2>2. \A T : r.type \in T => Count(inbox', T) = Count(inbox, T) + 1
    BY <1>6
  <2>3. r.type \notin Makes /\ r.type \notin Other /\ r.type \notin {"NUKE_SUBMIT"} /\ r.type \notin NukeReports
        /\ r.type \in {"GIT_DONE"}
    BY <1>3 DEF Makes, Other, Hold, Reports, NukeReports
  <2> QED BY <2>1, <2>2, <2>3 DEF Confirmed, Answered
<1>8. TuiInv'
  <2>1. pushes' \in Nat
    BY <1>1, <1>2
  <2>2. DiskType' /\ TuiType' /\ MadeInv'
    BY <1>1, <1>5, <1>7, <2>1 DEF Inv, TuiInv, DiskType, TuiType, MadeInv
  <2>3. Flow' /\ Linked'
    BY <1>1, <1>2, <1>5 DEF Inv, TuiInv, Flow, Linked
  <2> QED BY <2>2, <2>3 DEF TuiInv
<1>9. Tokens'
  <2>1. PICK g, h \in Nat : g = Count(queue, {"git-commit-push"}) /\ h = Count(inbox, {"GIT_DONE"})
    BY <1>2, CountsAre
  <2>2. pushes' + g + (h + 1) = pushes + g + h
    BY <1>1, <1>2
  <2> QED BY <1>1, <1>7, <2>1, <2>2 DEF Inv, Tokens
<1>10. Nukes' /\ Keyable'
  BY <1>1, <1>7 DEF Inv, Nukes, Keyable, Launched, Calm
<1>11. FilesInv(job', disk', faults')
  BY <1>1 DEF Inv
<1> QED BY <1>8, <1>9, <1>10, <1>11 DEF Inv

(* The exit, or its way to the end of the queue, keeps the invariant.       *)
LEMMA RunExitKeeps ==
  ASSUME Inv, RunExit
  PROVE  Inv'
<1>1. Running("exit") /\ disk' = disk /\ job' = job /\ made' = made /\ keyed' = keyed /\ faults' = faults
  BY DEF RunExit
<1>2. /\ proc = "tui" /\ job = Idle /\ phase \in {"commit", "effects"} /\ queue # <<>> /\ queue \in Seq(Effects)
      /\ Head(queue) \in Effects
  BY <1>1, RunningIs
<1>3. CASE proc' = "none" /\ TuiDown
  <2>1. TuiType' /\ Tokens' /\ Nukes' /\ Keyable' /\ MadeInv'
    BY <1>1, <1>3, DownKeeps, ZeroIs, MadeIs DEF TuiDown, Inv
  <2>2. DiskType'
    BY <1>1, <1>3 DEF Inv, TuiInv, DiskType
  <2>3. Flow' /\ Linked'
    BY <1>1, <1>2, <1>3, IdleHas DEF Flow, Linked, TuiDown
  <2>4. FilesInv(job', disk', faults')
    BY <1>1 DEF Inv
  <2> QED BY <2>1, <2>2, <2>3, <2>4 DEF Inv, TuiInv
<1>4. CASE /\ queue' = Append(Tail(queue), Head(queue)) /\ phase' = "effects"
           /\ UNCHANGED <<proc, mem, ui, inbox, pushes, crossed>>
  <2>1. PICK q \in Seq(Effects), e \in Effects : q = Tail(queue) /\ e = Head(queue)
    BY <1>2, TailIs
  <2>2. Grown(queue', q, e)
    BY <1>4, <2>1, GrownBy
  <2>3. \A T : Count(queue', T) = Count(queue, T)
    BY <1>2, <2>1, <2>2, CountHead DEF Grown
  <2>4. \A i \in DOMAIN queue' : \E k \in DOMAIN queue : queue'[i] = queue[k]
    <3>1. 1 \in DOMAIN queue /\ queue[1] = e
      BY <1>2, <2>1, TailIs
    <3>2. \A i \in DOMAIN q : \E k \in DOMAIN queue : q[i] = queue[k]
      BY <1>2, <2>1, TailIs
    <3> QED BY <2>2, <3>1, <3>2 DEF Grown
  <2>5. /\ proc' = proc /\ mem' = mem /\ ui' = ui /\ inbox' = inbox /\ pushes' = pushes /\ crossed' = crossed
        /\ phase' = "effects"
    BY <1>4
  <2>6. TuiInv'
    <3>1. queue' \in Seq(Effects) /\ queue' # <<>>
      BY <2>2 DEF Grown
    <3>2. DiskType' /\ TuiType' /\ MadeInv'
      BY <1>1, <2>5, <3>1 DEF Inv, TuiInv, DiskType, TuiType, MadeInv
    <3>3. Flow' /\ Linked'
      BY <1>1, <1>2, <2>5, <3>1, IdleHas DEF Flow, Linked
    <3> QED BY <3>2, <3>3 DEF TuiInv
  <2>7. Tokens'
    BY <2>3, <2>5 DEF Inv, Tokens
  <2>8. Nukes'
    <3>1. Launched' = Launched /\ Answered' = Answered /\ Confirmed' = Confirmed /\ (Calm' <=> Calm)
      BY <2>3, <2>5 DEF Launched, Answered, Confirmed, Calm
    <3> QED BY <1>2, <2>5, <3>1 DEF Inv, Nukes
  <2>9. Keyable'
    <3>1. Keyable /\ Confirmed' = Confirmed
      BY <2>5 DEF Inv, Confirmed
    <3> QED BY <1>1, <2>4, <2>5, <3>1 DEF Keyable
  <2>10. FilesInv(job', disk', faults')
    BY <1>1 DEF Inv
  <2> QED BY <2>6, <2>7, <2>8, <2>9, <2>10 DEF Inv
<1> QED BY <1>3, <1>4 DEF RunExit

(* An operation that ends and reports keeps the invariant.                  *)
LEMMA OperationEndsKeeps ==
  ASSUME Inv, OperationEnds
  PROVE  Inv'
<1>1. /\ proc = "tui" /\ job # Idle /\ ~Working /\ job' = Idle /\ proc' = proc /\ keyed' = keyed /\ pushes' = pushes
  BY DEF OperationEnds
<1>2. PICK e : e = Head(queue)
  OBVIOUS
<1>3. PICK reports : /\ Ends(reports)
                     /\ reports = CASE job.kind = "write" /\ job.failed -> <<Report("WRITE_FAILED", e.rollback)>>
                                    [] job.kind = "undo" /\ ~job.failed /\ Readable -> <<Report("UNDO_OK", disk.store)>>
                                    [] job.kind = "nuke" /\ job.failed  -> <<Report("NUKE_FAILED", e.rollback)>>
                                    [] job.kind = "nuke" /\ ~job.failed -> <<Told("NUKE_OK", "none")>>
                                    [] OTHER -> <<>>
  BY <1>2 DEF OperationEnds
<1>4. phase = "effects" /\ queue # <<>> /\ queue \in Seq(Effects) /\ inbox \in Seq(Actions) /\ pushes \in Nat
  BY <1>1 DEF Inv, TuiInv, Flow, TuiType
<1>5. e \in Effects /\ e.rollback \in Stores
  <2>1. e \in Effects
    BY <1>2, <1>4, TailIs
  <2> QED BY <2>1 DEF Effects
<1>6. /\ e.type # "git-commit-push" /\ (e.type = "nuke" <=> job.kind = "nuke")
      /\ job.kind \in {"write", "undo", "nuke", "export"}
  BY <1>1, <1>2 DEF Inv, TuiInv, Linked
<1>7. Sound(disk, faults)
  BY <1>1, AtEnd
<1>8. pushes' = pushes + (IF Head(queue).type = "git-commit-push" THEN 1 ELSE 0)
  BY <1>1, <1>2, <1>4, <1>6
<1>9. inbox' = inbox \o reports
  BY <1>3 DEF Ends
<1>10. \E r : Says(r)
  <2>1. ASSUME NEW r \in Messages, reports = <<r>>, r.type # "GIT_DONE", job.kind = "nuke" <=> r.type \in NukeReports PROVE Says(r)
    <3>1. inbox' = inbox \o <<r>>
      BY <1>9, <2>1
    <3> QED BY <1>2, <1>4, <1>6, <2>1, <3>1, SaysOne
  <2>2. CASE job.kind = "write" /\ job.failed
    <3>1. PICK r \in Messages : r = Report("WRITE_FAILED", e.rollback) /\ r.type = "WRITE_FAILED"
      BY <1>4, <1>5, ReportIs DEF Inv, Reports
    <3> QED BY <1>3, <2>1, <2>2, <3>1 DEF NukeReports
  <2>3. CASE job.kind = "undo" /\ ~job.failed /\ Readable
    <3>1. disk.store \in Stores
      <4>1. Going(job, disk)
        BY <2>3 DEF Inv, FilesInv, Stage
      <4>2. PICK p, old : p = job.plan /\ old = job.snap
        OBVIOUS
      <4>3. Undoing(p, old, disk) /\ p = <<>>
        BY <1>1, <2>3, <4>1, <4>2 DEF Going, Working
      <4>4. disk.store = old.bak /\ disk.store # Missing
        BY <4>3, UndoingOver DEF Undoing
      <4> QED BY <2>3, <4>4, DiskIs DEF Inv, TuiInv, DiskType, Readable, Content
    <3>2. PICK r \in Messages : r = Report("UNDO_OK", disk.store) /\ r.type = "UNDO_OK"
      BY <1>4, <3>1, ReportIs DEF Inv, Reports
    <3> QED BY <1>3, <2>1, <2>3, <3>2 DEF NukeReports
  <2>4. CASE job.kind = "nuke" /\ job.failed
    <3>1. PICK r \in Messages : r = Report("NUKE_FAILED", e.rollback) /\ r.type = "NUKE_FAILED"
      BY <1>4, <1>5, ReportIs DEF Inv, Reports
    <3> QED BY <1>3, <2>1, <2>4, <3>1 DEF NukeReports
  <2>5. CASE job.kind = "nuke" /\ ~job.failed
    <3>1. PICK r \in Messages : r = Told("NUKE_OK", "none") /\ r.type = "NUKE_OK"
      BY ToldIs DEF Reports
    <3> QED BY <1>3, <2>1, <2>5, <3>1 DEF NukeReports
  <2>6. CASE job.kind # "nuke" /\ ~(job.kind = "write" /\ job.failed) /\ ~(job.kind = "undo" /\ ~job.failed /\ Readable)
    <3>1. reports = <<>>
      BY <1>3, <2>6
    <3>2. Says(0)
      BY <1>2, <1>4, <1>6, <1>9, <2>6, <3>1, SaysNothing
    <3> QED BY <3>2
  <2> QED BY <2>2, <2>3, <2>4, <2>5, <2>6
<1> QED BY <1>1, <1>3, <1>4, <1>7, <1>8, <1>10, EndsKeeps

(* The invariant holds at first.                                            *)
LEMMA InitHolds == Init => Inv
<1> SUFFICES ASSUME Init PROVE Inv
  OBVIOUS
<1>1. disk = [f \in Files |-> Missing] /\ proc = "none" /\ job = Idle /\ made = 0 /\ keyed = 0 /\ faults = 0
      /\ mem = 0 /\ ui = Dashboard /\ inbox = <<>> /\ queue = <<>> /\ phase = "wait" /\ pushes = 0 /\ crossed = FALSE
  BY DEF Init, FileInit
<1>2. disk \in Disks /\ disk.store = Missing /\ disk.bak = Missing
  BY <1>1 DEF Disks, FileValues, Fits, Content, Files
<1>3. (\A T : Count(inbox, T) = 0) /\ (\A T : Count(queue, T) = 0)
  BY <1>1, CountEmpty
<1>4. DiskType
  BY <1>1, <1>2, IdleIs, CredStoreAssumption DEF DiskType
<1>5. Dashboard \in Screens /\ Dashboard.mode = "dashboard" /\ ~Dashboard.busy
  BY CredTuiAssumption DEF Dashboard, Screens, Tabs, Modes, Views, Drafts, Kinds, Statuses
<1>6. TuiType
  <2>1. <<>> \in Seq(Actions) /\ <<>> \in Seq(Effects)
    OBVIOUS
  <2> QED BY <1>1, <1>5, <2>1, ZeroIs DEF TuiType
<1>7. Flow /\ Linked
  BY <1>1, IdleHas DEF Flow, Linked
<1>8. MadeInv
  BY <1>1, <1>3, CredStoreAssumption DEF MadeInv
<1>9. Tokens
  BY <1>1, <1>3, <1>5 DEF Tokens
<1>10. Launched = 0 /\ Answered = 0 /\ Confirmed = 0 /\ Calm
  BY <1>3 DEF Launched, Answered, Confirmed, Calm
<1>11. Nukes
  BY <1>1, <1>5, <1>10 DEF Nukes
<1>12. Keyable
  <2>1. DOMAIN queue = {}
    BY <1>1
  <2> QED BY <1>10, <2>1 DEF Keyable
<1>13. FilesInv(job, disk, faults)
  <2>1. Sound(disk, faults)
    BY <1>2, CredStoreAssumption DEF Sound
  <2> QED BY <1>1, <2>1, IdleBegins
<1> QED BY <1>4, <1>6, <1>7, <1>8, <1>9, <1>11, <1>12, <1>13 DEF Inv, TuiInv

(* Nothing happening keeps the invariant.                                   *)
LEMMA StutterKeeps ==
  ASSUME Inv, UNCHANGED vars
  PROVE  Inv'
<1>1. /\ disk' = disk /\ proc' = proc /\ job' = job /\ made' = made /\ keyed' = keyed /\ faults' = faults /\ mem' = mem
      /\ ui' = ui /\ inbox' = inbox /\ queue' = queue /\ phase' = phase /\ pushes' = pushes /\ crossed' = crossed
  BY DEF vars
<1>2. DiskType' /\ TuiType' /\ Flow' /\ Linked' /\ MadeInv'
  BY <1>1 DEF Inv, TuiInv, DiskType, TuiType, Flow, Linked, MadeInv
<1>3. Tokens' /\ Nukes' /\ Keyable'
  BY <1>1 DEF Inv, Tokens, Nukes, Keyable, Launched, Answered, Confirmed, Calm
<1>4. FilesInv(job', disk', faults')
  BY <1>1 DEF Inv
<1> QED BY <1>2, <1>3, <1>4 DEF Inv, TuiInv

(* Every step keeps the invariant.                                          *)
LEMMA NextKeeps == Inv /\ [Next]_vars => Inv'
<1> SUFFICES ASSUME Inv, [Next]_vars PROVE Inv'
  OBVIOUS
<1>1. CASE (Call \/ CallFails) /\ UNCHANGED tuiVars
  BY <1>1, CallKeeps, CallFailsKeeps
<1>2. CASE (CommandEnds \/ InitKeys \/ Encrypt \/ Decrypt \/ Import \/ Repair) /\ UNCHANGED tuiVars
  BY <1>2, CommandEndsKeeps, InitKeysKeeps, EncryptKeeps, DecryptKeeps, ImportKeeps, RepairKeeps
<1>3. CASE Crash /\ TuiDown
  BY <1>3, CrashKeeps
<1>4. CASE Start \/ Press \/ Reduction \/ GitPushed
  BY <1>4, StartKeeps, PressKeeps, ReductionKeeps, GitPushedKeeps
<1>5. CASE RunEffect
  BY <1>5, RunWriteKeeps, RunUndoKeeps, RunNukeKeeps, RunExportKeeps, RunCheckEnvsKeeps, RunPushKeeps, RunExitKeeps,
     OperationEndsKeeps DEF RunEffect
<1>6. CASE UNCHANGED vars
  BY <1>6, StutterKeeps
<1> QED BY <1>1, <1>2, <1>3, <1>4, <1>5, <1>6 DEF Next

(* The invariant holds throughout.                                          *)
LEMMA Invariant == Spec => []Inv
BY InitHolds, NextKeeps, PTL DEF Spec

(* The invariant has the types in it.                                       *)
LEMMA InvTypes == Inv => TypeOK
<1> SUFFICES ASSUME Inv PROVE TypeOK
  OBVIOUS
<1>1. pushes \in 0 .. 1
  <2>1. PICK g, h \in Nat : g = Count(queue, {"git-commit-push"}) /\ h = Count(inbox, {"GIT_DONE"})
    BY CountsAre DEF Inv, TuiInv, TuiType
  <2>2. pushes + g + h <= 1 /\ pushes \in Nat
    BY <2>1 DEF Inv, Tokens, TuiInv, TuiType
  <2> QED BY <2>2
<1>2. /\ disk.store \in Content /\ disk.bak \in Content
      /\ disk.keys \in Keyrings \cup {Missing, Torn} /\ disk.env \in Keyrings \cup {Missing, Torn}
      /\ disk.cipher \in Ciphers \cup {Missing, Torn}
  BY DiskIs DEF Inv, TuiInv, DiskType
<1>3. made \in Stores
  BY MadeIs DEF Inv
<1>4. /\ job.kind \in JobKinds /\ job.store \in Stores /\ job.paths \in Seq(Files) /\ job.failed \in BOOLEAN
      /\ \A i \in DOMAIN job.plan : job.plan[i].file \in Files
  <2>1. job \in Jobs /\ job.plan \in Seq(Calls)
    BY DEF Inv, TuiInv, DiskType, Jobs
  <2>2. \A i \in DOMAIN job.plan : job.plan[i] \in Calls
    BY <2>1
  <2> QED BY <2>1, <2>2 DEF Jobs, Calls
<1> QED BY <1>1, <1>2, <1>3, <1>4 DEF Inv, TuiInv, DiskType, TuiType, TypeOK, Screens, Ciphers

(* Every variable of the files and of the dashboard keeps its type, whatever *)
(* is pressed, fails or is killed.                                          *)
THEOREM CredTuiTypeCorrect == Spec => []TypeOK
BY Invariant, InvTypes, PTL

(* The invariant leaves nothing hanging at rest.                            *)
LEMMA InvHangs == Inv => NothingHangs
<1> SUFFICES ASSUME Inv, AtRest PROVE ui.mode # "nuke-running" /\ (ui.busy => pushes > 0)
  BY DEF NothingHangs
<1>1. inbox = <<>> /\ queue = <<>> /\ pushes \in Nat
  BY DEF AtRest, Inv, TuiInv, Flow, TuiType
<1>2. (\A T : Count(inbox, T) = 0) /\ (\A T : Count(queue, T) = 0)
  BY <1>1, CountEmpty
<1>3. ui.mode # "nuke-running"
  BY <1>2 DEF Inv, Nukes, Launched, Answered
<1>4. ui.busy => pushes > 0
  BY <1>1, <1>2 DEF Inv, Tokens
<1> QED BY <1>3, <1>4

(* No screen at rest shows a nuke that runs, or a push that is not under    *)
(* way: NUKE_OK, NUKE_FAILED and GIT_DONE always find the screen they are   *)
(* to leave, for any number of faults.                                      *)
THEOREM NoScreenHangs == Spec => []NothingHangs
BY Invariant, InvHangs, PTL

(* A step either makes the next call of the operation, well or not, or      *)
(* leaves its calls alone, or begins or ends one.                           *)
LEMMA StepIs ==
  ASSUME Inv, [Next]_vars
  PROVE  \/ Call
         \/ CallFails
         \/ Crash
         \/ Repair
         \/ job' = job /\ disk' = disk /\ faults' = faults
         \/ job = Idle /\ job'.snap = disk /\ job'.kind # "idle" /\ disk' = disk /\ faults' = faults
         \/ ~Working /\ job' = Idle /\ disk' = disk /\ faults' = faults
<1>1. CASE (Call \/ CallFails) /\ UNCHANGED tuiVars
  BY <1>1
<1>2. CASE CommandEnds
  BY <1>2 DEF CommandEnds
<1>3. ASSUME NEW name \in JobKinds, NEW plan, name # "idle", Command(name, plan)
      PROVE  job = Idle /\ job'.snap = disk /\ job'.kind # "idle" /\ disk' = disk /\ faults' = faults
  <2>1. proc = "none" /\ job' = Job(name, plan, 0, <<>>) /\ disk' = disk /\ faults' = faults
    BY <1>3 DEF Command
  <2> QED BY <1>3, <2>1, JobHas DEF Inv, TuiInv, Flow
<1>4. CASE InitKeys \/ Encrypt \/ Decrypt \/ Import
  <2>1. \E name \in {"init-keys", "encrypt", "decrypt", "import"} : \E plan : Command(name, plan)
    BY <1>4 DEF InitKeys, Encrypt, Decrypt, Import
  <2> QED BY <1>3, <2>1 DEF JobKinds
<1>5. CASE Repair \/ (Crash /\ TuiDown)
  BY <1>5
<1>6. CASE Start \/ Press \/ GitPushed \/ UNCHANGED vars
  BY <1>6 DEF Start, Press, GitPushed, vars
<1>7. CASE Reduction
  <2>1. Reduced
    BY <1>7, ReductionIs DEF Inv
  <2> QED BY <2>1 DEF Reduced, Taken
<1>8. ASSUME NEW t, Running(t), NEW j, Begins(j), j.kind # "idle", j.snap = disk
      PROVE  job = Idle /\ job'.snap = disk /\ job'.kind # "idle" /\ disk' = disk /\ faults' = faults
  BY <1>8, RunningIs DEF Begins
<1>9. CASE RunWrite
  <2>1. PICK j : j = WriteJob(Head(queue).store)
    OBVIOUS
  <2>2. j.kind = "write" /\ j.snap = disk
    BY <2>1 DEF WriteJob, Job
  <2>3. Running("write-store") /\ Begins(j)
    BY <1>9, <2>1 DEF RunWrite
  <2> QED BY <1>8, <2>2, <2>3
<1>10. CASE RunUndo
  <2>1. PICK j : j = UndoJob
    OBVIOUS
  <2>2. j.kind = "undo" /\ j.snap = disk
    BY <2>1 DEF UndoJob, Job
  <2>3. Running("restore-backup") /\ (Begins(j) \/ (Ends(<<>>) /\ job' = job))
    BY <1>10, <2>1 DEF RunUndo
  <2> QED BY <1>8, <2>2, <2>3 DEF Ends
<1>11. CASE RunExport
  <2>1. PICK j : j = ExportJob
    OBVIOUS
  <2>2. j.kind = "export" /\ j.snap = disk
    BY <2>1 DEF ExportJob, Job
  <2>3. Running("export-envs") /\ (Begins(j) \/ (Ends(<<>>) /\ job' = job))
    BY <1>11, <2>1 DEF RunExport
  <2> QED BY <1>8, <2>2, <2>3 DEF Ends
<1>12. CASE RunNuke
  <2>1. PICK nuke : nuke = Head(queue)
    OBVIOUS
  <2>2. PICK j : j = NukeJob(nuke.kind, nuke.store)
    OBVIOUS
  <2>3. j.kind = "nuke" /\ j.snap = disk
    BY <2>2 DEF NukeJob, Job
  <2>4. Running("nuke")
    BY <1>12 DEF RunNuke
  <2>5. Begins(j) \/ (Ends(<<Report("NUKE_FAILED", nuke.rollback)>>) /\ job' = job)
    BY <1>12, <2>1, <2>2 DEF RunNuke
  <2> QED BY <1>8, <2>3, <2>4, <2>5 DEF Ends
<1>13. CASE RunCheckEnvs \/ RunPush
  BY <1>13 DEF RunCheckEnvs, RunPush, Ends
<1>14. CASE RunExit
  BY <1>14 DEF RunExit
<1>15. CASE OperationEnds
  <2>1. \E reports : Ends(reports)
    BY <1>15 DEF OperationEnds
  <2> QED BY <1>15, <2>1 DEF OperationEnds, Ends
<1> QED BY <1>1, <1>2, <1>4, <1>5, <1>6, <1>7, <1>9, <1>10, <1>11, <1>12, <1>13, <1>14, <1>15 DEF Next, RunEffect

(* A call, well or not, is of the same operation. *)
LEMMA SameJob ==
  ASSUME Inv, Call \/ CallFails
  PROVE  /\ Working /\ job'.kind = job.kind /\ job'.snap = job.snap /\ job'.store = job.store
         /\ job.snap \in Disks /\ job.kind # "idle" /\ job \in Jobs
<1>1. job \in Jobs /\ Working
  BY DEF Inv, TuiInv, DiskType, Call, CallFails
<1>2. job'.kind = job.kind /\ job'.snap = job.snap /\ job'.store = job.store
  <2>1. CASE Call
    BY <1>1, <2>1 DEF Call, Jobs
  <2>2. CASE CallFails
    <3>1. \E b, p : job' = [job EXCEPT !.failed = b, !.plan = p]
      BY <2>2, Zenon DEF CallFails
    <3> QED BY <1>1, <3>1 DEF Jobs
  <2> QED BY <2>1, <2>2
<1>3. job.kind # "idle"
  BY <1>1, IdleHas DEF Inv, TuiInv, Flow, Working
<1>4. job.snap \in Disks
  BY <1>3 DEF Inv, FilesInv, Stage
<1> QED BY <1>1, <1>2, <1>3, <1>4

(* When nothing is left of a plan, a file holds what it was to end in. *)
LEMMA EndedIn ==
  ASSUME NEW p, p = <<>>, NEW d, NEW f, NEW v, EndsIn(p, d, f, v)
  PROVE  d[f] = v
<1>1. DOMAIN p = {}
  OBVIOUS
<1> QED BY <1>1 DEF EndsIn

(* Files that hold the same are the same files.                             *)
LEMMA SameDisk ==
  ASSUME NEW d \in Disks, NEW e \in Disks, \A f \in Files : d[f] = e[f]
  PROVE  d = e
BY DEF Disks

(* A nuke that is over rewrote the store, the keyring and the ciphertext    *)
(* together, or, with one fault, put everything back.                       *)
LEMMA NukeEnded ==
  ASSUME NEW j \in Jobs, NEW d \in Disks, NEW n \in Nat, n <= 1,
         FilesInv(j, d, n), j.kind = "nuke", j.plan = <<>>
  PROVE  IF j.failed THEN d = j.snap
         ELSE /\ d.store = j.store
              /\ Whole(d.keys) => d.cipher = [store |-> j.store, keys |-> d.keys]
<1>0. j.snap \in Disks
  BY DEF FilesInv, Stage
<1>1. PICK p : p = j.plan /\ p = <<>>
  OBVIOUS
<1>2. CASE j.failed
  <2>1. \A f \in Files : EndsIn(p, d, f, j.snap[f])
    BY <1>0, <1>1, <1>2 DEF FilesInv, NukeStage
  <2>2. \A f \in Files : d[f] = j.snap[f]
    BY <1>1, <2>1, EndedIn
  <2> QED BY <1>0, <1>2, <2>2, SameDisk
<1>3. CASE ~j.failed
  <2>1. Saving(p, j.snap, d, j.store)
    BY <1>0, <1>1, <1>3 DEF FilesInv, Stage, Going
  <2>2. d.store = j.store
    BY <1>1, <2>1, SavingOver
  <2>3. PICK k : /\ EndsIn(p, d, "keys", k)
                 /\ Whole(k) => EndsIn(p, d, "cipher", [store |-> j.store, keys |-> k])
    BY <1>0, <1>1, <1>3 DEF FilesInv, NukeStage, Rekeys
  <2>4. d.keys = k
    BY <1>1, <2>3, EndedIn
  <2>5. PICK v : v = [store |-> j.store, keys |-> k]
    OBVIOUS
  <2>6. Whole(k) => d.cipher = v
    BY <1>1, <2>3, <2>5, EndedIn
  <2> QED BY <1>3, <2>2, <2>4, <2>5, <2>6
<1> QED BY <1>2, <1>3

(* commitCredentialNuke: a nuke that ends rewrote the store, the keyring    *)
(* and the ciphertext together, or left them and the backup as they were.   *)
(* A second fault may hit the putting back itself: a file that cannot be    *)
(* put back stays as it is.                                                 *)
THEOREM NukedTogether ==
  ASSUME MaxFaults <= 1
  PROVE  Spec => NukeAllOrNothing
<1>1. Inv /\ Inv' /\ [Next]_vars =>
        [job.kind = "nuke" /\ Working /\ job'.kind = "nuke" /\ job'.plan = <<>> =>
           IF job'.failed THEN disk' = job.snap
           ELSE /\ disk'.store = job.store
                /\ Whole(disk'.keys) => disk'.cipher = [store |-> job.store, keys |-> disk'.keys]]_vars
  <2> SUFFICES ASSUME Inv, Inv', [Next]_vars, job.kind = "nuke", Working, job'.kind = "nuke", job'.plan = <<>>
               PROVE  IF job'.failed THEN disk' = job.snap
                      ELSE /\ disk'.store = job.store
                           /\ Whole(disk'.keys) => disk'.cipher = [store |-> job.store, keys |-> disk'.keys]
    OBVIOUS
  <2>1. Call \/ CallFails
    <3>1. job # Idle /\ job' # Idle
      BY IdleHas
    <3>2. job' # job
      BY DEF Working
    <3>3. ~Crash /\ ~Repair
      BY <3>1, <3>2 DEF Crash, Repair
    <3> QED BY <3>1, <3>2, <3>3, StepIs
  <2>2. job'.snap = job.snap /\ job'.store = job.store
    BY <2>1, SameJob
  <2>3. faults' <= 1
    <3>1. faults' \in 0 .. MaxFaults /\ MaxFaults \in Nat
      BY CredStoreAssumption DEF Inv, TuiInv, DiskType
    <3> QED BY <3>1
  <2>4. IF job'.failed THEN disk' = job'.snap
        ELSE /\ disk'.store = job'.store
             /\ Whole(disk'.keys) => disk'.cipher = [store |-> job'.store, keys |-> disk'.keys]
    <3>1. PICK j, d, n : j = job' /\ d = disk' /\ n = faults'
      OBVIOUS
    <3>2. j \in Jobs /\ d \in Disks /\ n \in Nat /\ FilesInv(j, d, n)
      BY <3>1 DEF Inv, TuiInv, DiskType
    <3>3. j.kind = "nuke" /\ j.plan = <<>> /\ n <= 1
      BY <2>3, <3>1
    <3>4. IF j.failed THEN d = j.snap
          ELSE /\ d.store = j.store
               /\ Whole(d.keys) => d.cipher = [store |-> j.store, keys |-> d.keys]
      BY ONLY <3>2, <3>3, NukeEnded
    <3> QED BY <3>1, <3>4
  <2> QED BY <2>2, <2>4
<1> QED BY <1>1, Invariant, PTL DEF Spec, NukeAllOrNothing

(***************************************************************************)
(* What a step does to the store and its backup: o are the files an        *)
(* operator could count on before it, e after it.                          *)
(***************************************************************************)
LeftAlone(o, e) == e.store = o.store /\ e.bak = o.bak
Saved(o, e) == e.store \in Stores /\ e.bak = Backed(o)
Undone(o, e) == o.bak # Missing /\ e.store = o.bak /\ e.bak = o.bak
Repaired(o, e) == o.store = Torn /\ e.store = (IF Whole(o.bak) THEN o.bak ELSE Missing) /\ e.bak = o.bak
Hurt(o, e) ==
  /\ o.store # Torn /\ o.bak # Torn
  /\ \/ e.store = o.store /\ (e.bak = o.bak \/ (o.store # Missing /\ e.bak \in {Torn, Missing}))
     \/ e.store \in Stores \cup {o.store, Torn} /\ e.bak = Backed(o)
     \/ o.bak # Missing /\ e.store \in {Torn, Missing} /\ e.bak = o.bak

(* An operation that is over left the store alone, saved or undid. *)
LEMMA OverKept ==
  ASSUME NEW k \in Jobs, NEW e \in Disks, NEW n \in Nat, n <= 1, FilesInv(k, e, n),
         k.plan = <<>>, k.kind # "idle", k.failed => k.kind \notin {"write", "undo", "decrypt", "import"}
  PROVE  LeftAlone(k.snap, e) \/ Saved(k.snap, e) \/ Undone(k.snap, e)
<1>1. PICK p, old, s : p = k.plan /\ p = <<>> /\ old = k.snap /\ s = k.store /\ s \in Stores
  BY DEF Jobs
<1>2. Stage(k, e, n) /\ NukeStage(k, e, n)
  BY DEF FilesInv
<1>3. CASE k.kind = "nuke" /\ k.failed
  <2>1. \A f \in Files : EndsIn(p, e, f, old[f])
    BY <1>1, <1>2, <1>3 DEF NukeStage
  <2>2. \A f \in Files : e[f] = old[f]
    BY <1>1, <2>1, EndedIn
  <2> QED BY <1>1, <2>2 DEF LeftAlone, Files
<1>4. CASE k.kind \in {"write", "nuke"} /\ ~k.failed
  <2>1. Saving(p, old, e, s)
    BY <1>1, <1>2, <1>4 DEF Stage, Going
  <2> QED BY <1>1, <2>1, SavingOver DEF Saved
<1>5. CASE k.kind \in {"decrypt", "import"}
  <2>1. PICK t \in Stores : Saving(p, old, e, t)
    BY <1>1, <1>2, <1>5 DEF Stage, Going
  <2> QED BY <1>1, <2>1, SavingOver DEF Saved
<1>6. CASE k.kind = "undo"
  <2>1. Undoing(p, old, e)
    BY <1>1, <1>2, <1>6 DEF Stage, Going
  <2>2. old.bak # Missing
    BY <2>1 DEF Undoing
  <2> QED BY <1>1, <2>1, <2>2, UndoingOver DEF Undone
<1>7. CASE k.kind \in {"export", "init-keys", "encrypt"}
  BY <1>1, <1>2, <1>7 DEF Stage, Sparing, LeftAlone
<1>8. k.kind \in JobKinds
  BY DEF Jobs
<1> QED BY <1>3, <1>4, <1>5, <1>6, <1>7, <1>8 DEF JobKinds

(* What is on the disk when an operation is cut off. *)
LEMMA CrashKept ==
  ASSUME NEW j \in Jobs, NEW d \in Disks, FilesInv(j, d, 0), j.plan # <<>>
  PROVE  Hurt(j.snap, d)
<1>1. PICK p, old, s : p = j.plan /\ p # <<>> /\ old = j.snap /\ s = j.store /\ s \in Stores
  BY DEF Jobs
<1>2. Stage(j, d, 0) /\ ~j.failed /\ j.kind # "idle"
  BY IdleHas DEF FilesInv, Stage
<1>3. old.store # Torn /\ old.bak # Torn
  BY <1>1 DEF FilesInv, Unhurt
<1>4. ASSUME NEW t \in Stores, Saving(p, old, d, t) PROVE Hurt(old, d)
  BY <1>3, <1>4 DEF Saving, Cutting, Copying, Putting, Stored, Hurt
<1>5. CASE j.kind \in {"write", "nuke"}
  <2>1. Saving(p, old, d, s)
    BY <1>1, <1>2, <1>5 DEF Stage, Going
  <2> QED BY <1>1, <1>4, <2>1
<1>6. CASE j.kind \in {"decrypt", "import"}
  <2>1. \E t \in Stores : Saving(p, old, d, t)
    BY <1>1, <1>2, <1>6 DEF Stage, Going
  <2> QED BY <1>1, <1>4, <2>1
<1>7. CASE j.kind = "undo"
  <2>1. Undoing(p, old, d)
    BY <1>1, <1>2, <1>7 DEF Stage, Going
  <2> QED BY <1>1, <1>3, <2>1 DEF Undoing, Hurt
<1>8. CASE j.kind \in {"export", "init-keys", "encrypt"}
  BY <1>1, <1>2, <1>3, <1>8 DEF Stage, Sparing, Hurt
<1>9. j.kind \in JobKinds
  BY DEF Jobs
<1> QED BY <1>1, <1>2, <1>5, <1>6, <1>7, <1>8, <1>9 DEF JobKinds

(* A save whose first call failed. *)
FailingSave(p, old, d, s, e) ==
  /\ p \in Seq(Calls) /\ p # <<>> /\ s \in Stores /\ old.store # Torn /\ old.bak # Torn
  /\ Saving(p, old, d, s) /\ FailedBy(e, d, Head(p))

(* What a save that fails leaves in the files.                              *)
LEMMA SaveHurts ==
  ASSUME NEW p, NEW old, NEW d, NEW s, NEW e, FailingSave(p, old, d, s, e)
  PROVE  Hurt(old, e)
<1>0. /\ p \in Seq(Calls) /\ p # <<>> /\ s \in Stores /\ old.store # Torn /\ old.bak # Torn
      /\ Saving(p, old, d, s) /\ FailedBy(e, d, Head(p))
  BY DEF FailingSave
<1>c. PICK c : c = Head(p)
  OBVIOUS
<1>a. PICK a \in FailValues(c, d) : \A f \in Files : e[f] = IF f = c.file THEN a ELSE d[f]
  BY <1>0, <1>c DEF FailedBy
<1>1. c = p[1] /\ 1 \in DOMAIN p /\ 1 > 0
  BY <1>0, <1>c, TailIs
<1>2. e.store = (IF "store" = c.file THEN a ELSE d.store) /\ e.bak = (IF "bak" = c.file THEN a ELSE d.bak)
  BY <1>a DEF Files
<1>3. CASE Cutting(p, old, d, s)
  <2>1. c.call = "cut" /\ c.file = "bak" /\ d.bak = old.bak /\ d.store = old.store
    BY <1>1, <1>3 DEF Cutting, CutBak
  <2>2. a = d.bak
    BY <1>a, <2>1 DEF FailValues
  <2> QED BY <1>0, <1>2, <2>1, <2>2 DEF Hurt
<1>4. CASE Copying(p, old, d, s)
  <2>1. c.call = "copy" /\ c.file = "bak" /\ d.store = old.store /\ old.store # Missing
    BY <1>1, <1>4 DEF Copying, CopyBak
  <2>2. a = Missing
    BY <1>a, <2>1 DEF FailValues
  <2> QED BY <1>0, <1>2, <2>1, <2>2 DEF Hurt
<1>5. CASE Putting(p, old, d, s)
  <2>1. c.call = "put" /\ c.file = "store" /\ d.store = old.store /\ d.bak = Backed(old)
    BY <1>1, <1>5 DEF Putting, PutStore
  <2>2. a \in {d.store, Torn}
    BY <1>a, <2>1 DEF FailValues
  <2> QED BY <1>0, <1>2, <2>1, <2>2 DEF Hurt
<1>6. CASE Stored(p, old, d, s)
  <2>1. c.file \notin {"store", "bak"}
    BY <1>1, <1>6 DEF Stored, Beyond
  <2> QED BY <1>0, <1>2, <1>6, <2>1 DEF Stored, Hurt
<1> QED BY <1>0, <1>3, <1>4, <1>5, <1>6 DEF Saving

(* What is on the disk when a call failed and nothing is put back. *)
LEMMA FailKept ==
  ASSUME NEW j, NEW d, NEW c, NEW a, NEW e, NEW k, FailsTo(j, d, 0, c, a, e, k), k.plan = <<>>
  PROVE  Hurt(j.snap, e)
<1>0. /\ j \in Jobs /\ d \in Disks /\ j.plan # <<>> /\ FilesInv(j, d, 0)
      /\ c = Head(j.plan) /\ a \in FailValues(c, d) /\ e = [d EXCEPT ![c.file] = a]
      /\ k.kind = j.kind /\ k.snap = j.snap
      /\ k.failed = (j.failed \/ ~(j.kind = "write" /\ c.file = "cipher"))
  BY DEF FailsTo
<1>1. PICK p, old, s : p \in Seq(Calls) /\ p = j.plan /\ p # <<>> /\ old = j.snap /\ s = j.store /\ s \in Stores
  BY <1>0 DEF Jobs
<1>2. Stage(j, d, 0) /\ ~j.failed /\ j.kind # "idle"
  BY <1>0, IdleHas DEF FilesInv, Stage
<1>3. old.store # Torn /\ old.bak # Torn
  BY <1>0, <1>1 DEF FilesInv, Unhurt
<1>c. c \in Calls /\ c = p[1] /\ 1 \in DOMAIN p
  BY <1>0, <1>1, TailIs
<1>e. \A f \in Files : e[f] = IF f = c.file THEN a ELSE d[f]
  BY <1>0, <1>c DEF Disks, Calls
<1>f. FailedBy(e, d, Head(p))
  <2>1. FailedBy(e, d, c)
    BY <1>0, <1>e, Zenon DEF FailedBy
  <2> QED BY <1>0, <1>1, <2>1
<1>g. PICK g : g = e
  OBVIOUS
<1>h. FailedBy(g, d, Head(p))
  BY ONLY <1>f, <1>g
<1>4. ASSUME NEW t \in Stores, Saving(p, old, d, t) PROVE Hurt(old, g)
  <2>1. FailingSave(p, old, d, t, g)
    BY ONLY <1>1, <1>3, <1>4, <1>h DEF FailingSave
  <2> QED BY ONLY <2>1, SaveHurts
<1>5. CASE j.kind = "write"
  <2>1. Saving(p, old, d, s)
    BY <1>1, <1>2, <1>5 DEF Stage, Going
  <2> QED BY <1>1, <1>4, <1>g, <2>1
<1>6. CASE j.kind \in {"decrypt", "import"}
  <2>1. \E t \in Stores : Saving(p, old, d, t)
    BY <1>1, <1>2, <1>6 DEF Stage, Going
  <2> QED BY <1>1, <1>4, <1>g, <2>1
<1>7. CASE j.kind = "undo"
  <2>1. Undoing(p, old, d)
    BY <1>1, <1>2, <1>7 DEF Stage, Going
  <2>2. g.store \in {old.store, Missing} /\ g.bak = old.bak
    BY <1>0, <1>1, <1>h, <2>1, UndoingFails
  <2>3. old.bak # Missing
    BY <2>1 DEF Undoing
  <2>4. Hurt(old, g)
    BY ONLY <1>3, <2>2, <2>3 DEF Hurt
  <2> QED BY <1>1, <1>g, <2>4
<1>8. CASE j.kind \in {"export", "init-keys", "encrypt"}
  <2>1. Sparing(p, old, d)
    BY <1>1, <1>2, <1>8 DEF Stage
  <2>2. c.file \notin {"store", "bak"}
    BY <1>c, <2>1 DEF Sparing, Beyond
  <2>3. e.store = old.store /\ e.bak = old.bak
    BY <1>e, <2>1, <2>2 DEF Sparing, Files
  <2> QED BY <1>1, <1>3, <2>3 DEF Hurt
<1>9. CASE j.kind = "nuke"
  <2>1. PICK m : m <= 1 /\ FilesInv(k, g, m)
    <3>1. PICK n : n = 0
      OBVIOUS
    <3>2. FailsTo(j, d, n, c, a, e, k)
      BY <3>1
    <3>3. FilesInv(k, e, n + 1)
      BY ONLY <3>2, FailStep
    <3>4. n + 1 <= 1
      BY <3>1
    <3> QED BY ONLY <1>g, <3>3, <3>4
  <2>2. k.failed /\ k.kind = "nuke" /\ k.snap = old
    BY <1>0, <1>1, <1>9
  <2>3. \A f \in Files : EndsIn(k.plan, g, f, old[f])
    BY ONLY <2>1, <2>2 DEF FilesInv, NukeStage
  <2>4. PICK q : q = k.plan /\ q = <<>>
    OBVIOUS
  <2>5. \A f \in Files : g[f] = old[f]
    BY ONLY <2>3, <2>4, EndedIn
  <2>6. Hurt(old, g)
    BY ONLY <1>3, <2>5 DEF Hurt, Files
  <2> QED BY <1>1, <1>g, <2>6
<1>10. j.kind \in JobKinds
  BY <1>0 DEF Jobs
<1> QED BY <1>2, <1>5, <1>6, <1>7, <1>8, <1>9, <1>10 DEF JobKinds

(* What a step did, from m faults to n. *)
Moves(o, e, m, n) ==
  \/ m = n /\ (LeftAlone(o, e) \/ Saved(o, e) \/ Undone(o, e) \/ Repaired(o, e))
  \/ m = 0 /\ n = 1 /\ Hurt(o, e)

(* A call that succeeds changes what is kept when it is the last of its     *)
(* operation.                                                               *)
LEMMA CallMoves ==
  ASSUME Inv, Inv', faults' <= 1, Call
  PROVE  Moves(Kept, Kept', faults, faults')
<1>1. Working /\ job'.kind = job.kind /\ job'.snap = job.snap /\ job.kind # "idle" /\ job \in Jobs /\ faults' = faults
  BY SameJob DEF Call
<1>2. job'.failed = job.failed
  BY <1>1 DEF Call, Jobs
<1>3. Kept = job.snap
  BY <1>1 DEF Kept
<1>4. CASE Working'
  BY <1>1, <1>3, <1>4 DEF Kept, Moves, LeftAlone
<1>5. CASE ~Working'
  <2>1. PICK k, e, n : k = job' /\ e = disk' /\ n = faults'
    OBVIOUS
  <2>2. k \in Jobs /\ e \in Disks /\ n \in Nat /\ n <= 1 /\ FilesInv(k, e, n)
    BY <2>1, CredStoreAssumption DEF Inv, TuiInv, DiskType
  <2>3. k.plan = <<>> /\ k.kind # "idle" /\ k.snap = job.snap
    BY <1>1, <1>5, <2>1 DEF Working
  <2>4. k.failed => k.kind \notin {"write", "undo", "decrypt", "import"}
    BY <1>1, <1>2, <2>1 DEF Inv, FilesInv, Stage, Stopped, Working
  <2>5. LeftAlone(k.snap, e) \/ Saved(k.snap, e) \/ Undone(k.snap, e)
    BY ONLY <2>2, <2>3, <2>4, OverKept
  <2>6. Kept' = e
    BY <1>5, <2>1 DEF Kept
  <2> QED BY <1>1, <1>3, <2>3, <2>5, <2>6 DEF Moves
<1> QED BY <1>4, <1>5

(* A call that fails is the one fault.                                      *)
LEMMA FailMoves ==
  ASSUME Inv, Inv', faults' <= 1, CallFails
  PROVE  Moves(Kept, Kept', faults, faults')
<1>1. Working /\ job'.snap = job.snap /\ faults = 0 /\ faults' = 1
  BY SameJob, CredStoreAssumption DEF CallFails, Inv, TuiInv, DiskType
<1>2. Kept = job.snap
  BY <1>1 DEF Kept
<1>3. CASE Working'
  <2>1. job.snap.store # Torn /\ job.snap.bak # Torn
    BY <1>1 DEF Inv, FilesInv, Unhurt, Working
  <2>2. Kept' = job.snap
    BY <1>1, <1>3 DEF Kept
  <2> QED BY <1>1, <1>2, <2>1, <2>2 DEF Moves, Hurt
<1>4. CASE ~Working'
  <2>1. PICK c, a : FailsTo(job, disk, faults, c, a, disk', job')
    BY FailsAs
  <2>2. PICK j, d, k, e : j = job /\ d = disk /\ k = job' /\ e = disk'
    OBVIOUS
  <2>3. FailsTo(j, d, 0, c, a, e, k)
    BY ONLY <1>1, <2>1, <2>2
  <2>4. k.plan = <<>>
    BY <1>4, <2>2 DEF Working
  <2>5. Hurt(j.snap, e)
    BY ONLY <2>3, <2>4, FailKept
  <2>6. Kept' = e
    BY <1>4, <2>2 DEF Kept
  <2> QED BY <1>1, <1>2, <2>2, <2>5, <2>6 DEF Moves
<1> QED BY <1>3, <1>4

(* So is a crash.                                                           *)
LEMMA CrashMoves ==
  ASSUME Inv, Inv', faults' <= 1, Crash
  PROVE  Moves(Kept, Kept', faults, faults')
<1>1. Working /\ disk' = disk /\ faults = 0 /\ faults' = 1 /\ ~Working'
  BY IdleHas, CredStoreAssumption DEF Crash, Working, Inv, TuiInv, DiskType
<1>2. Kept = job.snap /\ Kept' = disk
  BY <1>1 DEF Kept
<1>3. job \in Jobs /\ disk \in Disks /\ FilesInv(job, disk, 0) /\ job.plan # <<>>
  BY <1>1 DEF Inv, TuiInv, DiskType, Working
<1>4. Hurt(job.snap, disk)
  BY <1>3, CrashKept
<1> QED BY <1>1, <1>2, <1>4 DEF Moves

(* What every step does to what is kept.                                    *)
LEMMA StepMoves ==
  ASSUME Inv, Inv', [Next]_vars, faults' <= 1
  PROVE  Moves(Kept, Kept', faults, faults')
<1>1. CASE Repair
  <2>1. ~Working /\ ~Working'
    BY <1>1, IdleHas DEF Repair, Inv, TuiInv, Flow, Working
  <2>2. Kept = disk /\ Kept' = disk'
    BY <2>1 DEF Kept
  <2>3. faults' = faults /\ disk \in Disks
    BY <1>1 DEF Repair, Inv, TuiInv, DiskType
  <2>4. Repaired(disk, disk')
    BY <1>1, <2>3 DEF Repair, Repaired, Disks, Files
  <2> QED BY <2>2, <2>3, <2>4 DEF Moves
<1>2. CASE job' = job /\ disk' = disk /\ faults' = faults
  BY <1>2 DEF Kept, Working, Moves, LeftAlone
<1>3. CASE job = Idle /\ job'.snap = disk /\ job'.kind # "idle" /\ disk' = disk /\ faults' = faults
  BY <1>3, IdleHas DEF Kept, Working, Moves, LeftAlone
<1>4. CASE ~Working /\ job' = Idle /\ disk' = disk /\ faults' = faults
  BY <1>4, IdleHas DEF Kept, Working, Moves, LeftAlone
<1> QED BY <1>1, <1>2, <1>3, <1>4, StepIs, CallMoves, FailMoves, CrashMoves

(* What AtomicStore sees of the store and its backup. *)
CurrentOf(o) == IF Whole(o.store) THEN o.store
                ELSE IF Whole(o.bak) THEN o.bak
                ELSE IF o.store = Torn /\ o.bak = Torn THEN Torn ELSE Missing
PreviousOf(o) == IF Whole(o.bak) THEN o.bak ELSE IF o.bak = Torn THEN Torn ELSE Missing
Readings(o) == o.store \in Content /\ o.bak \in Content

(* A save, as AtomicStore sees it.                                          *)
LEMMA SaveMaps ==
  ASSUME NEW o, NEW e, Readings(o), Readings(e), Saved(o, e)
  PROVE  /\ CurrentOf(e) \in Stores /\ e.store # Torn
         /\ PreviousOf(e) = IF o.store = Torn THEN Torn ELSE IF CurrentOf(o) = Missing THEN PreviousOf(o) ELSE CurrentOf(o)
BY NotTorn, CredStoreAssumption DEF Readings, Content, Saved, Backed, CurrentOf, PreviousOf, Whole

(* An undo, as AtomicStore sees it.                                         *)
LEMMA UndoMaps ==
  ASSUME NEW o, NEW e, Readings(o), Readings(e), Undone(o, e)
  PROVE  /\ PreviousOf(o) # Missing /\ CurrentOf(e) = PreviousOf(o) /\ PreviousOf(e) = PreviousOf(o)
         /\ (e.store = Torn) = (PreviousOf(o) = Torn)
BY NotTorn, CredStoreAssumption DEF Readings, Content, Undone, CurrentOf, PreviousOf, Whole

(* A repair, as AtomicStore sees it.                                        *)
LEMMA RepairMaps ==
  ASSUME NEW o, NEW e, Readings(o), Readings(e), Repaired(o, e)
  PROVE  /\ o.store = Torn /\ e.store # Torn /\ PreviousOf(e) = PreviousOf(o)
         /\ CurrentOf(e) = IF CurrentOf(o) = Torn THEN Missing ELSE CurrentOf(o)
BY NotTorn, CredStoreAssumption DEF Readings, Content, Repaired, CurrentOf, PreviousOf, Whole

(* A fault, as AtomicStore sees it.                                         *)
LEMMA HurtMaps ==
  ASSUME NEW o, NEW e, Readings(o), Readings(e), Hurt(o, e)
  PROVE  \/ CurrentOf(e) = CurrentOf(o) /\ PreviousOf(e) \in {PreviousOf(o), CurrentOf(o), Torn, Missing}
         \/ PreviousOf(o) # Missing /\ CurrentOf(e) = PreviousOf(o) /\ PreviousOf(e) = PreviousOf(o)
         \/ /\ CurrentOf(e) \in Stores
            /\ PreviousOf(e) = IF CurrentOf(o) = Missing THEN PreviousOf(o) ELSE CurrentOf(o)
BY NotTorn, CredStoreAssumption DEF Readings, Content, Hurt, Backed, CurrentOf, PreviousOf, Whole

(* What is kept is a store, missing or torn.                                *)
LEMMA KeptReadings ==
  ASSUME Inv
  PROVE  Readings(Kept) /\ faults \in Nat
<1>1. disk \in Disks /\ faults \in Nat
  BY CredStoreAssumption DEF Inv, TuiInv, DiskType
<1>2. Working => job.snap \in Disks
  BY IdleHas DEF Inv, FilesInv, Stage, Working
<1>3. Kept \in Disks
  BY <1>1, <1>2 DEF Kept
<1>4. PICK o \in Disks : o = Kept
  BY <1>3
<1>5. Fits("store", o["store"]) /\ Fits("bak", o["bak"])
  BY DiskIs DEF Files
<1>6. o.store \in Content /\ o.bak \in Content
  BY <1>5 DEF Fits
<1> QED BY <1>1, <1>4, <1>6 DEF Readings

(* What a step does is a step of AtomicStore, or none.                      *)
LEMMA MovesRefine ==
  ASSUME NEW o, NEW e, NEW m \in Nat, NEW n \in Nat, Readings(o), Readings(e), Moves(o, e, m, n),
         o = Kept, e = Kept', m = faults, n = faults'
  PROVE  [Promise!Next]_Promise!vars
<1>1. CASE m = n /\ LeftAlone(o, e)
  <2>1. CurrentOf(e) = CurrentOf(o) /\ PreviousOf(e) = PreviousOf(o) /\ (e.store = Torn) = (o.store = Torn)
    BY <1>1 DEF LeftAlone, CurrentOf, PreviousOf
  <2>2. UNCHANGED Promise!vars
    BY <1>1, <2>1 DEF Promise!vars, CurrentOf, PreviousOf, Whole
  <2> QED BY <2>2
<1>2. CASE m = n /\ Saved(o, e)
  <2>1. Promise!Save
    BY <1>2, SaveMaps DEF Promise!Save, CurrentOf, PreviousOf, Whole
  <2> QED BY <2>1 DEF Promise!Next
<1>3. CASE m = n /\ Undone(o, e)
  <2>1. Promise!Undo
    BY <1>3, UndoMaps DEF Promise!Undo, CurrentOf, PreviousOf, Whole
  <2> QED BY <2>1 DEF Promise!Next
<1>4. CASE m = n /\ Repaired(o, e)
  <2>1. Promise!Repair
    BY <1>4, RepairMaps DEF Promise!Repair, CurrentOf, PreviousOf, Whole
  <2> QED BY <2>1 DEF Promise!Next
<1>5. CASE m = 0 /\ n = 1 /\ Hurt(o, e)
  <2>1. Promise!Fault
    BY <1>5, HurtMaps DEF Promise!Fault, CurrentOf, PreviousOf, Whole
  <2> QED BY <2>1 DEF Promise!Next
<1> QED BY <1>1, <1>2, <1>3, <1>4, <1>5 DEF Moves

(* The first state is AtomicStore's.                                        *)
LEMMA InitRefines == Init => Promise!Init
<1> SUFFICES ASSUME Init PROVE Promise!Init
  OBVIOUS
<1>1. Kept.store = Missing /\ Kept.bak = Missing /\ faults = 0
  BY IdleHas DEF Init, FileInit, Kept, Working, Files
<1> QED BY <1>1, CredStoreAssumption DEF Promise!Init, Whole

(* The files keep what AtomicStore promises, with one fault at most: every  *)
(* change of the store is one step of it, whatever calls it is made of, and *)
(* a crash or a failing call leaves the store before or after that change.  *)
THEOREM StoreKept ==
  ASSUME MaxFaults <= 1
  PROVE  Spec => KeepsStore
<1>1. Inv => Readings(Kept) /\ faults \in Nat /\ faults <= 1
  <2> SUFFICES ASSUME Inv PROVE Readings(Kept) /\ faults \in Nat /\ faults <= 1
    OBVIOUS
  <2>1. faults \in 0 .. MaxFaults /\ MaxFaults \in Nat
    BY CredStoreAssumption DEF Inv, TuiInv, DiskType
  <2> QED BY <2>1, KeptReadings
<1>2. /\ Inv /\ Readings(Kept) /\ faults \in Nat
      /\ (Inv /\ Readings(Kept) /\ faults \in Nat /\ faults <= 1)'
      /\ [Next]_vars
      => [Promise!Next]_Promise!vars
  <2> SUFFICES ASSUME Inv, Readings(Kept), faults \in Nat, Inv', Readings(Kept'), faults' \in Nat, faults' <= 1, [Next]_vars
               PROVE  [Promise!Next]_Promise!vars
    BY DEF Readings
  <2>1. PICK o, e, m, n : o = Kept /\ e = Kept' /\ m = faults /\ n = faults'
    OBVIOUS
  <2>2. Moves(o, e, m, n)
    BY <2>1, StepMoves
  <2>3. Readings(o) /\ Readings(e) /\ m \in Nat /\ n \in Nat
    BY <2>1
  <2> QED BY ONLY <2>1, <2>2, <2>3, MovesRefine
<1> QED BY <1>1, <1>2, InitRefines, Invariant, PTL DEF Spec, KeepsStore, Promise!Spec

(***************************************************************************)
(* The stores there are: none is newer than the last one made.             *)
(***************************************************************************)

(* What a file holds is of a store up to m. *)
Upto(file, value, m) ==
  /\ file \in {"store", "bak"} /\ Whole(value) => value <= m
  /\ file = "cipher" /\ Whole(value) => value.store <= m

UptoDisk(d, m) == \A f \in Files : Upto(f, d[f], m)
UptoCalls(m) == {c \in Calls : Upto(c.file, c.value, m)}
UptoEffects(m) == {e \in Effects : /\ e.type \in Storing => e.store <= m /\ e.rollback <= m /\ e.over = e.store
                                   /\ e.type = "restore-backup" => e.over <= m}
UptoActions(m) == {a \in Actions : a.type \in Returning => a.store <= m /\ a.over <= m}

FilesUpto(d, j, m) ==
  /\ UptoDisk(d, m) /\ j.plan \in Seq(UptoCalls(m))
  /\ j.kind # "idle" => UptoDisk(j.snap, m)
TuiUpto(c, x, q, m) == c <= m /\ x \in Seq(UptoActions(m)) /\ q \in Seq(UptoEffects(m))

Known == FilesUpto(disk, job, made) /\ TuiUpto(mem, inbox, queue, made)

(* What no file of a store holds is no store. *)
LEMMA UptoNone ==
  \A f, m : Upto(f, Torn, m) /\ Upto(f, Missing, m)
BY DEF Upto, Whole

(* More stores make room for more. *)
LEMMA UptoMore ==
  ASSUME NEW m \in Nat, NEW n \in Nat, m <= n
  PROVE  /\ UptoCalls(m) \subseteq UptoCalls(n) /\ UptoEffects(m) \subseteq UptoEffects(n)
         /\ UptoActions(m) \subseteq UptoActions(n)
         /\ \A d \in Disks : UptoDisk(d, m) => UptoDisk(d, n)
<1>1. ASSUME NEW f \in Files, NEW v \in FileValues, Fits(f, v), Upto(f, v, m) PROVE Upto(f, v, n)
  <2>1. CASE f \in {"store", "bak"}
    <3>1. Whole(v) => v \in Nat
      BY <1>1, <2>1, CredStoreAssumption DEF Fits, Content, Whole, Stores
    <3> QED BY <1>1, <2>1, <3>1 DEF Upto
  <2>2. CASE f = "cipher"
    <3>1. Whole(v) => v.store \in Nat
      BY <1>1, <2>2, CredStoreAssumption DEF Fits, Ciphers, Whole, Stores
    <3> QED BY <1>1, <2>2, <3>1 DEF Upto
  <2> QED BY <2>1, <2>2 DEF Upto
<1>2. UptoCalls(m) \subseteq UptoCalls(n)
  BY <1>1 DEF UptoCalls, Calls
<1>3. UptoEffects(m) \subseteq UptoEffects(n)
  BY CredStoreAssumption DEF UptoEffects, Effects, Stores
<1>4. UptoActions(m) \subseteq UptoActions(n)
  BY MessageIs, CredStoreAssumption DEF UptoActions, Stores
<1>5. ASSUME NEW d \in Disks, UptoDisk(d, m) PROVE UptoDisk(d, n)
  <2>1. \A f \in Files : d[f] \in FileValues /\ Fits(f, d[f])
    BY DiskIs
  <2> QED BY <1>1, <1>5, <2>1 DEF UptoDisk
<1> QED BY <1>2, <1>3, <1>4, <1>5

(* The calls that put what is known into a file. *)
LEMMA UptoCallsAre ==
  ASSUME NEW m, NEW f \in Files, NEW v \in FileValues, Fits(f, v), Upto(f, v, m)
  PROVE  /\ Copy(f, v) \in Seq(UptoCalls(m)) /\ Rewrite(f, v) \in Seq(UptoCalls(m))
         /\ Put(f, v) \in Seq(UptoCalls(m)) /\ Unlink(f) \in Seq(UptoCalls(m))
<1>1. /\ Torn \in FileValues /\ Missing \in FileValues /\ Fits(f, Torn) /\ Fits(f, Missing)
      /\ Upto(f, Torn, m) /\ Upto(f, Missing, m)
  BY UptoNone DEF FileValues, Fits, Content
<1>2. ASSUME NEW c \in {"cut", "copy", "write", "put", "unlink"}, NEW w \in FileValues, Fits(f, w), Upto(f, w, m)
      PROVE  [call |-> c, file |-> f, value |-> w] \in UptoCalls(m)
  BY <1>2 DEF Calls, UptoCalls
<1>3. PICK a, b, c, d, e \in UptoCalls(m) :
        /\ a = [call |-> "cut", file |-> f, value |-> Torn]
        /\ b = [call |-> "copy", file |-> f, value |-> v]
        /\ c = [call |-> "write", file |-> f, value |-> v]
        /\ d = [call |-> "put", file |-> f, value |-> v]
        /\ e = [call |-> "unlink", file |-> f, value |-> Missing]
  BY <1>1, <1>2
<1>4. <<a, b>> \in Seq(UptoCalls(m)) /\ <<a, c>> \in Seq(UptoCalls(m)) /\ <<d>> \in Seq(UptoCalls(m))
      /\ <<e>> \in Seq(UptoCalls(m))
  OBVIOUS
<1> QED BY <1>3, <1>4 DEF Copy, Rewrite, Put, Unlink, Cut

(* So does the rewriting of the ciphertext. *)
LEMMA UptoCipher ==
  ASSUME NEW m, NEW s \in Stores, s <= m, NEW k \in Keyrings \cup {Missing, Torn}, Whole(k)
  PROVE  CipherPlan(s, k) \in Seq(UptoCalls(m))
<1>1. PICK v : v = [store |-> s, keys |-> k]
  OBVIOUS
<1>2. v \in Ciphers /\ v.store = s
  BY <1>1 DEF Ciphers, Whole
<1>3. "cipher" \in Files /\ v \in FileValues /\ Fits("cipher", v) /\ Upto("cipher", v, m)
  BY <1>2 DEF Files, FileValues, Fits, Upto
<1> QED BY <1>1, <1>3, UptoCallsAre DEF CipherPlan

(* So does the replacing of the store. *)
LEMMA UptoStore ==
  ASSUME disk \in Disks, NEW m, UptoDisk(disk, m), NEW s \in Stores, s <= m
  PROVE  StorePlan(s) \in Seq(UptoCalls(m))
<1>1. "store" \in Files /\ "bak" \in Files /\ s \in FileValues /\ Fits("store", s) /\ Upto("store", s, m)
  BY DEF Files, FileValues, Fits, Content, Upto
<1>2. PICK p \in Seq(UptoCalls(m)) : p = Put("store", s)
  BY <1>1, UptoCallsAre
<1>3. disk.store \in FileValues /\ Fits("bak", disk.store) /\ Upto("bak", disk.store, m)
  <2>1. Upto("store", disk["store"], m)
    BY <1>1 DEF UptoDisk
  <2> QED BY <2>1, DiskIs DEF FileValues, Fits, Content, Upto
<1>4. PICK q \in Seq(UptoCalls(m)) : q = Copy("bak", disk.store)
  BY <1>1, <1>3, UptoCallsAre
<1>5. PICK r \in Seq(UptoCalls(m)) : r = IF disk.store = Missing THEN <<>> ELSE Copy("bak", disk.store)
  <2>1. <<>> \in Seq(UptoCalls(m))
    OBVIOUS
  <2> QED BY <1>4, <2>1
<1>6. r \o p \in Seq(UptoCalls(m))
  OBVIOUS
<1> QED BY <1>2, <1>5, <1>6 DEF StorePlan

(* So does the putting back of files. *)
LEMMA UptoRestore ==
  ASSUME NEW m, NEW paths \in Seq(Files), NEW now \in Disks, NEW then \in Disks, UptoDisk(then, m)
  PROVE  RestorePlan(paths, now, then) \in Seq(UptoCalls(m))
<1>1. PICK P : P = Seq(UptoCalls(m))
  OBVIOUS
<1>2. PICK n \in Nat : n = Len(paths) /\ DOMAIN paths = 1..n
  OBVIOUS
<1>3. PICK c : c = [i \in DOMAIN paths |->
        LET f == paths[i] IN
        IF then[f] # Missing THEN Rewrite(f, then[f])
        ELSE IF now[f] # Missing THEN Unlink(f) ELSE <<>>]
  OBVIOUS
<1>4. \A i \in 1..n : c[i] \in P
  <2> SUFFICES ASSUME NEW i \in 1..n PROVE c[i] \in P
    OBVIOUS
  <2>1. PICK f \in Files : f = paths[i]
    BY <1>2
  <2>2. then[f] \in FileValues /\ Fits(f, then[f]) /\ Upto(f, then[f], m)
    BY DiskIs DEF UptoDisk
  <2>3. Rewrite(f, then[f]) \in P /\ Unlink(f) \in P /\ <<>> \in P
    BY <1>1, <2>2, UptoCallsAre
  <2>4. c[i] = IF then[f] # Missing THEN Rewrite(f, then[f])
               ELSE IF now[f] # Missing THEN Unlink(f) ELSE <<>>
    BY <1>2, <1>3, <2>1
  <2> QED BY <2>3, <2>4
<1>5. c \in Seq(P)
  <2>1. DOMAIN c = 1..n /\ c = [i \in 1..n |-> c[i]]
    BY <1>2, <1>3
  <2> QED BY <1>4, <2>1
<1> QED BY <1>1, <1>3, <1>5, FlatType DEF RestorePlan

(* So does what is left of a plan. *)
LEMMA UptoWithout ==
  ASSUME NEW m, NEW plan \in Seq(UptoCalls(m)), NEW file
  PROVE  Without(plan, file) \in Seq(UptoCalls(m))
<1>1. PICK P : P = Seq(UptoCalls(m))
  OBVIOUS
<1>2. PICK n \in Nat : n = Len(plan) /\ DOMAIN plan = 1..n
  OBVIOUS
<1>3. PICK c : c = [i \in DOMAIN plan |-> IF plan[i].file = file THEN <<>> ELSE <<plan[i]>>]
  OBVIOUS
<1>4. \A i \in 1..n : c[i] \in P
  BY <1>1, <1>2, <1>3
<1>5. c \in Seq(P)
  <2>1. DOMAIN c = 1..n /\ c = [i \in 1..n |-> c[i]]
    BY <1>2, <1>3
  <2> QED BY <1>4, <2>1
<1> QED BY <1>1, <1>3, <1>5, FlatType DEF Without

(* A file that is written with what is known. *)
LEMMA UptoPut ==
  ASSUME NEW d \in Disks, NEW m, UptoDisk(d, m), NEW f \in Files, NEW v, Upto(f, v, m)
  PROVE  UptoDisk([d EXCEPT ![f] = v], m)
<1>1. PICK e : e = [d EXCEPT ![f] = v]
  OBVIOUS
<1>2. \A g \in Files : e[g] = IF g = f THEN v ELSE d[g]
  BY <1>1 DEF Disks
<1> QED BY <1>1, <1>2 DEF UptoDisk

(* A call that succeeds. *)
LEMMA CallUpto ==
  ASSUME Inv, Known, Call
  PROVE  FilesUpto(disk', job', made')
<1>1. job \in Jobs /\ disk \in Disks /\ job.plan # <<>> /\ made' = made /\ FilesUpto(disk, job, made)
  BY DEF Inv, TuiInv, DiskType, Call, Working, Known
<1>2. PICK p \in Seq(UptoCalls(made)) : p = job.plan /\ p # <<>>
  BY <1>1 DEF FilesUpto
<1>3. PICK c \in UptoCalls(made) : c = Head(p)
  BY <1>2, TailIs
<1>4. PICK q \in Seq(UptoCalls(made)) : q = Tail(p)
  BY <1>2, TailIs
<1>5. disk' = [disk EXCEPT ![c.file] = c.value] /\ job' = [job EXCEPT !.plan = q]
  BY <1>2, <1>3, <1>4 DEF Call
<1>6. UptoDisk(disk', made)
  <2>1. c.file \in Files /\ Upto(c.file, c.value, made) /\ UptoDisk(disk, made)
    BY <1>1 DEF UptoCalls, Calls, FilesUpto
  <2> QED BY <1>1, <1>5, <2>1, UptoPut
<1>7. job'.plan = q /\ job'.kind = job.kind /\ job'.snap = job.snap
  BY <1>1, <1>5 DEF Jobs
<1>8. /\ UptoDisk(disk', made) /\ job'.plan \in Seq(UptoCalls(made)) /\ (job'.kind # "idle" => UptoDisk(job'.snap, made))
  BY <1>1, <1>6, <1>7 DEF FilesUpto
<1> QED BY <1>1, <1>8, Zenon DEF FilesUpto

(* A call that fails. *)
LEMMA CallFailsUpto ==
  ASSUME Inv, Known, CallFails
  PROVE  FilesUpto(disk', job', made')
<1>1. made' = made /\ FilesUpto(disk, job, made)
  BY DEF CallFails, Known
<1>2. PICK c, a : FailsTo(job, disk, faults, c, a, disk', job')
  BY FailsAs
<1>3. PICK d, e, j, k, n : d = disk /\ e = disk' /\ j = job /\ k = job' /\ n = faults
  OBVIOUS
<1>4. FailsTo(j, d, n, c, a, e, k)
  BY ONLY <1>2, <1>3
<1>5. /\ j \in Jobs /\ d \in Disks /\ j.plan # <<>> /\ FilesInv(j, d, n)
      /\ c = Head(j.plan) /\ a \in FailValues(c, d)
      /\ k.kind = j.kind /\ k.snap = j.snap
      /\ k.plan = IF j.kind # "nuke" THEN <<>>
                  ELSE IF j.failed THEN Without(j.plan, c.file) ELSE RestorePlan(j.paths, e, j.snap)
  BY ONLY <1>4 DEF FailsTo
<1>6. e = [d EXCEPT ![c.file] = a]
  BY ONLY <1>4 DEF FailsTo
<1>7. e \in Disks
  BY ONLY <1>4, FailStep
<1>8. PICK m : m = made /\ FilesUpto(d, j, m)
  BY <1>1, <1>3
<1>9. PICK p \in Seq(UptoCalls(m)) : p = j.plan /\ p # <<>>
  BY ONLY <1>5, <1>8 DEF FilesUpto
<1>10. c \in UptoCalls(m)
  BY ONLY <1>5, <1>9, TailIs
<1>11. UptoDisk(e, m)
  <2>1. c.file \in Files /\ UptoDisk(d, m)
    BY ONLY <1>8, <1>10 DEF UptoCalls, Calls, FilesUpto
  <2>2. a \in {Missing, Torn, d[c.file]}
    BY ONLY <1>5 DEF FailValues
  <2>3. Upto(c.file, a, m)
    BY ONLY <2>1, <2>2, UptoNone DEF UptoDisk
  <2> QED BY ONLY <1>5, <1>6, <2>1, <2>3, UptoPut
<1>12. k.plan \in Seq(UptoCalls(m))
  <2>0. <<>> \in Seq(UptoCalls(m))
    OBVIOUS
  <2>1. Without(j.plan, c.file) \in Seq(UptoCalls(m))
    BY <1>9, UptoWithout
  <2>2. j.kind = "nuke" => RestorePlan(j.paths, e, j.snap) \in Seq(UptoCalls(m))
    <3>1. j.kind = "nuke" => j.snap \in Disks /\ UptoDisk(j.snap, m) /\ j.paths \in Seq(Files)
      BY <1>5, <1>8 DEF FilesInv, Stage, FilesUpto, Jobs
    <3> QED BY <1>7, <3>1, UptoRestore
  <2> QED BY <1>5, <2>0, <2>1, <2>2
<1>13. k.kind # "idle" => UptoDisk(k.snap, m)
  BY ONLY <1>5, <1>8 DEF FilesUpto
<1>14. FilesUpto(e, k, m)
  BY ONLY <1>11, <1>12, <1>13 DEF FilesUpto
<1> QED BY ONLY <1>1, <1>3, <1>8, <1>14

(* The files stay as they are, and so does the operation, or it is over. *)
LEMMA SameUpto ==
  ASSUME Inv, Known, disk' = disk, job' = job \/ job' = Idle, made' = made \/ made' = made + 1
  PROVE  FilesUpto(disk', job', made')
<1>1. PICK m, n \in Nat : m = made /\ n = made' /\ m <= n
  <2>1. made \in Nat
    BY MadeIs DEF Inv
  <2> QED BY <2>1
<1>2. disk \in Disks /\ FilesUpto(disk, job, m) /\ (job.kind # "idle" => job.snap \in Disks)
  BY <1>1 DEF Inv, TuiInv, DiskType, Known, FilesInv, Stage
<1>3. UptoDisk(disk, n) /\ (job.kind # "idle" => UptoDisk(job.snap, n)) /\ UptoCalls(m) \subseteq UptoCalls(n)
  BY <1>1, <1>2, UptoMore DEF FilesUpto
<1>4. job.plan \in Seq(UptoCalls(n)) /\ <<>> \in Seq(UptoCalls(n))
  BY <1>2, <1>3 DEF FilesUpto
<1>5. job'.plan \in Seq(UptoCalls(n)) /\ (job'.kind # "idle" => UptoDisk(job'.snap, n))
  BY <1>3, <1>4, IdleHas
<1> QED BY <1>1, <1>3, <1>5 DEF FilesUpto

(* An operation begins. *)
LEMMA BeginUpto ==
  ASSUME Inv, Known, disk' = disk, made' = made \/ made' = made + 1,
         NEW p \in Seq(UptoCalls(made')), NEW k, NEW s, NEW q, job' = Job(k, p, s, q)
  PROVE  FilesUpto(disk', job', made')
<1>1. PICK m, n \in Nat : m = made /\ n = made' /\ m <= n
  <2>1. made \in Nat
    BY MadeIs DEF Inv
  <2>2. made' \in Nat /\ made <= made'
    BY <2>1
  <2> QED BY <2>1, <2>2
<1>2. UptoDisk(disk, n)
  <2>1. disk \in Disks /\ UptoDisk(disk, m)
    BY <1>1 DEF Inv, TuiInv, DiskType, Known, FilesUpto
  <2> QED BY <1>1, <2>1, UptoMore
<1>3. job'.plan = p /\ job'.snap = disk
  BY DEF Job
<1> QED BY <1>1, <1>2, <1>3 DEF FilesUpto

(* The repair of a torn store. *)
LEMMA RepairUpto ==
  ASSUME Inv, Known, Repair
  PROVE  FilesUpto(disk', job', made')
<1>1. PICK v : v = (IF Whole(disk.bak) THEN disk.bak ELSE Missing)
  OBVIOUS
<1>2. disk' = [disk EXCEPT !["store"] = v] /\ job' = job /\ made' = made /\ disk \in Disks
  BY <1>1 DEF Repair, Inv, TuiInv, DiskType
<1>3. Upto("store", v, made)
  <2>1. Upto("bak", disk["bak"], made)
    BY DEF Known, FilesUpto, UptoDisk, Files
  <2> QED BY <1>1, <2>1, UptoNone DEF Upto
<1>4. UptoDisk(disk', made)
  <2>1. UptoDisk(disk, made) /\ "store" \in Files
    BY DEF Known, FilesUpto, Files
  <2> QED BY <1>2, <1>3, <2>1, UptoPut
<1> QED BY <1>2, <1>4 DEF Known, FilesUpto

(* What reading the store gives is known. *)
LEMMA HeldUpto ==
  ASSUME Inv, Known, Readable
  PROVE  Held \in Stores /\ Held <= made
<1>1. disk \in Disks /\ made \in Nat
  BY MadeIs DEF Inv, TuiInv, DiskType
<1>2. Upto("store", disk["store"], made)
  BY DEF Known, FilesUpto, UptoDisk, Files
<1>3. Held \in Stores
  BY <1>1, HeldIs
<1>4. disk.store \in Content
  BY <1>1, DiskIs
<1> QED BY <1>1, <1>2, <1>3, <1>4, CredStoreAssumption DEF Held, Readable, Upto, Whole, Content

(* The stores and the calls that are known stay so when one more is made. *)
LEMMA MadeMore ==
  ASSUME Inv, Known, made' = made \/ made' = made + 1
  PROVE  /\ made \in Nat /\ made' \in Nat /\ made <= made' /\ UptoDisk(disk, made') /\ disk \in Disks
         /\ UptoCalls(made) \subseteq UptoCalls(made')
<1>1. made \in Nat
  BY MadeIs DEF Inv
<1>2. made' \in Nat /\ made <= made'
  BY <1>1
<1>3. PICK m, n \in Nat : m = made /\ n = made' /\ m <= n
  BY <1>1, <1>2
<1>4. disk \in Disks /\ UptoDisk(disk, m)
  BY <1>3 DEF Inv, TuiInv, DiskType, Known, FilesUpto
<1> QED BY <1>3, <1>4, UptoMore

(* A command begins with calls that are known. *)
LEMMA CommandUpto ==
  ASSUME Inv, Known, made' = made \/ made' = made + 1,
         NEW p \in Seq(UptoCalls(made')), NEW name, Command(name, p)
  PROVE  FilesUpto(disk', job', made')
<1>1. disk' = disk /\ job' = Job(name, p, 0, <<>>)
  BY DEF Command
<1> QED BY <1>1, BeginUpto

(* A keyring's calls are of no store. *)
LEMMA UptoKeys ==
  ASSUME NEW m, NEW f \in {"keys", "env"}, NEW k \in Keyrings \cup {Missing, Torn}
  PROVE  Put(f, k) \in Seq(UptoCalls(m))
<1>1. f \in Files /\ k \in FileValues /\ Fits(f, k) /\ Upto(f, k, m)
  BY DEF Files, FileValues, Fits, Upto
<1> QED BY <1>1, UptoCallsAre

(* --init-keys begins. *)
LEMMA InitKeysUpto ==
  ASSUME Inv, Known, InitKeys
  PROVE  FilesUpto(disk', job', made')
<1>1. /\ keyed < MaxKeyrings /\ keyed' = keyed + 1 /\ made' = made
      /\ Command("init-keys", Put("keys", keyed') \o IF Readable THEN CipherPlan(Held, keyed') ELSE <<>>)
  BY DEF InitKeys
<1>2. PICK k \in Keyrings : k = keyed'
  <2>1. keyed \in 0 .. MaxKeyrings /\ MaxKeyrings \in Nat
    BY CredStoreAssumption DEF Inv, TuiInv, DiskType
  <2>2. keyed' \in Keyrings
    BY <1>1, <2>1 DEF Keyrings
  <2> QED BY <2>2
<1>3. PICK p \in Seq(UptoCalls(made)) : p = Put("keys", k)
  BY UptoKeys
<1>4. PICK x \in Seq(UptoCalls(made)) : x = IF Readable THEN CipherPlan(Held, k) ELSE <<>>
  <2>0. <<>> \in Seq(UptoCalls(made))
    OBVIOUS
  <2>1. CASE Readable
    <3>1. Held \in Stores /\ Held <= made /\ Whole(k) /\ k \in Keyrings \cup {Missing, Torn}
      BY <2>1, HeldUpto, KeyIs
    <3>2. CipherPlan(Held, k) \in Seq(UptoCalls(made))
      BY <3>1, UptoCipher
    <3> QED BY <2>1, <3>2
  <2> QED BY <2>0, <2>1
<1>5. PICK q \in Seq(UptoCalls(made)) : q = p \o x
  BY ConcatProperties
<1>6. Command("init-keys", q) /\ q \in Seq(UptoCalls(made'))
  BY <1>1, <1>2, <1>3, <1>4, <1>5
<1> QED BY <1>1, <1>6, CommandUpto

(* --encrypt begins. *)
LEMMA EncryptUpto ==
  ASSUME Inv, Known, Encrypt
  PROVE  FilesUpto(disk', job', made')
<1>1. Whole(disk.keys) /\ Readable /\ made' = made /\ Command("encrypt", CipherPlan(Held, disk.keys))
  BY DEF Encrypt
<1>2. PICK k : k = disk.keys /\ k \in Keyrings \cup {Missing, Torn}
  BY DiskIs DEF Inv, TuiInv, DiskType
<1>3. Held \in Stores /\ Held <= made
  BY <1>1, HeldUpto
<1>4. PICK q \in Seq(UptoCalls(made)) : q = CipherPlan(Held, k)
  BY <1>1, <1>2, <1>3, UptoCipher
<1>5. Command("encrypt", q) /\ q \in Seq(UptoCalls(made'))
  BY <1>1, <1>2, <1>4
<1> QED BY <1>1, <1>5, CommandUpto

(* --decrypt or --import begins. *)
LEMMA ChangeUpto ==
  ASSUME Inv, Known, Decrypt \/ Import
  PROVE  FilesUpto(disk', job', made')
<1>1. ASSUME NEW name, NEW s \in Stores, Command(name, StorePlan(s)), made' = made \/ made' = made + 1, s <= made'
      PROVE  FilesUpto(disk', job', made')
  <2>1. PICK p \in Seq(UptoCalls(made')) : p = StorePlan(s)
    <3>1. disk \in Disks /\ UptoDisk(disk, made')
      BY <1>1, MadeMore
    <3> QED BY <1>1, <3>1, UptoStore
  <2>2. Command(name, p)
    BY <1>1, <2>1
  <2> QED BY <1>1, <2>2, CommandUpto
<1>2. made \in Nat /\ Readable
  BY MadeIs DEF Inv, Decrypt, Import
<1>3. Held \in Stores /\ Held <= made
  BY <1>2, HeldUpto
<1>4. ASSUME NEW name, made < MaxStores, made' = made + 1, Command(name, StorePlan(made'))
      PROVE  FilesUpto(disk', job', made')
  <2>1. PICK s \in Stores : s = made' /\ s <= made'
    <3>1. made + 1 \in Stores /\ made + 1 <= made + 1
      BY <1>2, <1>4, NewStore
    <3> QED BY <1>4, <3>1
  <2>2. Command(name, StorePlan(s))
    BY <1>4, <2>1
  <2> QED BY <1>1, <1>4, <2>1, <2>2
<1>5. ASSUME NEW name, made' = made, Command(name, StorePlan(Held))
      PROVE  FilesUpto(disk', job', made')
  BY <1>1, <1>3, <1>5
<1>6. CASE Import
  BY <1>4, <1>5, <1>6 DEF Import
<1>7. CASE Decrypt
  <2>1. PICK s \in Stores : s = disk.cipher.store /\ s <= made
    <3>1. disk.cipher \in Ciphers /\ Whole(disk.cipher)
      BY <1>7, DiskIs DEF Decrypt, Inv, TuiInv, DiskType, Whole
    <3>2. Upto("cipher", disk["cipher"], made)
      BY DEF Known, FilesUpto, UptoDisk, Files
    <3>3. disk.cipher.store \in Stores /\ disk.cipher.store <= made
      BY <3>1, <3>2 DEF Upto, Ciphers
    <3> QED BY <3>3
  <2>2. CASE Command("decrypt", StorePlan(disk.cipher.store)) /\ made' = made
    <3>1. Command("decrypt", StorePlan(s))
      BY <2>1, <2>2
    <3> QED BY <1>1, <2>1, <2>2, <3>1
  <2>3. CASE Command("decrypt", StorePlan(Held)) /\ made' = made
    BY <1>5, <2>3
  <2>4. CASE made < MaxStores /\ made' = made + 1 /\ Command("decrypt", StorePlan(made'))
    BY <1>4, <2>4
  <2> QED BY <1>7, <2>2, <2>3, <2>4 DEF Decrypt
<1> QED BY <1>6, <1>7

(* The first effect is known. *)
LEMMA HeadUpto ==
  ASSUME Inv, Known, NEW t, Running(t)
  PROVE  /\ Head(queue) \in UptoEffects(made) /\ Head(queue) \in Effects /\ Head(queue).type = t /\ job = Idle
         /\ disk \in Disks /\ UptoDisk(disk, made) /\ made \in Nat
<1>1. queue # <<>> /\ job = Idle /\ disk \in Disks /\ Head(queue).type = t
  BY RunningIs
<1>2. queue \in Seq(UptoEffects(made)) /\ UptoDisk(disk, made)
  BY DEF Known, TuiUpto, FilesUpto
<1>3. Head(queue) \in UptoEffects(made)
  BY <1>1, <1>2, TailIs
<1> QED BY <1>1, <1>2, <1>3, MadeIs DEF UptoEffects, Inv

(* The operation of an effect begins, or there is none. *)
LEMMA RunsUpto ==
  ASSUME Inv, Known, RunWrite \/ RunUndo \/ RunExport
  PROVE  FilesUpto(disk', job', made')
<1>1. CASE RunWrite
  <2>1. Running("write-store") /\ Begins(WriteJob(Head(queue).store))
    BY <1>1 DEF RunWrite
  <2>2. disk \in Disks /\ UptoDisk(disk, made) /\ disk' = disk /\ made' = made
    BY <2>1, HeadUpto DEF Begins
  <2>3. PICK s \in Stores : s = Head(queue).store /\ s <= made
    BY <2>1, HeadUpto DEF UptoEffects, Effects, Storing
  <2>4. PICK p \in Seq(UptoCalls(made)) : p = StorePlan(s)
    BY <2>2, <2>3, UptoStore
  <2>5. PICK x \in Seq(UptoCalls(made)) : x = SyncPlan(s)
    <3>0. <<>> \in Seq(UptoCalls(made))
      OBVIOUS
    <3>1. disk.keys \in Keyrings \cup {Missing, Torn}
      BY <2>2, DiskIs
    <3> QED BY <2>3, <3>0, <3>1, UptoCipher DEF SyncPlan
  <2>6. PICK q \in Seq(UptoCalls(made)) : q = p \o x
    BY ConcatProperties
  <2>7. job' = Job("write", q, s, <<>>)
    BY <2>1, <2>3, <2>4, <2>5, <2>6 DEF Begins, WriteJob
  <2>8. q \in Seq(UptoCalls(made'))
    BY <2>2
  <2> QED BY <2>2, <2>7, <2>8, BeginUpto
<1>2. CASE RunUndo
  <2>1. CASE Running("restore-backup") /\ Begins(UndoJob)
    <3>1. disk \in Disks /\ UptoDisk(disk, made) /\ disk' = disk /\ made' = made
      BY <2>1, HeadUpto DEF Begins
    <3>2. PICK v : v = disk.bak
      OBVIOUS
    <3>3. "store" \in Files /\ v \in FileValues /\ Fits("store", v) /\ Upto("store", v, made)
      <4>1. Upto("bak", disk["bak"], made)
        BY <3>1 DEF UptoDisk, Files
      <4> QED BY <3>1, <3>2, <4>1, DiskIs DEF Files, FileValues, Fits, Content, Upto
    <3>4. PICK q \in Seq(UptoCalls(made)) : q = Copy("store", v)
      BY <3>3, UptoCallsAre
    <3>5. job' = Job("undo", q, 0, <<>>) /\ q \in Seq(UptoCalls(made'))
      BY <2>1, <3>1, <3>2, <3>4 DEF Begins, UndoJob
    <3> QED BY <3>1, <3>5, BeginUpto
  <2>2. CASE Ends(<<>>) /\ job' = job
    BY <2>2, SameUpto DEF Ends
  <2> QED BY <1>2, <2>1, <2>2 DEF RunUndo
<1>3. CASE RunExport
  <2>1. CASE Running("export-envs") /\ Begins(ExportJob)
    <3>1. disk \in Disks /\ UptoDisk(disk, made) /\ disk' = disk /\ made' = made
      BY <2>1, HeadUpto DEF Begins
    <3>2. PICK k : k = disk.keys /\ k \in Keyrings \cup {Missing, Torn}
      BY <3>1, DiskIs
    <3>3. PICK q \in Seq(UptoCalls(made)) : q = Put("env", k)
      BY <3>2, UptoKeys
    <3>4. job' = Job("export", q, 0, <<>>) /\ q \in Seq(UptoCalls(made'))
      BY <2>1, <3>1, <3>2, <3>3 DEF Begins, ExportJob
    <3> QED BY <3>1, <3>4, BeginUpto
  <2>2. CASE Ends(<<>>) /\ job' = job
    BY <2>2, SameUpto DEF Ends
  <2> QED BY <1>3, <2>1, <2>2 DEF RunExport
<1> QED BY <1>1, <1>2, <1>3

(* A nuke begins, or is refused. *)
LEMMA RunNukeUpto ==
  ASSUME Inv, Known, RunNuke
  PROVE  FilesUpto(disk', job', made')
<1>1. Running("nuke")
  BY DEF RunNuke
<1>2. PICK nuke \in Effects : nuke = Head(queue) /\ nuke.store \in Stores /\ nuke.store <= made
  <2>1. Head(queue) \in Effects /\ Head(queue).store \in Stores /\ Head(queue).store <= made
    BY <1>1, HeadUpto DEF UptoEffects, Effects, Storing
  <2> QED BY <2>1
<1>3. CASE /\ Ends(<<Report("NUKE_FAILED", nuke.rollback)>>) /\ UNCHANGED <<proc, job, keyed, pushes>>
  BY <1>3, SameUpto DEF Ends
<1>4. CASE /\ ~(nuke.kind \notin {"soft", "full"} \/ (nuke.kind = "soft" /\ disk.keys = Torn))
           /\ Begins(NukeJob(nuke.kind, nuke.store))
  <2>1. PICK kind, s, k : /\ kind = nuke.kind /\ s = nuke.store /\ s \in Stores /\ s <= made
                          /\ k = (IF kind = "full" THEN keyed + 1 ELSE disk.keys)
    BY <1>2
  <2>2. disk \in Disks /\ UptoDisk(disk, made) /\ disk' = disk /\ made' = made
    BY <1>1, <1>4, HeadUpto DEF Begins
  <2>3. k \in Keyrings \/ k = Missing
    <3>1. keyed \in 0 .. MaxKeyrings /\ MaxKeyrings \in Nat
      BY CredStoreAssumption DEF Inv, TuiInv, DiskType
    <3>2. CASE kind = "full"
      <4>0. queue # <<>> /\ queue \in Seq(Effects) /\ nuke.type = "nuke" /\ job = Idle
        BY <1>1, <1>2, RunningIs
      <4>1. 1 \in DOMAIN queue /\ queue[1] = nuke /\ job.kind = "idle"
        BY <1>2, <4>0, TailIs, IdleHas
      <4>2. keyed < MaxKeyrings
        BY <2>1, <3>2, <4>0, <4>1 DEF Inv, Keyable
      <4> QED BY <2>1, <3>1, <3>2, <4>2 DEF Keyrings
    <3>3. CASE kind # "full"
      BY <1>4, <2>1, <2>2, <3>3, DiskIs
    <3> QED BY <3>2, <3>3
  <2>4. PICK a \in Seq(UptoCalls(made)) : a = StorePlan(s)
    BY <2>1, <2>2, UptoStore
  <2>e. <<>> \in Seq(UptoCalls(made))
    OBVIOUS
  <2>5. PICK b \in Seq(UptoCalls(made)) : b = (IF kind = "full" THEN Put("keys", k) ELSE <<>>)
    BY <2>3, <2>e, UptoKeys
  <2>6. PICK c \in Seq(UptoCalls(made)) : c = (IF k # Missing THEN CipherPlan(s, k) ELSE <<>>)
    BY <2>1, <2>3, <2>e, UptoCipher, KeyIs
  <2>7. PICK p \in Seq(UptoCalls(made)) : p = (a \o b) \o c
    <3>1. PICK d \in Seq(UptoCalls(made)) : d = a \o b
      BY ConcatProperties
    <3>2. d \o c \in Seq(UptoCalls(made))
      BY ConcatProperties
    <3> QED BY <3>1, <3>2
  <2>8. PICK q : q = ((IF k # Missing THEN <<"cipher">> ELSE <<>>) \o (IF kind = "full" THEN <<"keys">> ELSE <<>>)) \o <<"bak", "store">>
    OBVIOUS
  <2>9. job' = Job("nuke", p, s, q)
    <3>1. job' = NukeJob(kind, s)
      BY <1>4, <2>1 DEF Begins
    <3>2. NukeJob(kind, s) = Job("nuke", (StorePlan(s) \o b) \o c, s, q)
      BY <2>1, <2>5, <2>6, <2>8, Zenon DEF NukeJob
    <3> QED BY <2>4, <2>7, <3>1, <3>2
  <2>10. p \in Seq(UptoCalls(made'))
    BY <2>2
  <2> QED BY <2>2, <2>9, <2>10, BeginUpto
<1> QED BY <1>2, <1>3, <1>4, Zenon DEF RunNuke

(***************************************************************************)
(* What a step does to the stores on the screen, on the disk and on their  *)
(* way between the two.                                                    *)
(***************************************************************************)

(* The store that the operation under way began with, or else the one there is. *)
Settled == IF job = Idle THEN disk.store ELSE job.snap.store

(* What comes to wait, if anything, puts back no store. *)
Harmless == inbox' = inbox \/ \E a \in Actions : a.type \notin Returning /\ inbox' = Append(inbox, a)

Starts ==
  /\ proc = "none" /\ Readable /\ mem' = Held /\ inbox' = <<>> /\ queue' = <<>> /\ job = Idle /\ job' = Idle
  /\ disk' = disk /\ made' = made
Pauses == UNCHANGED <<mem, queue, crossed, made>> /\ Settled' = Settled /\ Harmless
Reducts == Reduced /\ Settled' = Settled
Turns ==
  /\ queue # <<>> /\ Head(queue).type = "exit" /\ queue' = Append(Tail(queue), Head(queue))
  /\ UNCHANGED <<mem, inbox, crossed, made>> /\ Settled' = Settled

(* An effect that is over saved its store or left what there was, or reports *)
(* the store to put back: the one it is to return to, or the backup. *)
Silent(h) ==
  /\ Harmless
  /\ IF h.type \in Storing THEN Settled' = h.store ELSE Whole(Settled') => Settled' = Settled
Reported(h, r) ==
  /\ r.type \in Returning /\ r.over = h.over
  /\ \/ h.type \in Storing /\ r.store = h.rollback /\ (Whole(Settled') => Settled' = Settled)
     \/ h.type = "restore-backup" /\ r.store = Settled'
Finishes ==
  /\ queue # <<>> /\ queue' = Tail(queue) /\ job' = Idle /\ UNCHANGED <<mem, crossed, made>>
  /\ Silent(Head(queue)) \/ \E r \in Messages : inbox' = Append(inbox, r) /\ Reported(Head(queue), r)

(* The file operation of an effect that is over. *)
LEMMA OperationIs ==
  ASSUME Inv, faults <= 1, OperationEnds
  PROVE  Finishes
<1>1. /\ proc = "tui" /\ job # Idle /\ ~Working /\ job' = Idle /\ job \in Jobs /\ disk \in Disks
      /\ FilesInv(job, disk, faults) /\ faults \in Nat
  BY CredStoreAssumption DEF OperationEnds, Inv, TuiInv, DiskType
<1>2. PICK e : e = Head(queue)
  OBVIOUS
<1>3. PICK reports : /\ Ends(reports)
                     /\ reports = CASE job.kind = "write" /\ job.failed -> <<Report("WRITE_FAILED", e.rollback)>>
                                    [] job.kind = "undo" /\ ~job.failed /\ Readable -> <<Report("UNDO_OK", disk.store)>>
                                    [] job.kind = "nuke" /\ job.failed  -> <<Report("NUKE_FAILED", e.rollback)>>
                                    [] job.kind = "nuke" /\ ~job.failed -> <<Told("NUKE_OK", "none")>>
                                    [] OTHER -> <<>>
  BY <1>2 DEF OperationEnds
<1>4. /\ queue # <<>> /\ queue \in Seq(Effects) /\ inbox \in Seq(Actions)
      /\ queue' = Tail(queue) /\ UNCHANGED <<mem, crossed, made>> /\ inbox' = inbox \o reports /\ disk' = disk
      /\ job' = Idle
  BY <1>1, <1>3 DEF Ends, Inv, TuiInv, Flow, TuiType
<1>5. e \in Effects /\ e.rollback \in Stores
  <2>1. e \in Effects
    BY <1>2, <1>4, TailIs
  <2> QED BY <2>1 DEF Effects
<1>6. \/ job.kind = "write" /\ e.type = "write-store" /\ job.store = e.store
      \/ job.kind = "nuke" /\ e.type = "nuke" /\ job.store = e.store
      \/ job.kind = "undo" /\ e.type = "restore-backup"
      \/ job.kind = "export" /\ e.type = "export-envs"
  BY <1>1, <1>2 DEF Inv, TuiInv, Linked
<1>7. Settled' = disk.store /\ Settled = job.snap.store
  BY <1>1, <1>4 DEF Settled
<1>8. PICK p, old, s : p = job.plan /\ p = <<>> /\ old = job.snap /\ s = job.store /\ s \in Stores
  BY <1>1 DEF Working, Jobs
<1>9. ASSUME reports = <<>> PROVE Harmless
  <2>1. inbox \o <<>> = inbox
    BY <1>4, ConcatEmptySeq
  <2> QED BY <1>4, <1>9, <2>1 DEF Harmless
<1>10. ASSUME NEW r \in Messages, reports = <<r>> PROVE r \in Actions /\ inbox' = Append(inbox, r)
  <2>1. r \in Actions
    BY DEF Actions
  <2>2. inbox \o <<r>> = Append(inbox, r)
    BY <1>4, <2>1
  <2> QED BY <1>4, <1>10, <2>1, <2>2
<1>11. CASE job.kind = "write"
  <2>1. CASE job.failed
    <3>1. PICK r \in Messages : r = Report("WRITE_FAILED", e.rollback) /\ r.type = "WRITE_FAILED"
      BY <1>4, <1>5, ReportIs DEF Inv, Reports
    <3>2. r.store = e.rollback /\ r.over = e.over
      BY <1>2, <3>1 DEF Report
    <3>3. Whole(disk.store) => disk.store = job.snap.store
      BY <1>1, <1>11, <2>1 DEF FilesInv, Stage, Stopped, Whole
    <3>4. Reported(e, r)
      BY <1>6, <1>7, <1>11, <3>1, <3>2, <3>3 DEF Reported, Storing, Returning
    <3> QED BY <1>2, <1>3, <1>4, <1>10, <1>11, <2>1, <3>1, <3>4 DEF Finishes
  <2>2. CASE ~job.failed
    <3>1. Saving(p, old, disk, s)
      BY <1>1, <1>8, <1>11, <2>2 DEF FilesInv, Stage, Going
    <3>2. disk.store = e.store
      BY <1>6, <1>8, <1>11, <3>1, SavingOver
    <3>3. Silent(e)
      BY <1>3, <1>6, <1>7, <1>9, <1>11, <2>2, <3>2 DEF Silent, Storing
    <3> QED BY <1>2, <1>4, <3>3 DEF Finishes
  <2> QED BY <2>1, <2>2
<1>12. CASE job.kind = "nuke"
  <2>0. IF job.failed THEN disk = job.snap ELSE disk.store = job.store
    BY <1>1, <1>8, <1>12, NukeEnded
  <2>1. CASE job.failed
    <3>1. PICK r \in Messages : r = Report("NUKE_FAILED", e.rollback) /\ r.type = "NUKE_FAILED"
      BY <1>4, <1>5, ReportIs DEF Inv, Reports
    <3>2. r.store = e.rollback /\ r.over = e.over
      BY <1>2, <3>1 DEF Report
    <3>3. Reported(e, r)
      BY <1>6, <1>7, <1>12, <2>0, <2>1, <3>1, <3>2 DEF Reported, Storing, Returning
    <3> QED BY <1>2, <1>3, <1>4, <1>10, <1>12, <2>1, <3>1, <3>3 DEF Finishes
  <2>2. CASE ~job.failed
    <3>1. PICK r \in Messages : r = Told("NUKE_OK", "none") /\ r.type = "NUKE_OK"
      BY ToldIs DEF Reports
    <3>2. Harmless
      BY <1>3, <1>10, <1>12, <2>2, <3>1 DEF Harmless, Returning
    <3>3. Silent(e)
      BY <1>6, <1>7, <1>12, <2>0, <2>2, <3>2 DEF Silent, Storing
    <3> QED BY <1>2, <1>4, <3>3 DEF Finishes
  <2> QED BY <2>1, <2>2
<1>13. CASE job.kind = "undo"
  <2>1. CASE ~job.failed /\ Readable
    <3>1. Undoing(p, old, disk)
      BY <1>1, <1>8, <1>13, <2>1 DEF FilesInv, Stage, Going
    <3>2. disk.store \in Stores
      <4>1. disk.store = old.bak /\ disk.store # Missing
        BY <1>8, <3>1, UndoingOver DEF Undoing
      <4> QED BY <1>1, <2>1, <4>1, DiskIs DEF Readable, Content
    <3>3. PICK r \in Messages : r = Report("UNDO_OK", disk.store) /\ r.type = "UNDO_OK"
      BY <1>4, <3>2, ReportIs DEF Inv, Reports
    <3>4. r.store = disk.store /\ r.over = e.over
      BY <1>2, <3>3 DEF Report
    <3>5. Reported(e, r)
      BY <1>6, <1>7, <1>13, <3>3, <3>4 DEF Reported, Returning
    <3> QED BY <1>2, <1>3, <1>4, <1>10, <1>13, <2>1, <3>3, <3>5 DEF Finishes
  <2>2. CASE job.failed \/ ~Readable
    <3>1. Whole(disk.store) => disk.store = job.snap.store
      BY <1>1, <1>13, <2>2 DEF FilesInv, Stage, Stopped, Whole, Readable
    <3>2. Silent(e)
      BY <1>3, <1>6, <1>7, <1>9, <1>13, <2>2, <3>1 DEF Silent, Storing
    <3> QED BY <1>2, <1>4, <3>2 DEF Finishes
  <2> QED BY <2>1, <2>2
<1>14. CASE job.kind = "export"
  <2>1. disk.store = job.snap.store
    BY <1>1, <1>14 DEF FilesInv, Stage, Sparing
  <2>2. Silent(e)
    BY <1>3, <1>6, <1>7, <1>9, <1>14, <2>1 DEF Silent, Storing
  <2> QED BY <1>2, <1>4, <2>2 DEF Finishes
<1> QED BY <1>6, <1>11, <1>12, <1>13, <1>14

(* An effect that is over without a file operation. *)
LEMMA AtOnceIs ==
  ASSUME Inv, RunUndo \/ RunNuke \/ RunExport \/ RunCheckEnvs \/ RunPush, job' = job
  PROVE  Finishes
<1>1. \E t : Running(t)
  BY DEF RunUndo, RunNuke, RunExport, RunCheckEnvs, RunPush
<1>2. PICK e : e = Head(queue)
  OBVIOUS
<1>3. job = Idle /\ job' = Idle /\ queue # <<>> /\ queue \in Seq(Effects) /\ e \in Effects /\ inbox \in Seq(Actions) /\ TuiInv
  BY <1>1, <1>2, RunningIs DEF Inv, TuiInv, TuiType
<1>4. ASSUME NEW j, Begins(j), j.kind # "idle" PROVE FALSE
  BY <1>3, <1>4, IdleHas DEF Begins
<1>5. ASSUME NEW reports, Ends(reports)
      PROVE  queue' = Tail(queue) /\ UNCHANGED <<mem, crossed, made>> /\ Settled' = Settled /\ inbox' = inbox \o reports
  BY <1>3, <1>5 DEF Ends, Settled
<1>6. ASSUME Ends(<<>>), e.type \notin Storing PROVE Finishes
  <2>1. inbox \o <<>> = inbox
    BY <1>3, ConcatEmptySeq
  <2>2. Silent(e)
    BY <1>5, <1>6, <2>1 DEF Silent, Harmless
  <2> QED BY <1>2, <1>3, <1>5, <1>6, <2>2 DEF Finishes
<1>7. ASSUME NEW r \in Messages, Ends(<<r>>)
      PROVE  r \in Actions /\ inbox' = Append(inbox, r)
  <2>1. r \in Actions
    BY DEF Actions
  <2>2. inbox \o <<r>> = Append(inbox, r)
    BY <1>3, <2>1
  <2> QED BY <1>5, <1>7, <2>1, <2>2
<1>8. CASE RunUndo
  <2>1. e.type = "restore-backup"
    BY <1>2, <1>8 DEF RunUndo, Running
  <2>2. UndoJob.kind = "undo"
    BY DEF UndoJob, Job
  <2> QED BY <1>4, <1>6, <1>8, <2>1, <2>2 DEF RunUndo, Storing
<1>9. CASE RunExport
  <2>1. e.type = "export-envs"
    BY <1>2, <1>9 DEF RunExport, Running
  <2>2. ExportJob.kind = "export"
    BY DEF ExportJob, Job
  <2> QED BY <1>4, <1>6, <1>9, <2>1, <2>2 DEF RunExport, Storing
<1>10. CASE RunPush
  <2>1. e.type = "git-commit-push"
    BY <1>2, <1>10 DEF RunPush, Running
  <2> QED BY <1>6, <1>10, <2>1 DEF RunPush, Storing
<1>11. CASE RunCheckEnvs
  <2>1. e.type = "check-envs"
    BY <1>2, <1>11 DEF RunCheckEnvs, Running
  <2>2. EnvFileStatus \in Statuses
    BY DEF EnvFileStatus, Statuses
  <2>3. PICK r \in Messages : r = Told("ENVS_STATUS", EnvFileStatus) /\ r.type = "ENVS_STATUS"
    BY <2>2, ToldIs DEF Reports
  <2>4. Ends(<<>>) \/ Ends(<<r>>)
    BY <1>11, <2>3 DEF RunCheckEnvs
  <2>5. CASE Ends(<<r>>)
    <3>1. Silent(e)
      BY <1>5, <1>7, <2>1, <2>3, <2>5 DEF Silent, Harmless, Storing, Returning
    <3> QED BY <1>2, <1>3, <1>5, <2>5, <3>1 DEF Finishes
  <2> QED BY <1>6, <2>1, <2>4, <2>5 DEF Storing
<1>12. CASE RunNuke
  <2>1. e.type = "nuke" /\ e.rollback \in Stores
    BY <1>2, <1>3, <1>12 DEF RunNuke, Running, Effects
  <2>2. NukeJob(e.kind, e.store).kind = "nuke"
    BY DEF NukeJob, Job
  <2>3. Ends(<<Report("NUKE_FAILED", e.rollback)>>)
    BY <1>2, <1>4, <1>12, <2>2 DEF RunNuke
  <2>4. PICK r \in Messages : r = Report("NUKE_FAILED", e.rollback) /\ r.type = "NUKE_FAILED"
    BY <1>3, <2>1, ReportIs DEF Reports
  <2>5. r.store = e.rollback /\ r.over = e.over
    BY <1>2, <2>4 DEF Report
  <2>6. Ends(<<r>>)
    BY <2>3, <2>4
  <2>7. Reported(e, r)
    BY <1>5, <2>1, <2>4, <2>5, <2>6 DEF Reported, Storing, Returning
  <2> QED BY <1>2, <1>3, <1>5, <1>7, <2>6, <2>7 DEF Finishes
<1> QED BY <1>8, <1>9, <1>10, <1>11, <1>12

(* What the files hold stays known, whatever happens. *)
LEMMA FilesStep ==
  ASSUME Inv, Known, [Next]_vars
  PROVE  FilesUpto(disk', job', made')
<1>1. CASE (Call \/ CallFails) /\ UNCHANGED tuiVars
  BY <1>1, CallUpto, CallFailsUpto
<1>2. CASE CommandEnds \/ InitKeys \/ Encrypt \/ Decrypt \/ Import \/ Repair
  <2>1. CASE CommandEnds
    BY <2>1, SameUpto DEF CommandEnds
  <2> QED BY <1>2, <2>1, InitKeysUpto, EncryptUpto, ChangeUpto, RepairUpto
<1>3. CASE Crash /\ TuiDown
  BY <1>3, SameUpto DEF Crash
<1>4. CASE Start \/ Press \/ GitPushed \/ UNCHANGED vars
  BY <1>4, SameUpto DEF Start, Press, GitPushed, vars
<1>5. CASE Reduction
  <2>1. Reduced
    BY <1>5, ReductionIs DEF Inv
  <2>2. disk' = disk /\ job' = job
    BY <2>1 DEF Reduced, Taken
  <2>3. made' = made \/ made' = made + 1
    BY <2>1, ReducedStores DEF Unstored, PutsBack, Saves
  <2> QED BY <2>2, <2>3, SameUpto
<1>6. CASE RunEffect
  <2>1. CASE RunCheckEnvs \/ RunPush
    BY <2>1, SameUpto DEF RunCheckEnvs, RunPush, Ends
  <2>2. CASE RunExit
    BY <2>2, SameUpto DEF RunExit
  <2>3. CASE OperationEnds
    <3>1. \E reports : Ends(reports)
      BY <2>3 DEF OperationEnds
    <3>2. disk' = disk /\ job' = Idle /\ made' = made
      BY <2>3, <3>1 DEF OperationEnds, Ends
    <3> QED BY <3>2, SameUpto
  <2> QED BY <1>6, <2>1, <2>2, <2>3, RunsUpto, RunNukeUpto DEF RunEffect
<1> QED BY <1>1, <1>2, <1>3, <1>4, <1>5, <1>6 DEF Next

(* An operation that begins leaves what there was. *)
LEMMA BeginsPauses ==
  ASSUME Inv, NEW t, Running(t), NEW j, Begins(j), j.kind # "idle", j.snap = disk
  PROVE  Pauses
<1>1. job = Idle /\ job' = j /\ j # Idle
  BY RunningIs, IdleHas DEF Begins
<1>2. Settled' = Settled
  BY <1>1 DEF Settled
<1> QED BY <1>2 DEF Begins, Pauses, Harmless

(* What runs pauses the stores, turns the queue or is over. *)
LEMMA RunsAre ==
  ASSUME Inv, faults <= 1, RunEffect, proc' = "tui"
  PROVE  proc = "tui" /\ (Pauses \/ Turns \/ Finishes)
<1>1. CASE OperationEnds
  BY <1>1, OperationIs DEF OperationEnds
<1>2. CASE RunWrite
  <2>1. PICK j : j = WriteJob(Head(queue).store)
    OBVIOUS
  <2>2. j.kind = "write" /\ j.snap = disk
    BY <2>1 DEF WriteJob, Job
  <2>3. Running("write-store") /\ Begins(j)
    BY <1>2, <2>1 DEF RunWrite
  <2> QED BY <2>2, <2>3, BeginsPauses, RunningIs
<1>3. CASE RunUndo
  <2>1. PICK j : j = UndoJob
    OBVIOUS
  <2>2. j.kind = "undo" /\ j.snap = disk
    BY <2>1 DEF UndoJob, Job
  <2>3. Running("restore-backup") /\ (Begins(j) \/ job' = job)
    BY <1>3, <2>1 DEF RunUndo
  <2> QED BY <1>3, <2>2, <2>3, BeginsPauses, RunningIs, AtOnceIs
<1>4. CASE RunExport
  <2>1. PICK j : j = ExportJob
    OBVIOUS
  <2>2. j.kind = "export" /\ j.snap = disk
    BY <2>1 DEF ExportJob, Job
  <2>3. Running("export-envs") /\ (Begins(j) \/ job' = job)
    BY <1>4, <2>1 DEF RunExport
  <2> QED BY <1>4, <2>2, <2>3, BeginsPauses, RunningIs, AtOnceIs
<1>5. CASE RunNuke
  <2>1. PICK nuke : nuke = Head(queue)
    OBVIOUS
  <2>2. PICK j : j = NukeJob(nuke.kind, nuke.store)
    OBVIOUS
  <2>3. j.kind = "nuke" /\ j.snap = disk
    BY <2>2 DEF NukeJob, Job
  <2>4. Running("nuke")
    BY <1>5 DEF RunNuke
  <2>5. Begins(j) \/ job' = job
    BY <1>5, <2>1, <2>2 DEF RunNuke
  <2> QED BY <1>5, <2>3, <2>4, <2>5, BeginsPauses, RunningIs, AtOnceIs
<1>6. CASE RunCheckEnvs \/ RunPush
  BY <1>6, RunningIs, AtOnceIs DEF RunCheckEnvs, RunPush
<1>7. CASE RunExit
  <2>1. proc = "tui" /\ job = Idle /\ queue # <<>> /\ Head(queue).type = "exit"
    BY <1>7, RunningIs DEF RunExit
  <2>2. /\ queue' = Append(Tail(queue), Head(queue)) /\ UNCHANGED <<proc, mem, inbox, crossed>>
        /\ UNCHANGED <<disk, job, made>>
    BY <1>7 DEF RunExit
  <2> QED BY <2>1, <2>2 DEF Turns, Settled
<1> QED BY <1>1, <1>2, <1>3, <1>4, <1>5, <1>6, <1>7 DEF RunEffect

(* What a step does to the stores when it leaves the dashboard open. *)
LEMMA DashIs ==
  ASSUME Inv, faults <= 1, [Next]_vars, proc' = "tui"
  PROVE  Starts \/ (proc = "tui" /\ (Pauses \/ Reducts \/ Turns \/ Finishes))
<1>1. CASE (Call \/ CallFails) /\ UNCHANGED tuiVars
  <2>1. job'.kind # "idle" /\ job.kind # "idle" /\ job'.snap = job.snap
    BY <1>1, SameJob
  <2>2. Settled' = Settled
    BY <2>1, IdleHas DEF Settled
  <2>3. proc' = proc /\ made' = made
    BY <1>1 DEF Call, CallFails
  <2> QED BY <1>1, <2>2, <2>3 DEF tuiVars, Pauses, Harmless
<1>2. CASE CommandEnds \/ InitKeys \/ Encrypt \/ Decrypt \/ Import \/ Repair
  BY <1>2 DEF CommandEnds, InitKeys, Encrypt, Decrypt, Import, Repair, Command
<1>3. CASE Crash /\ TuiDown
  BY <1>3 DEF Crash
<1>4. CASE Start
  <2>1. proc = "none" /\ job = Idle /\ inbox = <<>> /\ queue = <<>>
    BY <1>4 DEF Start, Inv, TuiInv, Flow
  <2> QED BY <1>4, <2>1 DEF Start, Starts
<1>5. CASE Press
  <2>1. PICK key \in Keymap : inbox' = Append(inbox, key)
    BY <1>5 DEF Press
  <2>2. Offered(key)
    BY KeymapIs DEF Inv, TuiInv, TuiType
  <2>3. key \in Actions /\ key.type \notin Returning
    BY <2>2 DEF Offered, Actions, Keystrokes, KeyTypes, Returning
  <2>4. Harmless
    BY <2>1, <2>3 DEF Harmless
  <2> QED BY <1>5, <2>4 DEF Press, Pauses, Settled
<1>6. CASE GitPushed
  <2>1. PICK r \in Messages : r = Told("GIT_DONE", "none") /\ r.type = "GIT_DONE"
    BY ToldIs DEF Reports
  <2>2. inbox' = Append(inbox, r) /\ r \in Actions /\ r.type \notin Returning
    BY <1>6, <2>1 DEF GitPushed, Actions, Returning
  <2>3. Harmless
    BY <2>2 DEF Harmless
  <2> QED BY <1>6, <2>3 DEF GitPushed, Pauses, Settled
<1>7. CASE Reduction
  <2>1. Reduced
    BY <1>7, ReductionIs DEF Inv
  <2>2. proc' = proc /\ Settled' = Settled
    BY <2>1 DEF Reduced, Taken, Settled
  <2> QED BY <2>1, <2>2 DEF Reducts
<1>8. CASE RunEffect
  BY <1>8, RunsAre
<1>9. CASE UNCHANGED vars
  BY <1>9 DEF vars, Pauses, Harmless, Settled
<1> QED BY <1>1, <1>2, <1>3, <1>4, <1>5, <1>6, <1>7, <1>8, <1>9 DEF Next

(* The stores on the screen and in what waits are known too: what a step    *)
(* makes or reports is.                                                     *)
LEMMA TuiStep ==
  ASSUME Inv, Known, faults <= 1, [Next]_vars, proc' = "tui", FilesUpto(disk', job', made')
  PROVE  TuiUpto(mem', inbox', queue', made')
<1>1. PICK m : m = made /\ m \in Nat
  BY MadeIs DEF Inv
<1>2. PICK x, q : x = inbox /\ q = queue
  OBVIOUS
<1>3. /\ mem <= m /\ x \in Seq(UptoActions(m)) /\ q \in Seq(UptoEffects(m)) /\ x \in Seq(Actions) /\ q \in Seq(Effects)
      /\ mem \in Stores
  BY <1>1, <1>2 DEF Known, TuiUpto, Inv, TuiInv, TuiType
<1>4. ASSUME NEW a \in Actions, a.type \notin Returning
      PROVE  Append(x, a) \in Seq(UptoActions(m))
  BY <1>3, <1>4 DEF UptoActions
<1>5. Harmless => inbox' \in Seq(UptoActions(m))
  BY <1>2, <1>3, <1>4 DEF Harmless
<1>6. CASE Starts
  <2>1. mem' <= m
    BY <1>1, <1>6, HeldUpto DEF Starts
  <2>2. inbox' \in Seq(UptoActions(m)) /\ queue' \in Seq(UptoEffects(m))
    BY <1>6 DEF Starts
  <2> QED BY <1>1, <1>6, <2>1, <2>2 DEF Starts, TuiUpto
<1>7. CASE Pauses
  BY <1>1, <1>2, <1>3, <1>5, <1>7 DEF Pauses, TuiUpto
<1>8. CASE Turns
  <2>1. PICK e \in UptoEffects(m) : e = Head(q)
    BY <1>2, <1>3, <1>8, TailIs DEF Turns
  <2>2. Tail(q) \in Seq(UptoEffects(m))
    BY <1>2, <1>3, <1>8, TailIs DEF Turns
  <2>3. Append(Tail(q), e) \in Seq(UptoEffects(m))
    BY <2>2
  <2> QED BY <1>1, <1>2, <1>3, <1>8, <2>1, <2>3 DEF Turns, TuiUpto
<1>9. CASE Finishes
  <2>1. q # <<>> /\ queue' = Tail(q) /\ mem' = mem /\ made' = made
    BY <1>2, <1>9 DEF Finishes
  <2>2. PICK h \in UptoEffects(m) : h = Head(q) /\ h \in Effects
    <3>1. Head(q) \in UptoEffects(m)
      BY <1>3, <2>1, TailIs
    <3> QED BY <3>1 DEF UptoEffects
  <2>3. queue' \in Seq(UptoEffects(m))
    BY <1>3, <2>1, TailIs
  <2>4. ASSUME NEW r \in Messages, inbox' = Append(inbox, r), Reported(h, r)
        PROVE  inbox' \in Seq(UptoActions(m))
    <3>1. r.type \in Returning /\ r.over = h.over /\ r \in Actions
      BY <2>4 DEF Reported, Actions
    <3>2. CASE h.type \in Storing /\ r.store = h.rollback
      <4>1. r.store <= m /\ r.over <= m
        BY <2>2, <3>1, <3>2 DEF UptoEffects
      <4>2. r \in UptoActions(m)
        BY <3>1, <4>1 DEF UptoActions
      <4> QED BY <1>2, <1>3, <2>4, <4>2
    <3>3. CASE h.type = "restore-backup" /\ r.store = Settled'
      <4>1. r.store = disk'.store
        BY <1>9, <3>3 DEF Finishes, Settled
      <4>2. PICK v : v = disk'.store /\ v \in Nat
        BY <4>1, <2>4, CredStoreAssumption, MessageIs, <3>1 DEF Stores
      <4>3. v <= m
        <5>1. Upto("store", disk'["store"], m)
          BY <1>1, <2>1 DEF FilesUpto, UptoDisk, Files
        <5>2. Whole(v)
          BY <3>1, <4>1, <4>2, MessageIs, NotTorn
        <5> QED BY <4>2, <5>1, <5>2 DEF Upto
      <4>4. r.over <= m
        BY <2>2, <3>1, <3>3 DEF UptoEffects
      <4>5. r \in UptoActions(m)
        BY <3>1, <4>1, <4>2, <4>3, <4>4 DEF UptoActions
      <4> QED BY <1>2, <1>3, <2>4, <4>5
    <3> QED BY <2>4, <3>2, <3>3 DEF Reported
  <2>5. inbox' \in Seq(UptoActions(m))
    <3>1. CASE Silent(Head(queue))
      BY <1>5, <3>1 DEF Silent
    <3>2. CASE \E r \in Messages : inbox' = Append(inbox, r) /\ Reported(Head(queue), r)
      BY <1>2, <2>2, <2>4, <3>2
    <3> QED BY <1>9, <3>1, <3>2 DEF Finishes
  <2> QED BY <1>1, <1>3, <2>1, <2>3, <2>5 DEF TuiUpto
<1>10. CASE Reducts
  <2>1. inbox # <<>> /\ inbox' = Tail(inbox)
    BY <1>10 DEF Reducts, Reduced, Taken
  <2>2. PICK h \in UptoActions(m) : h = Head(x)
    BY <1>2, <1>3, <2>1, TailIs
  <2>3. inbox' \in Seq(UptoActions(m))
    BY <1>2, <1>3, <2>1, TailIs
  <2>4. CASE Unstored /\ \E p : queue' = p /\ p \in Seq(UptoEffects(m))
    BY <1>1, <1>3, <2>3, <2>4 DEF Unstored, TuiUpto
  <2>5. CASE PutsBack
    <3>1. mem' = h.store /\ h.type \in Returning
      BY <1>2, <2>2, <2>5 DEF PutsBack
    <3>2. mem' <= m
      BY <3>1 DEF UptoActions
    <3> QED BY <1>1, <1>2, <1>3, <2>3, <2>5, <3>2 DEF PutsBack, TuiUpto
  <2>6. ASSUME NEW e \in Effects, Saves(e)
        PROVE  TuiUpto(mem', inbox', queue', made')
    <3>1. PICK n \in Nat : n = m + 1
      BY <1>1
    <3>2. made' = n /\ mem' = n /\ e.store = n /\ e.over = n /\ e.rollback = mem /\ e.type \in Storing
          /\ queue' = Append(queue, e)
      BY <1>1, <2>6, <3>1 DEF Saves
    <3>3. UptoEffects(m) \subseteq UptoEffects(n) /\ UptoActions(m) \subseteq UptoActions(n)
      BY <1>1, <3>1, UptoMore
    <3>4. e \in UptoEffects(n)
      <4>1. mem <= n /\ n <= n
        BY <1>1, <1>3, <3>1, CredStoreAssumption DEF Stores
      <4> QED BY <3>2, <4>1 DEF UptoEffects, Storing
    <3>5. queue' \in Seq(UptoEffects(n)) /\ inbox' \in Seq(UptoActions(n))
      <4>1. q \in Seq(UptoEffects(n))
        BY <1>3, <3>3
      <4>2. Append(q, e) \in Seq(UptoEffects(n))
        BY <3>4, <4>1
      <4> QED BY <1>2, <2>3, <3>2, <3>3, <4>2
    <3> QED BY <3>1, <3>2, <3>5 DEF TuiUpto
  <2>7. ASSUME NEW e \in Effects, e.type \notin Storing, e.type = "restore-backup" => e.over = mem, queue' = Append(queue, e)
        PROVE  queue' \in Seq(UptoEffects(m))
    <3>1. e \in UptoEffects(m)
      BY <1>3, <2>7 DEF UptoEffects
    <3> QED BY <1>2, <1>3, <2>7, <3>1
  <2>8. CASE LeavesQuiet
    <3>1. PICK a, b \in Effects : a = Effect("export-envs") /\ b = Effect("check-envs") /\ a.type = "export-envs" /\ b.type = "check-envs"
      BY EffectIs DEF Quiet
    <3>2. Append(Append(q, a), b) \in Seq(UptoEffects(m))
      <4>1. a \in UptoEffects(m) /\ b \in UptoEffects(m)
        BY <3>1 DEF UptoEffects, Storing
      <4>2. Append(q, a) \in Seq(UptoEffects(m))
        BY <1>3, <4>1
      <4> QED BY <4>1, <4>2
    <3>3. queue' \in Seq(UptoEffects(m))
      BY <1>2, <1>3, <2>7, <2>8, <3>1, <3>2 DEF LeavesQuiet, Quiet, Storing
    <3> QED BY <2>4, <2>8, <3>3 DEF LeavesQuiet
  <2>9. CASE NukeOpens \/ NukeEnds \/ PushOpens \/ PushEnds
    BY <1>2, <1>3, <2>4, <2>9 DEF NukeOpens, NukeEnds, PushOpens, PushEnds
  <2>10. CASE PushStarts
    <3>1. queue' \in Seq(UptoEffects(m))
      BY <2>7, <2>10 DEF PushStarts, Storing
    <3> QED BY <2>4, <2>10, <3>1 DEF PushStarts
  <2> QED BY <1>10, <2>5, <2>6, <2>8, <2>9, <2>10 DEF Reducts, Reduced, Plain, NukeStarts, NukeFails
<1> QED BY <1>6, <1>7, <1>8, <1>9, <1>10, DashIs

(* The stores there are stay known. *)
LEMMA KnownKeeps ==
  ASSUME Inv, Known, faults <= 1, [Next]_vars, Inv'
  PROVE  Known'
<1>1. FilesUpto(disk', job', made')
  BY FilesStep
<1>2. TuiUpto(mem', inbox', queue', made')
  <2>1. CASE proc' = "tui"
    BY <1>1, <2>1, TuiStep
  <2>2. CASE proc' # "tui"
    <3>1. mem' = 0 /\ inbox' = <<>> /\ queue' = <<>> /\ made' \in Nat
      BY <2>2 DEF Inv, TuiInv, Flow, DiskType
    <3>2. <<>> \in Seq(UptoActions(made')) /\ <<>> \in Seq(UptoEffects(made'))
      OBVIOUS
    <3>3. mem' <= made'
      BY <3>1
    <3> QED BY <3>1, <3>2, <3>3 DEF TuiUpto
  <2> QED BY <2>1, <2>2
<1> QED BY <1>1, <1>2 DEF Known

(* At first there are none. *)
LEMMA InitKnown == Init => Known
<1> SUFFICES ASSUME Init PROVE Known
  OBVIOUS
<1>1. disk = [f \in Files |-> Missing] /\ job = Idle /\ made = 0 /\ mem = 0 /\ inbox = <<>> /\ queue = <<>>
  BY DEF Init, FileInit
<1>2. UptoDisk(disk, made)
  BY <1>1, UptoNone DEF UptoDisk
<1>3. FilesUpto(disk, job, made)
  BY <1>1, <1>2, IdleHas DEF FilesUpto
<1>4. TuiUpto(mem, inbox, queue, made)
  BY <1>1 DEF TuiUpto
<1> QED BY <1>3, <1>4 DEF Known

(***************************************************************************)
(* How the store on the screen and the one in the file hang together: the  *)
(* effects that wait lead from the one to the other, each returning to     *)
(* what the one before saves; or, once one has reported, so do the reports *)
(* that wait, unless a key has changed the screen since.                   *)
(***************************************************************************)

(* Each of w goes on, in its field f, from the store of the one before; the *)
(* first goes on from a and the last has the store b.                       *)
Leads(w, f, a, b) ==
  IF w = <<>> THEN a = b
  ELSE /\ w[1][f] = a /\ w[Len(w)].store = b
       /\ \A i \in 1 .. (Len(w) - 1) : w[i + 1][f] = w[i].store

(* The first report will cross what is on the screen. *)
Doomed(r, m) == r # <<>> /\ r[1].over # m

(* What may report something before a store is saved was left before it. *)
Behind(q, m) ==
  \A i, j \in DOMAIN q :
     i < j /\ q[i].type \in Storing \cup {"restore-backup"} /\ q[j].type \in Storing => q[i].over < m

(* q is the queue, w what it saves, r the reports that wait, s the store    *)
(* that is settled and m the one on the screen.                             *)
Chained(q, w, r, s, m) ==
  \/ Doomed(r, m)
  \/ w = <<>> /\ \A b : Leads(r, "over", m, b) /\ Whole(s) => b = s
  \/ w # <<>> /\ r = <<>> /\ Behind(q, m) /\ \E a : (Whole(s) => a = s) /\ Leads(w, "rollback", a, m)

Followed == proc = "tui" /\ ~crossed => Chained(queue, Chosen(queue, Storing), Chosen(inbox, Returning), Settled, mem)

(* One more at the end goes on from what the others lead to. *)
LEMMA LeadsAppend ==
  ASSUME NEW S, NEW w \in Seq(S), NEW x \in S, NEW f, NEW a, NEW b
  PROVE  Leads(Append(w, x), f, a, b) <=> Leads(w, f, a, x[f]) /\ x.store = b
<1>1. PICK n \in Nat : n = Len(w)
  OBVIOUS
<1>2. PICK v \in Seq(S) : v = Append(w, x)
  BY AppendProperties
<1>3. v # <<>> /\ Len(v) = n + 1 /\ v[n + 1] = x /\ \A i \in 1 .. n : v[i] = w[i]
  BY <1>1, <1>2
<1>4. CASE w = <<>>
  <2>1. n = 0 /\ v[1] = x /\ Len(v) = 1
    BY <1>1, <1>3, <1>4
  <2> QED BY <1>2, <1>3, <1>4, <2>1 DEF Leads
<1>5. CASE w # <<>>
  <2>1. n >= 1 /\ v[1] = w[1] /\ v[n] = w[n]
    BY <1>1, <1>3, <1>5
  <2>2. Leads(v, f, a, b) <=> w[1][f] = a /\ x.store = b /\ \A i \in 1 .. n : v[i + 1][f] = v[i].store
    <3>1. Leads(v, f, a, b) <=> v[1][f] = a /\ v[Len(v)].store = b /\ \A i \in 1 .. (Len(v) - 1) : v[i + 1][f] = v[i].store
      BY <1>3, Zenon DEF Leads
    <3>2. Len(v) - 1 = n /\ v[Len(v)] = x
      BY <1>3
    <3> QED BY <2>1, <3>1, <3>2
  <2>3. Leads(w, f, a, x[f]) <=> w[1][f] = a /\ w[n].store = x[f] /\ \A i \in 1 .. (n - 1) : w[i + 1][f] = w[i].store
    BY <1>1, <1>5 DEF Leads
  <2>4. ASSUME \A i \in 1 .. n : v[i + 1][f] = v[i].store
        PROVE  w[n].store = x[f] /\ \A i \in 1 .. (n - 1) : w[i + 1][f] = w[i].store
    <3>1. n \in 1 .. n
      BY <2>1
    <3>2. \A i \in 1 .. (n - 1) : i \in 1 .. n /\ i + 1 \in 1 .. n
      OBVIOUS
    <3> QED BY <1>3, <2>1, <2>4, <3>1, <3>2
  <2>5. ASSUME w[n].store = x[f], \A i \in 1 .. (n - 1) : w[i + 1][f] = w[i].store, NEW i \in 1 .. n
        PROVE  v[i + 1][f] = v[i].store
    <3>1. CASE i = n
      BY <1>3, <2>1, <2>5, <3>1
    <3>2. CASE i # n
      <4>1. i \in 1 .. (n - 1) /\ i + 1 \in 1 .. n
        BY <3>2
      <4> QED BY <1>3, <2>5, <4>1
    <3> QED BY <3>1, <3>2
  <2> QED BY <1>2, <2>2, <2>3, <2>4, <2>5
<1> QED BY <1>4, <1>5

(* The rest goes on from the store of the first. *)
LEMMA LeadsTail ==
  ASSUME NEW S, NEW w \in Seq(S), w # <<>>, NEW f, NEW a, NEW b
  PROVE  Leads(w, f, a, b) <=> Head(w)[f] = a /\ Leads(Tail(w), f, Head(w).store, b)
<1>1. PICK n \in Nat : n = Len(w) /\ n >= 1
  OBVIOUS
<1>2. PICK v \in Seq(S) : v = Tail(w) /\ Len(v) = n - 1 /\ \A i \in 1 .. (n - 1) : v[i] = w[i + 1]
  <2>1. Tail(w) \in Seq(S) /\ Len(Tail(w)) = n - 1 /\ \A i \in 1 .. (n - 1) : Tail(w)[i] = w[i + 1]
    BY <1>1, TailIs
  <2> QED BY <2>1
<1>3. PICK h : h = Head(w) /\ h = w[1]
  BY TailIs
<1>4. CASE n = 1
  <2>1. v = <<>>
    BY <1>2, <1>4
  <2> QED BY <1>1, <1>2, <1>3, <1>4, <2>1 DEF Leads
<1>5. CASE n # 1
  <2>1. PICK k \in Nat : k = n - 1 /\ k >= 1 /\ Len(v) = k /\ v # <<>> /\ n = k + 1
    BY <1>1, <1>2, <1>5
  <2>2. v[1] = w[1 + 1] /\ v[k] = w[n] /\ \A i \in 1 .. k : v[i] = w[i + 1]
    BY <1>2, <2>1
  <2>3. Leads(w, f, a, b) <=> h[f] = a /\ w[n].store = b /\ \A i \in 1 .. k : w[i + 1][f] = w[i].store
    BY <1>1, <1>3, <2>1 DEF Leads
  <2>4. Leads(v, f, h.store, b) <=> v[1][f] = h.store /\ v[k].store = b /\ \A i \in 1 .. (k - 1) : v[i + 1][f] = v[i].store
    BY <2>1 DEF Leads
  <2>5. ASSUME \A i \in 1 .. k : w[i + 1][f] = w[i].store
        PROVE  v[1][f] = h.store /\ \A i \in 1 .. (k - 1) : v[i + 1][f] = v[i].store
    <3>1. 1 \in 1 .. k /\ \A i \in 1 .. (k - 1) : i \in 1 .. k /\ i + 1 \in 1 .. k
      BY <2>1
    <3> QED BY <1>3, <2>2, <2>5, <3>1
  <2>6. ASSUME v[1][f] = h.store, \A i \in 1 .. (k - 1) : v[i + 1][f] = v[i].store, NEW i \in 1 .. k
        PROVE  w[i + 1][f] = w[i].store
    <3>1. CASE i = 1
      BY <1>3, <2>2, <2>6, <3>1
    <3>2. CASE i # 1
      <4>1. PICK j \in 1 .. (k - 1) : i = j + 1 /\ j \in 1 .. k
        <5>1. i - 1 \in 1 .. (k - 1) /\ i = (i - 1) + 1 /\ i - 1 \in 1 .. k
          BY <3>2
        <5> QED BY <5>1
      <4> QED BY <2>2, <2>6, <4>1
    <3> QED BY <3>1, <3>2
  <2> QED BY <1>2, <1>3, <2>2, <2>3, <2>4, <2>5, <2>6
<1> QED BY <1>4, <1>5

(* When none is of the types none is chosen. *)
LEMMA ChosenNone ==
  ASSUME NEW S, NEW s \in Seq(S), NEW T, Chosen(s, T) # <<>>
  PROVE  \E i \in DOMAIN s : s[i].type \in T
<1>1. PICK P : P = {n \in Nat : \A t \in Seq(S) : Len(t) = n /\ Chosen(t, T) # <<>> => \E i \in DOMAIN t : t[i].type \in T}
  OBVIOUS
<1>2. 0 \in P
  <2>1. ASSUME NEW t \in Seq(S), Len(t) = 0 PROVE Chosen(t, T) = <<>>
    <3>1. t = <<>>
      BY <2>1
    <3> QED BY <3>1, ChosenEmpty
  <2> QED BY <1>1, <2>1
<1>3. ASSUME NEW n \in Nat, n \in P PROVE n + 1 \in P
  <2>1. ASSUME NEW t \in Seq(S), Len(t) = n + 1, Chosen(t, T) # <<>>
        PROVE  \E i \in DOMAIN t : t[i].type \in T
    <3>1. PICK r \in Seq(S), x \in S : t = Append(r, x) /\ Len(r) = n
      BY <2>1, LastOf
    <3>2. DOMAIN t = 1 .. (n + 1) /\ DOMAIN r = 1 .. n /\ t[n + 1] = x /\ \A i \in 1 .. n : t[i] = r[i]
      BY <3>1
    <3>3. CASE x.type \in T
      BY <3>2, <3>3
    <3>4. CASE x.type \notin T
      <4>1. Chosen(r, T) # <<>>
        BY <2>1, <3>1, <3>4, ChosenAppend
      <4>2. PICK i \in DOMAIN r : r[i].type \in T
        BY <1>1, <1>3, <3>1, <4>1
      <4>3. i \in 1 .. (n + 1) /\ t[i] = r[i]
        BY <3>2, <4>2
      <4> QED BY <3>2, <4>2, <4>3
    <3> QED BY <3>3, <3>4
  <2> QED BY <1>1, <2>1
<1>4. \A n \in Nat : n \in P
  BY <1>2, <1>3, Induction
<1>5. Len(s) \in P
  BY <1>4
<1> QED BY <1>1, <1>5

(* What is chosen is of the types. *)
LEMMA ChosenHolds ==
  ASSUME NEW S, NEW s \in Seq(S), NEW T, Chosen(s, T) # <<>>
  PROVE  Chosen(s, T)[1].type \in T
<1>1. PICK P : P = {n \in Nat : \A t \in Seq(S) : Len(t) = n /\ Chosen(t, T) # <<>> => Chosen(t, T)[1].type \in T}
  OBVIOUS
<1>2. 0 \in P
  <2>1. ASSUME NEW t \in Seq(S), Len(t) = 0 PROVE Chosen(t, T) = <<>>
    <3>1. t = <<>>
      BY <2>1
    <3> QED BY <3>1, ChosenEmpty
  <2> QED BY <1>1, <2>1
<1>3. ASSUME NEW n \in Nat, n \in P PROVE n + 1 \in P
  <2>1. ASSUME NEW t \in Seq(S), Len(t) = n + 1, Chosen(t, T) # <<>>
        PROVE  Chosen(t, T)[1].type \in T
    <3>1. PICK r \in Seq(S), x \in S : t = Append(r, x) /\ Len(r) = n
      BY <2>1, LastOf
    <3>2. PICK c \in Seq(S) : c = Chosen(r, T)
      BY ChosenType
    <3>3. c # <<>> => c[1].type \in T
      BY <1>1, <1>3, <3>1, <3>2
    <3>4. Chosen(t, T) = IF x.type \in T THEN Append(c, x) ELSE c
      BY <3>1, <3>2, ChosenAppend
    <3>5. Append(c, x)[1] = IF c = <<>> THEN x ELSE c[1]
      BY <3>2
    <3> QED BY <2>1, <3>3, <3>4, <3>5
  <2> QED BY <1>1, <2>1
<1>4. \A n \in Nat : n \in P
  BY <1>2, <1>3, Induction
<1>5. Len(s) \in P
  BY <1>4
<1> QED BY <1>1, <1>5

(* An effect that saves nothing may be left at the end. *)
LEMMA BehindMore ==
  ASSUME NEW q \in Seq(Effects), NEW e \in Effects, e.type \notin Storing, NEW m, Behind(q, m)
  PROVE  Behind(Append(q, e), m)
<1>1. PICK n \in Nat : n = Len(q)
  OBVIOUS
<1>2. PICK p : p = Append(q, e) /\ DOMAIN p = 1 .. (n + 1) /\ p[n + 1] = e /\ \A i \in 1 .. n : p[i] = q[i]
  <2>1. PICK p \in Seq(Effects) : p = Append(q, e)
    BY AppendProperties
  <2>2. DOMAIN p = 1 .. (n + 1) /\ p[n + 1] = e /\ \A i \in 1 .. n : p[i] = q[i]
    BY <1>1, <2>1
  <2> QED BY <2>1, <2>2
<1>3. ASSUME NEW i \in DOMAIN p, NEW j \in DOMAIN p, i < j, p[i].type \in Storing \cup {"restore-backup"}, p[j].type \in Storing
      PROVE  p[i].over < m
  <2>1. j # n + 1
    BY <1>2, <1>3
  <2>2. i \in 1 .. n /\ j \in 1 .. n
    BY <1>2, <1>3, <2>1
  <2> QED BY <1>1, <1>2, <1>3, <2>2 DEF Behind
<1> QED BY <1>2, <1>3 DEF Behind

(* Any may, when all that may report was left before the store on the screen. *)
LEMMA BehindAll ==
  ASSUME NEW q \in Seq(Effects), NEW e \in Effects, NEW m,
         \A i \in DOMAIN q : q[i].type \in Storing \cup {"restore-backup"} => q[i].over < m
  PROVE  Behind(Append(q, e), m)
<1>1. PICK n \in Nat : n = Len(q)
  OBVIOUS
<1>2. PICK p : p = Append(q, e) /\ DOMAIN p = 1 .. (n + 1) /\ p[n + 1] = e /\ \A i \in 1 .. n : p[i] = q[i]
  <2>1. PICK p \in Seq(Effects) : p = Append(q, e)
    BY AppendProperties
  <2>2. DOMAIN p = 1 .. (n + 1) /\ p[n + 1] = e /\ \A i \in 1 .. n : p[i] = q[i]
    BY <1>1, <2>1
  <2> QED BY <2>1, <2>2
<1>3. ASSUME NEW i \in DOMAIN p, NEW j \in DOMAIN p, i < j, p[i].type \in Storing \cup {"restore-backup"}
      PROVE  p[i].over < m
  <2>1. i \in 1 .. n
    BY <1>2, <1>3
  <2> QED BY <1>1, <1>2, <1>3, <2>1
<1> QED BY <1>2, <1>3 DEF Behind

(* The first may be over. *)
LEMMA BehindTail ==
  ASSUME NEW q \in Seq(Effects), q # <<>>, NEW m, Behind(q, m)
  PROVE  Behind(Tail(q), m)
<1>1. PICK n \in Nat : n = Len(q) - 1
  OBVIOUS
<1>2. PICK p : p = Tail(q) /\ DOMAIN p = 1 .. n /\ \A i \in 1 .. n : p[i] = q[i + 1] /\ i + 1 \in DOMAIN q
  <2>1. DOMAIN Tail(q) = 1 .. n /\ DOMAIN q = 1 .. Len(q) /\ \A i \in 1 .. n : Tail(q)[i] = q[i + 1] /\ i + 1 \in 1 .. Len(q)
    BY <1>1, TailIs
  <2> QED BY <2>1
<1>3. ASSUME NEW i \in DOMAIN p, NEW j \in DOMAIN p, i < j, p[i].type \in Storing \cup {"restore-backup"}, p[j].type \in Storing
      PROVE  p[i].over < m
  <2>1. PICK k, l \in DOMAIN q : k = i + 1 /\ l = j + 1 /\ p[i] = q[k] /\ p[j] = q[l] /\ k < l
    <3>1. i + 1 \in DOMAIN q /\ j + 1 \in DOMAIN q /\ p[i] = q[i + 1] /\ p[j] = q[j + 1] /\ i + 1 < j + 1
      BY <1>2, <1>3
    <3> QED BY <3>1
  <2> QED BY <1>3, <2>1 DEF Behind
<1> QED BY <1>2, <1>3 DEF Behind

(* What the first reports crosses what is saved behind it. *)
LEMMA BehindHead ==
  ASSUME NEW q \in Seq(Effects), q # <<>>, NEW m, Behind(q, m),
         Head(q).type \in Storing \cup {"restore-backup"}, Chosen(Tail(q), Storing) # <<>>
  PROVE  Head(q).over < m
<1>1. PICK i \in DOMAIN Tail(q) : Tail(q)[i].type \in Storing
  <2>1. Tail(q) \in Seq(Effects)
    BY TailIs
  <2> QED BY <2>1, ChosenNone
<1>2. /\ 1 \in DOMAIN q /\ Head(q) = q[1]
      /\ i + 1 \in DOMAIN q /\ Tail(q)[i] = q[i + 1] /\ 1 < i + 1
  <2>1. i \in 1 .. (Len(q) - 1) /\ Len(q) \in Nat /\ DOMAIN q = 1 .. Len(q)
    BY TailIs
  <2> QED BY <2>1, TailIs
<1>3. PICK j : j = i + 1
  OBVIOUS
<1> QED BY <1>1, <1>2, <1>3 DEF Behind

(* What waits, with its types. *)
LEMMA WaitIs ==
  ASSUME Inv
  PROVE  /\ queue \in Seq(Effects) /\ inbox \in Seq(Actions)
         /\ Chosen(queue, Storing) \in Seq(Effects) /\ Chosen(inbox, Returning) \in Seq(Actions)
BY ChosenType DEF Inv, TuiInv, TuiType

(* What comes to wait and puts back no store is no report of one. *)
LEMMA HarmlessIs ==
  ASSUME Inv, Harmless
  PROVE  Chosen(inbox', Returning) = Chosen(inbox, Returning)
<1>1. PICK x : x = inbox /\ x \in Seq(Actions)
  BY WaitIs
<1>2. ASSUME NEW a \in Actions, a.type \notin Returning
      PROVE  Chosen(Append(x, a), Returning) = Chosen(x, Returning)
  BY <1>1, <1>2, ChosenAppend
<1> QED BY <1>1, <1>2 DEF Harmless

(* The dashboard opens on the store there is. *)
LEMMA StartsFollowed ==
  ASSUME Inv, Starts
  PROVE  Chained(queue', Chosen(queue', Storing), Chosen(inbox', Returning), Settled', mem')
<1>1. queue' = <<>> /\ inbox' = <<>> /\ mem' = Held /\ Settled' = disk.store
  BY DEF Starts, Settled
<1>2. Chosen(queue', Storing) = <<>> /\ Chosen(inbox', Returning) = <<>>
  BY <1>1, ChosenEmpty
<1>3. Whole(disk.store) => Held = disk.store
  BY DEF Whole, Held
<1> QED BY <1>1, <1>2, <1>3 DEF Chained, Leads

(* Nothing moves, or the exit goes to the end of the queue. *)
LEMMA PausesFollowed ==
  ASSUME Inv, Pauses \/ Turns, Chained(queue, Chosen(queue, Storing), Chosen(inbox, Returning), Settled, mem)
  PROVE  Chained(queue', Chosen(queue', Storing), Chosen(inbox', Returning), Settled', mem')
<1>1. CASE Pauses
  BY <1>1, HarmlessIs DEF Pauses
<1>2. CASE Turns
  <2>1. PICK q, h : q = queue /\ h = Head(q) /\ q # <<>> /\ h.type = "exit" /\ queue' = Append(Tail(q), h)
    BY <1>2 DEF Turns
  <2>2. q \in Seq(Effects) /\ h \in Effects /\ Tail(q) \in Seq(Effects)
    BY <2>1, WaitIs, TailIs
  <2>3. h.type \notin Storing
    BY <2>1 DEF Storing
  <2>4. Chosen(queue', Storing) = Chosen(queue, Storing)
    <3>1. Chosen(q, Storing) = Chosen(Tail(q), Storing)
      BY <2>1, <2>2, <2>3, ChosenTail
    <3>2. Chosen(Append(Tail(q), h), Storing) = Chosen(Tail(q), Storing)
      BY <2>2, <2>3, ChosenAppend
    <3> QED BY <2>1, <3>1, <3>2
  <2>5. Behind(queue, mem) => Behind(queue', mem)
    <3>1. Behind(q, mem) => Behind(Tail(q), mem)
      BY <2>1, <2>2, BehindTail
    <3>2. Behind(Tail(q), mem) => Behind(Append(Tail(q), h), mem)
      BY <2>2, <2>3, BehindMore
    <3> QED BY <2>1, <3>1, <3>2
  <2>6. inbox' = inbox /\ Settled' = Settled /\ mem' = mem
    BY <1>2 DEF Turns
  <2> QED BY <2>4, <2>5, <2>6 DEF Chained
<1> QED BY <1>1, <1>2

(* What may report a store was left before any that is made from now on. *)
LEMMA NewIsAhead ==
  ASSUME NEW m \in Nat, NEW q \in Seq(UptoEffects(m)), NEW i \in DOMAIN q,
         q[i].type \in Storing \cup {"restore-backup"}
  PROVE  q[i].over < m + 1
<1>1. q[i] \in UptoEffects(m)
  OBVIOUS
<1>2. q[i].over <= m /\ q[i].over \in Nat
  BY <1>1, CredStoreAssumption DEF UptoEffects, Effects, Stores
<1> QED BY <1>2

(* Reports are of stores that were made. *)
LEMMA ReportIsBehind ==
  ASSUME NEW m \in Nat, NEW x \in Seq(UptoActions(m)), Chosen(x, Returning) # <<>>
  PROVE  Doomed(Chosen(x, Returning), m + 1)
<1>1. PICK r \in Seq(UptoActions(m)) : r = Chosen(x, Returning)
  BY ChosenType
<1>2. Head(r) = r[1] /\ Head(r) \in UptoActions(m)
  BY <1>1, TailIs
<1>3. r[1].type \in Returning
  BY <1>1, ChosenHolds
<1>4. r[1].over <= m /\ r[1].over \in Nat
  BY <1>2, <1>3, MessageIs, CredStoreAssumption DEF UptoActions, Stores
<1> QED BY <1>1, <1>4 DEF Doomed

(* A key makes a store and leaves the effect that saves it. *)
LEMMA SavesFollowed ==
  ASSUME Inv, Known, Reducts, NEW e \in Effects, Saves(e),
         Chained(queue, Chosen(queue, Storing), Chosen(inbox, Returning), Settled, mem)
  PROVE  Chained(queue', Chosen(queue', Storing), Chosen(inbox', Returning), Settled', mem')
<1>1. PICK q, x, w, r, s, m, k : /\ q = queue /\ x = inbox /\ w = Chosen(q, Storing) /\ r = Chosen(x, Returning)
                                 /\ s = Settled /\ m = mem /\ k = made
  OBVIOUS
<1>2. q \in Seq(Effects) /\ x \in Seq(Actions) /\ w \in Seq(Effects) /\ r \in Seq(Actions) /\ k \in Nat
      /\ q \in Seq(UptoEffects(k)) /\ x \in Seq(UptoActions(k))
  BY <1>1, WaitIs, MadeIs DEF Known, TuiUpto, Inv
<1>3. x # <<>> /\ inbox' = Tail(x) /\ Settled' = s /\ Head(x).type \notin Returning
  BY <1>1 DEF Reducts, Reduced, Taken, Saves, Makes, Returning
<1>4. PICK n \in Nat : n = k + 1
  BY <1>2
<1>5. queue' = Append(q, e) /\ mem' = n /\ e.type \in Storing /\ e.store = n /\ e.rollback = m
  BY <1>1, <1>4 DEF Saves
<1>6. Chosen(inbox', Returning) = r
  BY <1>1, <1>2, <1>3, ChosenTail
<1>7. Chosen(queue', Storing) = Append(w, e)
  BY <1>1, <1>2, <1>5, ChosenAppend
<1>8. CASE r # <<>>
  <2>1. Doomed(r, n)
    BY <1>1, <1>2, <1>4, <1>8, ReportIsBehind
  <2> QED BY <1>5, <1>6, <2>1 DEF Chained
<1>9. CASE r = <<>>
  <2>1. Behind(Append(q, e), n)
    <3>1. \A i \in DOMAIN q : q[i].type \in Storing \cup {"restore-backup"} => q[i].over < n
      BY <1>2, <1>4, NewIsAhead
    <3> QED BY <1>2, <3>1, BehindAll
  <2>2. PICK a : (Whole(s) => a = s) /\ Leads(w, "rollback", a, m)
    <3>1. Chained(q, w, r, s, m)
      BY <1>1
    <3>2. ~Doomed(r, m)
      BY <1>9 DEF Doomed
    <3>3. CASE w # <<>>
      BY <3>1, <3>2, <3>3 DEF Chained
    <3>4. CASE w = <<>>
      <4>1. Leads(r, "over", m, m) /\ Leads(w, "rollback", m, m)
        BY <1>9, <3>4 DEF Leads
      <4>2. Whole(s) => m = s
        BY <3>1, <3>2, <3>4, <4>1 DEF Chained
      <4> QED BY <4>1, <4>2
    <3> QED BY <3>3, <3>4
  <2>3. Leads(Append(w, e), "rollback", a, n)
    <3>1. e["rollback"] = m
      BY <1>5
    <3> QED BY <1>2, <1>5, <2>2, <3>1, LeadsAppend
  <2>4. Append(w, e) # <<>>
    BY <1>2
  <2>5. Chained(Append(q, e), Append(w, e), r, s, n)
    BY <1>9, <2>1, <2>2, <2>3, <2>4, Zenon DEF Chained
  <2> QED BY <1>3, <1>5, <1>6, <1>7, <2>5
<1> QED BY <1>8, <1>9

(* A key that makes no store leaves effects that save none. *)
LEMMA QuietFollowed ==
  ASSUME Inv, Reducts, Unstored, Head(inbox).type \notin Returning,
         \/ queue' = queue
         \/ \E e \in Effects : e.type \notin Storing /\ queue' = Append(queue, e)
         \/ queue' = Append(Append(queue, Effect("export-envs")), Effect("check-envs")),
         Chained(queue, Chosen(queue, Storing), Chosen(inbox, Returning), Settled, mem)
  PROVE  Chained(queue', Chosen(queue', Storing), Chosen(inbox', Returning), Settled', mem')
<1>1. PICK q, x, w, r, s, m : /\ q = queue /\ x = inbox /\ w = Chosen(q, Storing) /\ r = Chosen(x, Returning)
                              /\ s = Settled /\ m = mem
  OBVIOUS
<1>2. q \in Seq(Effects) /\ x \in Seq(Actions)
  BY <1>1, WaitIs
<1>3. x # <<>> /\ inbox' = Tail(x) /\ Settled' = s /\ mem' = m
  BY <1>1 DEF Reducts, Reduced, Taken, Unstored
<1>4. Chosen(inbox', Returning) = r
  BY <1>1, <1>2, <1>3, ChosenTail
<1>5. ASSUME NEW p \in Seq(Effects), NEW e \in Effects, e.type \notin Storing
      PROVE  /\ Append(p, e) \in Seq(Effects) /\ Chosen(Append(p, e), Storing) = Chosen(p, Storing)
             /\ Behind(p, m) => Behind(Append(p, e), m)
  BY <1>5, ChosenAppend, BehindMore
<1>6. PICK a, b \in Effects : /\ a = Effect("export-envs") /\ b = Effect("check-envs")
                              /\ a.type = "export-envs" /\ b.type = "check-envs"
  BY EffectIs DEF Quiet
<1>7. PICK p : p = queue' /\ Chosen(p, Storing) = w /\ (Behind(q, m) => Behind(p, m))
  <2>1. CASE queue' = queue
    BY <1>1, <2>1
  <2>2. CASE \E e \in Effects : e.type \notin Storing /\ queue' = Append(queue, e)
    BY <1>1, <1>2, <1>5, <2>2
  <2>3. CASE queue' = Append(Append(queue, Effect("export-envs")), Effect("check-envs"))
    <3>1. a.type \notin Storing /\ b.type \notin Storing
      BY <1>6 DEF Storing
    <3>2. PICK c \in Seq(Effects) : c = Append(q, a) /\ Chosen(c, Storing) = w /\ (Behind(q, m) => Behind(c, m))
      BY <1>1, <1>2, <1>5, <3>1
    <3>3. Chosen(Append(c, b), Storing) = w /\ (Behind(c, m) => Behind(Append(c, b), m))
      BY <1>5, <3>1, <3>2
    <3> QED BY <1>1, <1>6, <2>3, <3>2, <3>3
  <2> QED BY <2>1, <2>2, <2>3
<1>8. Chained(q, w, r, s, m)
  BY <1>1
<1>9. Chained(p, w, r, s, m)
  BY <1>7, <1>8 DEF Chained
<1> QED BY <1>3, <1>4, <1>7, <1>9

(* A report puts its store back and does not cross a newer one. *)
LEMMA PutsBackFollowed ==
  ASSUME Inv, Reducts, PutsBack, ~crossed',
         Chained(queue, Chosen(queue, Storing), Chosen(inbox, Returning), Settled, mem)
  PROVE  Chained(queue', Chosen(queue', Storing), Chosen(inbox', Returning), Settled', mem')
<1>1. PICK q, x, w, r, s, m : /\ q = queue /\ x = inbox /\ w = Chosen(q, Storing) /\ r = Chosen(x, Returning)
                              /\ s = Settled /\ m = mem
  OBVIOUS
<1>2. q \in Seq(Effects) /\ x \in Seq(Actions) /\ r \in Seq(Actions)
  BY <1>1, WaitIs
<1>3. x # <<>> /\ inbox' = Tail(x) /\ Settled' = s /\ queue' = q
  BY <1>1 DEF Reducts, Reduced, Taken, PutsBack
<1>4. PICK h : h = Head(x) /\ h.type \in Returning /\ mem' = h.store /\ h.over = m
  BY <1>1 DEF PutsBack
<1>5. PICK v \in Seq(Actions) : v = Chosen(Tail(x), Returning)
  BY <1>2, <1>3, TailIs, ChosenType
<1>6. h \in Actions
  BY <1>2, <1>3, <1>4, TailIs
<1>7. r = <<h>> \o v
  BY <1>1, <1>2, <1>3, <1>4, <1>5, ChosenTail
<1>8. r # <<>> /\ Head(r) = h /\ Tail(r) = v /\ r[1] = h
  BY <1>2, <1>5, <1>6, <1>7
<1>9. ~Doomed(r, m)
  BY <1>4, <1>8 DEF Doomed
<1>10. w = <<>> /\ \A b : Leads(r, "over", m, b) /\ Whole(s) => b = s
  <2>1. Chained(q, w, r, s, m)
    BY <1>1
  <2> QED BY <1>8, <1>9, <2>1 DEF Chained
<1>11. ASSUME NEW b, Leads(v, "over", h.store, b), Whole(s) PROVE b = s
  <2>1. h["over"] = m
    BY <1>4
  <2>2. Leads(r, "over", m, b)
    BY <1>2, <1>8, <1>11, <2>1, LeadsTail
  <2> QED BY <1>10, <1>11, <2>2
<1>12. Chained(q, w, v, s, h.store)
  BY <1>10, <1>11 DEF Chained
<1> QED BY <1>1, <1>3, <1>4, <1>5, <1>12

(* So a reduction keeps them together. *)
LEMMA ReductsFollowed ==
  ASSUME Inv, Known, Reducts, ~crossed',
         Chained(queue, Chosen(queue, Storing), Chosen(inbox, Returning), Settled, mem)
  PROVE  Chained(queue', Chosen(queue', Storing), Chosen(inbox', Returning), Settled', mem')
<1>1. CASE PutsBack
  BY <1>1, PutsBackFollowed
<1>2. CASE \E e \in Effects : Saves(e)
  BY <1>2, SavesFollowed
<1>3. CASE LeavesQuiet
  BY <1>3, QuietFollowed DEF LeavesQuiet, Quiet, Storing
<1>4. CASE NukeOpens \/ NukeEnds \/ PushOpens \/ PushEnds
  BY <1>4, QuietFollowed DEF NukeOpens, NukeEnds, PushOpens, PushEnds, Returning
<1>5. CASE PushStarts
  BY <1>5, QuietFollowed DEF PushStarts, Returning, Storing
<1> QED BY <1>1, <1>2, <1>3, <1>4, <1>5 DEF Reducts, Reduced, Plain, NukeStarts, NukeFails

(* An effect that ends well, or that the dashboard is told nothing of. *)
LEMMA SilentFollowed ==
  ASSUME NEW q \in Seq(Effects), q # <<>>, NEW h, h = Head(q), NEW w, w = Chosen(q, Storing), NEW v, v = Chosen(Tail(q), Storing),
         NEW r, NEW s, NEW t, NEW m, Chained(q, w, r, s, m),
         IF h.type \in Storing THEN t = h.store ELSE Whole(t) => t = s
  PROVE  Chained(Tail(q), v, r, t, m)
<1>1. h \in Effects /\ Tail(q) \in Seq(Effects) /\ v \in Seq(Effects) /\ w \in Seq(Effects)
  BY TailIs, ChosenType
<1>2. Behind(q, m) => Behind(Tail(q), m)
  BY BehindTail
<1>3. CASE h.type \notin Storing
  <2>1. v = w
    BY <1>3, ChosenTail
  <2>2. Whole(t) => t = s
    BY <1>3
  <2> QED BY <1>2, <2>1, <2>2 DEF Chained
<1>4. CASE h.type \in Storing /\ ~Doomed(r, m)
  <2>1. w = <<h>> \o v
    BY <1>4, ChosenTail
  <2>2. w # <<>> /\ Head(w) = h /\ Tail(w) = v
    BY <1>1, <2>1
  <2>3. PICK a : r = <<>> /\ Behind(q, m) /\ Leads(w, "rollback", a, m)
    BY <1>4, <2>2 DEF Chained
  <2>4. Leads(v, "rollback", h.store, m) /\ t = h.store
    <3>1. Leads(Tail(w), "rollback", Head(w).store, m)
      BY <1>1, <2>2, <2>3, LeadsTail
    <3> QED BY <1>4, <2>2, <3>1
  <2>5. CASE v # <<>>
    BY <1>2, <2>3, <2>4, <2>5 DEF Chained
  <2>6. CASE v = <<>>
    <3>1. h.store = m
      BY <2>4, <2>6 DEF Leads
    <3>2. \A b : Leads(r, "over", m, b) => b = m
      BY <2>3 DEF Leads
    <3> QED BY <2>4, <2>6, <3>1, <3>2 DEF Chained
  <2> QED BY <2>5, <2>6
<1>5. CASE Doomed(r, m)
  BY <1>5 DEF Chained
<1> QED BY <1>3, <1>4, <1>5

(* What an effect that is over reports of itself. *)
Reporting(h, p, s, t) ==
  /\ p.over = h.over
  /\ \/ h.type \in Storing /\ p.store = h.rollback /\ (Whole(t) => t = s)
     \/ h.type = "restore-backup" /\ p.store = t

(* An effect that reports the store to put back. *)
LEMMA ReportedFollowed ==
  ASSUME NEW k, NEW q \in Seq(UptoEffects(k)), q # <<>>, NEW h, h = Head(q), NEW w, w = Chosen(q, Storing), NEW v, v = Chosen(Tail(q), Storing),
         NEW r \in Seq(Actions), NEW p \in Actions, NEW s, NEW t, NEW m \in Nat, Chained(q, w, r, s, m), Reporting(h, p, s, t)
  PROVE  Chained(Tail(q), v, Append(r, p), t, m)
<1>0. q \in Seq(Effects)
  BY DEF UptoEffects
<1>1. h \in UptoEffects(k) /\ h \in Effects /\ Tail(q) \in Seq(Effects) /\ v \in Seq(Effects) /\ w \in Seq(Effects)
  <2>1. h \in UptoEffects(k)
    BY TailIs
  <2> QED BY <1>0, <2>1, TailIs, ChosenType DEF UptoEffects
<1>2. PICK u \in Seq(Actions) : u = Append(r, p) /\ u # <<>> /\ u[1] = IF r = <<>> THEN p ELSE r[1]
  <2>1. PICK u \in Seq(Actions) : u = Append(r, p)
    BY AppendProperties
  <2>2. u # <<>> /\ (r = <<>> => u[1] = p) /\ (r # <<>> => u[1] = r[1])
    BY ONLY <2>1, r \in Seq(Actions), p \in Actions
  <2> QED BY <2>1, <2>2
<1>3. CASE Doomed(r, m)
  <2>1. Doomed(u, m)
    BY <1>2, <1>3 DEF Doomed
  <2> QED BY <1>2, <2>1 DEF Chained
<1>4. CASE ~Doomed(r, m) /\ w # <<>>
  <2>1. PICK a : r = <<>> /\ Behind(q, m) /\ (Whole(s) => a = s) /\ Leads(w, "rollback", a, m)
    BY <1>4 DEF Chained
  <2>2. u[1] = p /\ p.over = h.over /\ h.over \in Nat
    BY <1>1, <1>2, <2>1, CredStoreAssumption DEF Reporting, Effects, Stores
  <2>3. CASE v # <<>>
    <3>1. h.over < m
      BY <1>0, <2>1, <2>3, BehindHead DEF Reporting
    <3>2. Doomed(u, m)
      BY <1>2, <2>2, <3>1 DEF Doomed
    <3> QED BY <1>2, <3>2 DEF Chained
  <2>4. CASE v = <<>>
    <3>1. h.type \in Storing /\ w = <<h>> \o v
      BY <1>0, <1>4, <2>4, ChosenTail
    <3>2. Head(w) = h /\ Tail(w) = v
      BY <1>1, <3>1
    <3>3. h.rollback = a /\ Leads(v, "rollback", h.store, m)
      <4>1. Head(w)["rollback"] = a /\ Leads(Tail(w), "rollback", Head(w).store, m)
        BY <1>1, <1>4, <2>1, LeadsTail
      <4> QED BY <3>2, <4>1
    <3>4. p.store = a /\ (Whole(t) => t = s)
      BY <3>1, <3>3 DEF Reporting, Storing
    <3>5. ASSUME NEW b, Leads(u, "over", m, b), Whole(t) PROVE b = t
      <4>1. p.store = b
        BY <1>2, <2>1, <3>5, LeadsAppend
      <4> QED BY <2>1, <3>4, <3>5, <4>1
    <3> QED BY <1>2, <2>4, <3>5 DEF Chained
  <2> QED BY <2>3, <2>4
<1>5. CASE ~Doomed(r, m) /\ w = <<>>
  <2>1. h.type \notin Storing
    <3>1. ASSUME h.type \in Storing PROVE FALSE
      <4>1. w = <<h>> \o v
        BY <1>0, <3>1, ChosenTail
      <4>0. h \in Effects
        BY <1>1
      <4>2. \A z \in Seq(Effects) : <<h>> \o z # <<>>
        BY ONLY <4>0
      <4> QED BY <1>1, <1>5, <4>1, <4>2
    <3> QED BY <3>1
  <2>2. v = <<>> /\ p.store = t
    BY <1>0, <1>5, <2>1, ChosenTail DEF Reporting
  <2>3. ASSUME NEW b, Leads(u, "over", m, b) PROVE b = t
    BY <1>2, <2>2, <2>3, LeadsAppend
  <2> QED BY <1>2, <2>2, <2>3 DEF Chained
<1> QED BY <1>3, <1>4, <1>5

(* So an effect that is over keeps them together. *)
LEMMA FinishesFollowed ==
  ASSUME Inv, Known, Finishes, Chained(queue, Chosen(queue, Storing), Chosen(inbox, Returning), Settled, mem)
  PROVE  Chained(queue', Chosen(queue', Storing), Chosen(inbox', Returning), Settled', mem')
<1>1. PICK q, w, s, t, m, k : /\ q = queue /\ w = Chosen(q, Storing) /\ s = Settled /\ t = Settled' /\ m = mem /\ k = made
  OBVIOUS
<1>2. PICK x, r : x = inbox /\ r = Chosen(x, Returning)
  OBVIOUS
<1>3. q \in Seq(Effects) /\ x \in Seq(Actions) /\ r \in Seq(Actions) /\ q \in Seq(UptoEffects(k)) /\ m \in Nat
  BY <1>1, <1>2, WaitIs, CredStoreAssumption DEF Known, TuiUpto, Inv, TuiInv, TuiType, Stores
<1>4. q # <<>> /\ queue' = Tail(q) /\ mem' = m
  BY <1>1 DEF Finishes
<1>5. PICK h, v : h = Head(q) /\ v = Chosen(Tail(q), Storing)
  OBVIOUS
<1>6. Chained(q, w, r, s, m)
  BY <1>1, <1>2
<1>7. CASE Silent(h)
  <2>1. Chosen(inbox', Returning) = r
    BY <1>2, <1>7, HarmlessIs DEF Silent
  <2>2. IF h.type \in Storing THEN t = h.store ELSE Whole(t) => t = s
    BY <1>1, <1>7 DEF Silent
  <2>3. Chained(Tail(q), v, r, t, m)
    BY ONLY <1>1, <1>3, <1>4, <1>5, <1>6, <2>2, SilentFollowed
  <2> QED BY <1>1, <1>4, <1>5, <2>1, <2>3
<1>8. ASSUME NEW p \in Messages, inbox' = Append(inbox, p), Reported(h, p)
      PROVE  Chained(queue', Chosen(queue', Storing), Chosen(inbox', Returning), Settled', mem')
  <2>1. p \in Actions /\ p.type \in Returning
    BY <1>8 DEF Actions, Reported
  <2>2. Chosen(inbox', Returning) = Append(r, p)
    BY <1>2, <1>3, <1>8, <2>1, ChosenAppend
  <2>3. Reporting(h, p, s, t)
    BY <1>1, <1>8 DEF Reported, Reporting
  <2>4. Chained(Tail(q), v, Append(r, p), t, m)
    BY ONLY <1>1, <1>3, <1>4, <1>5, <1>6, <2>1, <2>3, ReportedFollowed
  <2> QED BY <1>1, <1>4, <1>5, <2>2, <2>4
<1> QED BY <1>1, <1>5, <1>7, <1>8 DEF Finishes

(* Every step keeps the store on the screen and the one in the file together. *)
LEMMA FollowedKeeps ==
  ASSUME Inv, Known, Followed, faults <= 1, [Next]_vars
  PROVE  Followed'
<1> SUFFICES ASSUME proc' = "tui", ~crossed'
             PROVE  Chained(queue', Chosen(queue', Storing), Chosen(inbox', Returning), Settled', mem')
  BY DEF Followed
<1>1. CASE Starts
  BY <1>1, StartsFollowed
<1>2. CASE proc = "tui" /\ (Pauses \/ Reducts \/ Turns \/ Finishes)
  <2>1. crossed' = crossed \/ crossed' = (crossed \/ mem # Head(inbox).over)
    BY <1>2, ReducedStores DEF Pauses, Turns, Finishes, Reducts, Unstored, PutsBack, Saves
  <2>2. Chained(queue, Chosen(queue, Storing), Chosen(inbox, Returning), Settled, mem)
    <3>1. ~crossed
      BY <2>1
    <3> QED BY <1>2, <3>1 DEF Followed
  <2> QED BY <1>2, <2>2, PausesFollowed, ReductsFollowed, FinishesFollowed
<1> QED BY <1>1, <1>2, DashIs

(* At rest nothing is between the two. *)
LEMMA FollowedShows == Inv /\ Followed => ShownIsSaved
<1> SUFFICES ASSUME Inv, Followed, AtRest, ~crossed, Whole(disk.store) PROVE mem = disk.store
  BY DEF ShownIsSaved
<1>1. proc = "tui" /\ inbox = <<>> /\ queue = <<>> /\ Settled = disk.store
  BY DEF AtRest, Inv, TuiInv, Flow, Settled
<1>2. Chosen(queue, Storing) = <<>> /\ Chosen(inbox, Returning) = <<>>
  BY <1>1, ChosenEmpty
<1>3. PICK m, s : m = mem /\ s = disk.store
  OBVIOUS
<1>4. Chained(<<>>, <<>>, <<>>, s, m)
  BY <1>1, <1>2, <1>3 DEF Followed
<1>5. Leads(<<>>, "over", m, m)
  BY DEF Leads
<1>6. m = s
  BY <1>3, <1>4, <1>5 DEF Chained, Doomed
<1> QED BY <1>3, <1>6

(* At rest the store on the screen is the one in the file, after any writes,  *)
(* failures, undos and nukes, unless a report crossed a newer change or the   *)
(* file is damaged.  A second fault may hit the putting back of a nuke, which *)
(* then leaves a store that the dashboard takes for the old one.              *)
THEOREM ShownAsSaved ==
  ASSUME MaxFaults <= 1
  PROVE  Spec => []ShownIsSaved
<1>1. Inv => faults <= 1
  BY CredStoreAssumption DEF Inv, TuiInv, DiskType
<1>2. Init => Followed
  BY DEF Init, FileInit, Followed
<1>3. Inv /\ Inv' /\ Known /\ Followed /\ [Next]_vars => Known' /\ Followed'
  BY <1>1, KnownKeeps, FollowedKeeps
<1> QED BY <1>2, <1>3, InitKnown, FollowedShows, Invariant, PTL DEF Spec

(***************************************************************************)
(* The nuke's tab and the envs tab: what a key may change behind them.     *)
(***************************************************************************)

(* The actions that a screen of a nuke may have before it, and those screens. *)
NukeKeys  == {"TAB_MOVE", "NUKE_OPEN"} \cup Hold
NukeModes == {"nuke-confirm", "nuke-running", "nuke-done"}
NukeKinds == {"soft", "full"}

(* The screens that show no fresher env file and no other nuke. *)
Bland == {s \in Screens : /\ s.tab = "envs" /\ s.envs = "ok" => ui.tab = "envs" /\ ui.envs = "ok"
                          /\ s.kind \in NukeKinds => ui.kind \in NukeKinds}

(* The screens that stay on the tab, and show the nuke there was or none. *)
Firm == {s \in Screens : /\ s.tab = ui.tab
                         /\ s.kind = "none" \/ (s.kind = ui.kind /\ (s.mode = ui.mode \/ s.mode \in NukeModes))}

(* A reduction that leaves no check of the env files. *)
LooksNoMore == queue' = queue \/ \E e \in Effects : e.type # "check-envs" /\ queue' = Append(queue, e)

(* The reductions, by what they do to the tab and to a nuke. *)
Apart == Head(inbox).type \notin NukeKeys /\ ui' \in Bland
MovesTab == Head(inbox).type = "TAB_MOVE" /\ ui'.kind = "none" /\ ui'.envs = "none"
OpensNuke ==
  /\ Head(inbox).type = "NUKE_OPEN" /\ queue' = queue
  /\ ui' = ui \/ (ui.tab = "nuke" /\ ui'.tab = "nuke" /\ ui'.mode = "nuke-confirm")
Holds ==
  /\ Head(inbox).type \in Hold /\ ui' \in Firm /\ LooksNoMore
  /\ ui'.envs = ui.envs \/ (Head(inbox).type = "ENVS_STATUS" /\ ui'.envs = Head(inbox).arg)
Paced == Apart \/ MovesTab \/ OpensNuke \/ Holds

(* The screens that a key closes to, or opens a mode on, show no fresher env *)
(* file.                                                                   *)
LEMMA BlandAre ==
  ASSUME ui \in Screens
  PROVE  /\ Closed \in Bland /\ Abandoned \in Bland /\ Listed \in Bland /\ ui \in Bland
         /\ \A m \in Modes \ Grave : Opened(m) \in Bland
         /\ Closed \in Firm /\ Closed.kind = "none" /\ Closed.envs = ui.envs /\ ui \in Firm
<1>1. Closed \in Screens /\ Abandoned \in Screens /\ Listed \in Screens /\ \A m \in Modes \ Grave : Opened(m) \in Screens
  BY ScreensAre DEF Tame
<1>2. PICK c \in Screens : c = Closed
  BY <1>1
<1>3. c.tab = ui.tab /\ c.envs = ui.envs /\ c.kind = "none"
  BY <1>2 DEF Closed, Screens
<1>4. PICK a \in Screens : a = Abandoned
  BY <1>1
<1>5. a.tab = ui.tab /\ a.envs = ui.envs /\ a.kind = "none"
  BY <1>2, <1>3, <1>4 DEF Abandoned, Screens
<1>6. PICK l \in Screens : l = Listed
  BY <1>1
<1>7. l.tab = ui.tab /\ l.envs = ui.envs /\ l.kind = "none"
  BY <1>6 DEF Listed, Screens
<1>8. ASSUME NEW m \in Modes \ Grave PROVE Opened(m) \in Bland
  <2>1. PICK o \in Screens : o = Opened(m)
    BY <1>1
  <2>2. o.tab = "fields" /\ o.kind = ui.kind
    BY <2>1 DEF Opened, Screens
  <2> QED BY <2>1, <2>2 DEF Bland
<1>9. c \in Bland /\ a \in Bland /\ l \in Bland /\ ui \in Bland /\ c \in Firm /\ ui \in Firm
  BY <1>3, <1>5, <1>7 DEF Bland, Firm, NukeKinds
<1> QED BY <1>2, <1>3, <1>4, <1>6, <1>8, <1>9

(* So do the screens of quick setup.                                       *)
LEMMA BlandWalks ==
  ASSUME ui \in Screens, NEW left \in 0 .. MaxWalk
  PROVE  Walks(left) \subseteq Bland
<1>1. Abandoned \in Bland
  BY BlandAre
<1>2. ASSUME NEW n \in 1 .. left PROVE [Opened("edit") EXCEPT !.setup = TRUE, !.walk = n - 1] \in Bland
  <2>1. PICK k \in 0 .. MaxWalk : k = n - 1
    BY CredTuiAssumption
  <2>2. PICK s \in Bland : s = Opened("edit")
    BY BlandAre DEF Modes, Grave
  <2>3. [s EXCEPT !.setup = TRUE, !.walk = k] \in Bland
    BY DEF Bland, Screens
  <2> QED BY <2>1, <2>2, <2>3
<1> QED BY <1>1, <1>2 DEF Walks

(* A key of another screen.                                                *)
LEMMA ApartIs ==
  ASSUME NEW t, t \notin NukeKeys, NEW s \in Bland,
         (Writes(t) /\ ui' = s) \/ (\E effects : Shows(t, effects, s))
  PROVE  Paced
BY DEF Writes, Shows, Reduces, Apart, Paced

(* The keys of the tabs and the fields.                                    *)
LEMMA FieldKeysPaced ==
  ASSUME TuiInv, Reducing, TabMove \/ OpenEdit \/ Cancel \/ Submit \/ Change \/ CaPick
  PROVE  Paced
<1>0. /\ inbox # <<>> /\ ui \in Screens /\ Head(inbox) \in Actions
  BY HeadIs DEF TuiInv, TuiType, Reducing
<1>n. {"OPEN_EDIT", "CANCEL", "SUBMIT", "CHANGE", "CA_PICK"} \cap NukeKeys = {}
  BY DEF NukeKeys, Hold, Reports
<1>s. Closed \in Bland /\ Abandoned \in Bland /\ ui \in Bland
  BY <1>0, BlandAre
<1>1. CASE TabMove
  <2>1. PICK tab, effects : Shows("TAB_MOVE", effects, [Closed EXCEPT !.tab = tab, !.envs = "none"])
    BY <1>1 DEF TabMove
  <2>2. PICK c \in Screens : c = Closed /\ c.kind = "none"
    BY <1>0, BlandAre DEF Bland
  <2>3. [c EXCEPT !.tab = tab, !.envs = "none"].kind = "none" /\ [c EXCEPT !.tab = tab, !.envs = "none"].envs = "none"
    BY <2>2 DEF Screens
  <2> QED BY <2>1, <2>2, <2>3 DEF Shows, Reduces, MovesTab, Paced
<1>2. CASE OpenEdit
  <2>1. Head(inbox).type = "OPEN_EDIT"
    BY <1>2 DEF OpenEdit, Shows, Reduces
  <2>2. Arg \in Modes \ Grave
    BY <1>0, <2>1 DEF Arg, Actions, Keystrokes, Messages, Reports, Modes, Grave
  <2>3. PICK s \in Bland : s = (IF ui.tab = "nuke" THEN ui ELSE Opened(Arg))
    BY <1>0, <1>s, <2>2, BlandAre
  <2> QED BY <1>2, <1>n, <2>3, ApartIs DEF OpenEdit
<1>4. CASE Cancel
  BY <1>4, <1>n, <1>s, ApartIs DEF Cancel
<1>5. CASE Submit
  <2>1. ui.walk \in 0 .. MaxWalk
    BY <1>0 DEF Screens
  <2>2. \A s \in IF ui.setup THEN Walks(ui.walk) ELSE {Closed} : s \in Bland
    BY <1>0, <1>s, <2>1, BlandWalks
  <2>3. CASE Shows("SUBMIT", NoEffect, ui)
    BY <1>n, <1>s, <2>3, ApartIs
  <2>4. CASE \E next \in IF ui.setup THEN Walks(ui.walk) ELSE {Closed} : Shows("SUBMIT", NoEffect, next)
    BY <1>n, <2>2, <2>4, ApartIs
  <2>5. CASE Writes("SUBMIT") /\ ui' \in IF ui.setup THEN Walks(ui.walk) ELSE {Closed}
    <3>1. PICK s \in Bland : s = ui'
      BY <2>2, <2>5
    <3> QED BY <1>n, <2>5, <3>1, ApartIs
  <2> QED BY <1>5, <2>3, <2>4, <2>5 DEF Submit
<1>6. CASE Change
  <2>1. CASE Writes("CHANGE") /\ ui' = ui
    BY <1>n, <1>s, <2>1, ApartIs
  <2>2. CASE \E view \in {"list", "confirm"} : Shows("CHANGE", NoEffect, [Opened("users") EXCEPT !.view = view])
    <3>1. PICK view \in {"list", "confirm"} : Shows("CHANGE", NoEffect, [Opened("users") EXCEPT !.view = view])
      BY <2>2
    <3>2. PICK c \in Bland : c = Opened("users")
      BY <1>0, BlandAre DEF Modes, Grave
    <3>3. [c EXCEPT !.view = view] \in Bland
      BY DEF Bland, Screens, Views
    <3> QED BY <1>n, <3>1, <3>2, <3>3, ApartIs
  <2>3. CASE Shows("CHANGE", NoEffect, ui)
    BY <1>n, <1>s, <2>3, ApartIs
  <2> QED BY <1>6, <2>1, <2>2, <2>3 DEF Change
<1>7. CASE CaPick
  <2>1. CASE Shows("CA_PICK", NoEffect, Opened("edit"))
    <3>1. PICK c \in Bland : c = Opened("edit")
      BY <1>0, BlandAre DEF Modes, Grave
    <3> QED BY <1>n, <2>1, <3>1, ApartIs
  <2>2. CASE Writes("CA_PICK") /\ ui' = Closed
    BY <1>n, <1>s, <2>2, ApartIs
  <2> QED BY <1>7, <2>1, <2>2 DEF CaPick
<1> QED BY <1>1, <1>2, <1>4, <1>5, <1>6, <1>7

(* The keys of the list of users.                                          *)
LEMMA UsersKeysPaced ==
  ASSUME TuiInv, Reducing, UsersInput \/ UsersRemove \/ UsersSubmit \/ UsersConfirm \/ UsersCancel
  PROVE  Paced
<1>0. /\ inbox # <<>> /\ ui \in Screens /\ Head(inbox) \in Actions
  BY HeadIs DEF TuiInv, TuiType, Reducing
<1>n. {"USERS_INPUT", "USERS_REMOVE", "USERS_SUBMIT", "USERS_CONFIRM", "USERS_CANCEL"} \cap NukeKeys = {}
  BY DEF NukeKeys, Hold, Reports
<1>s. Listed \in Bland /\ Closed \in Bland /\ ui \in Bland
  BY <1>0, BlandAre
<1>1. CASE UsersInput
  <2>1. CASE Shows("USERS_INPUT", NoEffect, ui)
    BY <1>n, <1>s, <2>1, ApartIs
  <2>2. CASE Shows("USERS_INPUT", NoEffect, [ui EXCEPT !.view = "input", !.kind = Arg,
                                                       !.draft = IF Arg = "add" THEN "empty" ELSE "valid"])
    <3>1. Head(inbox).type = "USERS_INPUT"
      BY <2>2 DEF Shows, Reduces
    <3>2. Arg \in {"add", "rename"}
      BY <1>0, <3>1 DEF Arg, Actions, Keystrokes, Messages, Reports
    <3>3. PICK d \in Drafts, k \in Kinds : d = (IF Arg = "add" THEN "empty" ELSE "valid") /\ k = Arg
      BY <3>2 DEF Drafts, Kinds
    <3>4. PICK s \in Screens : s = [ui EXCEPT !.view = "input", !.kind = k, !.draft = d]
      BY <1>0 DEF Screens, Views
    <3>5. s.tab = ui.tab /\ s.envs = ui.envs /\ s.kind = k
      BY <1>0, <3>4 DEF Screens
    <3>6. s \in Bland
      BY <3>2, <3>3, <3>5 DEF Bland, NukeKinds
    <3> QED BY <1>n, <2>2, <3>3, <3>4, <3>6, ApartIs
  <2> QED BY <1>1, <2>1, <2>2 DEF UsersInput
<1>2. CASE UsersRemove
  <2>1. [ui EXCEPT !.view = "confirm"] \in Bland
    BY <1>0 DEF Bland, Screens, Views
  <2> QED BY <1>n, <1>s, <1>2, <2>1, ApartIs DEF UsersRemove
<1>3. CASE UsersSubmit
  <2>1. [ui EXCEPT !.view = "confirm", !.draft = "none"] \in Bland
    BY <1>0 DEF Bland, Screens, Views, Drafts
  <2>2. CASE Writes("USERS_SUBMIT") /\ ui' = Listed
    BY <1>n, <1>s, <2>2, ApartIs
  <2>3. CASE \E s \in {ui, Listed, [ui EXCEPT !.view = "confirm", !.draft = "none"]} : Shows("USERS_SUBMIT", NoEffect, s)
    BY <1>n, <1>s, <2>1, <2>3, ApartIs
  <2> QED BY <1>3, <2>2, <2>3 DEF UsersSubmit
<1>4. CASE UsersConfirm
  <2>1. CASE Shows("USERS_CONFIRM", NoEffect, IF InUsers("confirm") THEN Listed ELSE ui)
    BY <1>n, <1>s, <2>1, ApartIs
  <2>2. CASE Writes("USERS_CONFIRM") /\ ui' = Listed
    BY <1>n, <1>s, <2>2, ApartIs
  <2> QED BY <1>4, <2>1, <2>2 DEF UsersConfirm
<1>5. CASE UsersCancel
  BY <1>n, <1>s, <1>5, ApartIs DEF UsersCancel
<1> QED BY <1>1, <1>2, <1>3, <1>4, <1>5

(* The keys of quick setup, the reveal, the exports, the push and the undo. *)
LEMMA OtherKeysPaced ==
  ASSUME TuiInv, Reducing,
         SetupStart \/ SetupSecrets \/ RevealOpen \/ RevealConfirm \/ Export \/ UpdateEnvs \/ PushOpen
           \/ PushConfirm \/ Undo
  PROVE  Paced
<1>0. ui \in Screens
  BY DEF TuiInv, TuiType
<1>n. {"SETUP_START", "SETUP_SECRETS", "REVEAL_OPEN", "REVEAL_CONFIRM", "EXPORT", "UPDATE_ENVS", "PUSH_OPEN",
       "PUSH_CONFIRM", "UNDO"} \cap NukeKeys = {}
  BY DEF NukeKeys, Hold, Reports
<1>s. Closed \in Bland /\ ui \in Bland
  BY <1>0, BlandAre
<1>w. Walks(MaxWalk) \subseteq Bland
  <2>1. MaxWalk \in 0 .. MaxWalk
    BY CredTuiAssumption
  <2> QED BY <1>0, <2>1, BlandWalks
<1>1. CASE SetupStart
  <2>1. PICK on : on = {[ui EXCEPT !.mode = "setup-secrets", !.setup = TRUE]} \cup Walks(MaxWalk)
    OBVIOUS
  <2>2. on \subseteq Bland
    <3>1. [ui EXCEPT !.mode = "setup-secrets", !.setup = TRUE] \in Bland
      BY <1>0 DEF Bland, Screens, Modes
    <3> QED BY <1>w, <2>1, <3>1
  <2>3. CASE Writes("SETUP_START") /\ ui' \in on
    <3>1. PICK s \in Bland : s = ui'
      BY <2>2, <2>3
    <3> QED BY <1>n, <2>3, <3>1, ApartIs
  <2>4. CASE \E next \in on \cup {ui} : Shows("SETUP_START", NoEffect, next)
    BY <1>n, <1>s, <2>2, <2>4, ApartIs
  <2> QED BY <1>1, <2>1, <2>3, <2>4 DEF SetupStart
<1>2. CASE SetupSecrets
  <2>1. CASE Writes("SETUP_SECRETS") /\ ui' \in Walks(MaxWalk)
    <3>1. PICK s \in Bland : s = ui'
      BY <1>w, <2>1
    <3> QED BY <1>n, <2>1, <3>1, ApartIs
  <2>2. CASE \E next \in Walks(MaxWalk) : Shows("SETUP_SECRETS", NoEffect, next)
    BY <1>n, <1>w, <2>2, ApartIs
  <2> QED BY <1>2, <2>1, <2>2 DEF SetupSecrets
<1>3. CASE RevealOpen
  <2>1. [ui EXCEPT !.mode = "reveal-confirm"] \in Bland
    BY <1>0 DEF Bland, Screens, Modes
  <2> QED BY <1>n, <1>s, <1>3, <2>1, ApartIs DEF RevealOpen
<1>4. CASE RevealConfirm
  BY <1>n, <1>s, <1>4, ApartIs DEF RevealConfirm
<1>6. CASE Export
  BY <1>n, <1>s, <1>6, ApartIs DEF Export
<1>7. CASE UpdateEnvs
  BY <1>n, <1>s, <1>7, ApartIs DEF UpdateEnvs
<1>8. CASE PushOpen
  <2>1. [ui EXCEPT !.mode = "push-confirm"] \in Bland
    BY <1>0 DEF Bland, Screens, Modes
  <2> QED BY <1>n, <1>s, <1>8, <2>1, ApartIs DEF PushOpen
<1>9. CASE PushConfirm
  <2>1. PICK c \in Bland : c = Closed
    BY <1>s
  <2>2. [c EXCEPT !.busy = TRUE] \in Bland
    BY DEF Bland, Screens
  <2>3. PICK s \in Bland : \E effects : Shows("PUSH_CONFIRM", effects, s)
    BY <1>s, <1>9, <2>1, <2>2 DEF PushConfirm
  <2> QED BY <1>n, <2>3, ApartIs
<1>10. CASE Undo
  BY <1>n, <1>s, <1>10, ApartIs DEF Undo
<1> QED BY <1>1, <1>2, <1>3, <1>4, <1>6, <1>7, <1>8, <1>9, <1>10

(* A key of a nuke's screen, or a report, that leaves no effect.           *)
LEMMA HoldsNothing ==
  ASSUME TuiInv, NEW t \in Hold, NEW s \in Firm, s.envs = ui.envs, ui' = s, Reduces(t, <<>>)
  PROVE  Paced
<1>1. queue \o <<>> = queue
  BY ConcatEmptySeq DEF TuiInv, TuiType
<1> QED BY <1>1 DEF Reduces, LooksNoMore, Holds, Paced

(* The keys of a nuke, and what the effects report.                        *)
LEMMA NukeKeysPaced ==
  ASSUME TuiInv, Reducing,
         Type \/ Quit \/ NukeOpen \/ NukeCancel \/ NukeSubmit \/ WriteFailed \/ UndoOk \/ NukeFailed \/ NukeOk
           \/ EnvsStatus \/ GitDone
  PROVE  Paced
<1>0. /\ inbox # <<>> /\ ui \in Screens /\ Head(inbox) \in Actions /\ queue \in Seq(Effects)
  BY HeadIs DEF TuiInv, TuiType, Reducing
<1>n. {"TYPE", "QUIT", "NUKE_CANCEL", "NUKE_SUBMIT", "WRITE_FAILED", "UNDO_OK", "NUKE_FAILED", "NUKE_OK", "ENVS_STATUS",
       "GIT_DONE"} \subseteq Hold
  BY DEF Hold, Reports
<1>q. queue \o <<>> = queue
  BY <1>0, ConcatEmptySeq
<1>s. ui \in Firm
  BY <1>0, BlandAre
<1>m. ASSUME NEW m \in NukeModes, NEW d \in Drafts, NEW s, s = [ui EXCEPT !.mode = m, !.draft = d]
      PROVE  s \in Firm /\ s.envs = ui.envs
  <2>1. s \in Screens
    BY <1>0, <1>m DEF Screens, NukeModes, Modes
  <2>2. s.mode = m /\ s.tab = ui.tab /\ s.kind = ui.kind /\ s.envs = ui.envs
    BY <1>0, <1>m DEF Screens
  <2> QED BY <2>1, <2>2 DEF Firm
<1>d. "empty" \in Drafts /\ NukeModes = {"nuke-confirm", "nuke-running", "nuke-done"}
  BY DEF Drafts, NukeModes
<1>1. CASE Type
  <2>1. Head(inbox).type = "TYPE" /\ Reduces("TYPE", <<>>)
    BY <1>1 DEF Type, NoEffect, Shows, Reduces
  <2>2. Arg \in Drafts
    BY <1>0, <2>1 DEF Arg, Actions, Keystrokes, Messages, Reports, Drafts
  <2>3. PICK s : s = IF ui.draft = "none" THEN ui ELSE [ui EXCEPT !.draft = Arg]
    OBVIOUS
  <2>4. s \in Screens /\ s.tab = ui.tab /\ s.kind = ui.kind /\ s.envs = ui.envs /\ s.mode = ui.mode
    BY <1>0, <2>2, <2>3 DEF Screens
  <2>5. s \in Firm
    BY <2>4 DEF Firm
  <2>6. ui' = s
    BY <1>1, <2>3 DEF Type, Shows
  <2> QED BY <1>n, <2>1, <2>4, <2>5, <2>6, HoldsNothing
<1>2. CASE Quit
  <2>1. PICK x \in Effects : x = Effect("exit") /\ x.type = "exit"
    BY EffectIs DEF Quiet
  <2>2. queue \o <<x>> = Append(queue, x)
    BY <1>0
  <2> QED BY <1>2, <1>n, <1>s, <2>1, <2>2 DEF Quit, Shows, Reduces, LooksNoMore, Holds, Paced
<1>3. CASE NukeOpen
  <2>1. CASE ui.tab = "nuke"
    <3>1. PICK s : s = [ui EXCEPT !.mode = "nuke-confirm", !.kind = Arg, !.draft = "empty"]
      OBVIOUS
    <3>2. s.tab = "nuke" /\ s.mode = "nuke-confirm"
      BY <1>0, <2>1, <3>1 DEF Screens
    <3> QED BY <1>3, <1>q, <2>1, <3>1, <3>2 DEF NukeOpen, NoEffect, Shows, Reduces, OpensNuke, Paced
  <2>2. CASE ui.tab # "nuke"
    BY <1>3, <1>q, <2>2 DEF NukeOpen, NoEffect, Shows, Reduces, OpensNuke, Paced
  <2> QED BY <2>1, <2>2
<1>4. CASE NukeCancel
  <2>1. Closed \in Firm /\ Closed.envs = ui.envs
    BY <1>0, BlandAre
  <2> QED BY <1>4, <1>n, <2>1, HoldsNothing DEF NukeCancel, Shows, NoEffect
<1>5. CASE NukeSubmit
  <2>1. CASE Shows("NUKE_SUBMIT", NoEffect, ui)
    BY <1>n, <1>s, <2>1, HoldsNothing DEF Shows, NoEffect
  <2>2. ASSUME Reduces("NUKE_SUBMIT",
                  <<[type |-> "nuke", store |-> made + 1, rollback |-> mem, kind |-> ui.kind, over |-> made + 1]>>),
               ui' = [ui EXCEPT !.mode = "nuke-running", !.draft = "empty"]
        PROVE Paced
    <3>1. Head(inbox).type = "NUKE_SUBMIT" /\ Head(inbox).type \in Makes
      BY <2>2 DEF Reduces, Makes
    <3>2. PICK m \in Stores : m = made + 1
      BY <1>0, <3>1, MadeFits
    <3>3. PICK e \in Effects : e = [type |-> "nuke", store |-> m, rollback |-> mem, kind |-> ui.kind, over |-> m]
      <4>1. ui.kind \in Kinds /\ mem \in Stores
        BY <1>0 DEF Screens, TuiInv, TuiType
      <4> QED BY <4>1 DEF Effects, Storing
    <3>4. e.type # "check-envs"
      BY <3>3
    <3>5. queue \o <<e>> = Append(queue, e)
      BY <1>0
    <3>6. queue' = Append(queue, e)
      BY <2>2, <3>2, <3>3, <3>5 DEF Reduces
    <3>7. ui' \in Firm /\ ui'.envs = ui.envs
      BY <1>d, <1>m, <2>2
    <3> QED BY <1>n, <3>1, <3>4, <3>6, <3>7 DEF LooksNoMore, Holds, Paced
  <2> QED BY <1>5, <2>1, <2>2 DEF NukeSubmit
<1>6. CASE WriteFailed \/ UndoOk
  BY <1>6, <1>n, <1>s, HoldsNothing DEF WriteFailed, UndoOk, Returns, NoEffect
<1>7. CASE NukeFailed
  <2>1. PICK s : s = [ui EXCEPT !.mode = "nuke-confirm", !.draft = "empty"]
    OBVIOUS
  <2>2. s \in Firm /\ s.envs = ui.envs
    BY <1>d, <1>m, <2>1
  <2> QED BY <1>7, <1>n, <2>1, <2>2, HoldsNothing DEF NukeFailed, Returns, NoEffect
<1>8. CASE NukeOk
  <2>1. PICK s : s = [ui EXCEPT !.mode = "nuke-done"]
    OBVIOUS
  <2>2. s \in Screens /\ s.mode = "nuke-done" /\ s.tab = ui.tab /\ s.kind = ui.kind /\ s.envs = ui.envs
    BY <1>0, <2>1 DEF Screens, Modes
  <2>3. s \in Firm
    BY <1>d, <2>2 DEF Firm
  <2> QED BY <1>8, <1>n, <2>1, <2>2, <2>3, HoldsNothing DEF NukeOk, Shows, NoEffect
<1>9. CASE EnvsStatus
  <2>1. Head(inbox).type = "ENVS_STATUS" /\ queue' = queue
    BY <1>9, <1>q DEF EnvsStatus, NoEffect, Shows, Reduces
  <2>2. PICK a \in Statuses : a = Head(inbox).arg
    BY <1>0, <2>1 DEF Actions, Keystrokes, Messages, KeyTypes
  <2>3. PICK s : s = IF ui.tab = "envs" THEN [ui EXCEPT !.envs = a] ELSE ui
    OBVIOUS
  <2>4. /\ s \in Screens /\ s.mode = ui.mode /\ s.tab = ui.tab /\ s.kind = ui.kind
        /\ s.envs = ui.envs \/ s.envs = a
    BY <1>0, <2>2, <2>3 DEF Screens
  <2>5. s \in Firm
    BY <2>4 DEF Firm
  <2>6. ui' = s
    BY <1>9, <2>2, <2>3 DEF EnvsStatus, Shows, Arg
  <2> QED BY <1>n, <2>1, <2>2, <2>4, <2>5, <2>6 DEF LooksNoMore, Holds, Paced
<1>10. CASE GitDone
  <2>1. PICK s : s = [ui EXCEPT !.busy = FALSE]
    OBVIOUS
  <2>2. s \in Screens /\ s.mode = ui.mode /\ s.tab = ui.tab /\ s.kind = ui.kind /\ s.envs = ui.envs
    BY <1>0, <2>1 DEF Screens
  <2>3. s \in Firm
    BY <2>2 DEF Firm
  <2> QED BY <1>10, <1>n, <2>1, <2>2, <2>3, HoldsNothing DEF GitDone, Shows, NoEffect
<1> QED BY <1>1, <1>2, <1>3, <1>4, <1>5, <1>6, <1>7, <1>8, <1>9, <1>10

(* Every branch of the reducer, by what it does to the tab and to a nuke.  *)
LEMMA ReductionPaced == TuiInv /\ Reduction => Paced
<1> SUFFICES ASSUME TuiInv, Reduction PROVE Paced
  OBVIOUS
<1>1. Reducing
  BY DEF Reduction, Reducing
<1> QED BY <1>1, FieldKeysPaced, UsersKeysPaced, OtherKeysPaced, NukeKeysPaced DEF Reduction

(***************************************************************************)
(* What waits while a nuke is on the screen.                               *)
(***************************************************************************)

Nuking  == ui.kind \in NukeKinds
OnNuke  == (ui.tab = "nuke" /\ ui.mode = "dashboard") \/ ui.mode \in NukeModes
Foreign == Count(inbox, KeyTypes \ NukeKeys)
Asked   == Count(inbox, {"NUKE_OPEN"})
Looks   == Count(queue, {"check-envs"})
Looked  == Count(inbox, {"ENVS_STATUS"})
FullWaits == \E i \in DOMAIN queue : queue[i].type = "nuke" /\ queue[i].kind = "full"

(* A nuke is on its own tab, and no key of another screen waits behind it. *)
NukeScreen ==
  /\ Nuking => ui.tab = "nuke" /\ ui.mode \in NukeModes
  /\ phase # "reduce" /\ OnNuke => Foreign = 0
  /\ phase # "reduce" /\ Asked > 0 => ui.tab = "nuke" /\ ui.mode = "dashboard"
  /\ Nuking \/ Asked > 0 => Foreign = 0

(* No check of the env files is left, or reports, behind a new keyring. *)
NukeQueue ==
  /\ FullWaits => ui.tab = "nuke" /\ Looks = 0 /\ (phase # "reduce" => Looked = 0)
  /\ phase = "reduce" /\ Confirmed > 0 => Looks = 0

(* The keys of a screen, for a nuke. *)
Fitting(key) ==
  /\ OnNuke => key.type \in NukeKeys
  /\ key.type = "NUKE_OPEN" => ui.tab = "nuke" /\ ui.mode = "dashboard"

(* A nuke's screens take no key of another, and only they open one.        *)
LEMMA KeymapFits ==
  ASSUME ui \in Screens, NEW key \in Keymap
  PROVE  Fitting(key)
<1>1. Offered(key)
  BY KeymapIs
<1>2. ASSUME NEW t, key \in Key(t) \/ key \in YesNo(t) PROVE key.type = t
  BY <1>2, KeysAre DEF Key, YesNo
<1>3. CASE key \in Key("QUIT")
  BY <1>2, <1>3 DEF Fitting, NukeKeys, Hold
<1>4. CASE ui.mode = "nuke-confirm"
  BY <1>1, <1>4 DEF Offered, Fitting, NukeKeys, Hold, Reports
<1>5. CASE ui.mode = "nuke-running"
  BY <1>3, <1>5 DEF Keymap
<1>6. CASE ui.mode = "nuke-done"
  <2>1. key \in Key("QUIT") \/ key \in Key("NUKE_CANCEL") \/ key \in Key("TAB_MOVE")
    BY <1>6 DEF Keymap
  <2> QED BY <1>2, <2>1 DEF Fitting, NukeKeys, Hold
<1>7. CASE ui.mode = "dashboard" /\ key \in DashboardKeys
  <2>1. CASE ui.tab = "nuke"
    <3>1. key \in Key("TAB_MOVE") \/ key \in Keys("NUKE_OPEN", {"soft", "full"})
      BY <1>7, <2>1 DEF DashboardKeys
    <3>2. key.type \in {"TAB_MOVE", "NUKE_OPEN"}
      BY <1>2, <3>1, KeysAre
    <3> QED BY <1>7, <2>1, <3>2 DEF Fitting, NukeKeys
  <2>2. CASE ui.tab # "nuke"
    <3>1. \/ key \in Key("TAB_MOVE") \/ key \in Key("UPDATE_ENVS") \/ key \in Key("PUSH_OPEN")
          \/ key \in Keys("OPEN_EDIT", {"edit", "users", "ca-select"})
          \/ \E t \in {"CHANGE", "REVEAL_OPEN", "EXPORT", "UNDO", "SETUP_START"} : key \in Key(t)
      BY <1>7, <2>2 DEF DashboardKeys
    <3>2. key.type # "NUKE_OPEN"
      BY <1>2, <3>1, KeysAre
    <3> QED BY <1>7, <2>2, <3>2 DEF Fitting, OnNuke, NukeModes
  <2> QED BY <2>1, <2>2
<1>8. CASE ui.mode \in {"users", "edit", "ca-select", "reveal-confirm", "push-confirm", "setup-secrets"} /\ key \notin Key("QUIT")
  <2>1. ~OnNuke
    BY <1>8 DEF OnNuke, NukeModes
  <2>2. \/ key \in UsersKeys
        \/ key \in Typing \/ key \in Key("SUBMIT") \/ key \in Key("CANCEL")
        \/ key \in Keys("CA_PICK", {"value", "path"})
        \/ \E t \in {"REVEAL_CONFIRM", "PUSH_CONFIRM", "SETUP_SECRETS"} : key \in YesNo(t)
    BY <1>8 DEF Keymap
  <2>3. ASSUME key \in UsersKeys PROVE key.type # "NUKE_OPEN"
    <3>1. \/ key \in YesNo("USERS_CONFIRM") \/ key \in Typing \/ key \in Key("USERS_SUBMIT") \/ key \in Key("USERS_CANCEL")
          \/ key \in Keys("USERS_INPUT", {"add", "rename"}) \/ key \in Keys("USERS_REMOVE", {"delete", "clear"})
      BY <2>3 DEF UsersKeys
    <3> QED BY <1>2, <3>1, KeysAre DEF Typing
  <2>4. key.type # "NUKE_OPEN"
    BY <1>2, <2>2, <2>3, KeysAre DEF Typing
  <2> QED BY <2>1, <2>4 DEF Fitting
<1>9. ui.mode \in Modes
  BY DEF Screens
<1> QED BY <1>3, <1>4, <1>5, <1>6, <1>7, <1>8, <1>9 DEF Keymap, Modes

(* A step that leaves the screen: at most one action comes to wait, and the *)
(* queue grows by none.                                                    *)
Rests ==
  /\ proc = "tui" /\ ui' = ui /\ phase # "reduce" /\ phase' # "reduce"
  /\ (FullWaits' => FullWaits) /\ Looks' <= Looks /\ Looks' \in Nat /\ Looks \in Nat
  /\ \/ inbox' = inbox
     \/ \E a \in Actions : /\ inbox' = Append(inbox, a)
                           /\ a.type \in KeyTypes => Fitting(a)
                           /\ a.type = "ENVS_STATUS" => Looks > 0

(* Such a step keeps a nuke on its screen.                                 *)
LEMMA RestsScreen ==
  ASSUME Inv, NukeScreen, NukeQueue, Rests
  PROVE  NukeScreen' /\ NukeQueue'
<1>1. inbox \in Seq(Actions)
  BY DEF Inv, TuiInv, TuiType
<1>2. Foreign \in Nat /\ Asked \in Nat /\ Looked \in Nat
  BY <1>1, CountIs DEF Foreign, Asked, Looked
<1>3. CASE inbox' = inbox
  <2>1. Foreign' = Foreign /\ Asked' = Asked /\ Looked' = Looked
    BY <1>3 DEF Foreign, Asked, Looked
  <2>2. Nuking' = Nuking /\ OnNuke' = OnNuke
    BY DEF Rests, Nuking, OnNuke
  <2> QED BY <1>2, <2>1, <2>2 DEF Rests, NukeScreen, NukeQueue
<1>4. ASSUME NEW a \in Actions, inbox' = Append(inbox, a), a.type \in KeyTypes => Fitting(a),
             a.type = "ENVS_STATUS" => Looks > 0
      PROVE  NukeScreen' /\ NukeQueue'
  <2>1. \A T : Count(inbox', T) = Count(inbox, T) + (IF a.type \in T THEN 1 ELSE 0)
    BY <1>1, <1>4, CountAppend
  <2>2. /\ Foreign' = Foreign + (IF a.type \in KeyTypes \ NukeKeys THEN 1 ELSE 0)
        /\ Asked' = Asked + (IF a.type = "NUKE_OPEN" THEN 1 ELSE 0)
        /\ Looked' = Looked + (IF a.type = "ENVS_STATUS" THEN 1 ELSE 0)
    BY <2>1 DEF Foreign, Asked, Looked
  <2>3. Nuking' = Nuking /\ OnNuke' = OnNuke /\ ui' = ui /\ phase # "reduce" /\ phase' # "reduce"
    BY DEF Rests, Nuking, OnNuke
  <2>4. OnNuke => Foreign' = 0
    BY <1>2, <1>4, <2>2, <2>3 DEF NukeScreen, Fitting
  <2>5. Asked' > 0 => ui.tab = "nuke" /\ ui.mode = "dashboard"
    <3>1. CASE a.type = "NUKE_OPEN"
      BY <1>4, <3>1 DEF Fitting, KeyTypes
    <3>2. CASE a.type # "NUKE_OPEN"
      BY <1>2, <2>2, <2>3, <3>2 DEF NukeScreen
    <3> QED BY <3>1, <3>2
  <2>6. Nuking => OnNuke
    BY DEF NukeScreen, OnNuke
  <2>7. NukeScreen'
    BY <2>3, <2>4, <2>5, <2>6 DEF NukeScreen, OnNuke
  <2>8. FullWaits' => ui.tab = "nuke" /\ Looks' = 0 /\ Looked' = 0
    BY <1>2, <1>4, <2>2, <2>3 DEF Rests, NukeQueue
  <2> QED BY <2>3, <2>7, <2>8 DEF NukeQueue
<1> QED BY <1>3, <1>4 DEF Rests

(* A reduction keeps a nuke on its screen, and leaves no check behind it.  *)
LEMMA ReductionScreen ==
  ASSUME Inv, NukeScreen, NukeQueue, Reduction
  PROVE  NukeScreen' /\ NukeQueue'
<1>1. Paced /\ Reduced /\ Taken /\ Takes /\ Nukes
  BY ReductionPaced, ReductionIs, TakenIs DEF Inv, Reduced
<1>2. PICK h : h = Head(inbox).type
  OBVIOUS
<1>3. h \in KeyTypes \cup Reports /\ Reports \subseteq Hold /\ Hold \subseteq NukeKeys
  BY <1>1, <1>2 DEF Takes, Actions, Keystrokes, Messages, Hold, NukeKeys
<1>4. /\ h \in KeyTypes \ NukeKeys => Foreign # 0
      /\ Foreign = 0 => Foreign' = 0
      /\ h = "NUKE_OPEN" \/ Asked' > 0 => Asked > 0
      /\ h = "NUKE_SUBMIT" \/ Confirmed' > 0 => Confirmed > 0
  <2>1. ASSUME NEW T
        PROVE  (h \in T \/ Count(inbox', T) > 0 => Count(inbox, T) > 0) /\ (Count(inbox, T) = 0 => Count(inbox', T) = 0)
    <3>1. PICK m, n \in Nat : m = Count(inbox, T) /\ n = Count(inbox', T)
      BY <1>1 DEF Takes
    <3>2. m = n + (IF h \in T THEN 1 ELSE 0)
      BY <1>1, <1>2, <3>1 DEF Takes
    <3>3. (h \in T \/ n > 0 => m > 0) /\ (m = 0 => n = 0)
      BY <3>2
    <3> QED BY <3>1, <3>3
  <2>2. Foreign > 0 => Foreign # 0
    OBVIOUS
  <2> QED BY <2>1, <2>2 DEF Foreign, Asked, Confirmed
<1>5. phase' # "reduce" => Foreign' = 0 /\ Asked' = 0 /\ Looked' = 0
  BY <1>1 DEF Taken, Takes, Foreign, Asked, Looked
<1>6. Calm => h \in Hold
  <2>1. Count(inbox, Other) = Count(inbox', Other) + (IF h \in Other THEN 1 ELSE 0) /\ Count(inbox', Other) \in Nat
    BY <1>1, <1>2 DEF Takes
  <2> QED BY <1>3, <2>1 DEF Calm, Other
<1>7. h \in Hold => Holds
  BY <1>1, <1>2, <1>3 DEF Paced, Apart, MovesTab, OpensNuke, Hold, Reports
<1>8. queue \in Seq(Effects) /\ phase \in {"wait", "reduce"} /\ (phase = "wait" => Looks = 0 /\ Launched = 0)
  BY <1>1 DEF Inv, TuiInv, TuiType, Taken, Takes, Looks, Launched
<1>9. Holds => Looks' = Looks
  <2>1. ASSUME NEW e \in Effects, e.type # "check-envs", queue' = Append(queue, e) PROVE Looks' = Looks
    <3>1. Count(queue', {"check-envs"}) = Count(queue, {"check-envs"}) + (IF e.type \in {"check-envs"} THEN 1 ELSE 0)
      BY <1>8, <2>1, CountAppend
    <3>2. Count(queue, {"check-envs"}) \in Nat
      BY <1>8, CountIs
    <3> QED BY <2>1, <3>1, <3>2 DEF Looks
  <2>2. queue' = queue => Looks' = Looks
    BY DEF Looks
  <2> QED BY <2>1, <2>2 DEF Holds, LooksNoMore
<1>10. Nuking' => Nuking \/ h = "NUKE_OPEN"
  BY <1>1, <1>2 DEF Paced, Apart, Bland, MovesTab, OpensNuke, Holds, Firm, Nuking, NukeKinds
<1>11. NukeScreen'
  <2>1. Nuking' => ui'.tab = "nuke" /\ ui'.mode \in NukeModes
    <3>1. CASE Apart
      <4>1. Nuking' => Nuking
        BY <3>1 DEF Apart, Bland, Nuking
      <4>2. h \in KeyTypes \ NukeKeys
        BY <1>2, <1>3, <3>1 DEF Apart
      <4>3. ~Nuking
        BY <1>4, <4>2 DEF NukeScreen
      <4> QED BY <4>1, <4>3
    <3>2. CASE MovesTab
      BY <3>2 DEF MovesTab, Nuking, NukeKinds
    <3>3. CASE OpensNuke
      BY <3>3 DEF OpensNuke, Nuking, NukeModes, NukeScreen
    <3>4. CASE Holds
      BY <3>4 DEF Holds, Firm, Nuking, NukeKinds, NukeScreen
    <3> QED BY <1>1, <3>1, <3>2, <3>3, <3>4 DEF Paced
  <2>2. Nuking' \/ Asked' > 0 => Foreign' = 0
    BY <1>4, <1>10 DEF NukeScreen
  <2>3. phase' # "reduce" => ~(Asked' > 0)
    BY <1>5
  <2> QED BY <1>5, <2>3, <2>1, <2>2 DEF NukeScreen
<1>12. phase = "reduce" /\ Launched = 1 => Calm
  BY <1>1 DEF Nukes
<1>13. FullWaits => Launched = 1
  <2>1. ASSUME FullWaits PROVE Launched # 0
    BY <1>8, <2>1, CountZero DEF FullWaits, Launched
  <2>2. Launched \in Nat /\ Answered \in Nat
    BY <1>1 DEF Takes, Launched, Answered
  <2> QED BY <1>1, <2>1, <2>2 DEF Nukes
<1>14. FullWaits' => ui'.tab = "nuke" /\ Looks' = 0
  <2>1. CASE FullWaits
    <3>1. h \in Hold
      BY <1>6, <1>8, <1>12, <1>13, <2>1
    <3> QED BY <1>7, <1>9, <2>1, <3>1 DEF NukeQueue, Holds, Firm
  <2>2. CASE ~FullWaits /\ NukeStarts
    <3>1. PICK e \in Effects : e.type = "nuke" /\ e.kind = ui.kind /\ queue' = Append(queue, e)
      BY <2>2 DEF NukeStarts, Saves
    <3>2. h = "NUKE_SUBMIT" /\ h \in Hold
      BY <1>2, <2>2 DEF NukeStarts, Hold
    <3>3. FullWaits' => ui.kind = "full"
      <4>1. \A i \in DOMAIN queue' : (i \in DOMAIN queue /\ queue'[i] = queue[i]) \/ queue'[i] = e
        BY <1>8, <3>1, GrownBy DEF Grown
      <4> QED BY <2>2, <3>1, <4>1 DEF FullWaits
    <3>4. Looks = 0
      BY <1>4, <1>8, <3>2 DEF NukeQueue
    <3> QED BY <1>7, <1>9, <3>2, <3>3, <3>4 DEF NukeScreen, Nuking, NukeKinds, Holds, Firm
  <2>3. CASE ~FullWaits /\ ~NukeStarts
    <3>1. Alike => ~FullWaits'
      BY <2>3 DEF Alike, Added, FullWaits, Ordinary, Quiet
    <3>2. queue' = queue => ~FullWaits'
      BY <2>3 DEF FullWaits
    <3> QED BY <1>1, <1>8, <2>3, <3>1, <3>2, ReducedIs DEF NukeOpens, NukeFails, NukeEnds, PutsBack
  <2> QED BY <2>1, <2>2, <2>3
<1>15. phase' = "reduce" /\ Confirmed' > 0 => Looks' = 0
  <2>1. ASSUME Confirmed' > 0 PROVE Looks' = 0
    <3>1. Confirmed > 0
      BY <1>4, <2>1
    <3>2. Calm
      BY <1>1, <3>1 DEF Nukes
    <3> QED BY <1>6, <1>7, <1>8, <1>9, <3>1, <3>2 DEF NukeQueue
  <2> QED BY <2>1
<1> QED BY <1>5, <1>11, <1>14, <1>15 DEF NukeQueue

(***************************************************************************)
(* What the operations of the dashboard do to the keyring and the env      *)
(* files.                                                                  *)
(***************************************************************************)

(* The env file is of the keyring there is, unless it is not whole. *)
Same(d) == Whole(d.env) => d.env = d.keys

(* The calls that leave the keyring k, and export no other. *)
SteadyCalls(k) == {c \in Calls : c.file # "keys" /\ (c.file = "env" => c.value = k)}

(* The paths that a nuke which keeps the keyring puts back. *)
SoftPaths == {<<"bak", "store">>, <<"cipher", "bak", "store">>}

Steady(j, k) == j.plan \in Seq(SteadyCalls(k)) /\ (j.kind = "nuke" => j.paths \in SoftPaths)

(* Calls on the other files are such.                                      *)
LEMMA SteadyOn ==
  ASSUME NEW p \in Seq(Calls), On(p, {"store", "bak", "cipher"}), NEW k
  PROVE  p \in Seq(SteadyCalls(k))
<1>1. PICK n \in Nat : n = Len(p) /\ DOMAIN p = 1 .. n
  OBVIOUS
<1>2. \A i \in 1 .. n : p[i] \in SteadyCalls(k)
  BY <1>1 DEF On, SteadyCalls
<1>3. p = [i \in 1 .. n |-> p[i]]
  BY <1>1
<1> QED BY <1>2, <1>3

(* The putting back of those files is.                                     *)
LEMMA SteadyRestore ==
  ASSUME NEW paths \in SoftPaths, NEW now \in Disks, NEW then \in Disks, NEW k
  PROVE  RestorePlan(paths, now, then) \in Seq(SteadyCalls(k))
<1>1. PICK P : P = Seq(SteadyCalls(k))
  OBVIOUS
<1>2. paths \in Seq({"store", "bak", "cipher"})
  <2>1. \A a, b, c \in {"store", "bak", "cipher"} : <<a, b>> \in Seq({"store", "bak", "cipher"}) /\ <<a, b, c>> \in Seq({"store", "bak", "cipher"})
    OBVIOUS
  <2> QED BY <2>1 DEF SoftPaths
<1>3. PICK n \in Nat : n = Len(paths) /\ DOMAIN paths = 1..n
  BY <1>2
<1>4. PICK c : c = [i \in DOMAIN paths |->
        LET f == paths[i] IN
        IF then[f] # Missing THEN Rewrite(f, then[f])
        ELSE IF now[f] # Missing THEN Unlink(f) ELSE <<>>]
  OBVIOUS
<1>5. \A i \in 1..n : c[i] \in P
  <2> SUFFICES ASSUME NEW i \in 1..n PROVE c[i] \in P
    OBVIOUS
  <2>1. PICK f \in {"store", "bak", "cipher"} : f = paths[i]
    BY <1>2, <1>3
  <2>2. f \in Files /\ then[f] \in FileValues /\ Fits(f, then[f])
    BY DiskIs DEF Files
  <2>3. PICK v : v = then[f]
    OBVIOUS
  <2>4. Rewrite(f, v) \in Seq(Calls) /\ Unlink(f) \in Seq(Calls) /\ <<>> \in P
    BY <1>1, <2>2, <2>3, CallsAre
  <2>5. On(Rewrite(f, v), {"store", "bak", "cipher"})
    BY RewriteIs DEF On
  <2>6. On(Unlink(f), {"store", "bak", "cipher"})
    BY DEF On, Unlink
  <2>7. Rewrite(f, v) \in P /\ Unlink(f) \in P
    BY <1>1, <2>4, <2>5, <2>6, SteadyOn
  <2>8. c[i] = IF then[f] # Missing THEN Rewrite(f, then[f])
               ELSE IF now[f] # Missing THEN Unlink(f) ELSE <<>>
    BY <1>3, <1>4, <2>1
  <2> QED BY <2>3, <2>4, <2>7, <2>8
<1>6. c \in Seq(P)
  <2>1. DOMAIN c = 1..n /\ c = [i \in 1..n |-> c[i]]
    BY <1>3, <1>4
  <2> QED BY <1>5, <2>1
<1> QED BY <1>1, <1>4, <1>6, FlatType DEF RestorePlan

(* What is left of a plan of such calls is one.                            *)
LEMMA SteadyWithout ==
  ASSUME NEW k, NEW plan \in Seq(SteadyCalls(k)), NEW file
  PROVE  Without(plan, file) \in Seq(SteadyCalls(k))
<1>1. PICK P : P = Seq(SteadyCalls(k))
  OBVIOUS
<1>2. PICK n \in Nat : n = Len(plan) /\ DOMAIN plan = 1..n
  OBVIOUS
<1>3. PICK c : c = [i \in DOMAIN plan |-> IF plan[i].file = file THEN <<>> ELSE <<plan[i]>>]
  OBVIOUS
<1>4. \A i \in 1..n : c[i] \in P
  BY <1>1, <1>2, <1>3
<1>5. c \in Seq(P)
  <2>1. DOMAIN c = 1..n /\ c = [i \in 1..n |-> c[i]]
    BY <1>2, <1>3
  <2> QED BY <1>4, <2>1
<1> QED BY <1>1, <1>3, <1>5, FlatType DEF Without

(* What one call that spares the keyring makes of the files: well or not,  *)
(* it touches its own file only.                                           *)
SteadyStep(d, c, a, e) ==
  /\ d \in Disks /\ c \in SteadyCalls(d.keys) /\ a \in {c.value, d[c.file], Missing, Torn}
  /\ e = [d EXCEPT ![c.file] = a]

(* A call, well or not, leaves the keyring, and the env file of it.        *)
LEMMA SteadyPut ==
  ASSUME NEW d, NEW c, NEW a, NEW e, SteadyStep(d, c, a, e)
  PROVE  e.keys = d.keys /\ (Same(d) => Same(e))
<1>0. /\ d \in Disks /\ c \in SteadyCalls(d.keys) /\ a \in {c.value, d[c.file], Missing, Torn}
      /\ e = [d EXCEPT ![c.file] = a]
  BY DEF SteadyStep
<1>1. \A f \in Files : e[f] = IF f = c.file THEN a ELSE d[f]
  BY <1>0 DEF Disks
<1>2. c.file # "keys" /\ (c.file = "env" => c.value = d.keys)
  BY <1>0 DEF SteadyCalls
<1>3. e.keys = d.keys /\ e.env = IF c.file = "env" THEN a ELSE d.env
  BY <1>1, <1>2 DEF Files
<1>4. c.file = "env" => a \in {c.value, d.env, Missing, Torn}
  BY <1>0
<1> QED BY <1>2, <1>3, <1>4 DEF Same, Whole

(* A call that succeeds.                                                   *)
LEMMA SteadyCall ==
  ASSUME NEW d \in Disks, NEW j \in Jobs, Steady(j, d.keys), j.plan # <<>>, NEW e, e = After(d, Head(j.plan)),
         NEW k, k = [j EXCEPT !.plan = Tail(@)]
  PROVE  e.keys = d.keys /\ (Same(d) => Same(e)) /\ Steady(k, d.keys)
<1>1. PICK p \in Seq(SteadyCalls(d.keys)) : p = j.plan /\ p # <<>>
  BY DEF Steady
<1>2. PICK c \in SteadyCalls(d.keys) : c = Head(p)
  BY <1>1, TailIs
<1>3. Tail(p) \in Seq(SteadyCalls(d.keys))
  BY <1>1, TailIs
<1>4. PICK a : a = c.value /\ e = [d EXCEPT ![c.file] = a]
  BY <1>1, <1>2 DEF After
<1>5. e.keys = d.keys /\ (Same(d) => Same(e))
  <2>1. SteadyStep(d, c, a, e)
    BY <1>4 DEF SteadyStep
  <2> QED BY ONLY <2>1, SteadyPut
<1>6. k.plan = Tail(p) /\ k.kind = j.kind /\ k.paths = j.paths
  BY <1>1 DEF Jobs
<1> QED BY <1>3, <1>5, <1>6 DEF Steady

(* A call that fails.                                                      *)
LEMMA SteadyFails ==
  ASSUME NEW j, NEW d, NEW n, NEW c, NEW a, NEW e, NEW k, FailsTo(j, d, n, c, a, e, k), Steady(j, d.keys)
  PROVE  e.keys = d.keys /\ (Same(d) => Same(e)) /\ Steady(k, d.keys)
<1>1. /\ j \in Jobs /\ d \in Disks /\ j.plan # <<>> /\ FilesInv(j, d, n)
      /\ c = Head(j.plan) /\ a \in FailValues(c, d)
      /\ k.kind = j.kind /\ k.paths = j.paths
      /\ k.plan = IF j.kind # "nuke" THEN <<>>
                  ELSE IF j.failed THEN Without(j.plan, c.file) ELSE RestorePlan(j.paths, e, j.snap)
  BY DEF FailsTo
<1>2. e = [d EXCEPT ![c.file] = a]
  BY DEF FailsTo
<1>3. e \in Disks
  BY FailStep
<1>4. PICK p \in Seq(SteadyCalls(d.keys)) : p = j.plan /\ p # <<>>
  BY <1>1 DEF Steady
<1>5. c \in SteadyCalls(d.keys)
  BY <1>1, <1>4, TailIs
<1>6. a \in {c.value, d[c.file], Missing, Torn}
  BY <1>1 DEF FailValues
<1>7. e.keys = d.keys /\ (Same(d) => Same(e))
  <2>1. d \in Disks
    BY <1>1
  <2>2. SteadyStep(d, c, a, e)
    BY ONLY <1>2, <1>5, <1>6, <2>1 DEF SteadyStep
  <2> QED BY ONLY <2>2, SteadyPut
<1>8. k.plan \in Seq(SteadyCalls(d.keys))
  <2>0. <<>> \in Seq(SteadyCalls(d.keys))
    OBVIOUS
  <2>1. Without(j.plan, c.file) \in Seq(SteadyCalls(d.keys))
    BY <1>4, SteadyWithout
  <2>2. j.kind = "nuke" => RestorePlan(j.paths, e, j.snap) \in Seq(SteadyCalls(d.keys))
    <3>1. j.kind = "nuke" => j.snap \in Disks /\ j.paths \in SoftPaths
      BY <1>1 DEF FilesInv, Stage, Steady
    <3> QED BY <1>3, <3>1, SteadyRestore
  <2> QED BY <1>1, <2>0, <2>1, <2>2
<1> QED BY <1>1, <1>7, <1>8 DEF Steady

(* A soft nuke puts back no keyring.                                       *)
LEMMA SoftKept ==
  ASSUME NEW k
  PROVE  NukeKept("soft", k) \in SoftPaths
<1>1. CASE k = Missing
  <2>1. NukeKept("soft", k) = (<<>> \o <<>>) \o <<"bak", "store">>
    BY <1>1 DEF NukeKept
  <2> QED BY <2>1, ConcatsAre DEF SoftPaths
<1>2. CASE k # Missing
  <2>1. NukeKept("soft", k) = (<<"cipher">> \o <<>>) \o <<"bak", "store">>
    BY <1>2 DEF NukeKept
  <2> QED BY <2>1, ConcatsAre DEF SoftPaths
<1> QED BY <1>1, <1>2

(* The envs tab calls the files fresh, or is about to. *)
Claims == (ui.tab = "envs" /\ ui.envs = "ok") \/ \E i \in DOMAIN inbox : inbox[i].type = "ENVS_STATUS" /\ inbox[i].arg = "ok"
Fresh == Claims => Same(disk)

(* Only a full nuke changes the keyring while the dashboard is open. *)
InFull == job.kind = "nuke" /\ Head(queue).kind = "full"
Tended == proc = "tui" /\ job # Idle /\ ~InFull => Steady(job, disk.keys)

(* While a full nuke runs the envs tab is not on the screen, nor about to be. *)
LEMMA FullIsUnseen ==
  ASSUME Inv, NukeQueue, proc = "tui", job # Idle, InFull
  PROVE  ~Claims
<1>1. phase = "effects" /\ queue # <<>> /\ Head(queue).type = "nuke" /\ queue \in Seq(Effects) /\ inbox \in Seq(Actions)
  BY DEF InFull, Inv, TuiInv, TuiType, Flow, Linked
<1>2. 1 \in DOMAIN queue /\ queue[1] = Head(queue)
  BY <1>1, TailIs
<1>3. FullWaits
  BY <1>1, <1>2 DEF FullWaits, InFull
<1>4. ui.tab = "nuke" /\ Looked = 0
  BY <1>1, <1>3 DEF NukeQueue
<1>5. \A i \in DOMAIN inbox : inbox[i].type \notin {"ENVS_STATUS"}
  BY <1>1, <1>4, CountZero DEF Looked
<1> QED BY <1>4, <1>5 DEF Claims

(* Without a dashboard nothing is.                                         *)
LEMMA DownIsUnseen ==
  ASSUME TuiInv, proc # "tui"
  PROVE  ~Claims
<1>1. ui = Dashboard /\ inbox = <<>>
  BY NoTui
<1>2. Dashboard.tab = "fields"
  BY DEF Dashboard
<1>3. DOMAIN inbox = {}
  BY <1>1
<1> QED BY <1>1, <1>2, <1>3 DEF Claims

(* A call, well or not, leaves the env file that is called fresh.          *)
LEMMA CallFresh ==
  ASSUME Inv, NukeQueue, Tended, Fresh, Call \/ CallFails, UNCHANGED tuiVars
  PROVE  Tended' /\ Fresh'
<1>1. proc' = proc /\ job'.kind = job.kind /\ job # Idle /\ ui' = ui /\ inbox' = inbox /\ queue' = queue
  BY SameJob, IdleHas DEF Call, CallFails, tuiVars
<1>2. (Claims' <=> Claims) /\ (InFull' <=> InFull)
  BY <1>1 DEF Claims, InFull
<1>3. CASE proc # "tui"
  BY <1>1, <1>2, <1>3, DownIsUnseen DEF Inv, Tended, Fresh
<1>4. CASE proc = "tui" /\ InFull
  BY <1>1, <1>2, <1>4, FullIsUnseen DEF Tended, Fresh
<1>5. CASE proc = "tui" /\ ~InFull
  <2>1. PICK d, e, j, k : d = disk /\ e = disk' /\ j = job /\ k = job'
    OBVIOUS
  <2>2. Steady(j, d.keys) /\ d \in Disks /\ j \in Jobs /\ j.plan # <<>>
    BY <1>1, <1>5, <2>1, SameJob DEF Tended, Inv, TuiInv, DiskType, Working
  <2>3. e.keys = d.keys /\ (Same(d) => Same(e)) /\ Steady(k, d.keys)
    <3>1. CASE Call
      <4>1. e = After(d, Head(j.plan)) /\ k = [j EXCEPT !.plan = Tail(@)]
        BY <2>1, <3>1 DEF Call, After
      <4> QED BY ONLY <2>2, <4>1, SteadyCall
    <3>2. CASE CallFails
      <4>1. PICK c, a : FailsTo(job, disk, faults, c, a, disk', job')
        BY <3>2, FailsAs
      <4>2. PICK n : n = faults
        OBVIOUS
      <4>3. FailsTo(j, d, n, c, a, e, k)
        BY ONLY <2>1, <4>1, <4>2
      <4> QED BY ONLY <2>2, <4>3, SteadyFails
    <3> QED BY <3>1, <3>2
  <2>4. Steady(job', disk'.keys) /\ (Same(disk) => Same(disk'))
    BY ONLY <2>1, <2>3
  <2> QED BY <1>2, <2>4 DEF Tended, Fresh
<1> QED BY <1>3, <1>4, <1>5

(* An operation that is not a nuke, of calls on the store, its backup and the *)
(* ciphertext.                                                             *)
LEMMA SteadyAs ==
  ASSUME NEW j \in Jobs, On(j.plan, {"store", "bak", "cipher"}), j.kind = "nuke" => j.paths \in SoftPaths, NEW k
  PROVE  Steady(j, k)
<1>1. PICK p \in Seq(Calls) : p = j.plan
  BY DEF Jobs
<1>2. p \in Seq(SteadyCalls(k))
  BY <1>1, SteadyOn
<1> QED BY <1>1, <1>2 DEF Steady

(* An operation that begins writes no keyring, unless it is a full nuke.   *)
LEMMA BeginsSteady ==
  ASSUME Inv, NEW j, Begins(j), j \in Jobs, \E t : Running(t), Steady(j, disk.keys) \/ (j.kind = "nuke" /\ Head(queue).kind = "full")
  PROVE  Tended'
<1>1. job' = j /\ disk' = disk /\ queue' = queue
  BY DEF Begins
<1>2. CASE Steady(j, disk.keys)
  BY <1>1, <1>2 DEF Tended
<1>3. CASE j.kind = "nuke" /\ Head(queue).kind = "full"
  BY <1>1, <1>3 DEF Tended, InFull
<1> QED BY <1>2, <1>3

(* The write of a store. *)
LEMMA RunWriteSteady ==
  ASSUME Inv, RunWrite
  PROVE  Tended'
<1>1. Running("write-store") /\ Begins(WriteJob(Head(queue).store))
  BY DEF RunWrite
<1>2. Head(queue) \in Effects /\ disk \in Disks /\ Sound(disk, faults)
  BY <1>1, RunningIs
<1>3. PICK s \in Stores : s = Head(queue).store
  BY <1>2 DEF Effects
<1>4. PICK j : j = WriteJob(s)
  OBVIOUS
<1>5. j \in Jobs /\ j.kind = "write" /\ FilesInv(j, disk, faults)
  BY <1>2, <1>4, WriteBegins
<1>6. ~j.failed
  BY <1>4, JobHas DEF WriteJob
<1>7. On(j.plan, {"store", "bak", "cipher"})
  BY <1>5, <1>6 DEF FilesInv, Stage, Going, On
<1>8. Steady(j, disk.keys)
  BY <1>5, <1>7, SteadyAs
<1>9. Begins(j)
  BY <1>1, <1>3, <1>4
<1> QED BY <1>1, <1>5, <1>8, <1>9, BeginsSteady

(* The putting back of the backup. *)
LEMMA RunUndoSteady ==
  ASSUME Inv, Running("restore-backup"), disk.bak # Missing, Begins(UndoJob)
  PROVE  Tended'
<1>1. disk \in Disks /\ Sound(disk, faults)
  BY RunningIs
<1>2. PICK j : j = UndoJob
  OBVIOUS
<1>3. j \in Jobs /\ j.kind = "undo"
  BY <1>1, <1>2, UndoBegins
<1>4. On(j.plan, {"store", "bak", "cipher"})
  <2>1. j.plan = Copy("store", disk.bak)
    BY <1>2, JobHas DEF UndoJob
  <2>2. PICK v, p : v = disk.bak /\ p = Copy("store", v)
    OBVIOUS
  <2>3. DOMAIN p = {1, 2} /\ p[1].file = "store" /\ p[2].file = "store"
    BY <2>2 DEF Copy, Cut
  <2>4. On(p, {"store", "bak", "cipher"})
    BY <2>3 DEF On
  <2> QED BY <2>1, <2>2, <2>4
<1>5. Steady(j, disk.keys)
  BY <1>3, <1>4, SteadyAs
<1>6. Begins(j)
  BY <1>2
<1> QED BY <1>3, <1>5, <1>6, BeginsSteady

(* The export is of the keyring there is. *)
LEMMA RunExportSteady ==
  ASSUME Inv, Running("export-envs"), Whole(disk.keys), Begins(ExportJob)
  PROVE  Tended'
<1>1. disk \in Disks
  BY RunningIs
<1>2. PICK k \in Keyrings : k = disk.keys
  BY <1>1, DiskIs DEF Whole
<1>3. PICK c : c = [call |-> "put", file |-> "env", value |-> k]
  OBVIOUS
<1>4. c \in Calls
  <2>1. "env" \in Files /\ k \in FileValues /\ Fits("env", k)
    BY KeyIs DEF Files, FileValues, Fits
  <2> QED BY <1>3, <2>1 DEF Calls
<1>5. c \in SteadyCalls(k)
  BY <1>3, <1>4 DEF SteadyCalls
<1>6. PICK p : p = <<c>> /\ p \in Seq(SteadyCalls(k)) /\ p \in Seq(Calls)
  <2>1. \A S : c \in S => <<c>> \in Seq(S)
    OBVIOUS
  <2> QED BY <1>4, <1>5, <2>1
<1>7. PICK j : j = Job("export", p, 0, <<>>)
  OBVIOUS
<1>8. j.plan = p /\ j.kind = "export"
  BY <1>7, JobHas
<1>9. j \in Jobs
  <2>1. PICK t \in JobKinds : t = "export"
    BY DEF JobKinds
  <2>2. PICK z \in Stores : z = 0
    BY ZeroIs
  <2>3. PICK q \in Seq(Files) : q = <<>>
    <3>1. <<>> \in Seq(Files)
      OBVIOUS
    <3> QED BY <3>1
  <2>4. Job(t, p, z, q) \in Jobs
    BY <1>1, <1>6, JobIs
  <2> QED BY <1>7, <2>1, <2>2, <2>3, <2>4
<1>10. Steady(j, disk.keys)
  BY <1>2, <1>6, <1>8 DEF Steady
<1>11. Begins(j)
  BY <1>2, <1>3, <1>6, <1>7 DEF ExportJob, Put
<1> QED BY <1>9, <1>10, <1>11, BeginsSteady

(* A soft nuke keeps the keyring there is. *)
LEMMA RunNukeSteady ==
  ASSUME Inv, RunNuke, job' # job
  PROVE  Tended'
<1>1. Running("nuke")
  BY DEF RunNuke
<1>2. PICK nuke \in Effects : nuke = Head(queue)
  BY <1>1, RunningIs
<1>3. job = Idle /\ disk \in Disks /\ Sound(disk, faults) /\ queue # <<>> /\ nuke.type = "nuke" /\ queue \in Seq(Effects)
  BY <1>1, <1>2, RunningIs
<1>4. /\ ~(nuke.kind \notin {"soft", "full"} \/ (nuke.kind = "soft" /\ disk.keys = Torn))
      /\ Begins(NukeJob(nuke.kind, nuke.store))
  BY <1>2 DEF RunNuke
<1>5. CASE nuke.kind = "full"
  <2>1. PICK j : j = NukeJob(nuke.kind, nuke.store)
    OBVIOUS
  <2>2. j.kind = "nuke" /\ Begins(j)
    BY <1>4, <2>1, JobHas DEF NukeJob
  <2>3. job' = j /\ queue' = queue
    BY <2>2 DEF Begins
  <2> QED BY <1>2, <1>5, <2>2, <2>3 DEF Tended, InFull
<1>6. CASE nuke.kind = "soft"
  <2>1. PICK s, k : s = nuke.store /\ s \in Stores /\ k = disk.keys
    BY DEF Effects
  <2>2. NukeKey("soft", k)
    BY <1>3, <1>4, <1>6, <2>1, DiskIs DEF NukeKey
  <2>3. PICK j : j = NukeJob("soft", s)
    OBVIOUS
  <2>4. k = (IF "soft" = "full" THEN keyed + 1 ELSE disk.keys)
    BY <2>1
  <2>5. j \in Jobs /\ j.kind = "nuke" /\ FilesInv(j, disk, faults)
    BY <1>3, <2>1, <2>2, <2>3, <2>4, NukeBegins
  <2>6. j.paths = NukeKept("soft", k) /\ ~j.failed
    <3>1. PICK q : q = NukeKept("soft", k)
      OBVIOUS
    <3>2. q = ((IF k # Missing THEN <<"cipher">> ELSE <<>>) \o (IF "soft" = "full" THEN <<"keys">> ELSE <<>>)) \o <<"bak", "store">>
      BY <3>1 DEF NukeKept
    <3>3. \E p : j = Job("nuke", p, s, q)
      BY <2>1, <2>3, <3>2, Zenon DEF NukeJob
    <3> QED BY <3>1, <3>3, JobHas
  <2>7. PICK q : q = j.paths /\ q \in SoftPaths
    BY <2>6, SoftKept
  <2>8. \A f : Named(q, f) => f \in {"store", "bak", "cipher"}
    <3>1. CASE q = <<"bak", "store">>
      <4>1. DOMAIN q = {1, 2} /\ q[1] = "bak" /\ q[2] = "store"
        BY <3>1
      <4> QED BY <4>1 DEF Named
    <3>2. CASE q = <<"cipher", "bak", "store">>
      <4>1. DOMAIN q = {1, 2, 3} /\ q[1] = "cipher" /\ q[2] = "bak" /\ q[3] = "store"
        BY <3>2
      <4> QED BY <4>1 DEF Named
    <3> QED BY <2>7, <3>1, <3>2 DEF SoftPaths
  <2>9. On(j.plan, {"store", "bak", "cipher"})
    <3>1. \A i \in DOMAIN j.plan : Named(q, j.plan[i].file)
      BY <2>5, <2>6, <2>7 DEF FilesInv, NukeStage
    <3> QED BY <2>8, <3>1 DEF On
  <2>10. Steady(j, disk.keys)
    BY <2>5, <2>7, <2>9, SteadyAs
  <2>11. Begins(j)
    BY <1>4, <1>6, <2>1, <2>3
  <2> QED BY <1>1, <2>5, <2>10, <2>11, BeginsSteady
<1> QED BY <1>4, <1>5, <1>6

(* What comes to wait, or leaves the queue, while the screen stays.        *)
LEMMA RestsAre ==
  ASSUME Inv, proc = "tui", ui' = ui, phase # "reduce", phase' # "reduce",
         queue' = queue \/ queue' = Tail(queue) \/ queue' = Append(Tail(queue), Head(queue)),
         queue' # queue => queue # <<>>,
         inbox' = inbox \/ \E a \in Actions : /\ inbox' = Append(inbox, a)
                                              /\ a.type \in KeyTypes => Fitting(a)
                                              /\ a.type = "ENVS_STATUS" => queue # <<>> /\ Head(queue).type = "check-envs"
  PROVE  Rests
<1>1. queue \in Seq(Effects)
  BY DEF Inv, TuiInv, TuiType
<1>2. Looks \in Nat
  BY <1>1, CountIs DEF Looks
<1>3. queue # <<>> => Looks = Count(Tail(queue), {"check-envs"}) + (IF Head(queue).type = "check-envs" THEN 1 ELSE 0)
                      /\ Count(Tail(queue), {"check-envs"}) \in Nat
  BY <1>1, CountHead DEF Looks
<1>4. queue # <<>> /\ Head(queue).type = "check-envs" => Looks > 0
  <2>1. PICK m : m = Count(Tail(queue), {"check-envs"})
    OBVIOUS
  <2> QED BY <1>2, <1>3, <2>1
<1>5. (FullWaits' => FullWaits) /\ Looks' <= Looks /\ Looks' \in Nat
  <2>1. CASE queue' = queue
    BY <1>2, <2>1 DEF FullWaits, Looks
  <2>2. CASE queue' # queue
    <3>1. PICK q \in Seq(Effects), e \in Effects : q = Tail(queue) /\ e = Head(queue)
      BY <1>1, <2>2, TailIs
    <3>2. \A i \in DOMAIN q : \E k \in DOMAIN queue : q[i] = queue[k]
      BY <1>1, <2>2, <3>1, TailIs
    <3>3. 1 \in DOMAIN queue /\ queue[1] = e
      BY <1>1, <2>2, <3>1, TailIs
    <3>4. PICK m \in Nat : m = Count(q, {"check-envs"}) /\ Looks = m + (IF e.type = "check-envs" THEN 1 ELSE 0)
      BY <1>3, <2>2, <3>1
    <3>5. CASE queue' = q
      <4>1. Looks' = m
        BY <3>4, <3>5 DEF Looks
      <4> QED BY <3>2, <3>4, <3>5, <4>1 DEF FullWaits
    <3>6. CASE queue' = Append(q, e)
      <4>1. Grown(queue', q, e)
        BY <3>6, GrownBy
      <4>2. Looks' = m + (IF e.type = "check-envs" THEN 1 ELSE 0)
        BY <3>4, <4>1 DEF Looks, Grown
      <4>3. \A i \in DOMAIN queue' : \E k \in DOMAIN queue : queue'[i] = queue[k]
        BY <3>2, <3>3, <4>1 DEF Grown
      <4> QED BY <3>4, <4>2, <4>3 DEF FullWaits
    <3> QED BY <2>2, <3>1, <3>5, <3>6
  <2> QED BY <2>1, <2>2
<1> QED BY <1>2, <1>4, <1>5 DEF Rests

(* What comes to wait calls the files fresh when they are.                 *)
LEMMA RestsFresh ==
  ASSUME Inv, Fresh, ui' = ui, disk' = disk,
         inbox' = inbox \/ \E a \in Actions : /\ inbox' = Append(inbox, a)
                                              /\ a.type = "ENVS_STATUS" /\ a.arg = "ok" => Same(disk)
  PROVE  Fresh'
<1>1. inbox \in Seq(Actions)
  BY DEF Inv, TuiInv, TuiType
<1>2. CASE inbox' = inbox
  BY <1>2 DEF Fresh, Claims
<1>3. ASSUME NEW a \in Actions, inbox' = Append(inbox, a), a.type = "ENVS_STATUS" /\ a.arg = "ok" => Same(disk)
      PROVE  Fresh'
  <2>1. \A i \in DOMAIN inbox' : (i \in DOMAIN inbox /\ inbox'[i] = inbox[i]) \/ inbox'[i] = a
    BY <1>1, <1>3, AppendProperties
  <2>2. Claims' => Claims \/ (a.type = "ENVS_STATUS" /\ a.arg = "ok")
    BY <2>1 DEF Claims
  <2> QED BY <1>3, <2>2 DEF Fresh
<1> QED BY <1>2, <1>3

(* Nothing on the screen and nothing that waits calls nothing fresh.       *)
LEMMA DownFresh ==
  ASSUME ui' = Dashboard, inbox' = <<>>, queue' = <<>>, proc' # "tui" \/ job' = Idle
  PROVE  NukeScreen' /\ NukeQueue' /\ Tended' /\ Fresh'
<1>1. Dashboard.tab = "fields" /\ Dashboard.mode = "dashboard" /\ Dashboard.kind = "none"
  BY DEF Dashboard
<1>2. DOMAIN inbox' = {} /\ DOMAIN queue' = {}
  OBVIOUS
<1>3. Foreign' = 0 /\ Asked' = 0 /\ Confirmed' = 0
  <2>1. \A T : Count(inbox', T) = 0
    BY CountEmpty
  <2> QED BY <2>1 DEF Foreign, Asked, Confirmed
<1>4. ~Nuking' /\ ~OnNuke' /\ ~FullWaits' /\ ~Claims'
  BY <1>1, <1>2 DEF Nuking, NukeKinds, OnNuke, NukeModes, FullWaits, Claims
<1>5. NukeScreen'
  BY <1>3, <1>4 DEF NukeScreen
<1>6. NukeQueue'
  BY <1>3, <1>4 DEF NukeQueue
<1> QED BY <1>4, <1>5, <1>6 DEF Tended, Fresh

(* A reduction makes no claim that was not there.                          *)
LEMMA ReductionFresh ==
  ASSUME Inv, Fresh, Reduction
  PROVE  Tended' /\ Fresh'
<1>1. Paced /\ Taken
  BY ReductionPaced, ReductionIs DEF Inv, Reduced
<1>2. inbox \in Seq(Actions) /\ inbox # <<>> /\ inbox' = Tail(inbox) /\ disk' = disk /\ job' = job /\ proc' = proc
  BY <1>1 DEF Inv, TuiInv, TuiType, Taken
<1>3. job = Idle
  BY <1>1 DEF Taken, Inv, TuiInv, Flow
<1>4. 1 \in DOMAIN inbox /\ inbox[1] = Head(inbox) /\ \A i \in DOMAIN inbox' : \E k \in DOMAIN inbox : inbox'[i] = inbox[k]
  BY <1>2, TailIs
<1>5. ui'.tab = "envs" /\ ui'.envs = "ok" => Claims
  <2>1. CASE Apart
    BY <2>1 DEF Apart, Bland, Claims
  <2>2. CASE MovesTab
    BY <2>2 DEF MovesTab
  <2>3. CASE OpensNuke
    BY <2>3 DEF OpensNuke, Claims
  <2>4. CASE Holds
    BY <1>4, <2>4 DEF Holds, Firm, Claims
  <2> QED BY <1>1, <2>1, <2>2, <2>3, <2>4 DEF Paced
<1>6. Claims' => Claims
  BY <1>4, <1>5 DEF Claims
<1> QED BY <1>2, <1>3, <1>6 DEF Tended, Fresh

(* What the screen and the files say of each other while a nuke or a check  *)
(* of the env files is on its way. *)
Trusted == NukeScreen /\ NukeQueue /\ Tended /\ Fresh

(* A step that leaves the screen and the files.                            *)
LEMMA RestsTrusted ==
  ASSUME Inv, Trusted, proc = "tui", ui' = ui, disk' = disk, phase # "reduce", phase' # "reduce", Tended',
         queue' = queue \/ queue' = Tail(queue) \/ queue' = Append(Tail(queue), Head(queue)),
         queue' # queue => queue # <<>>,
         inbox' = inbox \/ \E a \in Actions : /\ inbox' = Append(inbox, a)
                                              /\ a.type \in KeyTypes => Fitting(a)
                                              /\ a.type = "ENVS_STATUS" => /\ queue # <<>> /\ Head(queue).type = "check-envs"
                                                                           /\ a.arg = "ok" => Same(disk)
  PROVE  Trusted'
<1>1. Rests
  BY RestsAre
<1>2. Fresh'
  BY RestsFresh DEF Trusted
<1> QED BY <1>1, <1>2, RestsScreen DEF Trusted

(* What an effect that is over may report of the env files.                *)
Owns(r) ==
  /\ r.type \notin KeyTypes
  /\ r.type = "ENVS_STATUS" => Head(queue).type = "check-envs" /\ (r.arg = "ok" => Same(disk))

(* An effect that is over.                                                 *)
LEMMA EndsTrusted ==
  ASSUME Inv, Inv', Trusted, proc = "tui", phase \in {"commit", "effects"}, job' = Idle,
         NEW reports, Ends(reports), reports = <<>> \/ \E r : reports = <<r>> /\ Owns(r)
  PROVE  Trusted'
<1>1. /\ queue' = Tail(queue) /\ phase' \in {"wait", "effects"} /\ inbox' = inbox \o reports /\ disk' = disk /\ ui' = ui
      /\ queue # <<>> /\ inbox \in Seq(Actions) /\ inbox' \in Seq(Actions)
  BY DEF Ends, Inv, TuiInv, TuiType, Flow
<1>2. Tended'
  BY DEF Tended
<1>3. CASE reports = <<>>
  <2>1. inbox' = inbox
    BY <1>1, <1>3, ConcatEmptySeq
  <2> QED BY <1>1, <1>2, <2>1, RestsTrusted
<1>4. ASSUME NEW r, reports = <<r>>, Owns(r) PROVE Trusted'
  <2>1. inbox' = Append(inbox, r)
    <3>1. PICK S : S = Actions \cup {r}
      OBVIOUS
    <3>2. inbox \in Seq(S) /\ r \in S
      BY <1>1, <3>1
    <3>3. inbox \o <<r>> = Append(inbox, r)
      BY <3>2
    <3> QED BY <1>1, <1>4, <3>3
  <2>2. r \in Actions
    <3>1. PICK x \in Seq(Actions), y \in Seq(Actions) : x = inbox /\ y = inbox' /\ y = Append(x, r)
      BY <1>1, <2>1
    <3>2. Len(y) = Len(x) + 1 /\ y[Len(x) + 1] = r /\ Len(x) + 1 \in 1 .. Len(y)
      BY <3>1
    <3> QED BY <3>1, <3>2
  <2> QED BY <1>1, <1>2, <1>4, <2>1, <2>2, RestsTrusted DEF Owns
<1> QED BY <1>3, <1>4

(* An operation that begins.                                               *)
LEMMA BeginsTrusted ==
  ASSUME Inv, Trusted, Tended', NEW t, Running(t), NEW j, Begins(j)
  PROVE  Trusted'
<1>1. proc = "tui" /\ phase \in {"commit", "effects"}
  BY RunningIs
<1>2. queue' = queue /\ inbox' = inbox /\ ui' = ui /\ disk' = disk /\ phase' = "effects"
  BY DEF Begins
<1> QED BY <1>1, <1>2, RestsTrusted

(* A report of what an operation did says nothing of the env files.        *)
LEMMA OwnsAre ==
  /\ \A s : \A t \in Reports \ {"ENVS_STATUS"} : Owns(Report(t, s))
  /\ \A a : Owns(Told("NUKE_OK", a))
BY DEF Owns, Report, Told, Reports, KeyTypes

(* The operations that end.                                                *)
LEMMA OperationTrusted ==
  ASSUME Inv, Inv', Trusted, OperationEnds
  PROVE  Trusted'
<1>1. proc = "tui" /\ job # Idle /\ job' = Idle /\ phase = "effects"
  BY DEF OperationEnds, Inv, TuiInv, Flow
<1>2. PICK reports : /\ Ends(reports)
                     /\ reports = CASE job.kind = "write" /\ job.failed -> <<Report("WRITE_FAILED", Head(queue).rollback)>>
                                    [] job.kind = "undo" /\ ~job.failed /\ Readable -> <<Report("UNDO_OK", disk.store)>>
                                    [] job.kind = "nuke" /\ job.failed  -> <<Report("NUKE_FAILED", Head(queue).rollback)>>
                                    [] job.kind = "nuke" /\ ~job.failed -> <<Told("NUKE_OK", "none")>>
                                    [] OTHER -> <<>>
  BY DEF OperationEnds
<1>3. reports = <<>> \/ \E r : reports = <<r>> /\ Owns(r)
  <2>1. {"WRITE_FAILED", "UNDO_OK", "NUKE_FAILED"} \subseteq Reports \ {"ENVS_STATUS"}
    BY DEF Reports
  <2> QED BY <1>2, <2>1, OwnsAre
<1> QED BY <1>1, <1>2, <1>3, EndsTrusted

(* The effects that run.                                                   *)
LEMMA RunsTrusted ==
  ASSUME Inv, Inv', Trusted, RunEffect, proc' = "tui"
  PROVE  Trusted'
<1>0. ASSUME NEW t, Running(t), job' = job, NEW reports, Ends(reports), reports = <<>> \/ \E r : reports = <<r>> /\ Owns(r)
      PROVE  Trusted'
  <2>1. proc = "tui" /\ phase \in {"commit", "effects"} /\ job' = Idle
    BY <1>0, RunningIs
  <2> QED BY <1>0, <2>1, EndsTrusted
<1>1. CASE RunWrite
  BY <1>1, RunWriteSteady, BeginsTrusted DEF RunWrite
<1>2. CASE RunUndo
  <2>1. Running("restore-backup")
    BY <1>2 DEF RunUndo
  <2>2. CASE disk.bak # Missing /\ Begins(UndoJob)
    BY <2>1, <2>2, RunUndoSteady, BeginsTrusted
  <2>3. CASE Ends(<<>>) /\ job' = job
    BY <1>0, <2>1, <2>3
  <2> QED BY <1>2, <2>2, <2>3 DEF RunUndo
<1>3. CASE RunExport
  <2>1. Running("export-envs")
    BY <1>3 DEF RunExport
  <2>2. CASE Whole(disk.keys) /\ Begins(ExportJob)
    BY <2>1, <2>2, RunExportSteady, BeginsTrusted
  <2>3. CASE Ends(<<>>) /\ job' = job
    BY <1>0, <2>1, <2>3
  <2> QED BY <1>3, <2>2, <2>3 DEF RunExport
<1>4. CASE RunNuke
  <2>1. Running("nuke")
    BY <1>4 DEF RunNuke
  <2>2. PICK nuke : nuke = Head(queue)
    OBVIOUS
  <2>3. CASE Begins(NukeJob(nuke.kind, nuke.store))
    <3>1. PICK j : j = NukeJob(nuke.kind, nuke.store)
      OBVIOUS
    <3>2. j.kind = "nuke" /\ job' = j
      BY <2>3, <3>1, JobHas DEF NukeJob, Begins
    <3>3. job' # job
      BY <2>1, <3>2, RunningIs, IdleHas
    <3> QED BY <1>4, <2>1, <2>3, <3>3, RunNukeSteady, BeginsTrusted
  <2>4. CASE Ends(<<Report("NUKE_FAILED", nuke.rollback)>>) /\ job' = job
    <3>1. "NUKE_FAILED" \in Reports \ {"ENVS_STATUS"}
      BY DEF Reports
    <3> QED BY <1>0, <2>1, <2>4, <3>1, OwnsAre
  <2> QED BY <1>4, <2>2, <2>3, <2>4, Zenon DEF RunNuke
<1>5. CASE RunCheckEnvs
  <2>1. Running("check-envs") /\ job' = job
        /\ Ends(IF disk.keys = Torn THEN <<>> ELSE <<Told("ENVS_STATUS", EnvFileStatus)>>)
    BY <1>5 DEF RunCheckEnvs
  <2>2. Head(queue).type = "check-envs"
    BY <2>1, RunningIs
  <2>3. Owns(Told("ENVS_STATUS", EnvFileStatus))
    <3>1. PICK r : r = Told("ENVS_STATUS", EnvFileStatus)
      OBVIOUS
    <3>2. r.type = "ENVS_STATUS" /\ r.arg = EnvFileStatus
      BY <3>1 DEF Told
    <3>3. EnvFileStatus = "ok" => disk.env = disk.keys
      BY DEF EnvFileStatus
    <3> QED BY <2>2, <3>1, <3>2, <3>3 DEF Owns, Same, KeyTypes
  <2> QED BY <1>0, <2>1, <2>3
<1>6. CASE RunPush
  BY <1>0, <1>6 DEF RunPush
<1>7. CASE RunExit
  <2>1. proc = "tui" /\ phase \in {"commit", "effects"} /\ queue # <<>> /\ job = Idle
    BY <1>7, RunningIs DEF RunExit
  <2>2. /\ queue' = Append(Tail(queue), Head(queue)) /\ phase' = "effects" /\ ui' = ui /\ inbox' = inbox /\ disk' = disk
        /\ job' = job
    BY <1>7 DEF RunExit
  <2>3. Tended'
    BY <2>1, <2>2 DEF Tended
  <2> QED BY <2>1, <2>2, <2>3, RestsTrusted
<1>8. CASE OperationEnds
  BY <1>8, OperationTrusted
<1> QED BY <1>1, <1>2, <1>3, <1>4, <1>5, <1>6, <1>7, <1>8 DEF RunEffect

(* Every step keeps a claim that the env files are fresh true.             *)
LEMMA TrustedKeeps ==
  ASSUME Inv, Inv', Trusted, [Next]_vars
  PROVE  Trusted'
<1>1. CASE proc' # "tui"
  <2>1. ui' = Dashboard /\ inbox' = <<>> /\ queue' = <<>>
    BY <1>1 DEF Inv, TuiInv, Flow
  <2> QED BY <1>1, <2>1, DownFresh DEF Trusted
<1>2. ASSUME proc' = "tui" PROVE Trusted'
  <2>1. CASE (Call \/ CallFails) /\ UNCHANGED tuiVars
    <3>1. proc = "tui" /\ job # Idle
      BY <1>2, <2>1, SameJob, IdleHas DEF Call, CallFails
    <3>2. ui' = ui /\ queue' = queue /\ inbox' = inbox /\ phase' = phase /\ phase = "effects"
      BY <2>1, <3>1 DEF tuiVars, Inv, TuiInv, Flow
    <3>3. Rests
      BY <3>1, <3>2, RestsAre
    <3> QED BY <2>1, <3>3, RestsScreen, CallFresh DEF Trusted
  <2>2. CASE CommandEnds \/ InitKeys \/ Encrypt \/ Decrypt \/ Import \/ Repair \/ Crash
    BY <1>2, <2>2 DEF CommandEnds, InitKeys, Encrypt, Decrypt, Import, Repair, Crash, Command
  <2>3. CASE Start
    <3>1. proc # "tui" /\ proc = "none"
      BY <2>3 DEF Start
    <3>2. job = Idle /\ ui = Dashboard /\ inbox = <<>> /\ queue = <<>>
      BY <3>1, NoTui DEF Inv, TuiInv, Flow
    <3>3. job' = Idle /\ ui' = Dashboard /\ inbox' = <<>> /\ queue' = <<>>
      BY <2>3, <3>2 DEF Start
    <3> QED BY <3>3, DownFresh DEF Trusted
  <2>4. CASE Press
    <3>1. /\ proc = "tui" /\ phase \in {"wait", "commit"} /\ disk' = disk /\ proc' = proc /\ job' = job /\ ui' = ui
          /\ queue' = queue /\ phase' = phase
      BY <2>4 DEF Press
    <3>2. job = Idle
      BY <3>1 DEF Inv, TuiInv, Flow
    <3>3. PICK key \in Keymap : inbox' = Append(inbox, key)
      BY <2>4 DEF Press
    <3>4. key \in Keystrokes /\ Fitting(key)
      BY KeymapIs, KeymapFits DEF Offered, Inv, TuiInv, TuiType
    <3>5. key \in Actions /\ key.type # "ENVS_STATUS"
      BY <3>4 DEF Actions, Keystrokes, KeyTypes
    <3>6. Tended'
      BY <3>1, <3>2 DEF Tended
    <3> QED BY <3>1, <3>3, <3>4, <3>5, <3>6, RestsTrusted
  <2>5. CASE GitPushed
    <3>1. /\ phase \in {"wait", "commit"} /\ disk' = disk /\ proc' = proc /\ job' = job /\ ui' = ui
          /\ queue' = queue /\ phase' = phase
      BY <2>5 DEF GitPushed
    <3>2. proc = "tui" /\ job = Idle
      BY <1>2, <3>1 DEF Inv, TuiInv, Flow
    <3>3. PICK r \in Messages : r = Told("GIT_DONE", "none") /\ r.type = "GIT_DONE"
      BY ToldIs DEF Reports
    <3>4. r \in Actions /\ inbox' = Append(inbox, r) /\ r.type # "ENVS_STATUS" /\ r.type \notin KeyTypes
      BY <2>5, <3>3 DEF Actions, GitPushed, KeyTypes
    <3>5. Tended'
      BY <3>1, <3>2 DEF Tended
    <3> QED BY <3>1, <3>2, <3>4, <3>5, RestsTrusted
  <2>6. CASE Reduction
    BY <2>6, ReductionScreen, ReductionFresh DEF Trusted
  <2>7. CASE RunEffect
    BY <1>2, <2>7, RunsTrusted
  <2>8. CASE UNCHANGED vars
    <3>1. /\ ui' = ui /\ inbox' = inbox /\ queue' = queue /\ phase' = phase /\ disk' = disk /\ job' = job /\ proc' = proc
      BY <2>8 DEF vars
    <3>2. NukeScreen'
      BY <3>1 DEF Trusted, NukeScreen, Nuking, OnNuke, Foreign, Asked
    <3>3. NukeQueue'
      BY <3>1 DEF Trusted, NukeQueue, FullWaits, Looks, Looked, Confirmed
    <3>4. Tended' /\ Fresh'
      BY <3>1 DEF Trusted, Tended, InFull, Fresh, Claims
    <3> QED BY <3>2, <3>3, <3>4 DEF Trusted
  <2> QED BY <2>1, <2>2, <2>3, <2>4, <2>5, <2>6, <2>7, <2>8 DEF Next
<1> QED BY <1>1, <1>2

(* At rest the envs tab never calls fresh an env file of another keyring,     *)
(* whatever fails: no key on that tab changes the keyring behind it, and a    *)
(* full nuke, which does, leaves its own tab only when it is over             *)
(* (UPDATE_ENVS, TAB_MOVE, envFileStatus).                                    *)
THEOREM EnvsAsShown == Spec => []FreshIsFresh
<1>1. Init => Trusted
  <2> SUFFICES ASSUME Init PROVE Trusted
    OBVIOUS
  <2>1. ui = Dashboard /\ inbox = <<>> /\ queue = <<>> /\ proc = "none"
    BY DEF Init, FileInit
  <2>2. Dashboard.tab = "fields" /\ Dashboard.mode = "dashboard" /\ Dashboard.kind = "none"
    BY DEF Dashboard
  <2>3. DOMAIN inbox = {} /\ DOMAIN queue = {}
    BY <2>1
  <2>4. Foreign = 0 /\ Asked = 0 /\ Confirmed = 0
    BY <2>1, CountEmpty DEF Foreign, Asked, Confirmed
  <2>5. ~Nuking /\ ~OnNuke /\ ~FullWaits /\ ~Claims
    BY <2>1, <2>2, <2>3 DEF Nuking, NukeKinds, OnNuke, NukeModes, FullWaits, Claims
  <2>6. NukeScreen /\ NukeQueue
    BY <2>4, <2>5 DEF NukeScreen, NukeQueue
  <2> QED BY <2>1, <2>5, <2>6 DEF Trusted, Tended, Fresh
<1>2. Trusted => FreshIsFresh
  BY DEF Trusted, Fresh, Claims, Same, FreshIsFresh
<1>3. Inv /\ Inv' /\ Trusted /\ [Next]_vars => Trusted'
  BY TrustedKeeps
<1> QED BY <1>1, <1>2, <1>3, Invariant, PTL DEF Spec
=============================================================================
