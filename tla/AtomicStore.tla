---------------------------- MODULE AtomicStore ----------------------------
(***************************************************************************)
(* What the credential tools promise of the store they keep on disk,       *)
(* whatever files they keep it in: every change of it is one step, an undo *)
(* returns what the last change replaced, and one crash or one failing     *)
(* write leaves the store as it was before or after the operation that it  *)
(* interrupted, though it may cost the backup.  CredTui is shown to        *)
(* implement it.                                                           *)
(*                                                                         *)
(* Parameters: Stores, the stores there are; None, no store; Lost, a store *)
(* nobody can read any more.                                               *)
(***************************************************************************)
CONSTANTS Stores, None, Lost

VARIABLES
    current,    \* the store an operator can read, from the file or, when that is damaged, its backup
    previous,   \* what an undo would bring back
    damaged,    \* the file itself is unreadable: the current store is the backup's
    hurt        \* a crash or a failing write has happened

vars == <<current, previous, damaged, hurt>>

TypeOK ==
    /\ current \in Stores \cup {None, Lost}
    /\ previous \in Stores \cup {None, Lost}
    /\ damaged \in BOOLEAN
    /\ hurt \in BOOLEAN

Init == current = None /\ previous = None /\ damaged = FALSE /\ hurt = FALSE

\* A new store: what it replaces becomes the backup, unless there was none.
Save ==
    /\ current' \in Stores
    /\ previous' = IF damaged THEN Lost ELSE IF current = None THEN previous ELSE current
    /\ damaged' = FALSE
    /\ UNCHANGED hurt

\* The backup over the store; undoing a damaged backup loses both.
Undo ==
    /\ previous # None
    /\ current' = previous
    /\ damaged' = (previous = Lost)
    /\ UNCHANGED <<previous, hurt>>

\* The operator puts the backup in the place of a damaged store, or removes it.
Repair ==
    /\ damaged
    /\ current' = IF current = Lost THEN None ELSE current
    /\ damaged' = FALSE
    /\ UNCHANGED <<previous, hurt>>

\* The one crash or failing write: the store is the one before or the one after
\* the change or the undo it interrupted.
Fault ==
    /\ ~hurt
    /\ hurt' = TRUE
    /\ damaged' \in BOOLEAN
    /\ \/ current' = current /\ previous' \in {previous, current, Lost, None}
       \/ previous # None /\ current' = previous /\ UNCHANGED previous
       \/ current' \in Stores /\ previous' = (IF current = None THEN previous ELSE current)

Next == Save \/ Undo \/ Repair \/ Fault

Spec == Init /\ [][Next]_vars
=============================================================================
