--------------------------- MODULE PendingChanges ---------------------------
(***************************************************************************)
(* Pending changes of one translation file: translators save units         *)
(* (PendingUnitChange in weblate/trans/models/pending.py), commits write   *)
(* them to the file author by author (Translation._commit_pending), updates *)
(* merge what upstream changed, and loads compare the file with the        *)
(* database (check_sync, Unit.update_from_unit).                           *)
(*                                                                         *)
(* The file is outside the database: a commit that fails half-way rolls    *)
(* back its rows and leaves what it wrote.  The repository lock serializes *)
(* commits, updates and loads, not translators.                            *)
(***************************************************************************)
EXTENDS Naturals, Sequences, SequencesExt

CONSTANTS
    Units,
    Editors,         \* requests of translators; each has its own author
    MaxTexts,        \* bound: texts that translators and upstream write
    MaxDisturbances, \* bound: failures, crashes, upstream changes, weeks
    Gone,            \* not in the file, or not in the database
    Held,            \* a text whose state a failure set to needs editing
    None

Texts == 0 .. MaxTexts
Contents == Texts \cup {Gone}

ASSUME PendingAssumption ==
    /\ {MaxTexts, MaxDisturbances} \subseteq Nat
    /\ {Gone, Held, None} \cap (Nat \cup [Units -> Contents]) = {}
    /\ Gone # Held /\ Gone # None /\ Held # None
    /\ None \notin Units

VARIABLES
    pending,      \* PendingUnitChange rows
    unit,         \* the units: target, and disk_state if there is one
    revision,     \* Translation.revision: the file whose hash was stored
    file,         \* what the file holds for each unit
    commit,       \* the transaction of the running commit
    load,         \* a create_translations was asked for
    editor,       \* the unit each translator's request has read
    \* history and bounds
    clock,        \* newest text
    passing,      \* texts the commit policy lets into the file
    shown,        \* newest translator's text the file had since it was loaded
    missed,       \* units whose comparison state went wrong, see the steps
    disturbances

db == <<pending, unit, revision>>
history == <<clock, passing, shown, missed>>
vars == <<db, file, commit, load, editor, history, disturbances>>

(* Texts are numbered in the order they come up, so that the text of a row  *)
(* stands for its timestamp and its primary key.  good: its state qualifies *)
(* under the commit policy; at: the revision of the last failure, None      *)
(* without one or when a week went by.                                      *)
Rows == [text : Texts, unit : Units, author : Editors, good : BOOLEAN,
         blocking : BOOLEAN, at : [Units -> Contents] \cup {None}]

NoCommit == [pc |-> "idle", updating |-> FALSE, groups |-> <<>>, ok |-> {},
             failed |-> {}, locked |-> {}, revision |-> None, unread |-> {}]

Closed == [unit |-> None, marked |-> FALSE]

TypeOK ==
    /\ pending \subseteq Rows
    /\ unit \in [Units -> [target : Contents \cup {Held},
                           disk : Texts \cup {Held, None}]]
    /\ {revision, file} \subseteq [Units -> Contents]
    /\ commit.pc \in {"idle", "open", "merge"}
    /\ commit.updating \in BOOLEAN
    /\ \A i \in DOMAIN commit.groups : commit.groups[i] \subseteq Rows
    /\ commit.ok \cup commit.failed \subseteq Rows
    /\ commit.locked \cup commit.unread \cup missed \subseteq Units
    /\ commit.revision \in [Units -> Contents] \cup {None}
    /\ load \in BOOLEAN
    /\ editor \in [Editors -> [unit : Units \cup {None}, marked : BOOLEAN]]
    /\ clock \in Texts
    /\ passing \subseteq Contents
    /\ shown \in [Units -> Texts]
    /\ disturbances \in 0 .. MaxDisturbances

Init ==
    /\ pending = {}
    /\ unit = [u \in Units |-> [target |-> 0, disk |-> None]]
    /\ file = [u \in Units |-> 0] /\ revision = file
    /\ commit = NoCommit
    /\ load = FALSE
    /\ editor = [e \in Editors |-> Closed]
    /\ clock = 0 /\ passing = {0}
    /\ shown = [u \in Units |-> 0]
    /\ missed = {}
    /\ disturbances = 0

Disturb == disturbances < MaxDisturbances /\ disturbances' = disturbances + 1

UnitsOf(S) == {r.unit : r \in S}
Newest(S) == Max({r.text : r \in S})
OfUnit(S, u) == {r \in S : r.unit = u}

-----------------------------------------------------------------------------
(* Translators.                                                             *)

(* A request that will save reads the unit, without a lock ...              *)
Open(e, u) ==
    /\ editor[e] = Closed /\ unit[u].target # Gone
    /\ editor' = [editor EXCEPT ![e] = [unit |-> u, marked |-> unit[u].disk # None]]
    /\ UNCHANGED <<db, file, commit, load, history, disturbances>>

(* ... and saves it: Unit.translate locks the row and reads the old target, *)
(* store_disk_state asks the details that were read before.                 *)
Snapshot(e, u) ==
    IF editor[e].marked THEN unit[u].disk ELSE unit[u].target

Save(e, good) ==
    LET u == editor[e].unit IN
    /\ u # None /\ u \notin commit.locked /\ clock < MaxTexts
    /\ clock' = clock + 1
    /\ pending' = pending \cup
         {[text |-> clock', unit |-> u, author |-> e, good |-> good,
           blocking |-> FALSE, at |-> None]}
    /\ unit' = [unit EXCEPT ![u] = [target |-> clock', disk |-> Snapshot(e, u)]]
    /\ editor' = [editor EXCEPT ![e] = Closed]
    /\ passing' = IF good THEN passing \cup {clock'} ELSE passing
    /\ missed' = IF editor[e].marked = (unit[u].disk # None) THEN missed
                                                            ELSE missed \cup {u}
    /\ UNCHANGED <<revision, file, commit, load, shown, disturbances>>

-----------------------------------------------------------------------------
(* Which rows a commit takes.                                               *)

(* Never failed, or since then the file or a week went by.                  *)
Eligible(r) == r.at # revision

(* A row that failed because its unit was not found holds back the later    *)
(* ones.                                                                    *)
Blocked(r) ==
    \E q \in OfUnit(pending, r.unit) : q.text < r.text /\ q.blocking /\ ~Eligible(q)

MutPasses(r) == TRUE
(* Everything up to the latest row that qualifies, committed or not.        *)
Passes(r) == \E q \in OfUnit(pending, r.unit) : q.good /\ r.text <= q.text

Selected == {r \in pending : Eligible(r) /\ ~Blocked(r) /\ Passes(r)}

MutConflicts(group, r) == FALSE
(* Another author's group that holds the same unit must be finished first.  *)
Conflicts(group, r) ==
    \E q \in group : q.unit = r.unit /\ q.author # r.author

ByAuthor(group, r) == \E q \in group : q.author = r.author

(* One step of _group_changes_by_author: the group in conflict, of which    *)
(* there is at most one, is finished, and the author's group gets the row.  *)
AddChange(groups, r) ==
    LET clash == {i \in DOMAIN groups.active : Conflicts(groups.active[i], r)}
        closed == CHOOSE i \in clash : TRUE
        rest == IF clash = {} THEN groups.active ELSE RemoveAt(groups.active, closed)
    IN  [done   |-> IF clash = {} THEN groups.done
                    ELSE Append(groups.done, groups.active[closed]),
         active |-> IF \E i \in DOMAIN rest : ByAuthor(rest[i], r)
                    THEN [i \in DOMAIN rest |->
                            IF ByAuthor(rest[i], r) THEN rest[i] \cup {r} ELSE rest[i]]
                    ELSE Append(rest, {r})]

(* In the order of the texts, no two of which are the same.                 *)
Groups(S) ==
    LET grouped[n \in Texts] ==
            LET before == IF n = 0 THEN [done |-> <<>>, active |-> <<>>] ELSE grouped[n - 1]
                rows == {r \in S : r.text = n}
            IN  IF rows = {} THEN before ELSE AddChange(before, CHOOSE r \in rows : TRUE)
    IN  grouped[MaxTexts].done \o grouped[MaxTexts].active

-----------------------------------------------------------------------------
(* A commit, under the repository lock: one transaction.                    *)

(* Somebody asks for a commit, or an update begins with one.  Its query    *)
(* locks the rows it takes and nothing else (of=("self",)).                 *)
Begin(updating) ==
    /\ commit.pc = "idle"
    /\ updating \/ Selected # {}
    /\ commit' = [NoCommit EXCEPT !.pc = "open", !.updating = updating,
                                  !.groups = Groups(Selected), !.revision = revision,
                                  !.unread = {u \in Units : file[u] # revision[u]}]
    /\ UNCHANGED <<db, file, load, editor, history, disturbances>>

Flush(ok) ==
    [u \in Units |-> IF u \in UnitsOf(ok) THEN Newest(OfUnit(ok, u)) ELSE file[u]]

(* update_units and git_commit for one author.  A unit that is not in the   *)
(* file fails, and the format may refuse others.  Every unit is updated,    *)
(* which locks it until the transaction ends.                               *)
WriteGroup(refused) ==
    LET group   == Head(commit.groups)
        missing == {r \in group : file[r.unit] = Gone}
        ok      == group \ (missing \cup refused)
    IN
    /\ commit.pc = "open" /\ commit.groups # <<>>
    /\ refused \subseteq group \ missing
    /\ IF refused = {} THEN UNCHANGED disturbances ELSE Disturb
    /\ file' = Flush(ok)
    /\ commit' = [commit EXCEPT
         !.groups = Tail(@),
         !.locked = @ \cup UnitsOf(group),
         !.ok = @ \cup ok,
         !.failed = @ \cup {[r EXCEPT !.blocking = r \in missing, !.at = commit.revision] :
                              r \in missing \cup refused},
         !.revision = IF ok = {} THEN @ ELSE file']
    /\ shown' = [u \in Units |-> IF u \in UnitsOf(ok) THEN Max({shown[u], file'[u]})
                                                     ELSE shown[u]]
    /\ UNCHANGED <<db, load, editor, clock, passing, missed>>

(* delete_successful_pending_changes: up to the newest one that succeeded.  *)
Applied(r) == \E q \in OfUnit(commit.ok, r.unit) : r.text <= q.text

(* The rows that stay, those that failed with their failure.                *)
Remaining ==
    {r \in pending : ~Applied(r) /\ \A f \in commit.failed : f.text # r.text}
    \cup {f \in commit.failed : ~Applied(f)}

MutDiskAfter(u) == IF u \in UnitsOf(commit.ok) THEN None ELSE unit[u].disk
(* The text just written while the unit has later changes, else none.       *)
DiskAfter(u) ==
    IF u \notin UnitsOf(commit.ok) THEN unit[u].disk
    ELSE IF u \in UnitsOf(Remaining) THEN Newest(OfUnit(commit.ok, u))
    ELSE None

(* A failure marks the unit as needing editing; no success takes that back. *)
TargetAfter(u) == IF u \in UnitsOf(commit.failed) THEN Held ELSE unit[u].target

(* The transaction commits.  Missed: units that keep the mark of a failure  *)
(* though all their changes are in the file, and what upstream changed when *)
(* it becomes part of the revision before a load has read it.               *)
Finish ==
    LET written == UnitsOf(commit.ok) IN
    /\ commit.pc = "open" /\ commit.groups = <<>>
    /\ pending' = Remaining
    /\ unit' = [u \in Units |->
                  [target |-> TargetAfter(u), disk |-> DiskAfter(u)]]
    /\ revision' = commit.revision
    /\ commit' = IF commit.updating THEN [NoCommit EXCEPT !.pc = "merge"] ELSE NoCommit
    /\ missed' = (missed \ written)
                 \cup {u \in written : TargetAfter(u) = Held /\ DiskAfter(u) = None}
                 \cup (IF written = {} THEN {} ELSE commit.unread \ written)
    /\ UNCHANGED <<file, load, editor, clock, passing, shown, disturbances>>

(* An exception or the death of the process rolls the transaction back.     *)
Abort ==
    /\ commit.pc # "idle" /\ Disturb
    /\ commit' = NoCommit
    /\ UNCHANGED <<db, file, load, editor, history>>

-----------------------------------------------------------------------------
(* Updates and loads.                                                       *)

(* do_update merges a change of a unit; the load follows without the lock.  *)
Merge(u, content) ==
    /\ commit.pc = "merge" /\ Disturb
    /\ content = Gone => file[u] # Gone
    /\ content # Gone => content = clock + 1 /\ clock < MaxTexts
    /\ clock' = IF content = Gone THEN clock ELSE content
    /\ passing' = passing \cup {content}
    /\ file' = [file EXCEPT ![u] = content]
    /\ shown' = [shown EXCEPT ![u] = 0]
    /\ load' = TRUE
    /\ commit' = NoCommit
    /\ UNCHANGED <<db, editor, missed>>

(* Nothing to merge, or a conflict.                                         *)
MergeNothing ==
    /\ commit.pc = "merge"
    /\ commit' = NoCommit
    /\ UNCHANGED <<db, file, load, editor, history, disturbances>>

(* get_comparison_state.                                                    *)
Comparison(u) == IF unit[u].disk # None THEN unit[u].disk ELSE unit[u].target

MutChanged(u) == unit[u].target # file[u]
(* update_from_unit takes the file's text when it differs from the state    *)
(* before the pending changes.                                              *)
Changed(u) == Comparison(u) # file[u]

MutAfterLoad(e) == editor[e]
(* A save finds that its unit was deleted, and fails.                       *)
AfterLoad(e) ==
    IF editor[e].unit # None /\ file[editor[e].unit] = Gone THEN Closed ELSE editor[e]

(* check_sync, under the repository lock, at any time after the merge or    *)
(* never when its worker dies.                                              *)
Load ==
    /\ commit.pc = "idle" /\ load
    /\ load' = FALSE
    /\ IF revision = file THEN UNCHANGED <<db, editor, passing, shown, missed>>
       ELSE /\ unit' = [u \in Units |-> IF Changed(u) THEN [target |-> file[u], disk |-> None]
                                                      ELSE unit[u]]
            /\ pending' = {r \in pending : ~Changed(r.unit)}
            /\ revision' = file
            /\ editor' = [e \in Editors |-> AfterLoad(e)]
            /\ missed' = {u \in missed : ~Changed(u) /\ OfUnit(pending, u) # {}}
            /\ passing' = passing \cup {file[u] : u \in Units}
            /\ shown' = [u \in Units |->
                 IF file[u] # Gone /\ file[u] < shown[u] THEN file[u] ELSE shown[u]]
    /\ UNCHANGED <<file, commit, clock, disturbances>>

(* A week after the failures, or with another version of the program, every *)
(* failed row is tried again.                                               *)
WeekPasses ==
    /\ \E r \in pending : r.at # None
    /\ commit.pc = "idle" /\ Disturb
    /\ pending' = {[r EXCEPT !.at = None] : r \in pending}
    /\ UNCHANGED <<unit, revision, file, commit, load, editor, history>>

Next ==
    \/ \E e \in Editors :
         \/ \E u \in Units : Open(e, u)
         \/ \E good \in BOOLEAN : Save(e, good)
    \/ \E updating \in BOOLEAN : Begin(updating)
    \/ \E refused \in SUBSET pending : WriteGroup(refused)
    \/ Finish \/ Abort
    \/ \E u \in Units, content \in Contents : Merge(u, content)
    \/ MergeNothing
    \/ Load
    \/ WeekPasses

Spec == Init /\ [][Next]_vars

-----------------------------------------------------------------------------
(* Loads compare the file with what the file had before: unless a step      *)
(* marked as missed came between, the comparison state of every unit is the *)
(* text it had when the hash of the file was last stored.                   *)
ComparisonIsFile == \A u \in Units \ missed : Comparison(u) = revision[u]

(* A change that disappears from the queue is in the file, or the file has  *)
(* a newer one of the unit; a load drops it only when the file's text has   *)
(* changed, or the comparison state was wrong.                              *)
Loaded == load /\ ~load'

InFile(r) == file'[r.unit] # Gone /\ r.text <= file'[r.unit]

Kept(r) == \E q \in pending' : q.text = r.text

PendingSurvives ==
    [][\A r \in pending : \/ Kept(r)
                          \/ InFile(r) /\ ~Loaded
                          \/ Loaded /\ (file[r.unit] # revision[r.unit] \/ r.unit \in missed)]_vars

(* Between commits the file shows no older text of a unit than it has shown *)
(* before, unless the newer one is still pending because its commit failed. *)
OrderKept ==
    commit.pc = "idle" =>
        \A u \in Units : file[u] # Gone /\ file[u] < shown[u] =>
            \E r \in OfUnit(pending, u) : r.text = shown[u]

(* Between commits the file shows a translator's text that does not qualify *)
(* only while a newer one that qualifies is pending (its write failed).     *)
FileIsFiltered ==
    commit.pc = "idle" =>
        \A u \in Units : file[u] \notin passing =>
            \E r \in OfUnit(pending, u) : r.good /\ file[u] < r.text

(* A load does not drop the changes of a unit whose text in the file stayed *)
(* what it was: get_comparison_state says that it "allows comparing file    *)
(* contents against the state before pending changes".                      *)
LoadKeepsEdits ==
    [][\A r \in pending : Loaded /\ file[r.unit] = revision[r.unit] => Kept(r)]_vars

(* After a load the units without pending changes show what is in the file: *)
(* check_sync says "Check whether database is in sync with git and possibly *)
(* updates".                                                                *)
LoadSyncs ==
    [][Loaded => \A u \in Units : OfUnit(pending', u) = {} => unit'[u].target = file'[u]]_vars
=============================================================================
