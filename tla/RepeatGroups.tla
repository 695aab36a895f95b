---------------------------- MODULE RepeatGroups ----------------------------
(***************************************************************************)
(* The rows that both repeat workflows share: the units of one enabled     *)
(* repeat policy, their groups of equal sources and the decisions about    *)
(* them (weblate/trans/repeats.py, weblate/trans/models/repeat.py).  The   *)
(* actions here are those of people: translating, approving, deciding a    *)
(* group by hand and undoing the last decision.                            *)
(*                                                                         *)
(* Every group also has one member that carries the text "shared" and is   *)
(* never edited, so a group has one variant only when all its units are    *)
(* "shared", which is the text that every decision spreads.                *)
(***************************************************************************)
EXTENDS Naturals, FiniteSets, Sequences

CONSTANTS
    Groups,      \* RepeatGroup rows of the policy, numbered in the order of
                 \* queue_importance: what a plan would send first is lowest
    Units,       \* their editable units
    GroupOf,     \* GroupOf[u]: the group whose source the unit has
    Workers,     \* Celery processes
    Allowances,  \* bound: how many requests, edits and faults may happen,
                 \* by kind; a behaviour starts with one of them
    None         \* no holder, no context

ASSUME RepeatAssumption ==
    /\ Groups \subseteq Nat
    /\ GroupOf \in [Units -> Groups]
    /\ Allowances \subseteq [{"people", "recommend", "bulk"} -> Nat]
    /\ IsFiniteSet(Groups) /\ IsFiniteSet(Units)
    /\ None \notin Workers /\ "planner" \notin Workers /\ None # "planner"

VARIABLES
    unit,       \* Unit
    group,      \* RepeatGroup
    event,      \* RepeatDecisionEvent rows "apply" of each group
    permitted,  \* the actor has project.edit and sees the units
    policyLock, \* who holds the row lock of the RepeatPolicy across steps
    author,     \* history: revision of the decision that wrote the text, or 0
    touched,    \* history: groups changed since the planner's first read
    allowance   \* bound: what is left of the allowance

groupVars == <<unit, group, event, permitted, policyLock, author, touched, allowance>>

Texts == {"shared", "other", "own"}

UnitRow == [text : Texts, approved : BOOLEAN]

GroupRow == [revision : Nat, decision : {"open", "shared", "independent"}]

Members(g) == {u \in Units : GroupOf[u] = g}

(* group_revision, and what the result of the event says was written.       *)
EventRow == [revision : Nat, written : SUBSET Units, old : [Units -> Texts]]

(* build_group_context: all that a recommendation and a batch item freeze.  *)
Context(g) == [group |-> group[g], units |-> [u \in Members(g) |-> unit[u]]]

Contexts == [group : GroupRow, units : UNION {[Members(g) -> UnitRow] : g \in Groups}]

GroupsTypeOK ==
    /\ unit \in [Units -> UnitRow]
    /\ group \in [Groups -> GroupRow]
    /\ event \in [Groups -> SUBSET EventRow]
    /\ \A g \in Groups : \A e \in event[g] : e.written \subseteq Members(g)
    /\ permitted \in BOOLEAN
    /\ policyLock \in Workers \cup {"planner", None}
    /\ author \in [Units -> Nat]
    /\ touched \subseteq Groups
    /\ allowance \in [{"people", "recommend", "bulk"} -> Nat]

GroupsInit ==
    /\ unit = [u \in Units |-> [text |-> "other", approved |-> FALSE]]
    /\ group = [g \in Groups |-> [revision |-> 1, decision |-> "open"]]
    /\ event = [g \in Groups |-> {}]
    /\ permitted = TRUE
    /\ policyLock = None
    /\ author = [u \in Units |-> 0]
    /\ touched = {}
    /\ allowance \in Allowances

Request(kind) ==
    /\ allowance[kind] > 0
    /\ allowance' = [allowance EXCEPT ![kind] = @ - 1]
-----------------------------------------------------------------------------
(* Decisions; each runs with the group and its policy locked.              *)

(* Unit.translate with the target for the given units of the group.         *)
Spread(g, S) ==
    /\ unit' = [u \in Units |-> IF u \in S THEN [unit[u] EXCEPT !.text = "shared"]
                                ELSE unit[u]]
    /\ author' = [u \in Units |-> IF u \in S THEN group[g].revision ELSE author[u]]

Decided(g, decision) ==
    /\ group' = [group EXCEPT ![g] = [revision |-> @.revision + 1, decision |-> decision]]
    /\ touched' = touched \cup {g}

(* Members that an apply may write: those approved with another text keep   *)
(* it, and those with the text already have it.                             *)
Changing(g) == {u \in Members(g) : unit[u].text # "shared" /\ ~unit[u].approved}

(* apply_preview, once its fingerprints have matched.                       *)
MutApplyDecision(g) ==
    /\ Spread(g, Changing(g))
    /\ Decided(g, "shared")
    /\ UNCHANGED event
ApplyDecision(g) ==
    /\ Spread(g, Changing(g))
    /\ Decided(g, "shared")
    /\ event' = [event EXCEPT ![g] = @ \cup
                   {[revision |-> group[g].revision, written |-> Changing(g),
                     old |-> [u \in Units |-> unit[u].text]]}]

(* No decision about the group came after the event.                        *)
MutIsLast(g, e) == TRUE
IsLast(g, e) == group[g].revision = e.revision + 1

(* Recipients that still have what the event wrote.                         *)
Unchanged(e) == {u \in e.written : ~unit[u].approved /\ unit[u].text = "shared"}

(* undo_event.                                                              *)
UndoDecision(g, e) ==
    /\ unit' = [u \in Units |-> IF u \in Unchanged(e)
                                THEN [unit[u] EXCEPT !.text = e.old[u]] ELSE unit[u]]
    /\ author' = [u \in Units |-> IF u \in Unchanged(e) THEN 0 ELSE author[u]]
    /\ Decided(g, "open")
    /\ UNCHANGED event
-----------------------------------------------------------------------------
(* People.                                                                 *)

Edit(u, text) ==
    /\ Request("people")
    /\ text # unit[u].text
    /\ unit' = [unit EXCEPT ![u] = [text |-> text, approved |-> FALSE]]
    /\ author' = [author EXCEPT ![u] = 0]
    /\ touched' = touched \cup {GroupOf[u]}
    /\ UNCHANGED <<group, event, permitted, policyLock>>

Approve(u) ==
    /\ Request("people")
    /\ ~unit[u].approved
    /\ unit' = [unit EXCEPT ![u].approved = TRUE]
    /\ touched' = touched \cup {GroupOf[u]}
    /\ UNCHANGED <<group, event, permitted, policyLock, author>>

RightsChange ==
    /\ Request("people")
    /\ permitted' = ~permitted
    /\ UNCHANGED <<unit, group, event, policyLock, author, touched>>

DecideByHand(g) ==
    /\ Request("people")
    /\ policyLock = None
    /\ ApplyDecision(g)
    /\ UNCHANGED <<permitted, policyLock>>

(* keep_group_independent.                                                  *)
KeepIndependent(g) ==
    /\ Request("people")
    /\ policyLock = None
    /\ Decided(g, "independent")
    /\ UNCHANGED <<unit, event, permitted, policyLock, author>>

UndoByHand(g) ==
    /\ Request("people")
    /\ permitted /\ policyLock = None
    /\ \E e \in event[g] : IsLast(g, e) /\ UndoDecision(g, e)
    /\ UNCHANGED <<permitted, policyLock>>

PeopleNext ==
    \/ \E u \in Units : Approve(u) \/ \E text \in Texts : Edit(u, text)
    \/ RightsChange
    \/ \E g \in Groups : DecideByHand(g) \/ KeepIndependent(g) \/ UndoByHand(g)
=============================================================================
