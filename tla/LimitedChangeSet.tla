-------------------------- MODULE LimitedChangeSet --------------------------
(***************************************************************************)
(* containers.LimitedChangeSet: a set in which each key may be changed     *)
(* once per commit and some never, and whose changes since the commit can  *)
(* be rolled back to any point.                                            *)
(***************************************************************************)
EXTENDS Naturals, Sequences

Seqs == INSTANCE SequencesExt

CONSTANTS
  Keys,
  Effective   \* nobody adds a key that is there or removes one that is not

ASSUME EffectiveAssumption == Effective \in BOOLEAN

VARIABLES
  new,           \* _new, the contents
  changed,       \* _changed
  change_order,  \* _change_order
  orig,          \* _orig
  blacklist,     \* _blacklist
  raised,        \* the exception the last call ended with, or ""
  initial,       \* history: the initial contents
  saved          \* history: the contents after each change since the last commit

vars == <<new, changed, change_order, orig, blacklist, raised, initial, saved>>

Changes == {"added", "removed"} \X Keys

\* __init__
Init ==
  /\ new \in SUBSET Keys
  /\ blacklist \in SUBSET Keys
  /\ changed = {}
  /\ change_order = <<>>
  /\ orig = new
  /\ raised = ""
  /\ initial = new
  /\ saved = <<new>>

---------------------------------------------------------------------------

Fixed(key) == key \in changed \/ key \in blacklist

\* The call ends without having changed anything.
End(exception) ==
  /\ raised' = exception
  /\ UNCHANGED <<new, changed, change_order, orig, blacklist, initial, saved>>

\* Faulty variant: key and kind of change are swapped in _change_order.
RecordSwapped(change, key, contents) ==
  /\ new' = contents
  /\ changed' = changed \cup {key}
  /\ change_order' = Append(change_order, <<key, change>>)
  /\ saved' = Append(saved, contents)
  /\ raised' = ""
  /\ UNCHANGED <<orig, blacklist, initial>>

\* One more change, which leaves the set with these contents.
Record(change, key, contents) ==
  /\ new' = contents
  /\ changed' = changed \cup {key}
  /\ change_order' = Append(change_order, <<change, key>>)
  /\ saved' = Append(saved, contents)
  /\ raised' = ""
  /\ UNCHANGED <<orig, blacklist, initial>>

\* Faulty variant: only keys that were deleted are guarded.
AddAgain(key) ==
  \/ key \in blacklist /\ End(IF key \in new THEN "" ELSE "Unchangable")
  \/ /\ key \notin blacklist
     /\ (Effective /\ key \in new) => key \in changed
     /\ Record("added", key, new \cup {key})

\* Faulty variant: the change is not written down.
AddUnrecorded(key) ==
  \/ Fixed(key) /\ End(IF key \in new THEN "" ELSE "Unchangable")
  \/ /\ ~Fixed(key)
     /\ Effective => key \notin new
     /\ new' = new \cup {key}
     /\ saved' = [saved EXCEPT ![Len(saved)] = new']
     /\ raised' = ""
     /\ UNCHANGED <<changed, change_order, orig, blacklist, initial>>

Add(key) ==
  \/ Fixed(key) /\ End(IF key \in new THEN "" ELSE "Unchangable")
  \/ /\ ~Fixed(key)
     /\ Effective => key \notin new
     /\ Record("added", key, new \cup {key})

\* Faulty variant: the keys that cannot be changed can be removed.
RemoveBlacklisted(key) ==
  \/ key \in changed /\ End(IF key \in new THEN "Unchangable" ELSE "KeyError")
  \/ /\ key \notin changed
     /\ Effective => key \in new
     /\ Record("removed", key, new \ {key})

Remove(key) ==
  \/ Fixed(key) /\ End(IF key \in new THEN "Unchangable" ELSE "KeyError")
  \/ /\ ~Fixed(key)
     /\ Effective => key \in new
     /\ Record("removed", key, new \ {key})

Commit ==
  /\ orig' = new
  /\ changed' = {}
  /\ change_order' = <<>>
  /\ saved' = <<new>>
  /\ raised' = ""
  /\ UNCHANGED <<new, blacklist, initial>>

\* Faulty variant: one change more is undone than is asked for.
UndoOneMore(point) ==
  Seqs!FoldRight(LAMBDA change, contents :
              IF change[1] = "removed" THEN contents \cup {change[2]}
                                       ELSE contents \ {change[2]},
            SubSeq(change_order, IF point = 0 THEN 1 ELSE point, Len(change_order)), new)

\* The contents once the changes after the first `point` are undone, last one first.
Undo(point) ==
  Seqs!FoldRight(LAMBDA change, contents :
              IF change[1] = "removed" THEN contents \cup {change[2]}
                                       ELSE contents \ {change[2]},
            SubSeq(change_order, point + 1, Len(change_order)), new)

Rollback(point) ==
  \/ point > Len(change_order) /\ End("TypeError")
  \/ /\ point <= Len(change_order)
     /\ new' = Undo(point)
     /\ changed' = changed \ {change_order[i][2] : i \in point + 1..Len(change_order)}
     /\ change_order' = SubSeq(change_order, 1, point)
     /\ saved' = SubSeq(saved, 1, point + 1)
     /\ raised' = ""
     /\ UNCHANGED <<orig, blacklist, initial>>

Next ==
  \/ \E key \in Keys : Add(key) \/ Remove(key)
  \/ Commit
  \/ \E point \in 0..Len(change_order) + 1 : Rollback(point)

Spec == Init /\ [][Next]_vars

---------------------------------------------------------------------------

TypeOK ==
  /\ new \in SUBSET Keys
  /\ changed \in SUBSET Keys
  /\ change_order \in Seq(Changes)
  /\ orig \in SUBSET Keys
  /\ blacklist \in SUBSET Keys
  /\ raised \in {"", "Unchangable", "KeyError", "TypeError"}
  /\ initial \in SUBSET Keys
  /\ saved \in Seq(SUBSET Keys)

\* However changes, commits and rollbacks to any point follow on each other, the
\* contents are what they were at the point that was rolled back to.
RollbackRestores == new = saved[Len(change_order) + 1]

\* A key is changed once per commit: _changed is what _change_order is about, and
\* no key is in it twice.
OncePerCommit ==
  /\ changed = {change_order[i][2] : i \in 1..Len(change_order)}
  /\ \A i, j \in 1..Len(change_order) :
       change_order[i][2] = change_order[j][2] => i = j

\* Without a change there is no difference from the last commit, and with one there
\* is, in just the keys that were changed: changes_count() is 0 only for no change.
DifferenceIsTheChange == (new \ orig) \cup (orig \ new) = changed

\* The keys that cannot be changed are there, or not, as they were at the beginning.
UnchangableKept == \A key \in blacklist : key \in new <=> key \in initial
=============================================================================
