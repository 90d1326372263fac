----------------------------- MODULE VaultStore -----------------------------
(***************************************************************************)
(* What a vault promises to those who use it: one value, held by one       *)
(* process at a time, that is only ever replaced whole, by a later version *)
(* which has everything the value has (a compare-and-swap), and a mark     *)
(* that follows its version and is never ahead of it.                      *)
(***************************************************************************)
EXTENDS Naturals

CONSTANTS
  Proc,     \* who uses the vault
  Update,   \* changes to it
  None      \* no copy

VARIABLES
  value,    \* what is stored
  copy,     \* per process: the value it holds, changed or not
  mark,     \* the version last seen
  loose     \* the promise is off

Init ==
  /\ value = [ver |-> 1, ups |-> {}]
  /\ copy = [p \in Proc |-> None]
  /\ mark = 1
  /\ ~loose

Take(p) ==
  /\ \A q \in Proc : copy[q] = None
  /\ copy' = [copy EXCEPT ![p] = value]
  /\ UNCHANGED <<value, mark>>

Change(p) ==
  /\ copy[p] # None
  /\ \E u \in Update :
       copy' = [copy EXCEPT ![p] = [ver |-> @.ver + 1, ups |-> @.ups \cup {u}]]
  /\ UNCHANGED <<value, mark>>

Put(p) ==
  /\ copy[p] # None
  /\ value.ver < copy[p].ver /\ value.ups \subseteq copy[p].ups
  /\ value' = copy[p]
  /\ UNCHANGED <<copy, mark>>

Released(p) == [copy EXCEPT ![p] = None]

\* With it a process may be done.
Note(p) ==
  /\ copy[p] = value
  /\ mark <= value.ver /\ mark' = value.ver
  /\ copy' \in {copy, Released(p)}
  /\ UNCHANGED value

Release(p) == copy' = Released(p) /\ UNCHANGED <<value, mark>>

Step == \E p \in Proc : Take(p) \/ Change(p) \/ Put(p) \/ Note(p) \/ Release(p)

Next == loose' \/ (~loose /\ Step)

Spec == Init /\ [][Next]_<<value, copy, mark, loose>>

=============================================================================
