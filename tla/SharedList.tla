----------------------------- MODULE SharedList ------------------------------
(***************************************************************************)
(* What the access list (acl.h, acl_update.cpp) promises acl_filter: a     *)
(* list that is replaced and searched as a whole.  It is always what one   *)
(* load found in the table, and while a call uses what it has read the     *)
(* list stays what it was.  The promise ends when the lock is initialised  *)
(* although it is held.                                                    *)
(***************************************************************************)
CONSTANTS
  Readers,              \* callers of acl_filter
  List(_)               \* the complete list of a set of rows

VARIABLES
  rows,                 \* the table access_list
  snapshot,             \* the rows of the last load
  content,              \* {the list}, or {} if it was left half written
  seen,                 \* {the list the call has read}, or {}
  trusted               \* the promise holds

vars == <<rows, snapshot, content, seen, trusted>>

Init ==
  /\ rows = {} /\ snapshot = {} /\ content = {List({})}
  /\ seen = [r \in Readers |-> {}]
  /\ trusted = TRUE

(* The table changes, in any way.                                          *)
Change == UNCHANGED <<snapshot, content, seen>>

Load == snapshot' = rows /\ UNCHANGED <<rows, content, seen>>

Discard == snapshot' = {} /\ UNCHANGED <<rows, content, seen>>

(* The loaded rows become the list.                                        *)
Replace ==
  /\ content # {} /\ \A r \in Readers : seen[r] = {}
  /\ content' = {List(snapshot)}
  /\ UNCHANGED <<rows, snapshot, seen>>

(* The updater ends; inside Replace it leaves the list unusable.  With its *)
(* last user the list vanishes.                                            *)
UpdaterEnds ==
  /\ snapshot' = {}
  /\ \/ UNCHANGED content
     \/ content' \in {{}, {List({})}} /\ \A r \in Readers : seen[r] = {}
  /\ UNCHANGED <<rows, seen>>

CallersEnd ==
  /\ seen' = [r \in Readers |-> {}]
  /\ content' \in {content, {List({})}}
  /\ UNCHANGED <<rows, snapshot>>

(* A call reads the list, all of it at once; it returns.                   *)
Read(r) ==
  /\ seen[r] = {} /\ content # {}
  /\ seen' = [seen EXCEPT ![r] = content]
  /\ UNCHANGED <<rows, snapshot, content>>

Return(r) ==
  /\ seen' = [seen EXCEPT ![r] = {}]
  /\ UNCHANGED <<rows, snapshot, content>>

Promise == \/ Change \/ Load \/ Discard \/ Replace \/ UpdaterEnds \/ CallersEnd
           \/ \E r \in Readers : Read(r) \/ Return(r)

Next == trusted' = FALSE \/ (UNCHANGED trusted /\ Promise)

Spec == Init /\ [][Next]_vars
==============================================================================
