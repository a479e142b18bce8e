--------------------------- MODULE ClaimRegistry ---------------------------
(***************************************************************************)
(* What the task board promises to the agents that share it, whatever      *)
(* operations, failing writes and crashes do in between: an item is        *)
(* posted unowned in a group, taken by at most one worker for as long as   *)
(* it is on the board, and never posted over.  A group that is closed      *)
(* stays closed.  A removed item whose removal failed lies in the attic:   *)
(* a recovery may bring it back, exactly as it was.                        *)
(***************************************************************************)
CONSTANTS
  Items,
  Workers,
  Groups,
  NoWorker,  \* the owner of an item nobody took
  NoItem     \* no item under this name

VARIABLES
  board,     \* the items on the board: group, owner, whether closed
  attic      \* removed items that a recovery may still find

vars == <<board, attic>>

Item == [group : Groups, owner : Workers \cup {NoWorker}, closed : BOOLEAN]
Posted == {i \in Items : board[i] # NoItem}

Init == board = [i \in Items |-> NoItem] /\ attic = board

Post(i, g) ==
  /\ i \notin Posted
  /\ board' = [board EXCEPT ![i] = [group |-> g, owner |-> NoWorker, closed |-> FALSE]]
  /\ attic' = [attic EXCEPT ![i] = NoItem]

Take(i, w) ==
  /\ i \in Posted /\ board[i].owner \in {NoWorker, w}
  /\ board' = [board EXCEPT ![i].owner = w]
  /\ UNCHANGED attic

Close(S) ==
  /\ S \subseteq Posted
  /\ board' = [i \in Items |-> IF i \in S THEN [board[i] EXCEPT !.closed = TRUE] ELSE board[i]]
  /\ UNCHANGED attic

\* The removal may be incomplete.
Remove(i) ==
  /\ i \in Posted
  /\ board' = [board EXCEPT ![i] = NoItem]
  /\ attic' \in {attic, [attic EXCEPT ![i] = board[i]]}

\* All but the items of S are on the board again.
Recover(S) ==
  /\ S \subseteq Posted
  /\ board' = [i \in Items |-> IF i \in S THEN NoItem
                               ELSE IF i \in Posted THEN board[i] ELSE attic[i]]
  /\ attic' = [i \in Items |-> NoItem]

Next ==
  \/ \E i \in Items, g \in Groups : Post(i, g)
  \/ \E i \in Items, w \in Workers : Take(i, w)
  \/ \E i \in Items : Remove(i)
  \/ \E S \in SUBSET Items : Close(S) \/ Recover(S)

Spec == Init /\ [][Next]_vars
=============================================================================
