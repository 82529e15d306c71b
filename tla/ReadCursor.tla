----------------------------- MODULE ReadCursor -----------------------------
(***************************************************************************)
(* What a reader of an ordered log promises, whatever feeds it: it opens   *)
(* the log at some place, moves a cursor only over messages it was handed  *)
(* or that were cleared from its sight, and reports as read nothing beyond *)
(* the cursor.  ChatRoom implements it, and ChatRoom_proofs proves the     *)
(* promise.                                                                *)
(***************************************************************************)
EXTENDS Integers

VARIABLES
  tail,     \* the messages of the log are 1..tail
  floor,    \* messages up to here are out of the reader's sight
  received, \* messages handed to the reader
  base,     \* where the reader opened the log
  cursor,   \* everything in base+1..cursor is accounted for
  read      \* reported as read

cursorVars == <<tail, floor, received, base, cursor, read>>

Accounted(from, to) == \A s \in (from + 1)..to : s \in received' \/ s <= floor'

Init ==
  /\ tail \in Nat /\ floor \in 0..tail
  /\ received = {} /\ base = 0 /\ cursor = 0 /\ read = 0

(* The log grows, and messages are cleared.                                *)
Publish == /\ tail' = tail + 1
           /\ UNCHANGED <<floor, received, base, cursor, read>>
Clear == /\ floor' \in floor..tail
         /\ UNCHANGED <<tail, received, base, cursor, read>>

(* The reader opens the log at the last message of a page of it.           *)
Open == /\ cursor = 0 /\ base = 0 /\ read = 0
        /\ received' \in SUBSET (1..tail)
        /\ cursor' \in 0..tail /\ base' = cursor'
        /\ UNCHANGED <<tail, floor, read>>

Receive == /\ received' \in SUBSET (1..tail) /\ received \subseteq received'
           /\ cursor' \in cursor..tail /\ Accounted(cursor, cursor')
           /\ UNCHANGED <<tail, floor, base, read>>

Read == /\ read' \in read..cursor
        /\ UNCHANGED <<tail, floor, received, base, cursor>>

Next == Publish \/ Clear \/ Open \/ Receive \/ Read
Spec == Init /\ [][Next]_cursorVars

-----------------------------------------------------------------------------
(* What is reported as read has been handed over or cleared.               *)
NothingUnreadIsRead ==
  \A s \in (base + 1)..read : s \in received \/ s <= floor

TypeInv == /\ tail \in Nat /\ floor \in Nat /\ floor <= tail
           /\ base \in Nat /\ cursor \in Nat /\ read \in Nat

(* The inductive invariant: the cursor itself passes no gap.               *)
CursorInv == /\ TypeInv
             /\ base <= cursor /\ read <= cursor
             /\ \A s \in (base + 1)..cursor : s \in received \/ s <= floor
=============================================================================
