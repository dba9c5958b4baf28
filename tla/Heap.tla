--------------------------------- MODULE Heap ---------------------------------
(***************************************************************************)
(* The binary heap of core/base/heap.lua: heap._make over a Lua table      *)
(* (heap.valueheap).  A heap is a sequence of elements, key[e] is what the *)
(* function cmp of its user compares; key is defined for all elements.     *)
(* A loop is a recursive function of the sequence and of the position it   *)
(* has come to.                                                            *)
(***************************************************************************)
EXTENDS Naturals, Sequences

Swap(h, i, j) == [h EXCEPT ![i] = h[j], ![j] = h[i]]

(* where moveup can be: a heap and a position in it                        *)
Places(key) == {x \in Seq(DOMAIN key) \X Nat : x[2] \in 1..Len(x[1])}

(* moveup: an element rises as long as it is before its parent             *)
MoveUpLoop(key) ==
    LET moveup[x \in Places(key)] ==
            LET h == x[1]
                child == x[2]
                parent == child \div 2
            IN  IF child > 1 /\ key[h[child]] < key[h[parent]]
                THEN moveup[<<Swap(h, child, parent), parent>>]
                ELSE h
    IN  moveup

MoveUp(key, h, child) == MoveUpLoop(key)[<<h, child>>]

(* Fault: the sibling is not looked at.                                    *)
FirstChild(key, h, parent) == 2 * parent

(* the child of parent that comes first                                    *)
LesserChild(key, h, parent) ==
    LET child == 2 * parent
    IN  IF child + 1 <= Len(h) /\ key[h[child + 1]] < key[h[child]]
        THEN child + 1 ELSE child

(* movedown: an element sinks as long as a child is before it              *)
MoveDownLoop(key) ==
    LET movedown[x \in Seq(DOMAIN key) \X (Nat \ {0})] ==
            LET h == x[1]
                parent == x[2]
                child == LesserChild(key, h, parent)
            IN  IF child <= Len(h) /\ key[h[child]] < key[h[parent]]
                THEN movedown[<<Swap(h, parent, child), child>>]
                ELSE h
    IN  movedown

MoveDown(key, h, parent) == MoveDownLoop(key)[<<h, parent>>]

(* push: add at the end, then moveup                                       *)
Push(key, h, e) == MoveUp(key, Append(h, e), Len(h) + 1)

(* pop of the first element: swap it with the last one, remove that, then  *)
(* movedown                                                                *)
Pop(key, h) ==
    LET t == Swap(h, 1, Len(h))
    IN  MoveDown(key, SubSeq(t, 1, Len(t) - 1), 1)

(* no element is before its parent                                         *)
IsHeap(key, h) ==
    \A i \in 2..Len(h) : key[h[i \div 2]] <= key[h[i]]
=============================================================================
