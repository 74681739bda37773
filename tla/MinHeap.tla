------------------------------ MODULE MinHeap ------------------------------
(***************************************************************************)
(* The priority queue of src/utils/min_heap.ts: a binary heap in an array. *)
(* The element at position i has its children at 2 * i and 2 * i + 1.  The *)
(* two loops are functions of the number of turns; each turn leads to      *)
(* another level or is the last, so that Len(heap) of them are enough.     *)
(***************************************************************************)
EXTENDS Integers, Sequences, SequencesExt

CONSTANT Less(_, _)     \* the compare function of the heap gives a negative number

Swap(heap, i, j) == [heap EXCEPT ![i] = heap[j], ![j] = heap[i]]

\* A turn of bubbleUp: an element less than its parent takes the parent's place.
Rise(s) ==
    LET parent == s.at \div 2
    IN  IF s.at = 1 \/ ~Less(s.heap[s.at], s.heap[parent]) THEN s
        ELSE [heap |-> Swap(s.heap, s.at, parent), at |-> parent]

BubbleUp(heap, i) ==
    LET run[n \in 0..Len(heap)] ==
            IF n = 0 THEN [heap |-> heap, at |-> i] ELSE Rise(run[n - 1])
    IN  run[Len(heap)].heap

\* The least of an element and its children; a tie goes to the one that comes first.
Smallest(heap, i) ==
    LET Lesser(j, h) == IF h <= Len(heap) /\ Less(heap[h], heap[j]) THEN h ELSE j
    IN  Lesser(Lesser(i, 2 * i), 2 * i + 1)

\* A turn of bubbleDown: an element takes the place of its least child, if that is less.
Sink(s) ==
    LET smallest == Smallest(s.heap, s.at)
    IN  [heap |-> Swap(s.heap, s.at, smallest), at |-> smallest]

\* Mutant: pop leaves the last element at the root.
BubbleDownNever(heap, i) == heap

BubbleDown(heap, i) ==
    LET run[n \in 0..Len(heap)] ==
            IF n = 0 THEN [heap |-> heap, at |-> i] ELSE Sink(run[n - 1])
    IN  run[Len(heap)].heap

Push(heap, x) == BubbleUp(Append(heap, x), Len(heap) + 1)

\* What pop returns, and what it leaves: the last element takes the root's place.
Peek(heap) == Head(heap)
Popped(heap) ==
    IF Len(heap) = 1 THEN <<>>
    ELSE BubbleDown([Front(heap) EXCEPT ![1] = Last(heap)], 1)
=============================================================================
