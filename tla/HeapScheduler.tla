--------------------------- MODULE HeapScheduler ---------------------------
(***************************************************************************)
(* HeapScheduler: a binary heap in an array.  The heap is the sequence h;  *)
(* the item the code wastes at index 0 makes its indexes start at 1 too.   *)
(***************************************************************************)
EXTENDS EventKeys, Sequences

HeapEmpty == << >>

Parent(i) == i \div 2
LeftChild(i) == 2 * i
RightChild(i) == 2 * i + 1

IsLessStrictly(h, i, j) == Precedes(h[i], h[j])

\* Fault: the comparison is the wrong way round
Largest(h, i, j) == IF IsLessStrictly(h, i, j) THEN j ELSE i

Smallest(h, i, j) == IF IsLessStrictly(h, i, j) THEN i ELSE j

Exch(h, i, j) == [h EXCEPT ![i] = h[j], ![j] = h[i]]

\* The item at index i of a heap m.heap rises, or sinks, one level at a time;
\* m.at is where it is.

Rises(m) == m.at # 1 /\ IsLessStrictly(m.heap, m.at, Parent(m.at))

Raised(m) == [heap |-> Exch(m.heap, m.at, Parent(m.at)), at |-> Parent(m.at)]

BottomUp(h, i) ==
    LET climb[n \in 0 .. i] ==
            IF n = 0 THEN [heap |-> h, at |-> i]
            ELSE IF Rises(climb[n - 1]) THEN Raised(climb[n - 1]) ELSE climb[n - 1]
    IN  climb[i].heap

LesserChild(m) ==
    IF RightChild(m.at) <= Len(m.heap)
    THEN Smallest(m.heap, LeftChild(m.at), RightChild(m.at)) ELSE LeftChild(m.at)

Sinks(m) ==
    /\ LeftChild(m.at) <= Len(m.heap)
    /\ ~IsLessStrictly(m.heap, m.at, LesserChild(m))

Sunk(m) == [heap |-> Exch(m.heap, m.at, LesserChild(m)), at |-> LesserChild(m)]

TopDown(h, i) ==
    LET fall[n \in 0 .. Len(h)] ==
            IF n = 0 THEN [heap |-> h, at |-> i]
            ELSE IF Sinks(fall[n - 1]) THEN Sunk(fall[n - 1]) ELSE fall[n - 1]
    IN  fall[Len(h)].heap

HeapInsert(h, e) == BottomUp(Append(h, e), Len(h) + 1)

HeapPeekNext(h) == h[1]

\* The last item takes the place of item i, and sinks from there.
TakeOut(h, i) ==
    LET shorter == SubSeq(Exch(h, i, Len(h)), 1, Len(h) - 1)
    IN  TopDown(shorter, i)

HeapRemoveNext(h) == TakeOut(h, 1)

\* The last item may have to rise instead; the code does not look.
HeapRemove(h, e) ==
    LET i == CHOOSE n \in DOMAIN h : h[n].uid = e.uid
    IN  TakeOut(h, i)
=============================================================================
