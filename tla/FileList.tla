------------------------------ MODULE FileList ------------------------------
(***************************************************************************)
(* The doubly linked list of files_state (files.c): the newest datafile at *)
(* the head, the oldest at the tail.  A list is a record of its two ends   *)
(* and of the next and previous pointers of the nodes, by file ID.         *)
(***************************************************************************)
EXTENDS Integers, SequencesExt

Null == -1

List(h, t, n, p) == [head |-> h, tail |-> t, next |-> n, previous |-> p]
EmptyList == List(Null, Null, <<>>, <<>>)

\* The pointers ptr with that of node id set to n.
Point(ptr, id, n) == [c \in DOMAIN ptr \cup {id} |-> IF c = id THEN n ELSE ptr[c]]

\* add_file_to_linked_list: at the head if id is the highest, else before the first
\* node that is not higher, else behind the tail.
AddFileUnlinked(l, id) ==
    IF l.head # Null /\ id < l.head
    THEN List(l.head, id, Point(l.next, id, Null), Point(l.previous, id, l.tail))
    ELSE List(id, IF l.tail = Null THEN id ELSE l.tail,
              Point(l.next, id, l.head), Point(l.previous, id, Null))
AddFile(l, id) ==
    LET skip[c \in DOMAIN l.next \cup {Null}] ==
            IF c # Null /\ c > id THEN skip[l.next[c]] ELSE c
        curr == skip[l.head]
        newer == l.previous[curr]
    IN  IF l.head = Null
        THEN List(id, id, Point(l.next, id, Null), Point(l.previous, id, Null))
        ELSE IF id > l.head
        THEN List(id, l.tail, Point(l.next, id, l.head),
                  Point(Point(l.previous, id, Null), l.head, id))
        ELSE IF curr = Null
        THEN List(l.head, id, Point(Point(l.next, id, Null), l.tail, id),
                  Point(l.previous, id, l.tail))
        ELSE List(l.head, l.tail,
                  IF newer = Null THEN Point(l.next, id, curr)
                  ELSE Point(Point(l.next, id, curr), newer, id),
                  Point(Point(l.previous, id, newer), curr, id))

\* The list after the files of a directory have been added in the order read.
ListOf(ids) ==
    LET from[n \in 0 .. Len(ids)] ==
            IF n = 0 THEN EmptyList ELSE AddFile(from[n - 1], ids[n])
    IN  from[Len(ids)]

\* From the oldest file to the newest, by previous (Null where the links end early).
OldestFirst(l) ==
    LET node[n \in 1 .. Cardinality(DOMAIN l.previous)] ==
            IF n = 1 THEN l.tail
            ELSE IF node[n - 1] = Null THEN Null ELSE l.previous[node[n - 1]]
    IN  node

\* Both directions visit every file once, in the order of the IDs.
Sorted(l) ==
    LET ids == DOMAIN l.next
        up  == OldestFirst(l)
    IN  /\ DOMAIN l.previous = ids /\ ToSet(up) = ids
        /\ \A i \in 1 .. Len(up) - 1 : up[i] < up[i + 1] /\ l.next[up[i + 1]] = up[i]
        /\ ids # {} => /\ l.head = up[Len(up)] /\ l.next[up[1]] = Null
                       /\ l.previous[l.head] = Null
=============================================================================
