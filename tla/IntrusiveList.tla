---------------------------- MODULE IntrusiveList ----------------------------
(***************************************************************************)
(* The circular doubly linked lists of list.h, at the level of its         *)
(* pointers.  A list is a head; an entry lives inside the object that the  *)
(* list holds.  Ready queues, wait lists and work queues are built on it.  *)
(* The earlier list.h of 14-uthread-scheduling, whose fields are flink and *)
(* blink, does insertions and removals at the ends by assignments of its   *)
(* own; a program uses one of the two headers.                             *)
(*                                                                         *)
(* The variable lists is a history variable: the sequence of entries each  *)
(* initialised head is meant to hold.  No operation reads it.              *)
(***************************************************************************)
EXTENDS Integers, Sequences, FiniteSets, Functions

CONSTANTS
    Heads,    \* list heads
    Entries,  \* list_entry_t fields of the objects that lists hold
    Garbage   \* the contents of a pointer that nobody has assigned

ASSUME ListAssumption ==
    /\ Heads \cap Entries = {}
    /\ Garbage \notin Heads \cup Entries

Nodes == Heads \cup Entries

VARIABLES
    header,      \* the list.h in use, "list" or "flink"; never changes
    next, prev,  \* the two fields of every list_entry_t
    ret,         \* what the last operation returned
    lists        \* history variable; its domain is the initialised heads

lvars == <<header, next, prev, ret, lists>>

LInit ==
    /\ header \in {"list", "flink"}
    /\ next = [n \in Nodes |-> Garbage]
    /\ prev = [n \in Nodes |-> Garbage]
    /\ ret = Garbage
    /\ lists = [h \in {} |-> <<>>]

Initialised == DOMAIN lists

\* The entry e is in the list of head h.
Linked(e) == \E h \in Initialised : e \in Range(lists[h])

Without(s, i) == SubSeq(s, 1, i - 1) \o SubSeq(s, i + 1, Len(s))

-----------------------------------------------------------------------------

\* listhead->next = listhead->prev = listhead
init_list_head(h) ==
    /\ next' = [next EXCEPT ![h] = h]
    /\ prev' = [prev EXCEPT ![h] = h]

is_list_empty(h) == next[h] = h

\* Mutant: does not repair the backward chain.
remove_list_entry_NextOnly(e) ==
    /\ next' = [next EXCEPT ![prev[e]] = next[e]]
    /\ UNCHANGED prev

\* remove_list_entry's assignments; the fields of e itself keep their values.
remove_list_entry(e) ==
    /\ next' = [next EXCEPT ![prev[e]] = next[e]]
    /\ prev' = [prev EXCEPT ![next[e]] = prev[e]]

\* Mutant: tests whether the list is empty before e is unlinked.
NeighboursMeet_Early(e) == next[next[e]] = next[e]

\* remove_list_entry's result: the neighbours of e are the same node.
NeighboursMeet(e) == next[e] = prev[e]

insert_list_after(ref, e) ==
    /\ next' = [next EXCEPT ![e] = next[ref], ![ref] = e]
    /\ prev' = [prev EXCEPT ![e] = ref, ![next[ref]] = e]

insert_list_last(h, e) == insert_list_after(prev[h], e)

insert_list_first(h, e) == insert_list_after(h, e)

remove_list_first(h) == remove_list_entry(next[h])

remove_list_last(h) == remove_list_entry(prev[h])

\* The operations of the earlier header.
insert_tail_list(h, e) ==
    /\ next' = [next EXCEPT ![e] = h, ![prev[h]] = e]
    /\ prev' = [prev EXCEPT ![e] = prev[h], ![h] = e]

insert_head_list(h, e) ==
    /\ next' = [next EXCEPT ![e] = next[h], ![h] = e]
    /\ prev' = [prev EXCEPT ![e] = h, ![next[h]] = e]

remove_head_list(h) ==
    /\ next' = [next EXCEPT ![h] = next[next[h]]]
    /\ prev' = [prev EXCEPT ![next[next[h]]] = h]

remove_tail_list(h) ==
    /\ prev' = [prev EXCEPT ![h] = prev[prev[h]]]
    /\ next' = [next EXCEPT ![prev[prev[h]]] = h]

-----------------------------------------------------------------------------
(* The operations as the callers use them: a head is initialised before    *)
(* use, an entry is inserted only while unlinked and removed only while    *)
(* linked.  The removals at the ends accept an empty list.                 *)

DoInit(h) ==
    /\ h \notin Initialised
    /\ init_list_head(h)
    /\ lists' = [g \in Initialised \cup {h} |->
                    IF g = h THEN <<>> ELSE lists[g]]
    /\ UNCHANGED ret

DoIsEmpty(h) ==
    /\ ret' = is_list_empty(h)
    /\ UNCHANGED <<next, prev, lists>>

DoInsertLast(h, e) ==
    /\ ~Linked(e)
    /\ IF header = "list" THEN insert_list_last(h, e) ELSE insert_tail_list(h, e)
    /\ lists' = [lists EXCEPT ![h] = Append(lists[h], e)]
    /\ UNCHANGED ret

DoInsertFirst(h, e) ==
    /\ ~Linked(e)
    /\ IF header = "list" THEN insert_list_first(h, e) ELSE insert_head_list(h, e)
    /\ lists' = [lists EXCEPT ![h] = <<e>> \o lists[h]]
    /\ UNCHANGED ret

\* insert_list_after with a reference entry at position i of the list.
DoInsertAfter(h, i, e) ==
    /\ header = "list"
    /\ ~Linked(e)
    /\ insert_list_after(lists[h][i], e)
    /\ lists' = [lists EXCEPT ![h] =
                    SubSeq(lists[h], 1, i) \o <<e>> \o
                    SubSeq(lists[h], i + 1, Len(lists[h]))]
    /\ UNCHANGED ret

DoRemoveEntry(h, i) ==
    /\ remove_list_entry(lists[h][i])
    /\ ret' = NeighboursMeet(lists[h][i])
    /\ lists' = [lists EXCEPT ![h] = Without(lists[h], i)]

DoRemoveFirst(h) ==
    /\ IF header = "list" THEN remove_list_first(h) ELSE remove_head_list(h)
    /\ ret' = next[h]
    /\ lists' = [lists EXCEPT ![h] = Without(lists[h], 1)]

DoRemoveLast(h) ==
    /\ IF header = "list" THEN remove_list_last(h) ELSE remove_tail_list(h)
    /\ ret' = prev[h]
    /\ lists' = [lists EXCEPT ![h] = Without(lists[h], Len(lists[h]))]

LNext ==
    /\ UNCHANGED header
    /\ \/ \E h \in Heads : DoInit(h)
       \/ \E h \in Initialised :
             \/ DoIsEmpty(h)
             \/ DoRemoveFirst(h)
             \/ DoRemoveLast(h)
             \/ \E i \in 1..Len(lists[h]) : DoRemoveEntry(h, i)
             \/ \E e \in Entries :
                   \/ DoInsertLast(h, e)
                   \/ DoInsertFirst(h, e)
                   \/ \E i \in 1..Len(lists[h]) : DoInsertAfter(h, i, e)

LSpec == LInit /\ [][LNext]_lvars

-----------------------------------------------------------------------------

LTypeOK ==
    /\ header \in {"list", "flink"}
    /\ next \in [Nodes -> Nodes \cup {Garbage}]
    /\ prev \in [Nodes -> Nodes \cup {Garbage}]
    /\ ret \in Nodes \cup {Garbage} \cup BOOLEAN
    /\ Initialised \subseteq Heads
    /\ lists \in [Initialised -> Seq(Entries)]

\* The node at position i of the list of h, counted from the head around the
\* circle.
At(h, i) == IF i \in 1..Len(lists[h]) THEN lists[h][i] ELSE h

\* Each list is a circle through its head: the forward and the backward
\* pointers of every list, after any sequence of insertions and removals
\* anywhere in it and in the other lists, spell out exactly the sequence it is
\* meant to hold.
Circular ==
    \A h \in Initialised : \A i \in 0..Len(lists[h]) :
        /\ next[At(h, i)] = At(h, i + 1)
        /\ prev[At(h, i + 1)] = At(h, i)

\* No entry is in two places.
Disjoint ==
    \A g, h \in Initialised :
        \A i \in 1..Len(lists[g]), j \in 1..Len(lists[h]) :
            lists[g][i] = lists[h][j] => g = h /\ i = j

\* The invariant of list.h, in either form.
ListInv == LTypeOK /\ Circular /\ Disjoint

\* What the operations tell their callers: is_list_empty and the result of
\* remove_list_entry are right about emptiness (and so the caller never takes
\* the head itself for an entry), and the removals at the ends return the two
\* ends of the list.
ReturnsRight ==
    [][ \A h \in Initialised :
          /\ DoIsEmpty(h) => (ret' <=> lists[h] = <<>>)
          /\ \A i \in 1..Len(lists[h]) :
                DoRemoveEntry(h, i) => (ret' <=> Len(lists[h]) = 1)
          /\ DoRemoveFirst(h) /\ lists[h] # <<>> => ret' = Head(lists[h])
          /\ DoRemoveLast(h) /\ lists[h] # <<>> =>
                ret' = lists[h][Len(lists[h])] ]_lvars
=============================================================================
