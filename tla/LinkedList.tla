----------------------------- MODULE LinkedList -----------------------------
(***************************************************************************)
(* The List of src/user/libcc.h, node by node: what the window manager and *)
(* the game's server keep their windows and clients in.  A list is the     *)
(* record of its members and of the links of its nodes; a node is named by *)
(* its value, since a value is in a list at most once.                     *)
(***************************************************************************)
EXTENDS Integers, FiniteSets, Sequences

CONSTANTS Node, Null

Link == [Node -> Node \cup {Null}]
NoLinks == [n \in Node |-> Null]
EmptyList == [first |-> Null, last |-> Null, size |-> 0,
              next |-> NoLinks, previous |-> NoLinks]

ListType == [first : Node \cup {Null}, last : Node \cup {Null}, size : Nat,
             next : Link, previous : Link]

\* Push: a new node in front; only the first one becomes the last one, too.
Push(list, n) ==
    [first    |-> n,
     last     |-> IF list.first = Null THEN n ELSE list.last,
     size     |-> list.size + 1,
     next     |-> [list.next EXCEPT ![n] = list.first],
     previous |-> [m \in Node |-> IF m = n THEN Null
                                  ELSE IF m = list.first THEN n
                                  ELSE list.previous[m]]]

\* MoveFrontToEnd: the link of the node that becomes the last one still leads
\* to the one that becomes the first.
MoveFrontToEnd(list) ==
    IF list.first = Null \/ list.next[list.first] = Null
    THEN list
    ELSE LET old == list.first
             new == list.next[old]
         IN  [list EXCEPT !.first = new,
                          !.last = old,
                          !.next[list.last] = old,
                          !.previous = [@ EXCEPT ![new] = Null, ![old] = list.last]]

\* What a loop that follows the links from a node to the null pointer meets;
\* one node more than there are when it never comes to an end.
Walk(link, start) ==
    LET bound == 1 .. Cardinality(Node) + 1
        at[k \in bound] == IF k = 1 THEN start
                           ELSE IF at[k - 1] = Null THEN Null ELSE link[at[k - 1]]
    IN  [k \in {k \in bound : at[k] # Null} |-> at[k]]
Forward(list) == Walk(list.next, list.first)
Backward(list) == Walk(list.previous, list.last)
=============================================================================
