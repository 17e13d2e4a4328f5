------------------------------ MODULE Symbols ------------------------------
(***************************************************************************)
(* The symbol tables of vvp, vvp/symbols.cc: a B-tree whose leaves have    *)
(* the sorted keys and whose inner nodes find their way by the last key of *)
(* each child.  A node is [leaf_flag, parent, items], where the items of a *)
(* leaf are [key, val] and those of an inner node are nodes.  Node 1 is    *)
(* the root for ever; nodes are never deleted while the table lives.       *)
(***************************************************************************)
EXTENDS Integers, Sequences, SequencesExt

CONSTANTS leaf_width, node_width,
          Keys,      \* integers: the order of strcmp
          Values,
          Null       \* the value of a key that was only looked up

SymbolsAssumption ==
    /\ leaf_width \in Nat /\ leaf_width >= 2
    /\ node_width \in Nat /\ node_width >= 3
    /\ Keys \subseteq Nat

VARIABLES nodes,     \* sequence of the nodes
          result

vars == <<nodes, result>>

root == 1
NoNode == 0
Count(n, id) == Len(n[id].items)

InnerNode(parent, items) == [leaf_flag |-> FALSE, parent |-> parent, items |-> items]
LeafNode(parent, items) == [leaf_flag |-> TRUE, parent |-> parent, items |-> items]

RECURSIVE node_last_key(_, _)
node_last_key(n, id) ==
    IF n[id].leaf_flag THEN Last(n[id].items).key ELSE node_last_key(n, Last(n[id].items))

----------------------------------------------------------------------------
(* Splitting *)

(* The first part keeps the larger half. *)
FirstHalf(items) == SubSeq(items, 1, Len(items) - Len(items) \div 2)
LastHalf(items) == SubSeq(items, Len(items) - Len(items) \div 2 + 1, Len(items))

(* The children of a node moved to the node id *)
Adopted(n, items, id) ==
    FoldSeq(LAMBDA child, acc : [acc EXCEPT ![child].parent = id], n, items)

(* new is hooked to the parent right behind cur *)
Hooked(n, cur, new) ==
    LET p == n[cur].parent
        at == CHOOSE i \in DOMAIN n[p].items : n[p].items[i] = cur
    IN [n EXCEPT ![p].items = InsertAt(n[p].items, at + 1, new)]

split_root_Stale(n) ==
    LET items == n[root].items
        new == Len(n) + 1
        new2 == Len(n) + 2
        all == n \o <<InnerNode(root, LastHalf(items)), InnerNode(root, FirstHalf(items))>>
    IN [Adopted(all, LastHalf(items), new) EXCEPT ![root].items = <<new2, new>>]

(* The root stays the root: both halves move to new nodes. *)
split_root(n) ==
    LET items == n[root].items
        new == Len(n) + 1
        new2 == Len(n) + 2
        all == n \o <<InnerNode(root, LastHalf(items)), InnerNode(root, FirstHalf(items))>>
        one == Adopted(all, LastHalf(items), new)
        two == Adopted(one, FirstHalf(items), new2)
    IN [two EXCEPT ![root].items = <<new2, new>>]

RECURSIVE split_node_(_, _)
split_node_(n, cur) ==
    IF Count(n, cur) # node_width THEN n
    ELSE IF n[cur].parent = NoNode THEN split_root(n)
    ELSE LET new == Len(n) + 1
             moved == LastHalf(n[cur].items)
             all == Append([n EXCEPT ![cur].items = FirstHalf(n[cur].items)],
                           InnerNode(n[cur].parent, moved))
         IN split_node_(Hooked(Adopted(all, moved, new), cur, new), n[cur].parent)

split_leaf_(n, cur) ==
    LET all == Append([n EXCEPT ![cur].items = FirstHalf(n[cur].items)],
                      LeafNode(n[cur].parent, LastHalf(n[cur].items)))
    IN split_node_(Hooked(all, cur, Len(n) + 1), n[cur].parent)

----------------------------------------------------------------------------
(* Searching *)

(* The binary search of an inner node: the child that may hold the key. *)

RECURSIVE Bisect(_, _, _, _, _)
Bisect(n, cur, key, min, max) ==
    LET idx == min + (max - min) \div 2
        child == n[cur].items[idx + 1]
        last == node_last_key(n, child)
    IN IF key = last THEN child
       ELSE IF key > last
            THEN IF idx + 1 = Count(n, cur) THEN child
                 ELSE IF idx + 1 = max THEN n[cur].items[max + 1]
                 ELSE Bisect(n, cur, key, idx + 1, max)
            ELSE IF idx = min THEN child ELSE Bisect(n, cur, key, min, idx)

(* find_value_ at a leaf: the key is found, or entered at its place. *)
AtLeaf(n, cur, key, val, force_flag) ==
    LET items == n[cur].items
        before == SelectSeq(items, LAMBDA d : d.key < key)
        idx == Len(before) + 1
        entered == [n EXCEPT ![cur].items = InsertAt(@, idx, [key |-> key, val |-> val])]
    IN IF idx <= Len(items) /\ items[idx].key = key
       THEN IF force_flag
            THEN [nodes |-> [n EXCEPT ![cur].items[idx].val = val], val |-> val]
            ELSE [nodes |-> n, val |-> items[idx].val]
       ELSE [nodes |-> IF Len(items) + 1 = leaf_width THEN split_leaf_(entered, cur) ELSE entered,
             val |-> val]

RECURSIVE find_value_(_, _, _, _, _)
find_value_(n, cur, key, val, force_flag) ==
    IF n[cur].leaf_flag THEN AtLeaf(n, cur, key, val, force_flag)
    ELSE find_value_(n, Bisect(n, cur, key, 0, Count(n, cur)), key, val, force_flag)

(* The very first key makes the first leaf. *)
FirstLeaf(key, val) ==
    [nodes |-> <<InnerNode(NoNode, <<2>>), LeafNode(root, <<[key |-> key, val |-> val]>>)>>,
     val |-> val]

Lookup(key, val, force_flag) ==
    LET r == IF Count(nodes, root) = 0 THEN FirstLeaf(key, val)
             ELSE find_value_(nodes, root, key, val, force_flag)
    IN nodes' = r.nodes /\ result' = r.val

sym_set_value(key, val) == Lookup(key, val, TRUE)

sym_get_value(key) == Lookup(key, Null, FALSE)

Init == nodes = <<InnerNode(NoNode, <<>>)>> /\ result = Null

Next == \E key \in Keys :
            \/ \E val \in Values : sym_set_value(key, val)
            \/ sym_get_value(key)

Spec == Init /\ [][Next]_vars

----------------------------------------------------------------------------
(* Properties *)

Leaves == {id \in DOMAIN nodes : nodes[id].leaf_flag}
Entries == UNION {ToSet(nodes[id].items) : id \in Leaves}

(* The entries of the leaves as a map; a key that is there twice has no value. *)
Contents ==
    [k \in {d.key : d \in Entries} |->
        LET vals == {d.val : d \in {e \in Entries : e.key = k}}
            copies == {id \in Leaves : \E i \in DOMAIN nodes[id].items : nodes[id].items[i].key = k}
        IN IF \E v \in vals : vals = {v} /\ \E id \in copies : copies = {id}
           THEN CHOOSE v \in vals : TRUE ELSE <<"twice", vals>>]

(* The tree is a map: every look up finds the entry of its key, through
   whatever splits and look ups came before, and a key is entered once. *)
Map == INSTANCE SymbolMap WITH map <- Contents

RECURSIVE Depth(_)
Depth(id) == IF id = root THEN 0 ELSE 1 + Depth(nodes[id].parent)

(* The tree stays one: parents and children agree, no array is filled to its
   width, all leaves are at one depth and the keys in order from left to right. *)
WellFormed ==
    /\ \A id \in DOMAIN nodes :
           LET n == nodes[id]
           IN /\ Len(n.items) < IF n.leaf_flag THEN leaf_width ELSE node_width
              /\ id # root => Len(n.items) > 0 /\ id \in ToSet(nodes[n.parent].items)
              /\ ~n.leaf_flag => \A i \in DOMAIN n.items :
                    /\ nodes[n.items[i]].parent = id
                    /\ i > 1 => node_last_key(nodes, n.items[i - 1]) < node_last_key(nodes, n.items[i])
              /\ n.leaf_flag => \A i \in DOMAIN n.items : i > 1 => n.items[i - 1].key < n.items[i].key
    /\ \A a, b \in Leaves : Depth(a) = Depth(b)

============================================================================
