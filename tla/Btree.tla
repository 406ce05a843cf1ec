------------------------------- MODULE Btree -------------------------------
(***************************************************************************)
(* btree.c: the search tree in which opt.c keeps the names of the options. *)
(* A name is a sequence of tokens, cut so that of two tokens that may      *)
(* stand at the same place neither begins the other: strcmp() then orders  *)
(* names by the first token in which they differ.                          *)
(***************************************************************************)
EXTENDS Naturals, Sequences, SequencesExt

CONSTANT Tokens   \* every token of a name, in the order of strcmp()

(* btree_find() takes a blank for the end of a name: no name has one. *)
ASSUME TokensAssumption == Tokens \in Seq(ToSet(Tokens) \ {" ", "\n"})

NULL == <<>>

Position == [t \in ToSet(Tokens) |-> CHOOSE i \in DOMAIN Tokens : Tokens[i] = t]

(* strcmp(a, b) < 0 *)
Less(a, b) ==
  \/ IsStrictPrefix(a, b)
  \/ \E i \in DOMAIN a \cap DOMAIN b :
       SubSeq(a, 1, i - 1) = SubSeq(b, 1, i - 1) /\ Position[a[i]] < Position[b[i]]

EmptyTree == [root |-> NULL, node |-> <<>>]

Side(name, n) == IF Less(name, n) THEN "less" ELSE "more"

add_leaf(node, new, data) ==
  [n \in DOMAIN node \cup {new} |->
     IF n = new THEN [less |-> NULL, more |-> NULL, data |-> data] ELSE node[n]]

(* Regression: the new node replaces a subtree that is already there. *)
add_node_Overwrite(bt, new, data) ==
  IF bt.root = NULL THEN [root |-> new, node |-> add_leaf(bt.node, new, data)]
  ELSE [bt EXCEPT !.node = add_leaf([@ EXCEPT ![bt.root][Side(new, bt.root)] = new], new, data)]

(* btree_add_node(): the new leaf hangs below the last node on its way.    *)
(* A name that is there already is refused (-EEXIST).                      *)
btree_add_node(bt, new, data) ==
  LET parent[n \in DOMAIN bt.node] ==
        LET next == bt.node[n][Side(new, n)] IN IF next = NULL THEN n ELSE parent[next]
      p == parent[bt.root]
  IN  IF bt.root = NULL THEN [root |-> new, node |-> add_leaf(bt.node, new, data)]
      ELSE IF new \in DOMAIN bt.node THEN bt
      ELSE [bt EXCEPT !.node = add_leaf([@ EXCEPT ![p][Side(new, p)] = new], new, data)]

(* btree_find(): the last node on the way that is the name, or begins it   *)
(* and is followed by a blank.                                             *)
btree_find(bt, name) ==
  LET matches(n) == IsPrefix(n, name) /\ (Len(n) = Len(name) \/ name[Len(n) + 1] \in {" ", "\n"})
      below[n \in DOMAIN bt.node \cup {NULL}] ==
        IF n = NULL THEN NULL
        ELSE IF ~IsPrefix(n, name) THEN below[bt.node[n][Side(name, n)]]
        ELSE LET later == below[bt.node[n].more]
             IN  IF later # NULL THEN later ELSE IF matches(n) THEN n ELSE NULL
  IN  IF name = NULL THEN NULL ELSE below[bt.root]
=============================================================================
