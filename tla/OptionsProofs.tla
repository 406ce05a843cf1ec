--------------------------- MODULE OptionsProofs ---------------------------
(***************************************************************************)
(* Proofs about the command line, for any command line and any order of    *)
(* the sections: the search tree is exact, the iterator takes something    *)
(* off the command line with every option, the parsers keep the types of   *)
(* the settings and change nothing of the line when they refuse a value.   *)
(* The second half compares the program with the words of Spelling: what   *)
(* is read is a row of words, and a row of words is read.                  *)
(***************************************************************************)
EXTENDS Spelling, Recursion, FiniteSetTheorems

-----------------------------------------------------------------------------
(* The options.                                                            *)

(* Which settings an option's parser is used for, and its place among the  *)
(* positional ones.                                                        *)
Suits(conf) ==
  LET p == conf.parse
      d == conf.dest
  IN  /\ conf.positional \in 0..2 /\ p # "none"
      /\ p = "flag_true" =>
           d \in {"wait", "stay", "show_help", "show_version", "show_list", "cooked", "local_echo",
                  "silent", "timestamp", "color", "sticky"}
      /\ p = "flag_count" => d = "verbose"
      /\ p = "int" => d \in {"chardelay", "level", "timeout"}
      /\ p = "float" => d = "eol_rx_timeout"
      /\ p = "str" => d \in {"file", "prompt"}
      /\ p \in {"baud", "databits", "stopbits", "flowcontrol"} =>
           d = IF p = "baud" THEN "baudrate" ELSE p
      /\ p = "eol" => d \in {"eol_txrx", "eol_tx", "eol_rx"}
      /\ p = "map" => d \in {"charmap_tx", "charmap_rx"}

(* No two options have the same mark, and it tells their section. *)
Mark(conf) == IF conf.dest = "none" THEN conf.parse ELSE conf.dest
Marks ==
  [main_opts |-> {"show_help", "show_version", "show_list", "verbose", "autocomplete"},
   charmap |-> {"charmap_tx", "charmap_rx"}, cmd |-> {"opq_oo"}, ctohex |-> {"hexfmt"},
   eol |-> {"eol_txrx", "eol_tx", "eol_rx"}, log |-> {"level", "file", "silent"},
   outfmt |-> {"timestamp", "color", "eol_rx_timeout"},
   port_opts |-> {"devname", "baud_dps", "name", "baudrate", "databits", "stopbits", "flowcontrol",
                  "parity", "chardelay", "wait", "stay"},
   shell |-> {"cooked", "local_echo"}, shell_mode_cooked |-> {"sticky", "prompt"},
   keybind |-> {"bind"}, timeout |-> {"timeout"}]

TableOK(t, s) ==
  /\ t \in Seq(ToSet(t))
  /\ \A i \in DOMAIN t : Suits(t[i]) /\ Mark(t[i]) \in Marks[s]
  /\ \A i, j \in DOMAIN t : i # j => Mark(t[i]) # Mark(t[j])

LEMMA PortTable == TableOK(port_opts_conf, "port_opts")
<1>1. port_opts_conf \in Seq(ToSet(port_opts_conf))
  BY DEF port_opts_conf, ToSet
<1>2. \A i \in DOMAIN port_opts_conf : Suits(port_opts_conf[i])
  BY SMTT(40) DEF port_opts_conf, Suits, Opt, Positional
<1>3. \A i \in DOMAIN port_opts_conf : Mark(port_opts_conf[i]) \in Marks["port_opts"]
  BY DEF port_opts_conf, Mark, Marks, Opt, Positional
<1>4. \A i, j \in DOMAIN port_opts_conf : i # j => Mark(port_opts_conf[i]) # Mark(port_opts_conf[j])
  BY DEF port_opts_conf, Mark, Opt, Positional
<1> QED  BY <1>1, <1>2, <1>3, <1>4 DEF TableOK

LEMMA TablesOK == \A s \in DOMAIN Tables : TableOK(Tables[s], s)
<1> USE DEF TableOK, Suits, Mark, Marks, ToSet, Opt
<1>1. TableOK(main_opts_conf, "main_opts")
  BY SMTT(40) DEF main_opts_conf
<1>2. TableOK(charmap_opts_conf, "charmap")
  BY DEF charmap_opts_conf
<1>3. TableOK(cmd_opts_conf, "cmd")
  BY DEF cmd_opts_conf
<1>4. TableOK(ctohex_opts_conf, "ctohex")
  BY DEF ctohex_opts_conf
<1>5. TableOK(eol_opts_conf, "eol")
  BY DEF eol_opts_conf
<1>6. TableOK(log_opts_conf, "log")
  BY DEF log_opts_conf
<1>7. TableOK(outfmt_opts_conf, "outfmt")
  BY DEF outfmt_opts_conf
<1>8. TableOK(port_opts_conf, "port_opts")
  BY PortTable
<1>9. TableOK(shell_opts_conf, "shell")
  BY DEF shell_opts_conf
<1>10. TableOK(sh_cooked_opts_conf, "shell_mode_cooked")
  BY DEF sh_cooked_opts_conf
<1>11. TableOK(keybind_opts_conf, "keybind")
  BY DEF keybind_opts_conf
<1>12. TableOK(timeout_opts_conf, "timeout")
  BY DEF timeout_opts_conf
<1> HIDE DEF TableOK
<1> QED  BY <1>1, <1>2, <1>3, <1>4, <1>5, <1>6, <1>7, <1>8, <1>9, <1>10, <1>11, <1>12 DEF Tables

(* Every option has one mark. *)
LEMMA MarksDiffer ==
  ASSUME NEW s \in DOMAIN Tables, NEW u \in DOMAIN Tables, s # u
  PROVE  \A x : ~(x \in Marks[s] /\ x \in Marks[u])
BY DEF Marks, Tables

LEMMA ConfsSuit == \A conf \in Confs : Suits(conf)
<1> SUFFICES ASSUME NEW conf \in Confs PROVE Suits(conf)
  OBVIOUS
<1>1. PICK s \in DOMAIN Tables : conf \in ToSet(Tables[s])
  BY DEF Confs
<1>2. PICK i \in DOMAIN Tables[s] : conf = Tables[s][i]
  BY <1>1 DEF ToSet
<1> QED  BY <1>1, <1>2, TablesOK DEF TableOK

(* opt_section_foreach_conf() comes to every option once. *)
LEMMA AllConfsAre ==
  ASSUME NEW order \in Orders
  PROVE  /\ AllConfs(order) \in Seq(Confs) /\ Distinct(AllConfs(order))
         /\ \A conf \in Confs : conf \in ToSet(AllConfs(order))
<1> DEFINE ss == [i \in DOMAIN order |-> Tables[order[i]]]
           D == DOMAIN Tables
<1>1. /\ order \in Seq(D) /\ \A s \in D : s \in ToSet(order)
      /\ \A i, j \in DOMAIN order : order[i] = order[j] => i = j
  BY OptionsAssumption
<1>2. \A s \in D : TableOK(Tables[s], s) /\ Tables[s] \in Seq(Confs)
  <2> SUFFICES ASSUME NEW s \in D PROVE TableOK(Tables[s], s) /\ Tables[s] \in Seq(Confs)
    OBVIOUS
  <2> DEFINE t == Tables[s]
  <2>1. TableOK(t, s) /\ t \in Seq(ToSet(t))
    BY TablesOK DEF TableOK
  <2>2. ToSet(t) \subseteq Confs
    BY DEF Confs
  <2> HIDE DEF t
  <2>3. t \in Seq(Confs)
    BY <2>1, <2>2
  <2> QED  BY <2>1, <2>3 DEF t
<1> HIDE DEF D
<1>3. Len(order) \in Nat /\ DOMAIN order = 1..Len(order) /\ \A i \in DOMAIN order : order[i] \in D
  BY <1>1
<1>4. ss \in Seq(Seq(Confs)) /\ DOMAIN ss = DOMAIN order
      /\ \A i \in DOMAIN order : ss[i] = Tables[order[i]]
  <2>1. \A i \in 1..Len(order) : Tables[order[i]] \in Seq(Confs)
    BY <1>2, <1>3
  <2> QED  BY <1>3, <2>1
<1> HIDE DEF ss
<1>5. \A i \in DOMAIN ss : Distinct(ss[i])
  <2> SUFFICES ASSUME NEW i \in DOMAIN ss PROVE Distinct(ss[i])
    OBVIOUS
  <2>1. TableOK(ss[i], order[i])
    BY <1>2, <1>3, <1>4
  <2> QED  BY <2>1 DEF TableOK, Distinct
<1>6. ASSUME NEW i \in DOMAIN ss, NEW j \in DOMAIN ss, i # j, NEW x \in ToSet(ss[i])
      PROVE  x \notin ToSet(ss[j])
  <2>1. /\ order[i] \in D /\ order[j] \in D /\ order[i] # order[j]
        /\ TableOK(ss[i], order[i]) /\ TableOK(ss[j], order[j])
    BY <1>1, <1>2, <1>3, <1>4, <1>6
  <2>2. Mark(x) \in Marks[order[i]]
    BY <2>1 DEF TableOK, ToSet
  <2>3. x \in ToSet(ss[j]) => Mark(x) \in Marks[order[j]]
    BY <2>1 DEF TableOK, ToSet
  <2> QED  BY <2>1, <2>2, <2>3, MarksDiffer DEF D
<1>7. AllConfs(order) = FlattenSeq(ss)
  BY DEF AllConfs, ss
<1>8. FlattenSeq(ss) \in Seq(Confs)
  BY <1>4, FlattenType
<1>9. Distinct(FlattenSeq(ss))
  BY <1>4, <1>5, <1>6, FlattenDistinct
<1>10. ASSUME NEW conf \in Confs PROVE conf \in ToSet(FlattenSeq(ss))
  <2>1. PICK s \in D : conf \in ToSet(Tables[s])
    BY DEF Confs, D
  <2>2. PICK i \in DOMAIN order : order[i] = s
    BY <1>1, <2>1 DEF ToSet
  <2>3. i \in DOMAIN ss /\ conf \in ToSet(ss[i])
    BY <1>4, <2>1, <2>2
  <2> QED  BY <1>4, <2>3, FlattenElements
<1> QED  BY <1>7, <1>8, <1>9, <1>10

(* Two of them are positional. *)
LEMMA TwoPositionals ==
  \E a, b \in Confs : a # b /\ a.positional # 0 /\ b.positional # 0
<1>1. Positional(1, "devname") # Positional(2, "baud_dps")
      /\ Positional(1, "devname").positional = 1 /\ Positional(2, "baud_dps").positional = 2
  BY DEF Positional
<1>2. 1 \in DOMAIN port_opts_conf /\ 2 \in DOMAIN port_opts_conf
      /\ port_opts_conf[1] = Positional(1, "devname")
      /\ port_opts_conf[2] = Positional(2, "baud_dps")
  BY DEF port_opts_conf
<1>3. "port_opts" \in DOMAIN Tables /\ Tables["port_opts"] = port_opts_conf
  BY DEF Tables
<1>4. port_opts_conf[1] \in Confs /\ port_opts_conf[2] \in Confs
  <2>1. port_opts_conf[1] \in ToSet(port_opts_conf) /\ port_opts_conf[2] \in ToSet(port_opts_conf)
    BY <1>2 DEF ToSet
  <2> QED  BY <1>3, <2>1 DEF Confs
<1> QED  BY <1>1, <1>2, <1>4

LEMMA ConfNames == \A conf \in Confs : conf.names \in Seq(Seq(ToSet(Tokens)) \ {NULL})
BY NamesAssumption DEF NULL

-----------------------------------------------------------------------------
(* The tree of names.                                                      *)

Sides == {"less", "more"}
Node(D, Data) == [less : D \cup {NULL}, more : D \cup {NULL}, data : Data]

(* The tree bt of names in U: reach[n] are the names whose way from the    *)
(* root leads through n.  What hangs at a side of n is reached by those    *)
(* that turn to this side, and a name of the tree finds a node there.      *)
TreeBy(bt, U, Data, reach, depth, N) ==
  LET D == DOMAIN bt.node
  IN  /\ bt = [root |-> bt.root, node |-> bt.node] /\ bt.node \in [D -> Node(D, Data)]
      /\ D \subseteq U /\ NULL \notin U /\ bt.root \in D \cup {NULL} /\ (bt.root = NULL => D = {})
      /\ N \in Nat /\ depth \in [D -> 0..N] /\ reach \in [D -> SUBSET U]
      /\ bt.root # NULL => reach[bt.root] = U
      /\ \A n \in D : n \in reach[n]
      /\ \A n \in D, side \in Sides :
           LET c == bt.node[n][side]
           IN  c # NULL => /\ depth[c] > depth[n]
                           /\ reach[c] = {x \in reach[n] : x # n /\ Side(x, n) = side}
      /\ \A n \in D, m \in D : m \in reach[n] /\ m # n => bt.node[n][Side(m, n)] # NULL
      /\ \A n \in D : n # bt.root => \E q \in D, side \in Sides : bt.node[q][side] = n

Tree(bt, U, Data) == \E reach, depth, N : TreeBy(bt, U, Data, reach, depth, N)

LEMMA SideIs == \A x, n : Side(x, n) \in Sides
BY DEF Side, Sides

LEMMA EmptyIsTree == ASSUME NEW U, NEW Data, NULL \notin U PROVE Tree(EmptyTree, U, Data)
<1> DEFINE none == [n \in {} |-> 0]
<1>1. DOMAIN EmptyTree.node = {} /\ EmptyTree.root = NULL
      /\ EmptyTree = [root |-> EmptyTree.root, node |-> EmptyTree.node]
      /\ EmptyTree.node \in [{} -> Node({}, Data)]
  BY DEF EmptyTree, NULL
<1>2. none \in [{} -> 0..0] /\ none \in [{} -> SUBSET U] /\ 0 \in Nat
  OBVIOUS
<1> HIDE DEF none
<1>3. TreeBy(EmptyTree, U, Data, none, none, 0)
  BY <1>1, <1>2 DEF TreeBy
<1> QED  BY <1>3 DEF Tree

(* The first node. *)
LEMMA FirstNode ==
  ASSUME NEW bt, NEW U, NEW Data, Tree(bt, U, Data), bt.root = NULL, NEW new \in U,
         NEW data \in Data
  PROVE  LET t == btree_add_node(bt, new, data)
         IN  Tree(t, U, Data) /\ DOMAIN t.node = {new} /\ t.node[new].data = data
<1> DEFINE leaf == [less |-> NULL, more |-> NULL, data |-> data]
           node == [n \in {new} |-> leaf]
           t == [root |-> new, node |-> node]
           reach == [n \in {new} |-> U]
           depth == [n \in {new} |-> 0]
<1>1. DOMAIN bt.node = {} /\ NULL \notin U
  BY DEF Tree, TreeBy
<1>2. btree_add_node(bt, new, data) = t
  <2>1. add_leaf(bt.node, new, data) = node
    BY <1>1 DEF add_leaf
  <2> QED  BY <2>1 DEF btree_add_node
<1>3. /\ node[new] = leaf /\ leaf \in Node({new}, Data) /\ leaf.data = data
      /\ \A side \in Sides : leaf[side] = NULL
  BY DEF Node, Sides
<1> HIDE DEF leaf
<1>4. /\ t.root = new /\ t.node = node /\ t = [root |-> t.root, node |-> t.node]
      /\ new # NULL /\ DOMAIN node = {new} /\ node \in [{new} -> Node({new}, Data)]
  BY <1>1, <1>3
<1>5. /\ reach \in [{new} -> SUBSET U] /\ reach[new] = U
      /\ depth \in [{new} -> 0..0] /\ 0 \in Nat
  OBVIOUS
<1> HIDE DEF node, t, reach, depth
<1>7. TreeBy(t, U, Data, reach, depth, 0)
  BY <1>1, <1>3, <1>4, <1>5 DEF TreeBy
<1> QED  BY <1>2, <1>3, <1>4, <1>7 DEF Tree

(* Where btree_add_node() stops: a node without a child where new belongs, *)
(* and no other node that new reaches is without one there.                *)
WalksDown(parent, bt, new) ==
  parent = [n \in DOMAIN bt.node |-> LET next == bt.node[n][Side(new, n)]
                                    IN  IF next = NULL THEN n ELSE parent[next]]

LastNode(p, bt, reach, new) ==
  /\ p \in DOMAIN bt.node /\ new \in reach[p] /\ bt.node[p][Side(new, p)] = NULL
  /\ \A n \in DOMAIN bt.node : new \in reach[n] /\ bt.node[n][Side(new, n)] = NULL => n = p

LEMMA LastOnTheWay ==
  ASSUME NEW bt, NEW U, NEW Data, NEW reach, NEW depth, NEW N,
         TreeBy(bt, U, Data, reach, depth, N), bt.root # NULL,
         NEW new \in U, new \notin DOMAIN bt.node, NEW parent,
         WalksDown(parent, bt, new)
  PROVE  LastNode(parent[bt.root], bt, reach, new)
<1> DEFINE D == DOMAIN bt.node
           next == [n \in D |-> bt.node[n][Side(new, n)]]
           root == bt.root
<1>1. /\ NULL \notin D /\ root \in D /\ N \in Nat /\ depth \in [D -> 0..N]
      /\ reach[root] = U
  BY DEF TreeBy
<1>2. \A n \in D : \A side \in Sides : bt.node[n][side] \in D \cup {NULL}
  BY DEF TreeBy, Node, Sides
<1>3. \A n \in D : next[n] \in D \cup {NULL}
  BY <1>2, SideIs
<1>4. ASSUME NEW n \in D, next[n] # NULL
      PROVE  /\ depth[next[n]] > depth[n]
             /\ reach[next[n]] = {x \in reach[n] : x # n /\ Side(x, n) = Side(new, n)}
  BY <1>4, SideIs DEF TreeBy
<1>5. \A n \in D : parent[n] = IF next[n] = NULL THEN n ELSE parent[next[n]]
  BY DEF WalksDown
<1>6. \A n \in D : next[n] = bt.node[n][Side(new, n)]
  OBVIOUS
<1>7. next \in [D -> D \cup {NULL}]
  <2>1. next = [n \in D |-> next[n]]
    OBVIOUS
  <2> HIDE DEF next, D
  <2> QED  BY <1>3, <2>1
<1>a. new \notin D
  OBVIOUS
<1> HIDE DEF next, D, root
<1> DEFINE T == {NULL} \cup {n \in D : new \in reach[n] =>
                               /\ parent[n] \in D /\ new \in reach[parent[n]]
                               /\ next[parent[n]] = NULL}
<1>8. Chain(D, NULL, next, depth, N)
  BY <1>1, <1>4, <1>7 DEF Chain
<1>9. ASSUME NEW n \in D, next[n] \in T PROVE n \in T
  <2> SUFFICES ASSUME new \in reach[n]
               PROVE  /\ parent[n] \in D /\ new \in reach[parent[n]]
                      /\ next[parent[n]] = NULL
    OBVIOUS
  <2>1. CASE next[n] = NULL
    BY <1>5, <2>1
  <2>2. CASE next[n] # NULL
    <3>1. parent[n] = parent[next[n]]
      BY <1>5, <2>2
    <3>2. new \in reach[next[n]]
      BY <1>4, <1>a, <2>2
    <3> QED  BY <1>9, <2>2, <3>1, <3>2
  <2> QED  BY <2>1, <2>2
<1>10. D \subseteq T
  <2>1. NULL \in T
    OBVIOUS
  <2> HIDE DEF T
  <2> QED  BY <1>1, <1>8, <1>9, <2>1, ChainInduction
<1> DEFINE p == parent[root]
<1>11. p \in D /\ new \in reach[p] /\ next[p] = NULL
  BY <1>1, <1>10
(* The other way round, from a node to the root. *)
<1> DEFINE C == D \ {root}
           Above(n, q) == q \in D /\ \E side \in Sides : bt.node[q][side] = n
           Parent(n) == CHOOSE q : Above(n, q)
           up == [n \in C |-> Parent(n)]
           height == [n \in C |-> N - depth[n]]
           S == {root} \cup {n \in C : new \in reach[n] => parent[n] = p}
<1>12. ASSUME NEW n \in C PROVE up[n] \in D /\ \E side \in Sides : bt.node[up[n]][side] = n
  <2>1. \E q : Above(n, q)
    BY DEF TreeBy, D, root
  <2> QED  BY <2>1
<1> HIDE DEF Parent
<1>13. ASSUME NEW n \in C
       PROVE  /\ depth[n] > depth[up[n]]
              /\ new \in reach[n] => new \in reach[up[n]] /\ next[up[n]] = n
  <2> DEFINE u == up[n]
  <2>1. PICK side \in Sides : u \in D /\ bt.node[u][side] = n
    BY <1>12
  <2>2. n # NULL
    BY <1>1
  <2> HIDE DEF u
  <2>3. depth[n] > depth[u] /\ reach[n] = {x \in reach[u] : x # u /\ Side(x, u) = side}
    BY <2>1, <2>2 DEF TreeBy, D
  <2>4. new \in reach[n] => new \in reach[u] /\ next[u] = n
    BY <1>6, <2>1, <2>3
  <2> QED  BY <2>3, <2>4 DEF u
<1>14. up \in [C -> C \cup {root}]
  <2>1. \A n \in C : Parent(n) \in C \cup {root}
    BY <1>12
  <2> HIDE DEF C
  <2> QED  BY <2>1
<1>15. Chain(C, root, up, height, N)
  <2>1. height \in [C -> 0..N]
    BY <1>1
  <2>2. ASSUME NEW n \in C, up[n] # root PROVE height[up[n]] > height[n]
    <3>1. up[n] \in C /\ depth[n] > depth[up[n]]
      BY <1>13, <1>14, <2>2
    <3> HIDE DEF up
    <3> QED  BY <1>1, <3>1
  <2> HIDE DEF up, height
  <2> QED  BY <1>14, <2>1, <2>2 DEF Chain
<1> HIDE DEF up, height
<1>16. ASSUME NEW n \in C, up[n] \in S PROVE n \in S
  <2> SUFFICES ASSUME new \in reach[n] PROVE parent[n] = p
    OBVIOUS
  <2>1. new \in reach[up[n]] /\ next[up[n]] = n /\ n # NULL /\ up[n] \in D
    BY <1>1, <1>12, <1>13
  <2>2. parent[up[n]] = parent[n]
    BY <1>5, <2>1
  <2>3. CASE up[n] = root
    BY <2>2, <2>3
  <2>4. CASE up[n] # root
    BY <1>16, <2>1, <2>2, <2>4
  <2> QED  BY <2>3, <2>4
<1>17. C \subseteq S
  <2>1. root \in S
    OBVIOUS
  <2> HIDE DEF C, S
  <2> QED  BY <1>1, <1>15, <1>16, <2>1, ChainInduction
<1>18. ASSUME NEW n \in D, new \in reach[n], next[n] = NULL PROVE n = p
  <2>1. parent[n] = n
    BY <1>5, <1>18
  <2>2. CASE n = root
    BY <2>1, <2>2
  <2>3. CASE n # root
    BY <1>17, <1>18, <2>1, <2>3
  <2> QED  BY <2>2, <2>3
<1> HIDE DEF p
<1>19. /\ p \in D /\ new \in reach[p] /\ bt.node[p][Side(new, p)] = NULL
       /\ \A n \in D : new \in reach[n] /\ bt.node[n][Side(new, n)] = NULL => n = p
  BY <1>6, <1>11, <1>18
<1> QED  BY <1>19 DEF p, D, root, LastNode

LEMMA LaterNode ==
  ASSUME NEW bt, NEW U, NEW Data, Tree(bt, U, Data), bt.root # NULL,
         NEW new \in U, new \notin DOMAIN bt.node, NEW data \in Data
  PROVE  LET t == btree_add_node(bt, new, data)
         IN  /\ Tree(t, U, Data) /\ DOMAIN t.node = DOMAIN bt.node \cup {new}
             /\ t.node[new].data = data
             /\ \A n \in DOMAIN bt.node : t.node[n].data = bt.node[n].data
<1>1. PICK reach, depth, N : TreeBy(bt, U, Data, reach, depth, N)
  BY DEF Tree
<1> DEFINE D == DOMAIN bt.node
           E == D \cup {new}
           way == [n \in D |-> bt.node[n][Side(new, n)]]
           Obeys(f) == f = [n \in D |-> LET next == bt.node[n][Side(new, n)]
                                        IN  IF next = NULL THEN n ELSE f[next]]
           parent == CHOOSE f : Obeys(f)
           p == parent[bt.root]
           sd == Side(new, p)
           leaf == [less |-> NULL, more |-> NULL, data |-> data]
           hung == [bt.node EXCEPT ![p][sd] = new]
           node == [n \in E |-> IF n = new THEN leaf ELSE hung[n]]
           t == [root |-> bt.root, node |-> node]
<1>2. btree_add_node(bt, new, data) = [bt EXCEPT !.node = add_leaf(hung, new, data)]
  BY DEF btree_add_node
<1>3. /\ NULL \notin D /\ bt.root \in D /\ N \in Nat /\ depth \in [D -> 0..N]
      /\ new # NULL /\ new \notin D /\ bt = [root |-> bt.root, node |-> bt.node]
      /\ \A n \in D, side \in Sides : bt.node[n][side] \in D \cup {NULL}
      /\ bt.node \in [D -> Node(D, Data)]
  BY <1>1 DEF TreeBy, Node, Sides
<1>4. btree_add_node(bt, new, data) = t
  <2>1. add_leaf(hung, new, data) = node
    <3>1. DOMAIN hung = D
      OBVIOUS
    <3> HIDE DEF hung, D
    <3> QED  BY <3>1 DEF add_leaf
  <2> HIDE DEF node, hung
  <2>2. [bt EXCEPT !.node = node] = t
    BY <1>3
  <2> QED  BY <1>2, <2>1, <2>2
<1>5. Obeys(parent)
  <2>1. Chain(D, NULL, way, depth, N)
    <3>1. \A n \in D : bt.node[n][Side(new, n)] \in D \cup {NULL}
      BY <1>3, SideIs
    <3>2. way \in [D -> D \cup {NULL}]
      <4> HIDE DEF D
      <4> QED  BY <3>1
    <3>3. ASSUME NEW n \in D, way[n] # NULL PROVE depth[way[n]] > depth[n]
      BY <1>1, <3>3, SideIs DEF TreeBy
    <3> HIDE DEF way, D
    <3> QED  BY <1>3, <3>2, <3>3 DEF Chain
  <2> DEFINE step == [q \in D \X D |-> IF way[q[1]] = NULL THEN q[1] ELSE q[2]]
  <2>2. step \in [D \X D -> D] /\ bt.root \in D
    <3> HIDE DEF D, way
    <3> QED  BY <1>3
  <2>3. \A n \in D, v \in D : step[<<n, v>>] = IF way[n] = NULL THEN n ELSE v
    <3> HIDE DEF D, way
    <3> QED  OBVIOUS
  <2>4. \A n \in D : way[n] = bt.node[n][Side(new, n)] /\ way[n] \in D \cup {NULL}
    BY <1>3, SideIs
  <2> HIDE DEF step, way, D
  <2>5. PICK g \in [D \cup {NULL} -> D] :
          g[NULL] = bt.root /\ \A n \in D : g[n] = step[<<n, g[way[n]]>>]
    <3>1. N \in Nat /\ bt.root \in D /\ step \in ChainSteps(D, D)
      BY <1>3, <2>2 DEF ChainSteps
    <3>2. \E g \in OnChain(D, NULL, D) : RecursAlong(g, D, NULL, way, bt.root, step)
      BY <2>1, <3>1, ChainExists
    <3> QED  BY <3>2 DEF OnChain, RecursAlong
  <2> DEFINE f == [n \in D |-> g[n]]
  <2>6. ASSUME NEW n \in D
        PROVE  f[n] = LET next == bt.node[n][Side(new, n)]
                      IN  IF next = NULL THEN n ELSE f[next]
    <3>1. g[way[n]] \in D
      BY <2>4
    <3>2. g[n] = IF way[n] = NULL THEN n ELSE g[way[n]]
      BY <2>3, <2>5, <3>1
    <3>3. way[n] # NULL => f[way[n]] = g[way[n]]
      BY <2>4
    <3> QED  BY <2>4, <3>2, <3>3
  <2>7. Obeys(f)
    <3>1. f = [n \in D |-> f[n]]
      OBVIOUS
    <3> HIDE DEF f
    <3> QED  BY <2>6, <3>1
  <2> HIDE DEF Obeys, f
  <2> QED  BY <2>7
<1> HIDE DEF way
<1>6. /\ p \in D /\ new \in reach[p] /\ bt.node[p][sd] = NULL
      /\ \A n \in D : new \in reach[n] /\ bt.node[n][Side(new, n)] = NULL => n = p
  <2>1. parent = [n \in D |-> LET next == bt.node[n][Side(new, n)]
                              IN  IF next = NULL THEN n ELSE parent[next]]
    BY <1>5
  <2>2. bt.root # NULL /\ new \in U /\ new \notin DOMAIN bt.node
    OBVIOUS
  <2> HIDE DEF parent, p, sd, D
  <2>3. WalksDown(parent, bt, new)
    BY <2>1 DEF D, WalksDown
  <2>4. LastNode(parent[bt.root], bt, reach, new)
    BY <1>1, <2>2, <2>3, LastOnTheWay
  <2> QED  BY <2>4 DEF p, sd, D, LastNode
<1> HIDE DEF parent, Obeys, p
<1>7. /\ sd \in Sides /\ leaf.less = NULL /\ leaf.more = NULL /\ leaf.data = data
      /\ \A side \in Sides : leaf[side] = NULL
      /\ leaf \in Node(E, Data)
  BY SideIs DEF Sides, Node
<1> HIDE DEF sd, leaf
<1>8. /\ \A n \in D : n # p => hung[n] = bt.node[n]
      /\ hung[p] = [bt.node[p] EXCEPT ![sd] = new]
      /\ \A n \in D : bt.node[n] \in Node(D, Data) /\ DOMAIN bt.node[n] = {"less", "more", "data"}
  BY <1>3, <1>6 DEF Node
<1>9. /\ hung[p][sd] = new /\ \A side \in Sides : side # sd => hung[p][side] = bt.node[p][side]
      /\ hung[p].data = bt.node[p].data
      /\ hung[p] \in Node(E, Data)
  BY <1>6, <1>7, <1>8 DEF Sides, Node
<1>10. ASSUME NEW n \in D
       PROVE  /\ hung[n] \in Node(E, Data) /\ hung[n].data = bt.node[n].data
              /\ \A side \in Sides : hung[n][side] = IF n = p /\ side = sd THEN new
                                                        ELSE bt.node[n][side]
  <2>1. bt.node[n] \in Node(E, Data)
    BY <1>8 DEF Node
  <2>2. CASE n = p
    BY <1>9, <2>2
  <2>3. CASE n # p
    BY <1>8, <2>1, <2>3
  <2> QED  BY <2>2, <2>3
<1> HIDE DEF hung
<1>11. /\ DOMAIN node = E /\ node[new] = leaf /\ \A n \in D : node[n] = hung[n]
       /\ node \in [E -> Node(E, Data)]
  <2> HIDE DEF D
  <2> QED  BY <1>3, <1>7, <1>10
<1>12. /\ t.root = bt.root /\ t.node = node /\ t = [root |-> t.root, node |-> t.node]
  OBVIOUS
<1> HIDE DEF node, t
<1> DEFINE turned == {x \in reach[p] : x # p /\ Side(x, p) = sd}
           reach2 == [n \in E |-> IF n = new THEN turned ELSE reach[n]]
           depth2 == [n \in E |-> IF n = new THEN depth[p] + 1 ELSE depth[n]]
<1>13. /\ reach2[new] = turned /\ depth2[new] = depth[p] + 1
       /\ \A n \in D : reach2[n] = reach[n] /\ depth2[n] = depth[n]
       /\ \A n \in D : reach[n] \in SUBSET U
       /\ new \in turned
  BY <1>1, <1>3, <1>6 DEF TreeBy, sd
<1>14. reach2 \in [E -> SUBSET U] /\ depth2 \in [E -> 0..(N + 1)] /\ N + 1 \in Nat
  <2>1. depth[p] + 1 \in 0..(N + 1) /\ \A n \in D : depth[n] \in 0..(N + 1)
    BY <1>3, <1>6
  <2>2. turned \in SUBSET U
    BY <1>6, <1>13
  <2> HIDE DEF turned, D
  <2> QED  BY <1>3, <1>13, <2>1, <2>2
<1> HIDE DEF reach2, depth2
<1>15. ASSUME NEW n \in E, NEW side \in Sides, node[n][side] # NULL
       PROVE  /\ depth2[node[n][side]] > depth2[n]
              /\ reach2[node[n][side]] = {x \in reach2[n] : x # n /\ Side(x, n) = side}
  <2>1. n # new /\ n \in D
    BY <1>7, <1>11, <1>15
  <2>2. CASE n = p /\ side = sd
    <3>1. node[n][side] = new
      BY <1>10, <1>11, <2>1, <2>2
    <3>2. depth[p] \in Nat /\ depth[p] + 1 > depth[p]
      BY <1>3, <1>6
    <3> QED  BY <1>13, <2>1, <2>2, <3>1, <3>2
  <2>3. CASE ~(n = p /\ side = sd)
    <3>1. node[n][side] = bt.node[n][side] /\ bt.node[n][side] \in D
      BY <1>3, <1>10, <1>11, <1>15, <2>1, <2>3
    <3>2. /\ depth[bt.node[n][side]] > depth[n]
          /\ reach[bt.node[n][side]] = {x \in reach[n] : x # n /\ Side(x, n) = side}
      BY <1>1, <1>15, <2>1, <3>1 DEF TreeBy
    <3> QED  BY <1>13, <2>1, <3>1, <3>2
  <2> QED  BY <2>2, <2>3
<1>16. ASSUME NEW n \in E, NEW m \in E, m \in reach2[n], m # n
       PROVE  node[n][Side(m, n)] # NULL
  <2>1. Side(m, n) \in Sides /\ Side(m, p) \in Sides
    BY SideIs
  <2>2. CASE n = new
    <3>1. m \in D /\ m \in reach[p] /\ m # p /\ Side(m, p) = sd
      BY <1>13, <1>16, <2>2
    <3>2. bt.node[p][Side(m, p)] # NULL
      BY <1>1, <1>6, <3>1 DEF TreeBy
    <3> QED  BY <1>6, <3>1, <3>2
  <2>3. CASE n \in D /\ m = new
    <3>1. new \in reach[n]
      BY <1>13, <1>16, <2>3
    <3>2. CASE n = p
      BY <1>3, <1>10, <1>11, <2>1, <2>3, <3>2 DEF sd
    <3>3. CASE n # p
      BY <1>6, <1>10, <1>11, <2>1, <2>3, <3>1, <3>3
    <3> QED  BY <3>2, <3>3
  <2>4. CASE n \in D /\ m \in D
    <3>1. bt.node[n][Side(m, n)] # NULL
      BY <1>1, <1>13, <1>16, <2>4 DEF TreeBy
    <3> QED  BY <1>3, <1>10, <1>11, <2>1, <2>4, <3>1
  <2> QED  BY <2>2, <2>3, <2>4
<1>17. ASSUME NEW n \in E, n # bt.root
       PROVE  \E q \in E, side \in Sides : node[q][side] = n
  <2>1. CASE n = new
    <3>1. node[p][sd] = new /\ p \in E
      BY <1>6, <1>7, <1>10, <1>11
    <3> QED  BY <1>7, <2>1, <3>1
  <2>2. CASE n \in D
    <3>1. PICK q \in D, side \in Sides : bt.node[q][side] = n
      BY <1>1, <1>17, <2>2 DEF TreeBy
    <3>2. ~(q = p /\ side = sd)
      BY <1>3, <1>6, <2>2, <3>1
    <3>3. node[q][side] = n
      BY <1>10, <1>11, <3>1, <3>2
    <3> QED  BY <3>3
  <2> QED  BY <2>1, <2>2
<1>18. TreeBy(t, U, Data, reach2, depth2, N + 1)
  <2>1. E \subseteq U /\ NULL \notin U /\ reach[bt.root] = U /\ \A n \in D : n \in reach[n]
    BY <1>1, <1>3 DEF TreeBy
  <2>2. reach2[bt.root] = U /\ \A n \in E : n \in reach2[n]
    BY <1>3, <1>13, <2>1
  <2>3. t.root \in E /\ t.root # NULL
    BY <1>3, <1>12
  <2> HIDE DEF D, E, turned, sd, p, leaf
  <2> QED  BY <1>11, <1>12, <1>14, <1>15, <1>16, <1>17, <2>1, <2>2, <2>3 DEF TreeBy
<1> HIDE DEF leaf
<1>19. /\ t.node[new].data = data /\ \A n \in D : t.node[n].data = bt.node[n].data
       /\ DOMAIN t.node = D \cup {new}
  BY <1>7, <1>10, <1>11, <1>12
<1> QED  BY <1>4, <1>18, <1>19 DEF Tree

LEMMA AddNode ==
  ASSUME NEW bt, NEW U, NEW Data, Tree(bt, U, Data), NEW new \in U, NEW data \in Data
  PROVE  LET t == btree_add_node(bt, new, data)
         IN  /\ Tree(t, U, Data) /\ DOMAIN t.node = DOMAIN bt.node \cup {new}
             /\ new \notin DOMAIN bt.node => t.node[new].data = data
             /\ \A n \in DOMAIN bt.node : t.node[n].data = bt.node[n].data
<1>1. CASE bt.root = NULL
  <2>1. DOMAIN bt.node = {}
    BY <1>1 DEF Tree, TreeBy
  <2> QED  BY <1>1, <2>1, FirstNode
<1>2. CASE bt.root # NULL /\ new \in DOMAIN bt.node
  <2>1. btree_add_node(bt, new, data) = bt
    BY <1>2 DEF btree_add_node
  <2> QED  BY <1>2, <2>1
<1>3. CASE bt.root # NULL /\ new \notin DOMAIN bt.node
  BY <1>3, LaterNode
<1> QED  BY <1>1, <1>2, <1>3

Trees(U, Data) ==
  [root : U \cup {NULL}, node : UNION {[D -> Node(U, Data)] : D \in SUBSET U}]

LEMMA TreeType == ASSUME NEW bt, NEW U, NEW Data, Tree(bt, U, Data) PROVE bt \in Trees(U, Data)
<1> DEFINE D == DOMAIN bt.node
<1>1. /\ bt = [root |-> bt.root, node |-> bt.node] /\ bt.node \in [D -> Node(D, Data)]
      /\ D \subseteq U /\ bt.root \in D \cup {NULL}
  BY DEF Tree, TreeBy
<1>2. bt.node \in [D -> Node(U, Data)] /\ D \in SUBSET U
  BY <1>1 DEF Node
<1>3. bt.node \in UNION {[E -> Node(U, Data)] : E \in SUBSET U}
  <2> HIDE DEF D
  <2> QED  BY <1>2
<1> QED  BY <1>1, <1>3 DEF Trees

(* All names of an option are in the tree, with the option.                *)
LEMMA AddNames ==
  ASSUME NEW bt, NEW U, NEW Data, Tree(bt, U, Data), NEW conf \in Data, conf.names \in Seq(U)
  PROVE  LET t == add_names(bt, conf)
         IN  /\ Tree(t, U, Data) /\ DOMAIN t.node = DOMAIN bt.node \cup ToSet(conf.names)
             /\ \A n \in ToSet(conf.names) \ DOMAIN bt.node : t.node[n].data = conf
             /\ \A n \in DOMAIN bt.node : t.node[n].data = bt.node[n].data
<1> DEFINE names == conf.names
           L == Len(names)
           D == DOMAIN bt.node
           Upto(k) == {names[j] : j \in 1..k}
           Good(t, k) == /\ Tree(t, U, Data) /\ DOMAIN t.node = D \cup Upto(k)
                         /\ \A n \in Upto(k) \ D : t.node[n].data = conf
                         /\ \A n \in D : t.node[n].data = bt.node[n].data
           V == Trees(U, Data)
           add(t, k) == btree_add_node(t, names[k], conf)
           step == [q \in V \X (1..L) |-> IF add(q[1], q[2]) \in V THEN add(q[1], q[2]) ELSE q[1]]
           Obeys(f) == f = [i \in 0..L |-> IF i = 0 THEN bt ELSE add(f[i - 1], i)]
           after == CHOOSE f : Obeys(f)
<1>1. L \in Nat /\ DOMAIN names = 1..L /\ \A k \in 1..L : names[k] \in U
  OBVIOUS
<1>2. add_names(bt, conf) = after[L]
  BY DEF add_names
<1> HIDE DEF names, L, D, V, add
<1>3. ASSUME NEW t, NEW k \in 0..(L - 1), Good(t, k) PROVE Good(add(t, k + 1), k + 1)
  <2> DEFINE u == add(t, k + 1)
             new == names[k + 1]
  <2>1. k + 1 \in 1..L /\ new \in U
    BY <1>1
  <2>2. Upto(k + 1) = Upto(k) \cup {new}
    <3>1. 1..(k + 1) = (1..k) \cup {k + 1}
      OBVIOUS
    <3> QED  BY <3>1
  <2> HIDE DEF new, Upto
  <2>3. Tree(t, U, Data) /\ DOMAIN t.node = D \cup Upto(k)
    BY <1>3
  <2>4. u = btree_add_node(t, new, conf)
    BY DEF add, new
  <2> HIDE DEF u
  <2>5. /\ Tree(u, U, Data) /\ DOMAIN u.node = DOMAIN t.node \cup {new}
        /\ new \notin DOMAIN t.node => u.node[new].data = conf
        /\ \A n \in DOMAIN t.node : u.node[n].data = t.node[n].data
    BY <2>1, <2>3, <2>4, AddNode
  <2>6. ASSUME NEW n \in Upto(k + 1) \ D PROVE u.node[n].data = conf
    BY <1>3, <2>2, <2>3, <2>5
  <2>7. ASSUME NEW n \in D PROVE u.node[n].data = bt.node[n].data
    BY <1>3, <2>3, <2>5
  <2>8. DOMAIN u.node = D \cup Upto(k + 1)
    BY <2>2, <2>3, <2>5
  <2> QED  BY <2>5, <2>6, <2>7, <2>8 DEF u
<1>4. Good(bt, 0)
  <2>1. Upto(0) = {}
    OBVIOUS
  <2> HIDE DEF Upto
  <2> QED  BY <2>1 DEF D
<1> HIDE DEF Upto
<1>5. \A t, k : Good(t, k) => t \in V
  BY TreeType DEF V
<1> HIDE DEF Good
<1>6. step \in Steps(L, V) /\ bt \in V
  <2>1. bt \in V
    BY <1>4, <1>5
  <2> QED  BY <2>1 DEF Steps
<1>7. \A t \in V, k \in 1..L : step[<<t, k>>] = IF add(t, k) \in V THEN add(t, k) ELSE t
  OBVIOUS
<1> HIDE DEF step
<1>8. PICK f \in UpTo(L, V) : Recurs(f, L, bt, step)
  BY <1>1, <1>6, RecursionExists
<1>9. ASSUME NEW k \in 0..(L - 1), Good(f[k], k)
      PROVE  f[k + 1] = add(f[k], k + 1) /\ Good(f[k + 1], k + 1)
  <2>1. k + 1 \in 0..L /\ k + 1 \in 1..L /\ k + 1 # 0 /\ (k + 1) - 1 = k
    BY <1>1
  <2>2. f[k + 1] = step[<<f[k], k + 1>>]
    BY <1>8, <2>1 DEF Recurs
  <2>3. Good(add(f[k], k + 1), k + 1)
    BY <1>3, <1>9
  <2>4. f[k] \in V /\ add(f[k], k + 1) \in V
    BY <1>5, <1>9, <2>3
  <2>5. f[k + 1] = add(f[k], k + 1)
    BY <1>7, <2>1, <2>2, <2>4
  <2> QED  BY <2>3, <2>5
<1> DEFINE T == {k \in 0..L : Good(f[k], k)}
<1>10. 0..L \subseteq T
  <2>1. 0 \in 0..L /\ f[0] = bt
    <3>1. 0 \in 0..L
      BY <1>1
    <3> QED  BY <1>8, <3>1 DEF Recurs
  <2>2. 0 \in T
    BY <1>4, <2>1
  <2>3. \A k \in 0..(L - 1) : k \in T => k + 1 \in T
    BY <1>1, <1>9
  <2> HIDE DEF T
  <2> QED  BY <1>1, <2>2, <2>3, InductionUpTo
<1>11. Obeys(f)
  <2>1. ASSUME NEW i \in 0..L PROVE f[i] = IF i = 0 THEN bt ELSE add(f[i - 1], i)
    <3>1. CASE i = 0
      BY <1>8, <3>1 DEF Recurs
    <3>2. CASE i # 0
      <4>1. i - 1 \in 0..(L - 1) /\ i - 1 \in 0..L /\ (i - 1) + 1 = i
        BY <1>1, <3>2
      <4>2. Good(f[i - 1], i - 1)
        BY <1>10, <4>1
      <4>3. f[(i - 1) + 1] = add(f[i - 1], (i - 1) + 1)
        BY <1>9, <4>1, <4>2
      <4> QED  BY <3>2, <4>1, <4>3
    <3> QED  BY <3>1, <3>2
  <2>2. f = [i \in 0..L |-> f[i]]
    BY <1>8 DEF UpTo
  <2> QED  BY <2>1, <2>2
<1>12. Obeys(after)
  <2> HIDE DEF Obeys
  <2> QED  BY <1>11
<1>13. \A i \in 0..L : after[i] = IF i = 0 THEN bt ELSE add(after[i - 1], i)
  BY <1>12
<1> HIDE DEF after, Obeys
<1> DEFINE W == {k \in 0..L : Good(after[k], k)}
<1>14. 0..L \subseteq W
  <2>1. 0 \in W
    BY <1>1, <1>4, <1>13
  <2>2. ASSUME NEW k \in 0..(L - 1), k \in W PROVE k + 1 \in W
    <3>1. k + 1 \in 0..L /\ k + 1 # 0 /\ (k + 1) - 1 = k
      BY <1>1
    <3>2. after[k + 1] = add(after[k], k + 1)
      BY <1>13, <3>1
    <3> QED  BY <1>3, <2>2, <3>1, <3>2
  <2> HIDE DEF W
  <2> QED  BY <1>1, <2>1, <2>2, InductionUpTo
<1>15. Good(after[L], L)
  BY <1>1, <1>14
<1>16. Upto(L) = ToSet(names)
  BY <1>1 DEF Upto, ToSet
<1> QED  BY <1>2, <1>15, <1>16 DEF Good, names, D

(* What btree_find() looks for, and which way it goes.                     *)
Matches(n, name) ==
  IsPrefix(n, name) /\ (Len(n) = Len(name) \/ name[Len(n) + 1] \in {" ", "\n"})
Turn(bt, n, name) == IF ~IsPrefix(n, name) THEN bt.node[n][Side(name, n)] ELSE bt.node[n].more
Answer(n, name, later) ==
  IF ~IsPrefix(n, name) \/ later # NULL THEN later ELSE IF Matches(n, name) THEN n ELSE NULL

LEMMA FindIs ==
  ASSUME NEW bt, NEW U, NEW Data, NEW reach, NEW depth, NEW N,
         TreeBy(bt, U, Data, reach, depth, N), NEW name, name # NULL
  PROVE  LET D == DOMAIN bt.node
         IN  \E way, below :
               /\ way = [n \in D |-> Turn(bt, n, name)] /\ Chain(D, NULL, way, depth, N)
               /\ below[NULL] = NULL /\ btree_find(bt, name) = below[bt.root]
               /\ \A n \in D : below[n] = Answer(n, name, below[way[n]])
               /\ \A n \in D : below[n] \in D \cup {NULL}
<1> DEFINE D == DOMAIN bt.node
           E == D \cup {NULL}
           way == [n \in D |-> Turn(bt, n, name)]
           Body(f) == [n \in E |->
                         IF n = NULL THEN NULL
                         ELSE IF ~IsPrefix(n, name) THEN f[bt.node[n][Side(name, n)]]
                         ELSE LET later == f[bt.node[n].more]
                              IN  IF later # NULL THEN later
                                  ELSE IF Matches(n, name) THEN n ELSE NULL]
           below == CHOOSE f : f = Body(f)
           step == [q \in D \X E |-> Answer(q[1], name, q[2])]
<1>1. /\ NULL \notin D /\ N \in Nat /\ depth \in [D -> 0..N]
      /\ \A n \in D, side \in Sides : bt.node[n][side] \in E
  BY DEF TreeBy, Node, Sides
<1>2. \A n \in D : \/ Turn(bt, n, name) = bt.node[n][Side(name, n)]
                   \/ Turn(bt, n, name) = bt.node[n].more
  BY DEF Turn
<1>3. ASSUME NEW n \in D
      PROVE  \E side \in Sides : Turn(bt, n, name) = bt.node[n][side]
  <2>1. CASE Turn(bt, n, name) = bt.node[n][Side(name, n)]
    BY <2>1, SideIs
  <2>2. CASE Turn(bt, n, name) = bt.node[n].more
    BY <2>2 DEF Sides
  <2> QED  BY <1>2, <2>1, <2>2
<1>4. \A n \in D : way[n] = Turn(bt, n, name)
  OBVIOUS
<1>5. \A n \in D : Turn(bt, n, name) \in E
  BY <1>1, <1>3
<1>6. way \in [D -> E]
  <2> HIDE DEF D, E
  <2> QED  BY <1>5
<1>7. ASSUME NEW n \in D, way[n] # NULL PROVE depth[way[n]] > depth[n]
  <2>1. PICK side \in Sides : way[n] = bt.node[n][side]
    BY <1>3, <1>4
  <2> HIDE DEF way
  <2> QED  BY <1>7, <2>1 DEF TreeBy
<1> HIDE DEF way
<1>8. Chain(D, NULL, way, depth, N)
  BY <1>1, <1>6, <1>7 DEF Chain
<1>9. step \in ChainSteps(D, E) /\ NULL \in E
  BY DEF ChainSteps, Answer
<1>10. \A n \in D, v \in E : step[<<n, v>>] = Answer(n, name, v)
  OBVIOUS
<1> HIDE DEF step, D
<1>11. PICK f \in OnChain(D, NULL, E) : RecursAlong(f, D, NULL, way, NULL, step)
  <2> HIDE DEF E
  <2> QED  BY <1>1, <1>8, <1>9, ChainExists
<1>12. /\ f[NULL] = NULL /\ \A n \in D : f[n] = Answer(n, name, f[way[n]])
       /\ f = [n \in E |-> f[n]] /\ \A n \in E : f[n] \in E
  BY <1>4, <1>5, <1>10, <1>11 DEF OnChain, RecursAlong
<1>13. \A g : \A n \in D : Answer(n, name, g[Turn(bt, n, name)]) =
                 IF ~IsPrefix(n, name) THEN g[bt.node[n][Side(name, n)]]
                 ELSE LET later == g[bt.node[n].more]
                      IN  IF later # NULL THEN later ELSE IF Matches(n, name) THEN n ELSE NULL
  BY DEF Answer, Turn
<1>14. f = Body(f)
  <2>1. ASSUME NEW n \in E PROVE f[n] = Body(f)[n]
    <3>1. CASE n = NULL
      BY <1>12, <3>1
    <3>2. CASE n # NULL
      <4>1. n \in D /\ f[n] = Answer(n, name, f[Turn(bt, n, name)])
        BY <1>4, <1>12, <3>2
      <4>2. Body(f)[n] = Answer(n, name, f[Turn(bt, n, name)])
        BY <1>13, <3>2, <4>1
      <4> QED  BY <4>1, <4>2
    <3> QED  BY <3>1, <3>2
  <2>2. Body(f) = [n \in E |-> Body(f)[n]]
    OBVIOUS
  <2> HIDE DEF Body, E
  <2> QED  BY <1>12, <2>1, <2>2
<1>15. below = Body(below)
  <2> HIDE DEF Body
  <2> QED  BY <1>14
<1>16. below[NULL] = NULL
  BY <1>15
<1>17. ASSUME NEW n \in D PROVE below[n] = Answer(n, name, below[way[n]])
  <2>1. n \in E /\ n # NULL
    BY <1>1
  <2> HIDE DEF below
  <2>2. below[n] = Body(below)[n]
    BY <1>15
  <2>3. Body(below)[n] = Answer(n, name, below[Turn(bt, n, name)])
    BY <1>13, <2>1
  <2> QED  BY <1>4, <2>2, <2>3
<1>18. btree_find(bt, name) = below[bt.root]
  BY DEF btree_find, Matches, D
<1> HIDE DEF below, Body
<1> DEFINE T == {NULL} \cup {n \in D : below[n] \in E}
<1>19. D \subseteq T
  <2>1. ASSUME NEW n \in D, way[n] \in T PROVE n \in T
    <3>1. below[way[n]] \in E
      BY <1>16, <2>1
    <3> QED  BY <1>17, <3>1 DEF Answer
  <2>2. NULL \in T
    OBVIOUS
  <2> HIDE DEF T
  <2> QED  BY <1>1, <1>8, <2>1, <2>2, ChainInduction
<1>20. way = [n \in D |-> Turn(bt, n, name)]
  BY DEF way
<1>21. \A n \in D : below[n] \in E
  BY <1>19, <1>1
<1> QED  BY <1>8, <1>16, <1>17, <1>18, <1>20, <1>21 DEF D

(* A search ends at a node or nowhere.                                     *)
LEMMA FindType ==
  ASSUME NEW bt, NEW U, NEW Data, Tree(bt, U, Data), NEW name
  PROVE  btree_find(bt, name) \in DOMAIN bt.node \cup {NULL}
<1>1. CASE name = NULL
  BY <1>1 DEF btree_find
<1>2. CASE name # NULL
  <2>1. PICK reach, depth, N : TreeBy(bt, U, Data, reach, depth, N)
    BY DEF Tree
  <2>2. bt.root \in DOMAIN bt.node \cup {NULL}
    BY <2>1 DEF TreeBy
  <2> QED  BY <1>2, <2>1, <2>2, FindIs
<1> QED  BY <1>1, <1>2

(* A name made of the tokens of the tree.                                  *)
Names == Seq(ToSet(Tokens)) \ {NULL}

LEMMA TokensFacts == DOMAIN Tokens \subseteq Nat /\ \A t \in ToSet(Tokens) : t \notin {" ", "\n"}
<1> DEFINE Q == ToSet(Tokens) \ {" ", "\n"}
<1>1. Tokens \in Seq(Q)
  BY TokensAssumption
<1>2. \A t \in Q : t \notin {" ", "\n"}
  OBVIOUS
<1> HIDE DEF Q
<1>3. DOMAIN Tokens \subseteq Nat /\ \A i \in DOMAIN Tokens : Tokens[i] \in Q
  BY <1>1
<1> QED  BY <1>2, <1>3 DEF ToSet

(* A name that another one begins with comes before it.                    *)
LEMMA LongerIsMore ==
  ASSUME NEW n \in Names, NEW name \in Names, IsPrefix(n, name), n # name
  PROVE  Side(name, n) = "more" /\ ~Matches(n, name)
<1> DEFINE P == ToSet(Tokens)
<1>1. n \in Seq(P) /\ name \in Seq(P)
  BY DEF Names
<1>2. Len(n) <= Len(name) /\ SubSeq(n, 1, Len(n)) = SubSeq(name, 1, Len(n))
  BY DEF IsPrefix
<1> HIDE DEF P
<1>3. \A i \in 1..Len(n) : n[i] = name[i] /\ n[i] \in P
  BY <1>1, <1>2
<1>4. Len(n) < Len(name)
  <2>1. Len(n) # Len(name)
    BY <1>1, <1>3, SameElements
  <2> QED  BY <1>1, <1>2, <2>1
<1>5. ~IsPrefix(name, n)
  BY <1>1, <1>4 DEF IsPrefix
<1>6. \A t \in P : Position[t] \in Nat
  <2> SUFFICES ASSUME NEW t \in P PROVE Position[t] \in Nat
    OBVIOUS
  <2>1. \E i \in DOMAIN Tokens : Tokens[i] = t
    BY DEF P, ToSet
  <2>2. Position[t] = CHOOSE i \in DOMAIN Tokens : Tokens[i] = t
    BY DEF Position, P
  <2>3. DOMAIN Tokens \subseteq Nat
    BY TokensFacts
  <2> QED  BY <2>1, <2>2, <2>3
<1>7. ~Less(name, n)
  <2>1. ASSUME NEW i \in DOMAIN name \cap DOMAIN n
        PROVE  ~(Position[name[i]] < Position[n[i]])
    <3>1. i \in 1..Len(n)
      BY <1>1
    <3>2. n[i] = name[i] /\ Position[n[i]] \in Nat
      BY <1>3, <1>6, <3>1
    <3> QED  BY <3>2
  <2> QED  BY <1>5, <2>1 DEF Less, IsStrictPrefix
<1>8. name[Len(n) + 1] \notin {" ", "\n"}
  <2>1. name[Len(n) + 1] \in P
    BY <1>1, <1>4
  <2>2. \A t \in P : t \notin {" ", "\n"}
    BY TokensFacts DEF P
  <2> QED  BY <2>1, <2>2
<1>9. Len(n) # Len(name)
  BY <1>1, <1>4
<1> QED  BY <1>7, <1>8, <1>9 DEF Side, Matches

LEMMA Itself == ASSUME NEW n \in Names PROVE IsPrefix(n, n) /\ Matches(n, n)
BY DEF Names, IsPrefix, Matches

(* A name is found where it was added, and nowhere else.                   *)
LEMMA FindExact ==
  ASSUME NEW bt, NEW Data, Tree(bt, Names, Data), NEW name \in Names
  PROVE  btree_find(bt, name) = IF name \in DOMAIN bt.node THEN name ELSE NULL
<1> DEFINE D == DOMAIN bt.node
<1>1. PICK reach, depth, N : TreeBy(bt, Names, Data, reach, depth, N)
  BY DEF Tree
<1>2. name # NULL
  BY DEF Names
<1>3. PICK way, below :
        /\ way = [n \in D |-> Turn(bt, n, name)] /\ Chain(D, NULL, way, depth, N)
        /\ below[NULL] = NULL /\ btree_find(bt, name) = below[bt.root]
        /\ \A n \in D : below[n] = Answer(n, name, below[way[n]])
        /\ \A n \in D : below[n] \in D \cup {NULL}
  BY <1>1, <1>2, FindIs
<1>4. /\ NULL \notin D /\ N \in Nat /\ D \subseteq Names /\ bt.root \in D \cup {NULL}
      /\ bt.root = NULL => D = {}
      /\ bt.root # NULL => reach[bt.root] = Names
      /\ \A n \in D : n \in reach[n] /\ bt.node[n].more \in D \cup {NULL}
  BY <1>1 DEF TreeBy, Node
<1>5. ASSUME NEW n \in D, NEW side \in Sides, bt.node[n][side] # NULL
      PROVE  reach[bt.node[n][side]] = {x \in reach[n] : x # n /\ Side(x, n) = side}
  BY <1>1, <1>5 DEF TreeBy
<1>6. ASSUME NEW n \in D, name \in D, name \in reach[n], name # n
      PROVE  bt.node[n][Side(name, n)] # NULL
  BY <1>1, <1>6 DEF TreeBy
<1>7. \A n \in D : way[n] = Turn(bt, n, name)
  BY <1>3
<1> HIDE DEF D
<1> DEFINE Found(n) == /\ below[n] = NULL \/ (below[n] = name /\ name \in reach[n] /\ name \in D)
                       /\ name \in D /\ name \in reach[n] => below[n] = name
           T == {NULL} \cup {n \in D : Found(n)}
<1>8. ASSUME NEW n \in D, way[n] \in T PROVE n \in T
  <2>1. below[n] = Answer(n, name, below[way[n]]) /\ way[n] = Turn(bt, n, name)
    BY <1>3, <1>7
  <2>2. CASE n # name
    <3>1. below[n] = below[way[n]] /\ way[n] = bt.node[n][Side(name, n)]
      <4>1. CASE ~IsPrefix(n, name)
        BY <2>1, <4>1 DEF Answer, Turn
      <4>2. CASE IsPrefix(n, name)
        <5>1. Side(name, n) = "more" /\ ~Matches(n, name)
          BY <1>4, <2>2, <4>2, LongerIsMore
        <5>2. bt.node[n].more = bt.node[n]["more"]
          OBVIOUS
        <5>3. way[n] = bt.node[n].more
          BY <2>1, <4>2 DEF Turn
        <5>4. below[n] = IF below[way[n]] # NULL THEN below[way[n]] ELSE NULL
          BY <2>1, <4>2, <5>1 DEF Answer
        <5> QED  BY <5>1, <5>2, <5>3, <5>4
      <4> QED  BY <4>1, <4>2
    <3> DEFINE c == bt.node[n][Side(name, n)]
    <3>2. CASE c = NULL
      <4>1. below[n] = NULL
        BY <1>3, <3>1, <3>2
      <4>2. ~(name \in D /\ name \in reach[n])
        BY <1>6, <2>2, <3>2
      <4> QED  BY <4>1, <4>2
    <3>3. CASE c # NULL
      <4>1. name \in reach[c] <=> name \in reach[n]
        BY <1>5, <2>2, <3>3, SideIs
      <4>2. c \in T /\ below[n] = below[c]
        BY <1>8, <3>1
      <4> HIDE DEF c
      <4> QED  BY <3>3, <4>1, <4>2
    <3> QED  BY <3>2, <3>3
  <2>3. CASE n = name
    <3>1. IsPrefix(n, name) /\ Matches(n, name)
      BY <1>4, <2>3, Itself
    <3>2. way[n] = bt.node[n].more /\ bt.node[n].more = bt.node[n]["more"]
      BY <2>1, <3>1 DEF Turn
    <3>3. below[way[n]] = NULL
      <4>1. CASE way[n] = NULL
        BY <1>3, <4>1
      <4>2. CASE way[n] # NULL
        <5>1. "more" \in Sides
          BY DEF Sides
        <5>2. name \notin reach[way[n]]
          BY <1>5, <2>3, <3>2, <4>2, <5>1
        <5>3. Found(way[n])
          BY <1>8, <4>2
        <5> QED  BY <5>2, <5>3
      <4> QED  BY <4>1, <4>2
    <3>4. below[n] = name
      BY <2>1, <2>3, <3>1, <3>3 DEF Answer
    <3>5. name \in reach[n]
      BY <1>4, <2>3
    <3> QED  BY <2>3, <3>4, <3>5
  <2> QED  BY <2>2, <2>3
<1>9. D \subseteq T
  <2>1. NULL \in T
    OBVIOUS
  <2> HIDE DEF T
  <2> QED  BY <1>3, <1>4, <1>8, <2>1, ChainInduction
<1>10. CASE bt.root = NULL
  BY <1>3, <1>4, <1>10 DEF D
<1>11. CASE bt.root # NULL
  <2>1. bt.root \in D /\ bt.root \in T /\ name \in reach[bt.root]
    BY <1>4, <1>9, <1>11
  <2>2. below[bt.root] = IF name \in D THEN name ELSE NULL
    <3>1. Found(bt.root)
      BY <1>11, <2>1
    <3> QED  BY <2>1, <3>1
  <2> QED  BY <1>3, <2>2 DEF D
<1> QED  BY <1>10, <1>11

-----------------------------------------------------------------------------
(* The iterator.                                                           *)

Statuses == {"ok", "DONE", "EINVAL", "assert"}

(* States of the iterator over a command line with tokens in T. *)
Iterator(argv, T) ==
  [argi : (1..Len(argv)) \cup {1}, sp : Seq(T), dashes : Nat, eq : BOOLEAN,
   status : Statuses, name : Seq(T), val : Seq(T)]

(* What is left behind the element i, and with what is left of this one.   *)
Behind(argv, i) ==
  LET rest == SubSeq(argv, i + 1, Len(argv)) IN Len(rest) + Len(FlattenSeq(rest))
LeftOf(p, argv) == Len(p.sp) + Behind(argv, p.argi)

LEMMA BehindType ==
  ASSUME NEW T, NEW argv \in Seq(Seq(T)), NEW i \in Nat
  PROVE  Behind(argv, i) \in Nat
<1> DEFINE rest == SubSeq(argv, i + 1, Len(argv))
           V == Seq(T)
<1>1. rest \in Seq(V) /\ Len(rest) \in Nat
  <2> HIDE DEF V
  <2>1. argv \in Seq(V)
    BY DEF V
  <2> QED  BY <2>1
<1> HIDE DEF rest
<1>2. FlattenSeq(rest) \in Seq(T)
  BY <1>1, FlattenType
<1>3. Behind(argv, i) = Len(rest) + Len(FlattenSeq(rest))
  BY DEF Behind, rest
<1> HIDE DEF V
<1>4. Len(FlattenSeq(rest)) \in Nat
  BY <1>2
<1> QED  BY <1>1, <1>3, <1>4

(* The next element is taken off. *)
LEMMA BehindNext ==
  ASSUME NEW T, NEW argv \in Seq(Seq(T)), NEW i \in Nat, i < Len(argv)
  PROVE  Behind(argv, i) = 1 + Len(argv[i + 1]) + Behind(argv, i + 1)
<1> DEFINE V == Seq(T)
           e == argv[i + 1]
           rest == SubSeq(argv, i + 1, Len(argv))
           later == SubSeq(argv, (i + 1) + 1, Len(argv))
           one == <<e>>
<1>1. argv \in Seq(V) /\ Len(argv) \in Nat
  OBVIOUS
<1>2. e \in V
  <2> HIDE DEF V
  <2> QED  BY <1>1
<1>3. /\ rest \in Seq(V) /\ later \in Seq(V) /\ one \in Seq(V)
      /\ Len(rest) = Len(argv) - i /\ Len(later) = Len(argv) - i - 1 /\ Len(one) = 1
      /\ one[1] = e
  <2> HIDE DEF V, e
  <2> QED  BY <1>1, <1>2
<1>4. /\ \A k \in 1..Len(rest) : rest[k] = argv[i + k]
      /\ \A k \in 1..Len(later) : later[k] = argv[i + 1 + k]
  <2> HIDE DEF V
  <2> QED  BY <1>1
<1> HIDE DEF rest, later, one, V
<1>5. rest = one \o later
  <2>0. /\ one \o later \in Seq(V) /\ Len(one \o later) = Len(one) + Len(later)
        /\ \A k \in 1..Len(one) : (one \o later)[k] = one[k]
        /\ \A k \in 1..Len(later) : (one \o later)[Len(one) + k] = later[k]
    <3>1. one \in Seq(V) /\ later \in Seq(V)
      BY <1>3
    <3> QED  BY <3>1, CatProperties
  <2>1. one \o later \in Seq(V) /\ Len(one \o later) = Len(rest)
    BY <1>1, <1>3, <2>0
  <2>2. ASSUME NEW k \in 1..Len(rest) PROVE rest[k] = (one \o later)[k]
    <3>1. CASE k = 1
      <4>1. (one \o later)[1] = one[1]
        BY <1>3, <2>0
      <4> QED  BY <1>3, <1>4, <3>1, <4>1
    <3>2. CASE k # 1
      <4>1. k - 1 \in 1..Len(later) /\ k = Len(one) + (k - 1)
        BY <1>1, <1>3, <3>2
      <4>2. (one \o later)[Len(one) + (k - 1)] = later[k - 1]
        BY <2>0, <4>1
      <4>3. i + 1 + (k - 1) = i + k
        OBVIOUS
      <4> QED  BY <1>4, <4>1, <4>2, <4>3
    <3> QED  BY <3>1, <3>2
  <2> QED  BY <1>3, <2>1, <2>2, SameElements
<1>6. later \in Seq(Seq(T)) /\ one \in Seq(Seq(T)) /\ e \in Seq(T)
  BY <1>2, <1>3 DEF V
<1>7. FlattenSeq(rest) = FlattenSeq(one) \o FlattenSeq(later)
  BY <1>5, <1>6, FlattenCat
<1> HIDE DEF e
<1>8. FlattenSeq(one) = e
  BY <1>6, FlattenSingle DEF one
<1>9. FlattenSeq(later) \in Seq(T)
  BY <1>6, FlattenType
<1>10. Len(FlattenSeq(rest)) = Len(e) + Len(FlattenSeq(later))
  BY <1>6, <1>7, <1>8, <1>9, CatProperties
<1>11. Len(FlattenSeq(later)) \in Nat /\ Len(e) \in Nat
  BY <1>6, <1>9
<1>12. Behind(argv, i) = Len(rest) + Len(FlattenSeq(rest))
       /\ Behind(argv, i + 1) = Len(later) + Len(FlattenSeq(later))
  BY DEF Behind, rest, later
<1>13. Behind(argv, i) = 1 + Len(e) + Behind(argv, i + 1)
  BY <1>1, <1>3, <1>10, <1>11, <1>12
<1> QED  BY <1>13 DEF e

LEMMA SelectIs ==
  ASSUME NEW T, NEW s \in Seq(T), NEW I, I \subseteq 1..Len(s)
  PROVE  (IF I # {} THEN Min(I) ELSE 0) \in (IF I # {} THEN I ELSE {0})
<1>1. CASE I = {}
  BY <1>1
<1>2. CASE I # {}
  <2>1. PICK x \in I : \A y \in I : x <= y
    <3>1. I \subseteq Nat
      OBVIOUS
    <3> QED  BY <1>2, <3>1, SmallestNat
  <2> QED  BY <1>2, <2>1 DEF Min
<1> QED  BY <1>1, <1>2

LEMMA DashesType ==
  ASSUME NEW T, NEW e \in Seq(T)
  PROVE  Dashes(e) \in 0..Len(e)
<1> DEFINE a == Append(e, "end")
           V == T \cup {"end"}
           I == {i \in 1..Len(a) : a[i] # "-"}
<1>1. a \in Seq(V) /\ Len(a) = Len(e) + 1 /\ a[Len(e) + 1] = "end" /\ Len(e) \in Nat
  OBVIOUS
<1> HIDE DEF a, V
<1>2. Len(e) + 1 \in I
  BY <1>1
<1>3. I \subseteq 1..Len(a) /\ 0 \notin I
  OBVIOUS
<1>4. Dashes(e) = (IF I # {} THEN Min(I) ELSE 0) - 1
  BY DEF Dashes, SelectInSeq, a
<1> HIDE DEF I
<1>5. (IF I # {} THEN Min(I) ELSE 0) \in (IF I # {} THEN I ELSE {0})
  BY <1>1, <1>3, SelectIs
<1>6. Min(I) \in I
  BY <1>2, <1>5
<1>7. I \subseteq 1..(Len(e) + 1)
  BY <1>1, <1>3
<1> DEFINE m == IF I # {} THEN Min(I) ELSE 0
<1>8. m \in 1..(Len(e) + 1) /\ Dashes(e) = m - 1
  BY <1>2, <1>4, <1>6, <1>7
<1> HIDE DEF m
<1> QED  BY <1>1, <1>8

LEMMA TailType ==
  ASSUME NEW T, NEW s \in Seq(T), s # <<>>
  PROVE  /\ Head(s) \in T /\ Tail(s) \in Seq(T) /\ Len(Tail(s)) = Len(s) - 1 /\ Len(s) \in Nat \ {0}
OBVIOUS

LEMMA SubType ==
  ASSUME NEW T, NEW s \in Seq(T), NEW i \in 1..(Len(s) + 1), NEW j \in 0..Len(s)
  PROVE  SubSeq(s, i, j) \in Seq(T) /\ Len(SubSeq(s, i, j)) = IF i <= j THEN j - i + 1 ELSE 0
OBVIOUS

(* The next letter of an element. *)
LEMMA ShortKey ==
  ASSUME NEW argv, NEW T, NEW p \in Iterator(argv, T), p.sp # <<>>
  PROVE  LET q == parse_short_key(p)
         IN  /\ q \in Iterator(argv, T) /\ q.dashes = p.dashes /\ q.argi = p.argi
             /\ Len(q.sp) < Len(p.sp)
<1>1. p.sp \in Seq(T)
  BY DEF Iterator
<1>2. Head(p.sp) \in T /\ Tail(p.sp) \in Seq(T) /\ Len(Tail(p.sp)) < Len(p.sp)
  BY <1>1, TailType
<1>3. <<Head(p.sp)>> \in Seq(T)
  BY <1>2
<1> QED  BY <1>2, <1>3 DEF parse_short_key, Iterator, Statuses

LEMMA LongKey ==
  ASSUME NEW argv, NEW T, NEW p \in Iterator(argv, T)
  PROVE  LET q == parse_long_key(p)
         IN  /\ q \in Iterator(argv, T) /\ q.dashes = p.dashes /\ q.argi = p.argi
             /\ Len(q.sp) <= Len(p.sp) /\ q.status = p.status
<1> DEFINE s == p.sp
           I == {i \in 1..Len(s) : s[i] = "="}
           at == SelectInSeq(s, LAMBDA t : t = "=")
           front == SubSeq(s, 1, at - 1)
           back == SubSeq(s, at + 1, Len(s))
<1>1. s \in Seq(T) /\ Len(s) \in Nat
  BY DEF Iterator
<1>2. at = IF I # {} THEN Min(I) ELSE 0
  BY DEF SelectInSeq
<1>3. at \in 0..Len(s)
  <2>1. I \subseteq 1..Len(s)
    OBVIOUS
  <2> HIDE DEF I, at, s
  <2>2. at \in (IF I # {} THEN I ELSE {0})
    BY <1>1, <1>2, <2>1, SelectIs
  <2> QED  BY <1>1, <2>1, <2>2
<1>4. parse_long_key(p) = IF at = 0 THEN [p EXCEPT !.name = s]
                          ELSE [p EXCEPT !.name = front, !.sp = back, !.eq = TRUE]
  BY DEF parse_long_key
<1> HIDE DEF at
<1>5. CASE at = 0
  <2>1. s = p.sp
    OBVIOUS
  <2> HIDE DEF s
  <2>2. [p EXCEPT !.name = s] \in Iterator(argv, T)
    BY <1>1 DEF Iterator
  <2>3. LET q == [p EXCEPT !.name = s]
        IN  q.dashes = p.dashes /\ q.argi = p.argi /\ q.sp = p.sp /\ q.status = p.status
    BY DEF Iterator
  <2> QED  BY <1>1, <1>4, <1>5, <2>1, <2>2, <2>3
<1>6. CASE at # 0
  <2>1. front \in Seq(T)
    <3>1. 1 \in 1..(Len(s) + 1) /\ at - 1 \in 0..Len(s)
      BY <1>1, <1>3, <1>6
    <3> HIDE DEF s
    <3> QED  BY <1>1, <3>1, SubType
  <2>2. back \in Seq(T) /\ Len(back) <= Len(s)
    <3>1. at + 1 \in 1..(Len(s) + 1) /\ Len(s) \in 0..Len(s)
      BY <1>1, <1>3
    <3> HIDE DEF s
    <3>2. back \in Seq(T) /\ Len(back) = IF at + 1 <= Len(s) THEN Len(s) - (at + 1) + 1 ELSE 0
      BY <1>1, <3>1, SubType
    <3> QED  BY <1>1, <1>3, <3>2
  <2> HIDE DEF front, back
  <2> QED  BY <1>4, <1>6, <2>1, <2>2 DEF Iterator
<1> QED  BY <1>5, <1>6

LEMMA NextElementType ==
  ASSUME NEW T, NEW argv \in Seq(Seq(T)), NEW p \in Iterator(argv, T), ~LastElement(p, argv),
         p.status = "ok"
  PROVE  LET q == NextElement(p, argv)
         IN  /\ q \in Iterator(argv, T)
             /\ q.status \in {"ok", "DONE"} => q.dashes \in 0..2
             /\ LeftOf(q, argv) < LeftOf(p, argv)
<1> DEFINE reset == [p EXCEPT !.dashes = 0, !.eq = FALSE, !.name = <<>>]
           q == load_next_argv(reset, argv)
           n == Dashes(q.sp)
           r == [q EXCEPT !.dashes = n, !.sp = SubSeq(q.sp, n + 1, Len(q.sp))]
           X == NextElement(p, argv)
<1>1. /\ p.argi \in Nat /\ p.argi < Len(argv) /\ p.argi + 1 \in 1..Len(argv) /\ Len(argv) \in Nat
  BY DEF Iterator, LastElement
<1>2. reset \in Iterator(argv, T) /\ reset.status = "ok" /\ reset.argi = p.argi
  <2>1. <<>> \in Seq(T)
    OBVIOUS
  <2> QED  BY <2>1 DEF Iterator
<1> HIDE DEF reset
<1>3. argv[p.argi + 1] \in Seq(T)
  BY <1>1
<1>4. q \in Iterator(argv, T) /\ q.status = "ok" /\ q.argi = p.argi + 1 /\ q.sp = argv[p.argi + 1]
  BY <1>1, <1>2, <1>3 DEF Iterator, load_next_argv
<1> HIDE DEF q
<1>5. n \in 0..Len(q.sp) /\ Len(q.sp) \in Nat
  BY <1>3, <1>4, DashesType
<1> HIDE DEF n
<1>6. SubSeq(q.sp, n + 1, Len(q.sp)) \in Seq(T)
      /\ Len(SubSeq(q.sp, n + 1, Len(q.sp))) <= Len(q.sp)
  <2>1. n + 1 \in 1..(Len(q.sp) + 1) /\ Len(q.sp) \in 0..Len(q.sp) /\ q.sp \in Seq(T)
    BY <1>3, <1>4, <1>5
  <2>2. /\ SubSeq(q.sp, n + 1, Len(q.sp)) \in Seq(T)
        /\ Len(SubSeq(q.sp, n + 1, Len(q.sp)))
             = IF n + 1 <= Len(q.sp) THEN Len(q.sp) - (n + 1) + 1 ELSE 0
    BY <2>1, SubType
  <2> QED  BY <1>5, <2>2
<1>7. /\ r \in Iterator(argv, T) /\ r.status = "ok" /\ r.argi = p.argi + 1 /\ r.dashes = n
      /\ Len(r.sp) <= Len(argv[p.argi + 1])
  <2>1. n \in Nat
    BY <1>5
  <2> QED  BY <1>4, <1>6, <2>1 DEF Iterator
<1>8. X = IF r.sp = <<>> THEN IF n = 2 THEN [r EXCEPT !.status = "DONE"] ELSE parse_error(r)
          ELSE CASE n = 0 -> [r EXCEPT !.name = r.sp]
                 [] n = 1 -> parse_short_key(r)
                 [] n = 2 -> parse_long_key(r)
                 [] OTHER -> parse_error(r)
  BY Zenon DEF NextElement, reset, q, n
<1> HIDE DEF r
<1> DEFINE Good(x) == /\ x \in Iterator(argv, T) /\ x.dashes = n /\ x.argi = p.argi + 1
                      /\ Len(x.sp) <= Len(r.sp)
<1>9. Len(r.sp) \in Nat /\ r.sp \in Seq(T)
  BY <1>7 DEF Iterator
<1>10. ASSUME NEW v \in Statuses
       PROVE  Good([r EXCEPT !.status = v]) /\ [r EXCEPT !.status = v].status = v
  <2>1. [r EXCEPT !.status = v] \in Iterator(argv, T)
    BY <1>7 DEF Iterator
  <2>2. LET x == [r EXCEPT !.status = v]
        IN  x.dashes = r.dashes /\ x.argi = r.argi /\ x.sp = r.sp /\ x.status = v
    BY <1>7 DEF Iterator
  <2> QED  BY <1>7, <1>9, <2>1, <2>2
<1>10a. Good([r EXCEPT !.status = "DONE"])
  BY <1>10 DEF Statuses
<1>10b. Good([r EXCEPT !.name = r.sp])
  <2> DEFINE v == r.sp
  <2> HIDE DEF v
  <2>1. [r EXCEPT !.name = v] \in Iterator(argv, T)
    BY <1>7, <1>9 DEF Iterator, v
  <2>2. LET x == [r EXCEPT !.name = v]
        IN  x.dashes = r.dashes /\ x.argi = r.argi /\ x.sp = r.sp
    BY <1>7 DEF Iterator
  <2>3. Good([r EXCEPT !.name = v])
    BY <1>7, <1>9, <2>1, <2>2
  <2> QED  BY <2>3 DEF v
<1>11. Good(parse_error(r)) /\ parse_error(r).status = "EINVAL"
  BY <1>10 DEF Statuses, parse_error
<1>12. r.sp # <<>> => Good(parse_short_key(r))
  <2> SUFFICES ASSUME r.sp # <<>> PROVE Good(parse_short_key(r))
    OBVIOUS
  <2>1. LET x == parse_short_key(r)
        IN  /\ x \in Iterator(argv, T) /\ x.dashes = r.dashes /\ x.argi = r.argi
            /\ Len(x.sp) < Len(r.sp)
    BY <1>7, ShortKey
  <2>2. Len(parse_short_key(r).sp) \in Nat
    BY <2>1 DEF Iterator
  <2> QED  BY <1>7, <1>9, <2>1, <2>2
<1>13. Good(parse_long_key(r))
  BY <1>7, LongKey
<1> HIDE DEF Good
<1>14. Good(X) /\ (X.status = "EINVAL" \/ n \in 0..2)
  <2>1. CASE r.sp = <<>> /\ n = 2
    BY <1>8, <1>10a, <2>1
  <2>2. CASE r.sp = <<>> /\ n # 2
    BY <1>8, <1>11, <2>2
  <2>3. CASE r.sp # <<>> /\ n = 0
    BY <1>8, <1>10b, <2>3
  <2>4. CASE r.sp # <<>> /\ n = 1
    BY <1>8, <1>12, <2>4
  <2>5. CASE r.sp # <<>> /\ n = 2
    BY <1>8, <1>13, <2>5
  <2>6. CASE r.sp # <<>> /\ n \notin 0..2
    <3>1. X = parse_error(r)
      BY <1>5, <1>8, <2>6
    <3> QED  BY <1>11, <3>1
  <2>7. n \in 0..2 => n = 0 \/ n = 1 \/ n = 2
    OBVIOUS
  <2> QED  BY <2>1, <2>2, <2>3, <2>4, <2>5, <2>6, <2>7
<1> HIDE DEF X
<1>15. /\ X \in Iterator(argv, T) /\ X.dashes = n /\ X.argi = p.argi + 1
       /\ Len(X.sp) <= Len(argv[p.argi + 1])
  <2>0. X.sp \in Seq(T)
    BY <1>14 DEF Good, Iterator
  <2>1. Len(X.sp) \in Nat /\ Len(argv[p.argi + 1]) \in Nat
    BY <1>3, <2>0
  <2> QED  BY <1>7, <1>9, <1>14, <2>1 DEF Good
<1>16. LeftOf(X, argv) < LeftOf(p, argv)
  <2>1. Behind(argv, p.argi) = 1 + Len(argv[p.argi + 1]) + Behind(argv, p.argi + 1)
    BY <1>1, BehindNext
  <2>2. Behind(argv, p.argi + 1) \in Nat
    <3>1. p.argi + 1 \in Nat
      BY <1>1
    <3> QED  BY <3>1, BehindType
  <2>3. X.sp \in Seq(T) /\ p.sp \in Seq(T)
    BY <1>15 DEF Iterator
  <2>4. Len(p.sp) \in Nat /\ Len(X.sp) \in Nat /\ Len(argv[p.argi + 1]) \in Nat
    BY <1>3, <2>3
  <2> DEFINE e == argv[p.argi + 1]
             b == Behind(argv, p.argi + 1)
  <2>5. LeftOf(X, argv) = Len(X.sp) + b /\ LeftOf(p, argv) = Len(p.sp) + (1 + Len(e) + b)
    BY <1>15, <2>1 DEF LeftOf
  <2>6. Len(X.sp) <= Len(e)
    BY <1>15
  <2>7. Len(p.sp) \in Nat /\ Len(X.sp) \in Nat /\ Len(e) \in Nat /\ b \in Nat
    BY <2>2, <2>4
  <2> HIDE DEF e, b, X
  <2>8. ASSUME NEW x \in Nat, NEW y \in Nat, NEW z \in Nat, NEW c \in Nat, x <= z
        PROVE  x + c < y + (1 + z + c)
    BY <2>8
  <2>9. Len(X.sp) + b < Len(p.sp) + (1 + Len(e) + b)
    BY <2>6, <2>7, <2>8
  <2> QED  BY <2>5, <2>9
<1>17. X.status \in {"ok", "DONE"} => X.dashes \in 0..2
  BY <1>14, <1>15
<1> QED  BY <1>15, <1>16, <1>17 DEF X

(* The next option: what is left of the command line is less. *)
LEMMA GetKey ==
  ASSUME NEW T, NEW argv \in Seq(Seq(T)), NEW p \in Iterator(argv, T), p.dashes \in 0..2,
         p.status = "ok"
  PROVE  LET q == opt_argviter_getkey(p, argv)
         IN  /\ q \in Iterator(argv, T)
             /\ q.status \in {"ok", "DONE"} => q.dashes \in 0..2
             /\ q.status = "ok" => LeftOf(q, argv) < LeftOf(p, argv)
<1> DEFINE q == opt_argviter_getkey(p, argv)
<1>1. CASE p.dashes = 1 /\ p.sp # <<>>
  <2>1. q = parse_short_key(p)
    BY <1>1 DEF opt_argviter_getkey
  <2>2. q \in Iterator(argv, T) /\ q.dashes = p.dashes /\ q.argi = p.argi /\ Len(q.sp) < Len(p.sp)
    BY <1>1, <2>1, ShortKey
  <2> HIDE DEF q
  <2>3. Behind(argv, p.argi) \in Nat
    <3>1. p.argi \in Nat
      BY DEF Iterator
    <3> QED  BY <3>1, BehindType
  <2>4. Len(p.sp) \in Nat /\ Len(q.sp) \in Nat
    BY <2>2 DEF Iterator
  <2>5. LeftOf(q, argv) < LeftOf(p, argv)
    BY <2>2, <2>3, <2>4 DEF LeftOf
  <2> QED  BY <2>2, <2>5 DEF q
<1>2. CASE ~(p.dashes = 1 /\ p.sp # <<>>) /\ LastElement(p, argv)
  <2>1. q = [p EXCEPT !.status = "DONE"]
    BY <1>2 DEF opt_argviter_getkey
  <2> QED  BY <2>1 DEF Iterator, Statuses
<1>3. CASE ~(p.dashes = 1 /\ p.sp # <<>>) /\ ~LastElement(p, argv)
  <2>1. q = NextElement(p, argv)
    BY <1>3 DEF opt_argviter_getkey
  <2> QED  BY <1>3, <2>1, NextElementType
<1> QED  BY <1>1, <1>2, <1>3

(* Its value. *)
LEMMA GetVal ==
  ASSUME NEW T, NEW argv \in Seq(Seq(T)), NEW p \in Iterator(argv, T), p.dashes \in 0..2
  PROVE  LET q == opt_argviter_getval(p, argv)
         IN  /\ q \in Iterator(argv, T) /\ q.dashes \in 0..2
             /\ q.status \in {p.status, "EINVAL", "assert"}
             /\ q.status = "ok" => LeftOf(q, argv) <= LeftOf(p, argv)
<1> DEFINE own == p.eq \/ (p.dashes = 1 /\ p.sp # <<>>)
           X == opt_argviter_getval(p, argv)
           l == load_next_argv(p, argv)
           Good(x) == /\ x \in Iterator(argv, T) /\ x.dashes \in 0..2
                      /\ LeftOf(x, argv) <= LeftOf(p, argv)
                      /\ x.status \in {p.status, "assert"}
           Ends(q) == IF p.dashes = 1 /\ q.sp = <<>> THEN [q EXCEPT !.status = "assert"]
                      ELSE [q EXCEPT !.val = q.sp, !.dashes = 0]
<1>1. X = IF ~own /\ LastElement(p, argv) THEN parse_error(p)
          ELSE IF own THEN Ends(p) ELSE Ends(l)
  BY DEF opt_argviter_getval
<1> HIDE DEF own, X
<1>2. p.argi \in Nat /\ p.sp \in Seq(T) /\ Len(p.sp) \in Nat
  BY DEF Iterator
<1>3. Behind(argv, p.argi) \in Nat
  BY <1>2, BehindType
<1>4. Good(p)
  BY <1>2, <1>3 DEF LeftOf
<1>5. ASSUME NEW q, Good(q) PROVE Good(Ends(q))
  <2>1. q.sp \in Seq(T)
    BY <1>5 DEF Iterator
  <2>2. Good([q EXCEPT !.status = "assert"])
    BY <1>5 DEF Iterator, Statuses, LeftOf
  <2>3. Good([q EXCEPT !.val = q.sp, !.dashes = 0])
    <3> DEFINE v == q.sp
               x == [q EXCEPT !.val = v, !.dashes = 0]
    <3>1. v \in Seq(T) /\ q.sp = v
      BY <2>1
    <3> HIDE DEF v
    <3>2. x \in Iterator(argv, T)
      BY <1>5, <3>1 DEF Iterator
    <3>3. x.dashes = 0 /\ x.sp = q.sp /\ x.argi = q.argi /\ x.status = q.status
      BY <1>5 DEF Iterator
    <3> HIDE DEF x
    <3>4. LeftOf(x, argv) = LeftOf(q, argv)
      BY <3>3 DEF LeftOf
    <3>5. Good(x)
      BY <1>5, <3>2, <3>3, <3>4
    <3> QED  BY <3>5 DEF x, v
  <2> HIDE DEF Good
  <2> QED  BY <2>2, <2>3
<1>6. ~LastElement(p, argv) => Good(l)
  <2> SUFFICES ASSUME ~LastElement(p, argv) PROVE Good(l)
    OBVIOUS
  <2>1. p.argi < Len(argv) /\ p.argi + 1 \in 1..Len(argv) /\ Len(argv) \in Nat
    BY <1>2 DEF Iterator, LastElement
  <2>2. argv[p.argi + 1] \in Seq(T)
    BY <2>1
  <2>3. l \in Iterator(argv, T) /\ l.dashes = p.dashes /\ l.argi = p.argi + 1
        /\ l.sp = argv[p.argi + 1] /\ l.status = p.status
    BY <2>1, <2>2 DEF Iterator, load_next_argv
  <2> HIDE DEF l
  <2>4. Behind(argv, p.argi) = 1 + Len(argv[p.argi + 1]) + Behind(argv, p.argi + 1)
    BY <1>2, <2>1, BehindNext
  <2>5. p.argi + 1 \in Nat
    BY <2>1
  <2>6. Behind(argv, p.argi + 1) \in Nat
    BY <1>2, <2>5, BehindType
  <2>7. Len(argv[p.argi + 1]) \in Nat
    BY <2>2
  <2>8. LeftOf(l, argv) = Len(argv[p.argi + 1]) + Behind(argv, p.argi + 1)
    BY <2>3 DEF LeftOf
  <2>9. LeftOf(l, argv) <= LeftOf(p, argv)
    <3>1. LeftOf(p, argv) = Len(p.sp) + Behind(argv, p.argi)
      BY DEF LeftOf
    <3>2. \A a, b, c \in Nat : b + c <= a + (1 + b + c)
      OBVIOUS
    <3> DEFINE size == Len(p.sp)
               next == Len(argv[p.argi + 1])
               rest == Behind(argv, p.argi + 1)
    <3>3. size \in Nat /\ next \in Nat /\ rest \in Nat
      BY <1>2, <2>6, <2>7
    <3>4. LeftOf(l, argv) = next + rest /\ LeftOf(p, argv) = size + (1 + next + rest)
      BY <2>4, <2>8, <3>1
    <3> HIDE DEF size, next, rest
    <3> QED  BY <3>2, <3>3, <3>4
  <2> QED  BY <2>3, <2>9
<1>7. parse_error(p) \in Iterator(argv, T) /\ parse_error(p).dashes \in 0..2
      /\ parse_error(p).status = "EINVAL"
  BY DEF parse_error, Iterator, Statuses
<1> HIDE DEF l, Ends
<1>8. CASE ~own /\ LastElement(p, argv)
  BY <1>1, <1>7, <1>8 DEF X
<1>9. CASE ~(~own /\ LastElement(p, argv))
  <2>1. Good(Ends(p)) /\ (~own => Good(Ends(l)))
    BY <1>4, <1>5, <1>6, <1>9
  <2> HIDE DEF Good
  <2>2. Good(X)
    BY <1>1, <1>9, <2>1
  <2> QED  BY <2>2 DEF Good, X
<1> QED  BY <1>8, <1>9

-----------------------------------------------------------------------------
(* Texts and numbers.                                                      *)

LEMMA SmallestOf ==
  ASSUME NEW N \in Nat, NEW I, I \subseteq 1..N, I # {}
  PROVE  (CHOOSE i \in I : \A j \in I : i <= j) \in I
<1>1. I \subseteq Nat
  OBVIOUS
<1>2. PICK i \in I : \A j \in I : i <= j
  BY <1>1, SmallestNat
<1> QED  BY <1>2

LEMMA LargestOf ==
  ASSUME NEW N \in Nat, NEW I, I \subseteq 1..N, I # {}
  PROVE  (CHOOSE i \in I : \A j \in I : j <= i) \in I
<1> DEFINE U == {N - i : i \in I}
<1>1. U \subseteq Nat /\ U # {}
  <2>1. \A i \in I : N - i \in Nat
    OBVIOUS
  <2> QED  BY <2>1
<1>2. PICK u \in U : \A v \in U : u <= v
  <2> HIDE DEF U
  <2> QED  BY <1>1, SmallestNat
<1>3. PICK i \in I : u = N - i
  OBVIOUS
<1>4. ASSUME NEW j \in I PROVE j <= i
  <2>1. N - j \in U
    OBVIOUS
  <2>2. N - i <= N - j
    BY <1>2, <1>3, <2>1
  <2>3. i \in 1..N /\ j \in 1..N
    OBVIOUS
  <2> QED  BY <2>2, <2>3
<1> QED  BY <1>4

LEMMA StrippedType == ASSUME NEW T, NEW s \in Seq(T) PROVE Stripped(s) \in Seq(T)
<1> DEFINE text == {i \in DOMAIN s : s[i] # " "}
           a == CHOOSE i \in text : \A j \in text : i <= j
           b == CHOOSE i \in text : \A j \in text : j <= i
<1>1. Len(s) \in Nat /\ text \subseteq 1..Len(s)
  <2>1. DOMAIN s = 1..Len(s) /\ Len(s) \in Nat
    OBVIOUS
  <2> QED  BY <2>1
<1>2. Stripped(s) = IF text = {} THEN <<>> ELSE SubSeq(s, a, b)
  BY DEF Stripped
<1>3. text # {} => a \in text /\ b \in text
  <2> HIDE DEF text
  <2> QED  BY <1>1, SmallestOf, LargestOf
<1> HIDE DEF text, a, b
<1>4. CASE text = {}
  BY <1>2, <1>4
<1>5. CASE text # {}
  <2>1. a \in 1..(Len(s) + 1) /\ b \in 0..Len(s)
    <3>1. a \in 1..Len(s) /\ b \in 1..Len(s)
      BY <1>1, <1>3, <1>5
    <3> QED  BY <1>1, <3>1
  <2>2. SubSeq(s, a, b) \in Seq(T)
    BY <2>1, SubType
  <2> QED  BY <1>2, <1>5, <2>2
<1> QED  BY <1>4, <1>5

LEMMA PiecesType == ASSUME NEW T, NEW s \in Seq(T), NEW delim PROVE Pieces(s, delim) \in Seq(Seq(T))
<1> DEFINE L == Len(s)
           V == Seq(Seq(T))
           put(v, k) == [v EXCEPT ![Len(v)] = Append(@, s[k])]
           add(v, k) == IF s[k] = delim THEN v
                        ELSE IF k = 1 \/ s[k - 1] = delim THEN Append(v, <<s[k]>>)
                        ELSE put(v, k)
           step == [q \in V \X (1..L) |-> add(q[1], q[2])]
           Obeys(f) == f = [i \in 0..L |-> IF i = 0 THEN <<>> ELSE add(f[i - 1], i)]
           upto == CHOOSE f : Obeys(f)
<1>1. L \in Nat /\ \A k \in 1..L : s[k] \in T
  OBVIOUS
<1>2. Pieces(s, delim) = upto[L]
  BY DEF Pieces
<1>3. ASSUME NEW v \in V, NEW k \in 1..L PROVE add(v, k) \in V
  <2>1. s[k] \in T
    BY <1>1
  <2> HIDE DEF L
  <2>2. Append(v, <<s[k]>>) \in V
    <3>1. <<s[k]>> \in Seq(T)
      BY <2>1
    <3> DEFINE e == <<s[k]>>
               W == Seq(T)
    <3> HIDE DEF e, W
    <3>2. v \in Seq(W) /\ e \in W
      BY <3>1 DEF W, e
    <3>3. Append(v, e) \in Seq(W)
      BY <3>2
    <3> QED  BY <3>3 DEF W, e
  <2>3. put(v, k) \in V
    <3> DEFINE n == Len(v)
               e == Append(v[n], s[k])
               W == Seq(T)
    <3>1. v \in Seq(W) /\ n \in Nat /\ (n # 0 => v[n] \in W)
      <4> HIDE DEF W
      <4>1. v \in Seq(W)
        BY DEF W
      <4> QED  BY <4>1
    <3>2. n # 0 => e \in W
      BY <2>1, <3>1
    <3>3. put(v, k) = [v EXCEPT ![n] = e]
      OBVIOUS
    <3> HIDE DEF W, e, put
    <3>4. CASE n = 0
      <4>1. [v EXCEPT ![n] = e] = v
        BY <3>1, <3>4
      <4> QED  BY <3>3, <4>1
    <3>5. CASE n # 0
      <4>1. n \in 1..Len(v) /\ e \in W
        BY <3>1, <3>2, <3>5
      <4> HIDE DEF n
      <4>2. [v EXCEPT ![n] = e] \in Seq(W)
        BY <3>1, <4>1
      <4> QED  BY <3>3, <4>2 DEF W
    <3> QED  BY <3>4, <3>5
  <2> HIDE DEF V, put
  <2> QED  BY <2>2, <2>3
<1>4. <<>> \in V
  OBVIOUS
<1> HIDE DEF L, V, add
<1>5. step \in Steps(L, V) /\ \A v \in V, k \in 1..L : step[<<v, k>>] = add(v, k)
  BY <1>3 DEF Steps
<1> HIDE DEF step
<1>6. PICK f \in UpTo(L, V) : Recurs(f, L, <<>>, step)
  BY <1>1, <1>4, <1>5, RecursionExists
<1>7. Obeys(f)
  <2>1. ASSUME NEW i \in 0..L PROVE f[i] = IF i = 0 THEN <<>> ELSE add(f[i - 1], i)
    <3>1. f[i] = IF i = 0 THEN <<>> ELSE step[<<f[i - 1], i>>]
      BY <1>6 DEF Recurs
    <3>2. i # 0 => i - 1 \in 0..L /\ i \in 1..L
      BY <1>1
    <3>3. i # 0 => f[i - 1] \in V
      BY <3>2 DEF UpTo
    <3> QED  BY <1>5, <3>1, <3>2, <3>3
  <2>2. f = [i \in 0..L |-> f[i]]
    BY DEF UpTo
  <2> QED  BY <2>1, <2>2
<1>8. Obeys(upto)
  <2> HIDE DEF Obeys
  <2> QED  BY <1>7
<1>9. \A i \in 0..L : upto[i] = IF i = 0 THEN <<>> ELSE add(upto[i - 1], i)
  BY <1>8
<1> HIDE DEF upto, Obeys
<1> DEFINE W == {k \in 0..L : upto[k] \in V}
<1>10. 0..L \subseteq W
  <2>1. 0 \in W
    BY <1>1, <1>4, <1>9
  <2>2. ASSUME NEW k \in 0..(L - 1), k \in W PROVE k + 1 \in W
    <3>1. k + 1 \in 0..L /\ k + 1 \in 1..L /\ k + 1 # 0 /\ (k + 1) - 1 = k
      BY <1>1
    <3>2. upto[k + 1] = add(upto[k], k + 1)
      BY <1>9, <3>1
    <3> QED  BY <1>3, <2>2, <3>1, <3>2
  <2> HIDE DEF W
  <2> QED  BY <1>1, <2>1, <2>2, InductionUpTo
<1>11. upto[L] \in V
  BY <1>1, <1>10
<1> QED  BY <1>2, <1>11 DEF V

-----------------------------------------------------------------------------
(* What the parsers answer.                                                *)

LEMMA NumberType ==
  ASSUME NEW s, NEW base, ~Failed(Number(s, base))
  PROVE  Number(s, base).val \in Int
<1> DEFINE text == Trimmed(s)
           neg == At(text, "-")
           t == IF neg THEN Tail(text) ELSE text
           hex == base # 10 /\ At(t, "0x")
           u == IF hex THEN Tail(t) ELSE t
           digits == IF hex \/ base = 16 THEN Hexadecimal ELSE Decimal
           X == Number(s, base)
<1>1. X = IF u = <<>> \/ u[1] \notin DOMAIN digits THEN Error("ECANCELED")
          ELSE IF digits[u[1]] < 0 THEN Error("ERANGE")
          ELSE Value(IF neg THEN 0 - digits[u[1]] ELSE digits[u[1]], Tail(u))
  BY DEF Number, Digits
<1>2. \A d \in DOMAIN digits : digits[d] \in Int
  BY NumbersAssumption
<1> HIDE DEF X, u, digits, neg
<1>3. X.err = ""
  BY DEF Failed, X
<1>4. u[1] \in DOMAIN digits /\ X.val = IF neg THEN 0 - digits[u[1]] ELSE digits[u[1]]
  BY <1>1, <1>3 DEF Error, Value
<1>5. X.val \in Int
  BY <1>2, <1>4
<1> QED  BY <1>5 DEF X

LEMMA InRangeType ==
  ASSUME NEW r, NEW min \in Int, NEW max \in Int, ~Failed(r) => r.val \in Int,
         ~Failed(InRange(r, min, max))
  PROVE  InRange(r, min, max).val \in min..max
<1>1. CASE ~Failed(r) /\ (r.val < min \/ r.val > max)
  BY <1>1 DEF InRange, Failed, Error
<1>2. CASE ~(~Failed(r) /\ (r.val < min \/ r.val > max))
  <2>1. InRange(r, min, max) = r
    BY <1>2 DEF InRange
  <2> QED  BY <1>2, <2>1
<1> QED  BY <1>1, <1>2

LEMMA ByteType == ASSUME NEW s, ~Failed(Ended(strto_u8(s))) PROVE Ended(strto_u8(s)).val \in 0..255
<1> DEFINE r == strto_u8(s)
<1>1. Failed(Error("ERANGE")) /\ Failed(Error("ENOTSUP"))
  BY DEF Failed, Error
<1>2. ~Failed(r) => r.val \in 0..255
  <2> SUFFICES ASSUME ~Failed(r) PROVE r.val \in 0..255
    OBVIOUS
  <2>1. r = InRange(Number(s, 16), 0, 255)
    BY <1>1 DEF strto_u8
  <2> QED  BY <2>1, NumberType, InRangeType
<1> HIDE DEF r
<1>3. Ended(r) = Error("ENOTSUP") \/ Ended(r) = r
  BY DEF Ended
<1> QED  BY <1>1, <1>2, <1>3 DEF r

LEMMA IndexType ==
  ASSUME NEW T, NEW list \in Seq(T), NEW s
  PROVE  /\ IndexOf(s, list) \in 0..Len(list)
         /\ IndexOf(s, list) # 0 =>
              s # <<>> /\ Len(s) = 1 /\ \E word \in ToSet(list) : Upper(word) = Upper(s[1])
<1> DEFINE Same(w) == s # <<>> /\ Len(s) = 1 /\ Upper(w) = Upper(s[1])
           I == {i \in 1..Len(list) : Same(list[i])}
<1>1. IndexOf(s, list) = IF I # {} THEN Min(I) ELSE 0
  BY DEF IndexOf, SelectInSeq
<1>2. Len(list) \in Nat /\ DOMAIN list = 1..Len(list)
  OBVIOUS
<1>3. I \subseteq 1..Len(list) /\ \A i \in I : Same(list[i]) /\ list[i] \in ToSet(list)
  BY <1>2 DEF ToSet
<1> DEFINE m == IF I # {} THEN Min(I) ELSE 0
<1> HIDE DEF I
<1>4. m \in (IF I # {} THEN I ELSE {0})
  BY <1>3, SelectIs
<1> HIDE DEF m
<1>5. m \in 0..Len(list) /\ (m # 0 => m \in I)
  BY <1>2, <1>3, <1>4
<1> QED  BY <1>1, <1>3, <1>5 DEF m

LEMMA NameOrWordType ==
  ASSUME NEW s, NEW words, NEW ids, words \in Seq(ToSet(words)), DOMAIN ids = DOMAIN words,
         \A i \in DOMAIN ids : ids[i] \in Nat, ~Failed(ByteNameOrWord(s, words, ids))
  PROVE  LET r == ByteNameOrWord(s, words, ids)
         IN  /\ r.val \in Nat
             /\ r.val > 255 =>
                  s # <<>> /\ Len(s) = 1 /\ \E word \in ToSet(words) : Upper(word) = Upper(s[1])
<1> DEFINE byte == Ended(strto_u8(s))
           named == cntrl_strtoval(s)
           i == IndexOf(s, words)
           n == IndexOf(s, ascii_cntrl_names)
<1>1. ByteNameOrWord(s, words, ids)
        = IF ~Failed(byte) THEN byte ELSE IF ~Failed(named) THEN named
          ELSE IF i > 0 THEN Value(ids[i], <<>>) ELSE Error("EINVAL")
  BY DEF ByteNameOrWord
<1>2. ~Failed(byte) => byte.val \in 0..255
  BY ByteType
<1>3. ~Failed(named) => named.val \in 0..255
  <2>1. ascii_cntrl_names \in Seq(ToSet(ascii_cntrl_names)) /\ Len(ascii_cntrl_names) = 32
    BY DEF ascii_cntrl_names, ToSet
  <2>2. n \in 0..32
    BY <2>1, IndexType
  <2>3. Failed(Error("-1"))
    BY DEF Failed, Error
  <2> HIDE DEF n
  <2>4. \/ named = Value(n - 1, <<>>) /\ n > 0
        \/ named = Value(127, <<>>) \/ named = Error("-1")
    BY DEF cntrl_strtoval, n
  <2>5. n > 0 => Value(n - 1, <<>>).val \in 0..255
    BY <2>2 DEF Value
  <2>6. Value(127, <<>>).val \in 0..255
    BY DEF Value
  <2> QED  BY <2>3, <2>4, <2>5, <2>6
<1>4. /\ i \in 0..Len(words)
      /\ i # 0 => s # <<>> /\ Len(s) = 1 /\ \E word \in ToSet(words) : Upper(word) = Upper(s[1])
  BY IndexType
<1>5. DOMAIN words = 1..Len(words) /\ Len(words) \in Nat
  OBVIOUS
<1>6. i > 0 => ids[i] \in Nat /\ Value(ids[i], <<>>).val = ids[i] /\ i # 0
  BY <1>4, <1>5 DEF Value
<1>7. Failed(Error("EINVAL"))
  BY DEF Failed, Error
<1> DEFINE X == ByteNameOrWord(s, words, ids)
<1>8. X.val \in 0..255 \/ (i > 0 /\ X.val = ids[i])
  <2> HIDE DEF byte, named, i
  <2> QED  BY <1>1, <1>2, <1>3, <1>6, <1>7
<1> HIDE DEF X, i
<1>9. X.val \in Nat /\ (X.val > 255 => i # 0)
  <2>1. CASE X.val \in 0..255
    <3>1. \A v \in 0..255 : v \in Nat /\ ~(v > 255)
      OBVIOUS
    <3> QED  BY <2>1, <3>1
  <2>2. CASE i > 0 /\ X.val = ids[i]
    BY <1>6, <2>2
  <2> QED  BY <1>8, <2>1, <2>2
<1> QED  BY <1>4, <1>9 DEF X

-----------------------------------------------------------------------------
(* A map.                                                                  *)

CharMaps == UNION {[D -> Int] : D \in SUBSET (0..UCHAR_MAX)}
Loops == [group : Nat, repr : Nat, c : 0..UCHAR_MAX]

LEMMA MappedType ==
  ASSUME NEW map \in CharMaps, NEW c \in 0..UCHAR_MAX, NEW repr \in Nat
  PROVE  mapped(map, c, repr) \in CharMaps
<1> DEFINE B == 0..UCHAR_MAX
<1>1. PICK D \in SUBSET B : map \in [D -> Int]
  BY DEF CharMaps
<1> DEFINE E == D \cup {c}
<1>2. E \in SUBSET B
  OBVIOUS
<1> HIDE DEF B
<1>3. mapped(map, c, repr) \in [E -> Int]
  BY <1>1 DEF mapped
<1> HIDE DEF E
<1> QED  BY <1>2, <1>3 DEF CharMaps, B

(* The keys of a map are a single character, or name a group. *)
Named(T) == \E t \in T, word \in ToSet(group_words) : Upper(t) = Upper(word)

MapStates(T) ==
  {m \in [st : {"ok", "failed", "looping"}, cm : CharMaps, loop : Loops] :
     m.st = "looping" => Named(T)}

LEMMA SetType ==
  ASSUME NEW T, NEW m \in MapStates(T), NEW kv, kv[1] \in Seq(T)
  PROVE  charmap_set(m, kv) \in MapStates(T)
<1> DEFINE key == charmap_opt_parse_group(kv[1])
           repr == charmap_opt_parse_repr(kv[2])
           s == kv[1]
<1>1. ~Failed(key) =>
        key.val \in Nat /\ (key.val > 255 => Named(T))
  <2> SUFFICES ASSUME ~Failed(key) PROVE key.val \in Nat /\ (key.val > 255 => Named(T))
    OBVIOUS
  <2>1. group_words \in Seq(ToSet(group_words)) /\ DOMAIN group_ids = DOMAIN group_words
        /\ \A i \in DOMAIN group_ids : group_ids[i] \in Nat
    BY DEF group_words, group_ids, ToSet, CHARMAP_GROUP_CNTRL, CHARMAP_GROUP_NONPRINT
  <2>2. key = ByteNameOrWord(s, group_words, group_ids)
    BY DEF charmap_opt_parse_group
  <2> HIDE DEF key, s
  <2>3. /\ key.val \in Nat
        /\ key.val > 255 => /\ s # <<>> /\ Len(s) = 1
                            /\ \E word \in ToSet(group_words) : Upper(word) = Upper(s[1])
    BY <2>1, <2>2, NameOrWordType
  <2>4. s # <<>> => s[1] \in T
    BY DEF s
  <2> QED  BY <2>3, <2>4 DEF Named
<1>2. ~Failed(repr) => repr.val \in Nat
  <2> SUFFICES ASSUME ~Failed(repr) PROVE repr.val \in Nat
    OBVIOUS
  <2>1. crepr_words \in Seq(ToSet(crepr_words)) /\ DOMAIN crepr_ids = DOMAIN crepr_words
        /\ \A i \in DOMAIN crepr_ids : crepr_ids[i] \in Nat
    BY DEF crepr_words, crepr_ids, ToSet, CHARMAP_REPR_HEX, CHARMAP_REPR_IGNORE
  <2>2. repr = ByteNameOrWord(kv[2], crepr_words, crepr_ids)
    BY DEF charmap_opt_parse_repr
  <2> HIDE DEF repr
  <2> QED  BY <2>1, <2>2, NameOrWordType
<1> DEFINE X == charmap_set(m, kv)
<1>3. X = m \/ X = charmap_set_group_repr(m, key, repr)
  BY DEF charmap_set
<1> HIDE DEF X, key, repr
<1>4. /\ m = [st |-> m.st, cm |-> m.cm, loop |-> m.loop]
      /\ m.cm \in CharMaps /\ m.loop \in Loops
  BY DEF MapStates
<1>5. CASE Failed(key) \/ Failed(repr)
  <2>1. charmap_set_group_repr(m, key, repr) = [st |-> "failed", cm |-> m.cm, loop |-> m.loop]
    BY <1>4, <1>5 DEF charmap_set_group_repr
  <2>2. [st |-> "failed", cm |-> m.cm, loop |-> m.loop] \in MapStates(T)
    BY <1>4 DEF MapStates
  <2> QED  BY <1>3, <2>1, <2>2 DEF X
<1>6. CASE ~(Failed(key) \/ Failed(repr)) /\ IsChar(key.val)
  <2> DEFINE cm == mapped(m.cm, key.val, repr.val)
  <2>1. charmap_set_group_repr(m, key, repr) = [st |-> m.st, cm |-> cm, loop |-> m.loop]
    BY <1>4, <1>6 DEF charmap_set_group_repr
  <2>2. key.val \in 0..UCHAR_MAX
    <3>1. key.val \in Nat /\ key.val <= UCHAR_MAX
      BY <1>1, <1>6 DEF IsChar
    <3> DEFINE v == key.val
    <3> HIDE DEF v
    <3>2. v \in Nat /\ v <= UCHAR_MAX
      BY <3>1 DEF v
    <3>3. v \in 0..UCHAR_MAX
      BY <3>2 DEF UCHAR_MAX
    <3> QED  BY <3>3 DEF v
  <2>3. cm \in CharMaps
    BY <1>2, <1>4, <1>6, <2>2, MappedType
  <2> HIDE DEF cm
  <2>4. [st |-> m.st, cm |-> cm, loop |-> m.loop] \in MapStates(T)
    BY <1>4, <2>3 DEF MapStates
  <2> QED  BY <1>3, <2>1, <2>4 DEF X
<1>7. CASE ~(Failed(key) \/ Failed(repr)) /\ ~IsChar(key.val)
  <2> DEFINE l == [group |-> key.val, repr |-> repr.val, c |-> 0]
  <2>1. charmap_set_group_repr(m, key, repr) = [st |-> "looping", cm |-> m.cm, loop |-> l]
    BY <1>4, <1>7 DEF charmap_set_group_repr
  <2>2. l \in Loops
    BY <1>1, <1>2, <1>7 DEF Loops, UCHAR_MAX
  <2>3. Named(T)
    BY <1>1, <1>7 DEF IsChar, UCHAR_MAX
  <2> HIDE DEF l
  <2>4. [st |-> "looping", cm |-> m.cm, loop |-> l] \in MapStates(T)
    BY <1>4, <2>2, <2>3 DEF MapStates
  <2> QED  BY <1>3, <2>1, <2>4 DEF X
<1> QED  BY <1>5, <1>6, <1>7

LEMMA PairType ==
  ASSUME NEW T, NEW s \in Seq(T), str_split_kv(s) # <<>>
  PROVE  str_split_kv(s)[1] \in Seq(T)
<1> DEFINE toks == Pieces(s, ":")
           V == Seq(T)
<1>1. str_split_kv(s) = IF Len(toks) # 2 THEN <<>> ELSE <<Stripped(toks[1]), Stripped(toks[2])>>
  BY DEF str_split_kv
<1>2. toks \in Seq(V)
  BY PiecesType
<1> HIDE DEF toks, V
<1>3. Len(toks) = 2 /\ str_split_kv(s)[1] = Stripped(toks[1])
  BY <1>1
<1>4. toks[1] \in V
  BY <1>2, <1>3
<1> QED  BY <1>3, <1>4, StrippedType DEF V

LEMMA MapType ==
  ASSUME NEW T, NEW cm \in CharMaps, NEW s \in Seq(T)
  PROVE  charmap_parse_opts(cm, s) \in MapStates(T)
<1> DEFINE items == Pieces(s, ",")
           pairs == [i \in DOMAIN items |-> str_split_kv(items[i])]
           start == [st |-> "ok", cm |-> cm, loop |-> NoLoop]
           L == Len(items)
           V == MapStates(T)
           add(v, k) == charmap_set(v, pairs[k])
           step == [q \in V \X (1..L) |-> add(q[1], q[2])]
           Obeys(f) == f = [i \in 0..L |-> IF i = 0 THEN start ELSE add(f[i - 1], i)]
           after == CHOOSE f : Obeys(f)
           bad == <<>> \in ToSet(pairs) \/ L > MaxPairs
<1>1. charmap_parse_opts(cm, s) = IF bad THEN [start EXCEPT !.st = "failed"] ELSE after[L]
  BY DEF charmap_parse_opts
<1>2. NoLoop \in Loops
  BY DEF NoLoop, Loops, UCHAR_MAX
<1>3. start \in V /\ [start EXCEPT !.st = "failed"] \in V
  BY <1>2 DEF MapStates
<1> HIDE DEF start
<1>4. CASE bad
  BY <1>1, <1>3, <1>4
<1>5. CASE ~bad
  <2>1. L \in Nat /\ DOMAIN items = 1..L /\ \A k \in 1..L : items[k] \in Seq(T)
    <3> DEFINE W == Seq(T)
    <3>1. items \in Seq(W)
      BY PiecesType
    <3> HIDE DEF W, items
    <3>2. L \in Nat /\ DOMAIN items = 1..L /\ \A k \in 1..L : items[k] \in W
      BY <3>1
    <3> QED  BY <3>2 DEF W
  <2>2. \A k \in 1..L : pairs[k] # <<>> /\ pairs[k] = str_split_kv(items[k])
    <3> HIDE DEF items, L
    <3>1. DOMAIN pairs = 1..L /\ \A k \in 1..L : pairs[k] = str_split_kv(items[k])
      BY <2>1
    <3>2. \A k \in DOMAIN pairs : pairs[k] \in ToSet(pairs)
      BY DEF ToSet
    <3> QED  BY <1>5, <3>1, <3>2
  <2>3. \A k \in 1..L : pairs[k][1] \in Seq(T)
    <3> HIDE DEF items, L, pairs
    <3> QED  BY <2>1, <2>2, PairType
  <2> HIDE DEF items, pairs
  <2>4. ASSUME NEW v \in V, NEW k \in 1..L PROVE add(v, k) \in V
    <3> DEFINE kv == pairs[k]
    <3>1. kv[1] \in Seq(T)
      BY <2>3
    <3> HIDE DEF kv
    <3>2. charmap_set(v, kv) \in MapStates(T)
      BY <3>1, SetType
    <3> QED  BY <3>2 DEF kv
  <2> HIDE DEF L, V, add
  <2>5. step \in Steps(L, V) /\ \A v \in V, k \in 1..L : step[<<v, k>>] = add(v, k)
    BY <2>4 DEF Steps
  <2> HIDE DEF step
  <2>6. PICK f \in UpTo(L, V) : Recurs(f, L, start, step)
    BY <1>3, <2>1, <2>5, RecursionExists
  <2>7. Obeys(f)
    <3>1. ASSUME NEW i \in 0..L PROVE f[i] = IF i = 0 THEN start ELSE add(f[i - 1], i)
      <4>1. f[i] = IF i = 0 THEN start ELSE step[<<f[i - 1], i>>]
        BY <2>6 DEF Recurs
      <4>2. i # 0 => i - 1 \in 0..L /\ i \in 1..L
        BY <2>1
      <4>3. i # 0 => f[i - 1] \in V
        BY <4>2 DEF UpTo
      <4> QED  BY <2>5, <4>1, <4>2, <4>3
    <3>2. f = [i \in 0..L |-> f[i]]
      BY DEF UpTo
    <3> QED  BY <3>1, <3>2
  <2>8. Obeys(after)
    <3> HIDE DEF Obeys
    <3> QED  BY <2>7
  <2>9. \A i \in 0..L : after[i] = IF i = 0 THEN start ELSE add(after[i - 1], i)
    BY <2>8
  <2> HIDE DEF after, Obeys
  <2> DEFINE W == {k \in 0..L : after[k] \in V}
  <2>10. 0..L \subseteq W
    <3>1. 0 \in W
      BY <1>3, <2>1, <2>9
    <3>2. ASSUME NEW k \in 0..(L - 1), k \in W PROVE k + 1 \in W
      <4>1. k + 1 \in 0..L /\ k + 1 \in 1..L /\ k + 1 # 0 /\ (k + 1) - 1 = k
        BY <2>1
      <4>2. after[k + 1] = add(after[k], k + 1)
        BY <2>9, <4>1
      <4> QED  BY <2>4, <3>2, <4>1, <4>2
    <3> HIDE DEF W
    <3> QED  BY <2>1, <3>1, <3>2, InductionUpTo
  <2>11. after[L] \in V
    BY <2>1, <2>10
  <2> QED  BY <1>1, <1>5, <2>11 DEF V
<1> QED  BY <1>4, <1>5

-----------------------------------------------------------------------------
(* The settings.                                                           *)

(* v is a value that the setting d may have. *)
Typed(d, v) ==
  /\ d = "baudrate" => v \in (Nat \ {0}) \cup {Unset}
  /\ d = "databits" => v \in (5..9) \cup {Unset}
  /\ d = "stopbits" => v \in (1..2) \cup {Unset}
  /\ d = "verbose" => v \in Nat
  /\ d \in {"wait", "stay"} => v \in BOOLEAN
  /\ d \in {"charmap_tx", "charmap_rx"} => v.map \in CharMaps

SettingsOK(s) == DOMAIN s = DOMAIN Defaults /\ \A d \in DOMAIN s : Typed(d, s[d])

LEMMA DefaultsOK == SettingsOK(Defaults)
<1>1. NoMap.map \in CharMaps
  <2>1. NoMap.map = <<>> /\ <<>> \in [{} -> Int] /\ {} \in SUBSET (0..UCHAR_MAX)
    BY DEF NoMap
  <2> QED  BY <2>1 DEF CharMaps
<1>2. /\ Defaults.baudrate = Unset /\ Defaults.databits = Unset /\ Defaults.stopbits = Unset
      /\ Defaults.verbose = 0 /\ Defaults.wait = FALSE /\ Defaults.stay = FALSE
      /\ Defaults.charmap_tx = NoMap /\ Defaults.charmap_rx = NoMap
  BY DEF Defaults
<1> HIDE DEF Defaults
<1>3. ASSUME NEW d \in DOMAIN Defaults PROVE Typed(d, Defaults[d])
  <2>1. d \in {"baudrate", "databits", "stopbits"} => Defaults[d] = Unset
    BY <1>2
  <2>2. d = "verbose" => Defaults[d] = 0
    BY <1>2
  <2>3. d \in {"wait", "stay"} => Defaults[d] = FALSE
    BY <1>2
  <2>4. d \in {"charmap_tx", "charmap_rx"} => Defaults[d].map \in CharMaps
    BY <1>1, <1>2
  <2> DEFINE v == Defaults[d]
  <2>5. /\ d = "baudrate" => v = Unset
        /\ d = "databits" => v = Unset
        /\ d = "stopbits" => v = Unset
        /\ d = "verbose" => v = 0
        /\ d \in {"wait", "stay"} => v = FALSE
        /\ d \in {"charmap_tx", "charmap_rx"} => v.map \in CharMaps
    BY <2>1, <2>2, <2>3, <2>4
  <2> HIDE DEF v
  <2>6. /\ d = "baudrate" => v \in (Nat \ {0}) \cup {Unset}
        /\ d = "databits" => v \in (5..9) \cup {Unset}
        /\ d = "stopbits" => v \in (1..2) \cup {Unset}
    BY <2>5
  <2>7. d = "verbose" => v \in Nat
    BY <2>5
  <2>8. d \in {"wait", "stay"} => v \in BOOLEAN
    BY <2>5, Zenon
  <2>9. Typed(d, v)
    BY <2>5, <2>6, <2>7, <2>8, Zenon DEF Typed
  <2> QED  BY <2>9 DEF v
<1> QED  BY <1>3 DEF SettingsOK

LEMMA SetOne ==
  ASSUME NEW s, SettingsOK(s), NEW d, NEW v, Typed(d, v)
  PROVE  SettingsOK([s EXCEPT ![d] = v])
<1> DEFINE X == [s EXCEPT ![d] = v]
<1>1. DOMAIN X = DOMAIN s /\ \A e \in DOMAIN s : X[e] = IF e = d THEN v ELSE s[e]
  OBVIOUS
<1> HIDE DEF X
<1>2. ASSUME NEW e \in DOMAIN s PROVE Typed(e, X[e])
  <2>1. CASE e = d
    BY <1>1, <2>1
  <2>2. CASE e # d
    BY <1>1, <2>2 DEF SettingsOK
  <2> QED  BY <2>1, <2>2
<1> QED  BY <1>1, <1>2 DEF SettingsOK, X

(* Settings whose value is not looked at. *)
Free(d) ==
  d \notin {"baudrate", "databits", "stopbits", "verbose", "wait", "stay",
            "charmap_tx", "charmap_rx"}

LEMMA FreeTyped == ASSUME NEW d, Free(d), NEW v PROVE Typed(d, v)
BY Zenon DEF Free, Typed

(* The speed, the data bits and the stop bits. *)
Line == {"baudrate", "databits", "stopbits"}

(* r answers without a loop; a value that is refused leaves the line as it was. *)
Plain(r, s) ==
  /\ SettingsOK(r.set) /\ r.loop \in Loops /\ r.st # "looping"
  /\ r.st = "failed" => \A d \in Line : r.set[d] = s[d]

LEMMA ParsedPlain ==
  ASSUME NEW s, NEW t, SettingsOK(t), NEW st, st # "looping",
         st = "failed" => \A d \in Line : t[d] = s[d]
  PROVE  Plain(Parsed(st, t), s)
<1>1. Parsed(st, t).set = t /\ Parsed(st, t).st = st /\ Parsed(st, t).loop \in Loops
  BY DEF Parsed, NoLoop, Loops, UCHAR_MAX
<1> QED  BY <1>1 DEF Plain

LEMMA LineSettings == ASSUME NEW s, SettingsOK(s) PROVE \A d \in Line : d \in DOMAIN s
<1>1. \A d \in Line : d \in DOMAIN Defaults
  BY DEF Line, Defaults
<1> QED  BY <1>1 DEF SettingsOK

LEMMA OnePlain ==
  ASSUME NEW s, SettingsOK(s), NEW d, NEW v, Typed(d, v), NEW st, st # "looping",
         st # "failed" \/ d \notin Line
  PROVE  Plain(Parsed(st, [s EXCEPT ![d] = v]), s)
<1> DEFINE t == [s EXCEPT ![d] = v]
<1>1. SettingsOK(t)
  BY SetOne
<1>2. d \notin Line => \A e \in Line : t[e] = s[e]
  <2>1. \A e \in DOMAIN s : e # d => t[e] = s[e]
    OBVIOUS
  <2> HIDE DEF t
  <2> QED  BY <2>1, LineSettings
<1> HIDE DEF t
<1>3. Plain(Parsed(st, t), s)
  BY <1>1, <1>2, ParsedPlain
<1> QED  BY <1>3 DEF t

LEMMA StorePlain ==
  ASSUME NEW s, SettingsOK(s), NEW r, NEW d, ~Failed(r) => Typed(d, r.val)
  PROVE  Plain(Store(r, s, d), s)
<1>1. CASE Failed(r)
  <2>1. Store(r, s, d) = Parsed("failed", s)
    BY <1>1 DEF Store
  <2> QED  BY <2>1, ParsedPlain
<1>2. CASE ~Failed(r)
  <2> DEFINE v == r.val
  <2>1. Store(r, s, d) = Parsed("ok", [s EXCEPT ![d] = v])
    BY <1>2 DEF Store
  <2>2. Typed(d, v)
    BY <1>2
  <2> HIDE DEF v
  <2> DEFINE st == "ok"
  <2>3. st # "looping" /\ st # "failed"
    OBVIOUS
  <2> HIDE DEF st
  <2>4. Plain(Parsed(st, [s EXCEPT ![d] = v]), s)
    BY <2>2, <2>3, OnePlain
  <2> QED  BY <2>1, <2>4 DEF st
<1> QED  BY <1>1, <1>2

LEMMA ErrorFails == \A why : why # "" => Failed(Error(why))
BY DEF Failed, Error

LEMMA WholeIs == ASSUME NEW r, ~Failed(Whole(r)) PROVE Whole(r) = r
BY ErrorFails DEF Whole

LEMMA BaudType ==
  ASSUME NEW s, ~Failed(port_opts_parse_baud(s))
  PROVE  Typed("baudrate", port_opts_parse_baud(s).val)
<1> DEFINE r == strto_i(s, 10)
           x == port_opts_parse_baud(s)
<1>1. x = IF ~Failed(r) /\ r.val <= 0 THEN Error("ERANGE") ELSE r
  BY DEF port_opts_parse_baud
<1>2. Failed(Error("ERANGE"))
  BY ErrorFails
<1>3. ~Failed(r) => r.val \in Int
  BY NumberType DEF strto_i
<1> HIDE DEF r, x
<1>4. ~Failed(x)
  BY DEF x
<1>5. x = r /\ ~Failed(r) /\ ~(r.val <= 0)
  BY <1>1, <1>2, <1>4
<1>6. x.val \in Nat \ {0}
  BY <1>3, <1>5
<1>7. Typed("baudrate", x.val)
  BY <1>6 DEF Typed
<1> QED  BY <1>7 DEF x

LEMMA DigitType ==
  ASSUME NEW s, NEW min, NEW max, ~Failed(Digit(s, min, max))
  PROVE  Digit(s, min, max).val \in min..max
BY ErrorFails DEF Digit, Value

LEMMA DigitsType ==
  /\ \A s : ~Failed(port_opts_parse_databits(s)) =>
       Typed("databits", port_opts_parse_databits(s).val)
  /\ \A s : ~Failed(port_opts_parse_stopbits(s)) =>
       Typed("stopbits", port_opts_parse_stopbits(s).val)
<1>1. ASSUME NEW s, ~Failed(port_opts_parse_databits(s))
      PROVE  Typed("databits", port_opts_parse_databits(s).val)
  <2>1. port_opts_parse_databits(s).val \in 5..9
    BY <1>1, DigitType DEF port_opts_parse_databits
  <2> QED  BY <2>1 DEF Typed
<1>2. ASSUME NEW s, ~Failed(port_opts_parse_stopbits(s))
      PROVE  Typed("stopbits", port_opts_parse_stopbits(s).val)
  <2>1. port_opts_parse_stopbits(s).val \in 1..2
    BY <1>2, DigitType DEF port_opts_parse_stopbits
  <2> QED  BY <2>1 DEF Typed
<1> QED  BY <1>1, <1>2

LEMMA BaudDpsPlain ==
  ASSUME NEW s, SettingsOK(s), NEW sval
  PROVE  Plain(parse_baud_dps(sval, s), s)
<1> DEFINE b == port_opts_parse_baud(sval)
           d == port_opts_parse_databits(Tail(b.ep))
           p == port_opts_parse_parity(d.ep)
           t == port_opts_parse_stopbits(p.ep)
           bad == b.ep[1] \notin {"/", ":"} \/ Failed(d) \/ Failed(p) \/ Failed(t)
           x == b.val
           y == d.val
           z == p.val
           w == t.val
           one == [s EXCEPT !.baudrate = x]
           all == [s EXCEPT !.baudrate = x, !.databits = y, !.parity = z, !.stopbits = w]
           X == parse_baud_dps(sval, s)
<1>1. X = IF Failed(b) THEN Parsed("failed", s)
          ELSE IF b.ep = <<>> THEN Parsed("ok", one)
          ELSE IF bad THEN Parsed("failed", s)
          ELSE Parsed("ok", all)
  BY DEF parse_baud_dps
<1>2. ~Failed(b) => Typed("baudrate", x)
  BY BaudType
<1>3. (~Failed(d) => Typed("databits", y)) /\ (~Failed(t) => Typed("stopbits", w))
  BY DigitsType
<1> HIDE DEF X, b, d, t, x, y, z, w, p
<1>4. Plain(Parsed("failed", s), s)
  BY ParsedPlain
<1>5. ~Failed(b) => Plain(Parsed("ok", one), s)
  <2> SUFFICES ASSUME ~Failed(b) PROVE Plain(Parsed("ok", one), s)
    OBVIOUS
  <2>1. SettingsOK(one)
    BY <1>2, SetOne
  <2> HIDE DEF one
  <2> QED  BY <2>1, ParsedPlain
<1>6. ~Failed(b) /\ ~bad => Plain(Parsed("ok", all), s)
  <2> SUFFICES ASSUME ~Failed(b), ~bad PROVE Plain(Parsed("ok", all), s)
    OBVIOUS
  <2> DEFINE s1 == [s EXCEPT !.baudrate = x]
             s2 == [s1 EXCEPT !.databits = y]
             s3 == [s2 EXCEPT !.parity = z]
             s4 == [s3 EXCEPT !.stopbits = w]
  <2>1. SettingsOK(s1)
    BY <1>2, SetOne
  <2>2. all = s4
    OBVIOUS
  <2> HIDE DEF s1
  <2>3. SettingsOK(s2)
    BY <1>3, <2>1, SetOne
  <2> HIDE DEF s2
  <2>4. SettingsOK(s3)
    <3>1. Typed("parity", z)
      BY FreeTyped DEF Free
    <3> QED  BY <2>3, <3>1, SetOne
  <2> HIDE DEF s3
  <2>5. SettingsOK(s4)
    BY <1>3, <2>4, SetOne
  <2> HIDE DEF s4, all
  <2>6. Plain(Parsed("ok", s4), s)
    BY <2>5, ParsedPlain
  <2> QED  BY <2>2, <2>6
<1> HIDE DEF bad, one, all
<1>7. Plain(X, s)
  BY <1>1, <1>4, <1>5, <1>6
<1> QED  BY <1>7 DEF X

LEMMA ParityPlain ==
  ASSUME NEW s, SettingsOK(s), NEW sval
  PROVE  Plain(parse_parity(sval, s), s)
<1> DEFINE r == port_opts_parse_parity(sval)
           v == r.val
           st == IF r.ep = <<>> THEN "ok" ELSE "failed"
           X == parse_parity(sval, s)
<1>1. X = IF Failed(r) THEN Parsed("failed", s) ELSE Parsed(st, [s EXCEPT !.parity = v])
  BY DEF parse_parity
<1>2. st # "looping"
  OBVIOUS
<1> HIDE DEF X, r, v, st
<1>3. Plain(Parsed("failed", s), s)
  BY ParsedPlain
<1>4. Typed("parity", v) /\ "parity" \notin Line
  BY FreeTyped DEF Free, Line
<1>5. Plain(Parsed(st, [s EXCEPT !.parity = v]), s)
  BY <1>2, <1>4, OnePlain
<1>6. Plain(X, s)
  BY <1>1, <1>3, <1>5
<1> QED  BY <1>6 DEF X

LEMMA EolPlain ==
  ASSUME NEW s, SettingsOK(s), NEW sval, NEW d \in {"eol_txrx", "eol_tx", "eol_rx"}
  PROVE  Plain(parse_eol(sval, s, d), s)
<1> DEFINE r == eol_opt_parse_str(sval, s[d])
           v == r.es
           st == IF r.err THEN "failed" ELSE "ok"
<1>1. parse_eol(sval, s, d) = Parsed(st, [s EXCEPT ![d] = v])
  BY DEF parse_eol
<1>2. st # "looping"
  OBVIOUS
<1>3. Free(d) /\ d \notin Line
  BY DEF Free, Line
<1> HIDE DEF r, v, st
<1>4. Typed(d, v)
  BY <1>3, FreeTyped
<1>5. Plain(Parsed(st, [s EXCEPT ![d] = v]), s)
  BY <1>2, <1>3, <1>4, OnePlain
<1> QED  BY <1>1, <1>5

LEMMA HexfmtPlain ==
  ASSUME NEW s, SettingsOK(s), NEW sval
  PROVE  Plain(parse_hexfmt(sval, s), s)
<1>1. \/ parse_hexfmt(sval, s) = Parsed("ok", [s EXCEPT !.hexfmt = sval])
      \/ parse_hexfmt(sval, s) = Parsed("failed", s)
  BY DEF parse_hexfmt
<1>2. Typed("hexfmt", sval)
  BY FreeTyped DEF Free
<1>3. Plain(Parsed("ok", [s EXCEPT !.hexfmt = sval]), s)
  BY <1>2, OnePlain
<1>4. Plain(Parsed("failed", s), s)
  BY ParsedPlain
<1> QED  BY <1>1, <1>3, <1>4

LEMMA CmdPlain ==
  ASSUME NEW s, SettingsOK(s), NEW sval
  PROVE  Plain(parse_cmd(sval, s), s)
<1> DEFINE r == cmd_parse(sval)
           v == s.opq_oo \o r.ops
           st == r.st
<1>1. parse_cmd(sval, s) = Parsed(st, [s EXCEPT !.opq_oo = v])
  BY DEF parse_cmd
<1>2. \A name, args : callback(name, args).st \in {"ok", "failed", "exit"}
  BY DEF callback, cmd_send
<1>3. st # "looping"
  BY <1>2 DEF cmd_parse, cmd_call
<1> HIDE DEF r, v, st
<1>4. Typed("opq_oo", v) /\ "opq_oo" \notin Line
  BY FreeTyped DEF Free, Line
<1>5. Plain(Parsed(st, [s EXCEPT !.opq_oo = v]), s)
  BY <1>3, <1>4, OnePlain
<1> QED  BY <1>1, <1>5

(* A map starts a loop if it names a group. *)
LEMMA MapAnswers ==
  ASSUME NEW T, NEW s, SettingsOK(s), NEW sval \in Seq(T), NEW d \in {"charmap_tx", "charmap_rx"}
  PROVE  LET r == parse_map(sval, s, d)
         IN  /\ SettingsOK(r.set) /\ r.loop \in Loops /\ (r.st = "looping" => Named(T))
             /\ \A e \in Line : r.set[e] = s[e]
<1> DEFINE r == charmap_parse_opts(s[d].map, sval)
           v == [on |-> s[d].on \/ r.st = "ok", map |-> r.cm]
           t == [s EXCEPT ![d] = v]
           X == parse_map(sval, s, d)
<1>1. X = [st |-> r.st, set |-> t, loop |-> r.loop]
  BY DEF parse_map, Parsed
<1>2. s[d].map \in CharMaps
  <2>1. d \in DOMAIN s
    <3>1. d \in DOMAIN Defaults
      BY DEF Defaults
    <3> QED  BY <3>1 DEF SettingsOK
  <2> QED  BY <2>1 DEF SettingsOK, Typed
<1>3. r \in MapStates(T)
  <2> DEFINE m == s[d].map
  <2>1. m \in CharMaps
    BY <1>2
  <2> HIDE DEF m
  <2>2. charmap_parse_opts(m, sval) \in MapStates(T)
    BY <2>1, MapType
  <2> QED  BY <2>2 DEF m
<1>4. Typed(d, v)
  <2>1. v.map \in CharMaps
    BY <1>3 DEF MapStates
  <2> HIDE DEF v
  <2> QED  BY <2>1, Zenon DEF Typed
<1>5. r.loop \in Loops /\ (r.st = "looping" => Named(T))
  BY <1>3 DEF MapStates
<1> HIDE DEF v
<1>6. SettingsOK(t)
  BY <1>4, SetOne
<1>7. \A e \in Line : t[e] = s[e]
  <2>1. \A e \in DOMAIN s : e # d => t[e] = s[e]
    OBVIOUS
  <2> HIDE DEF t
  <2>2. d \notin Line
    BY DEF Line
  <2> QED  BY <2>1, <2>2, LineSettings
<1> HIDE DEF X, r, t
<1>8. X.st = r.st /\ X.set = t /\ X.loop = r.loop
  BY <1>1
<1>9. SettingsOK(X.set) /\ X.loop \in Loops /\ (X.st = "looping" => Named(T))
      /\ \A e \in Line : X.set[e] = s[e]
  BY <1>5, <1>6, <1>7, <1>8
<1> QED  BY <1>9 DEF X

LEMMA StoreTyped ==
  ASSUME NEW s, SettingsOK(s), NEW conf, Suits(conf), NEW sval,
         conf.parse \in {"int", "float", "baud", "databits", "stopbits", "flowcontrol"}
  PROVE  Plain(parse(conf, sval, s), s)
<1> DEFINE to == conf.dest
           X == parse(conf, sval, s)
<1>1. CASE conf.parse \in {"int", "float", "flowcontrol"}
  <2> DEFINE r == IF conf.parse = "int" THEN Ended(strto_i(sval, 0))
                  ELSE IF conf.parse = "float" THEN Ended(Number(sval, 10))
                  ELSE port_opts_parse_flowcontrol(sval)
  <2>1. X = Store(r, s, to)
    BY <1>1 DEF parse
  <2>2. Free(to)
    BY <1>1 DEF Suits, Free
  <2> HIDE DEF r, to
  <2>3. Typed(to, r.val)
    BY <2>2, FreeTyped
  <2> QED  BY <2>1, <2>3, StorePlain
<1>2. CASE conf.parse = "baud"
  <2> DEFINE r == Whole(port_opts_parse_baud(sval))
  <2>1. X = Store(r, s, "baudrate")
    BY <1>2 DEF parse, Suits
  <2>2. ~Failed(r) => Typed("baudrate", r.val)
    BY WholeIs, BaudType
  <2> HIDE DEF r
  <2> QED  BY <2>1, <2>2, StorePlain
<1>3. CASE conf.parse = "databits"
  <2> DEFINE r == Whole(port_opts_parse_databits(sval))
  <2>1. X = Store(r, s, "databits")
    BY <1>3 DEF parse, Suits
  <2>2. ~Failed(r) => Typed("databits", r.val)
    BY WholeIs, DigitsType
  <2> HIDE DEF r
  <2> QED  BY <2>1, <2>2, StorePlain
<1>4. CASE conf.parse = "stopbits"
  <2> DEFINE r == Whole(port_opts_parse_stopbits(sval))
  <2>1. X = Store(r, s, "stopbits")
    BY <1>4 DEF parse, Suits
  <2>2. ~Failed(r) => Typed("stopbits", r.val)
    BY WholeIs, DigitsType
  <2> HIDE DEF r
  <2> QED  BY <2>1, <2>2, StorePlain
<1> QED  BY <1>1, <1>2, <1>3, <1>4

LEMMA FlagTyped ==
  ASSUME NEW s, SettingsOK(s), NEW conf, Suits(conf), NEW sval,
         conf.parse \in {"flag_true", "flag_count", "str", "devname"}
  PROVE  Plain(parse(conf, sval, s), s)
<1> DEFINE to == conf.dest
           X == parse(conf, sval, s)
           st == "ok"
<1>1. st # "looping" /\ st # "failed"
  OBVIOUS
<1>2. CASE conf.parse = "flag_true"
  <2>1. X = Parsed(st, [s EXCEPT ![to] = TRUE])
    BY <1>2 DEF parse
  <2>2. to \notin {"baudrate", "databits", "stopbits", "verbose", "charmap_tx", "charmap_rx"}
    BY <1>2 DEF Suits
  <2> HIDE DEF X, to, st
  <2>3. Typed(to, TRUE)
    BY <2>2, Zenon DEF Typed
  <2>4. Plain(Parsed(st, [s EXCEPT ![to] = TRUE]), s)
    BY <1>1, <2>3, OnePlain
  <2> QED  BY <2>1, <2>4 DEF X
<1>3. CASE conf.parse = "flag_count"
  <2> DEFINE v == s["verbose"] + 1
  <2>1. X = Parsed(st, [s EXCEPT !["verbose"] = v])
    BY <1>3 DEF parse, Suits
  <2>2. s["verbose"] \in Nat
    <3>1. "verbose" \in DOMAIN Defaults
      BY DEF Defaults
    <3>2. Typed("verbose", s["verbose"])
      BY <3>1 DEF SettingsOK
    <3> QED  BY <3>2 DEF Typed
  <2>3. v \in Nat
    BY <2>2
  <2> HIDE DEF X, to, st, v
  <2>4. Typed("verbose", v)
    BY <2>3, Zenon DEF Typed
  <2>5. Plain(Parsed(st, [s EXCEPT !["verbose"] = v]), s)
    BY <1>1, <2>4, OnePlain
  <2> QED  BY <2>1, <2>5 DEF X
<1>4. CASE conf.parse \in {"str", "devname"}
  <2> DEFINE d == IF conf.parse = "str" THEN to ELSE "name"
  <2>1. X = Parsed(st, [s EXCEPT ![d] = sval])
    BY <1>4 DEF parse
  <2>2. Free(d)
    BY <1>4 DEF Suits, Free
  <2> HIDE DEF X, to, st, d
  <2>3. Typed(d, sval)
    BY <2>2, FreeTyped
  <2>4. Plain(Parsed(st, [s EXCEPT ![d] = sval]), s)
    BY <1>1, <2>3, OnePlain
  <2> QED  BY <2>1, <2>4 DEF X
<1> HIDE DEF X
<1> QED  BY <1>2, <1>3, <1>4 DEF X

(* What parse() answers, for every option and every value. *)
LEMMA ParseAnswers ==
  ASSUME NEW T, NEW s, SettingsOK(s), NEW conf, Suits(conf), NEW sval \in Seq(T)
  PROVE  LET r == parse(conf, sval, s)
         IN  /\ SettingsOK(r.set) /\ r.loop \in Loops
             /\ r.st = "looping" => Named(T) /\ conf.dest \in {"charmap_tx", "charmap_rx"}
             /\ r.st = "failed" => \A d \in Line : r.set[d] = s[d]
<1> DEFINE p == conf.parse
           to == conf.dest
           X == parse(conf, sval, s)
<1>1. CASE p \in {"int", "float", "baud", "databits", "stopbits", "flowcontrol"}
  BY <1>1, StoreTyped DEF Plain
<1>2. CASE p \in {"flag_true", "flag_count", "str", "devname"}
  BY <1>2, FlagTyped DEF Plain
<1>3. CASE p \in {"baud_dps", "parity", "hexfmt", "cmd"}
  <2>1. p = "baud_dps" => X = parse_baud_dps(sval, s)
    BY DEF parse
  <2>2. p = "parity" => X = parse_parity(sval, s)
    BY DEF parse
  <2>3. p = "hexfmt" => X = parse_hexfmt(sval, s)
    BY DEF parse
  <2>4. p = "cmd" => X = parse_cmd(sval, s)
    BY DEF parse
  <2> HIDE DEF X, p
  <2>5. Plain(X, s)
    BY <1>3, <2>1, <2>2, <2>3, <2>4, BaudDpsPlain, ParityPlain, HexfmtPlain, CmdPlain
  <2> QED  BY <2>5 DEF Plain, X
<1>4. CASE p = "eol"
  <2>1. X = parse_eol(sval, s, to) /\ to \in {"eol_txrx", "eol_tx", "eol_rx"}
    BY <1>4 DEF parse, Suits
  <2> HIDE DEF X, to
  <2>2. Plain(X, s)
    BY <2>1, EolPlain
  <2> QED  BY <2>2 DEF Plain, X
<1>5. CASE p = "map"
  <2>1. X = parse_map(sval, s, to) /\ to \in {"charmap_tx", "charmap_rx"}
    BY <1>5 DEF parse, Suits
  <2> HIDE DEF X, to
  <2>2. SettingsOK(X.set) /\ X.loop \in Loops /\ (X.st = "looping" => Named(T))
        /\ \A e \in Line : X.set[e] = s[e]
    BY <2>1, MapAnswers
  <2> QED  BY <2>1, <2>2 DEF X, to
<1>6. CASE p \notin {"int", "float", "baud", "databits", "stopbits", "flowcontrol", "flag_true",
                     "flag_count", "str", "devname", "baud_dps", "parity", "hexfmt", "cmd", "eol",
                     "map"}
  <2>1. X = Parsed("failed", s) \/ X = Parsed("exit", s)
    BY <1>6 DEF parse
  <2> HIDE DEF X
  <2>2. Plain(Parsed("failed", s), s) /\ Plain(Parsed("exit", s), s)
    BY ParsedPlain
  <2>3. Plain(X, s)
    BY <2>1, <2>2
  <2> QED  BY <2>3 DEF Plain, X
<1> HIDE DEF X, p
<1> QED  BY <1>1, <1>2, <1>3, <1>4, <1>5, <1>6 DEF X

-----------------------------------------------------------------------------
(* The invariant.                                                          *)

(* The tree has all names of the options that were added, and no other.    *)
TreeInv ==
  /\ Tree(btree, Names, Confs) /\ todo \in Seq(Confs) /\ Distinct(todo)
  /\ \A n \in DOMAIN btree.node :
       LET conf == btree.node[n].data IN conf \notin ToSet(todo) /\ n \in ToSet(conf.names)
  /\ stage = "init" =>
       \A conf \in Confs : conf \in ToSet(todo) \/ ToSet(conf.names) \subseteq DOMAIN btree.node

(* Every positional option is listed, or still to be added. *)
PositionalsInv ==
  /\ positionals \in [conf : Seq(Confs), last : Nat] /\ positionals.last <= Len(positionals.conf)
  /\ \A conf \in Confs :
       conf.positional # 0 => conf \in ToSet(todo) \/ conf \in ToSet(positionals.conf)
  /\ stage = "args" => todo = <<>>

(* The iterator is on the command line. *)
IteratorInv ==
  /\ line.argv \in Seq(Seq(TokensOf(line.argv)))
  /\ itr \in Iterator(line.argv, TokensOf(line.argv)) /\ itr.dashes \in 0..2
  /\ stage = "init" => itr = opt_argviter_init
  /\ stage = "args" => itr.status = "ok"

(* The settings have their types, and the loop writes to a map. *)
SettingsInv ==
  /\ SettingsOK(set)
  /\ loop = [dest |-> loop.dest, at |-> loop.at] /\ loop.at \in Loops
  /\ stage = "looping" => loop.dest \in {"charmap_tx", "charmap_rx"} /\ NamesGroup

(* The section of the port has still to finish. *)
Pending == \E i \in DOMAIN sections : sections[i] = "port_opts"

Applied == set.stay => set.wait

(* --stay has switched on --wait once the section of the port is done.     *)
FinishInv ==
  /\ sections \in Seq(DOMAIN Tables)
  /\ stage \notin {"post", "done"} => Pending
  /\ stage = "post" => Pending \/ Applied
  /\ stage = "done" => Applied

Stages == {"init", "args", "post", "looping", "exit", "done"} \cup Errors

Inv == stage \in Stages /\ TreeInv /\ PositionalsInv /\ IteratorInv /\ SettingsInv /\ FinishInv

-----------------------------------------------------------------------------
(* What an action leaves alone.                                            *)

LEMMA TreeStays ==
  ASSUME TreeInv, UNCHANGED <<btree, todo>>, stage' = "init" => stage = "init"
  PROVE  TreeInv'
BY DEF TreeInv

LEMMA PositionalsStay ==
  ASSUME PositionalsInv, UNCHANGED <<positionals, todo>>, stage' = "args" => stage = "args"
  PROVE  PositionalsInv'
BY DEF PositionalsInv

LEMMA IteratorStays ==
  ASSUME IteratorInv, UNCHANGED <<line, itr>>, stage' \in {"init", "args"} => stage' = stage
  PROVE  IteratorInv'
BY DEF IteratorInv

LEMMA SettingsStay ==
  ASSUME SettingsInv, UNCHANGED <<set, loop, line>>, stage' = "looping" => stage = "looping"
  PROVE  SettingsInv'
BY DEF SettingsInv, NamesGroup

LEMMA FinishStays ==
  ASSUME FinishInv, UNCHANGED sections, stage \notin {"post", "done"}, stage' # "done"
  PROVE  FinishInv'
BY DEF FinishInv, Pending

-----------------------------------------------------------------------------
(* The first state.                                                        *)

LEMMA InitIterator == ASSUME NEW argv, NEW T PROVE opt_argviter_init \in Iterator(argv, T)
<1>1. <<>> \in Seq(T)
  OBVIOUS
<1> QED  BY <1>1 DEF opt_argviter_init, Iterator, Statuses

LEMMA InitInv == Init => Inv
<1> SUFFICES ASSUME Init PROVE Inv
  OBVIOUS
<1>1. stage \in {"init", "failed"} /\ sections \in Orders /\ todo = AllConfs(sections)
      /\ btree = EmptyTree /\ positionals = [conf |-> <<>>, last |-> 0]
      /\ line = [argv |-> <<>>, sets |-> <<>>, bad |-> FALSE] /\ itr = opt_argviter_init
      /\ set = Defaults /\ loop = [dest |-> "none", at |-> NoLoop]
  BY DEF Init
<1>2. todo \in Seq(Confs) /\ Distinct(todo) /\ \A conf \in Confs : conf \in ToSet(todo)
  BY <1>1, AllConfsAre
<1>3. TreeInv
  <2>1. NULL \notin Names
    BY DEF Names
  <2>2. Tree(btree, Names, Confs)
    BY <1>1, <2>1, EmptyIsTree
  <2>3. DOMAIN btree.node = {}
    BY <1>1 DEF EmptyTree
  <2> QED  BY <1>2, <2>2, <2>3 DEF TreeInv
<1>4. PositionalsInv
  <2>1. <<>> \in Seq(Confs) /\ Len(<<>>) = 0
    OBVIOUS
  <2>2. positionals \in [conf : Seq(Confs), last : Nat] /\ positionals.last <= Len(positionals.conf)
    BY <1>1, <2>1
  <2> QED  BY <1>1, <1>2, <2>2 DEF PositionalsInv
<1>5. IteratorInv
  <2>1. itr \in Iterator(line.argv, TokensOf(line.argv))
    BY <1>1, InitIterator
  <2>2. line.argv \in Seq(Seq(TokensOf(line.argv)))
    BY <1>1
  <2>3. itr.dashes = 0 /\ itr.status = "ok"
    BY <1>1 DEF opt_argviter_init
  <2> QED  BY <1>1, <2>1, <2>2, <2>3 DEF IteratorInv
<1>6. SettingsInv
  <2>1. NoLoop \in Loops
    BY DEF NoLoop, Loops, UCHAR_MAX
  <2>2. stage # "looping"
    BY <1>1
  <2> QED  BY <1>1, <2>1, <2>2, DefaultsOK DEF SettingsInv
<1>7. FinishInv
  <2>1. "port_opts" \in DOMAIN Tables
    BY DEF Tables
  <2>2. sections \in Seq(DOMAIN Tables) /\ "port_opts" \in ToSet(sections)
    BY <1>1, <2>1, OptionsAssumption
  <2>3. Pending
    BY <2>2 DEF ToSet, Pending
  <2> QED  BY <1>1, <2>2, <2>3 DEF FinishInv
<1>8. stage \in Stages
  BY <1>1 DEF Stages, Errors
<1> QED  BY <1>3, <1>4, <1>5, <1>6, <1>7, <1>8 DEF Inv

-----------------------------------------------------------------------------
(* opt_init().                                                             *)

LEMMA HeadAndTail ==
  ASSUME NEW T, NEW s \in Seq(T), Distinct(s), s # <<>>
  PROVE  /\ Head(s) \in T /\ Tail(s) \in Seq(T)
         /\ Distinct(Tail(s)) /\ Head(s) \notin ToSet(Tail(s))
         /\ ToSet(s) = ToSet(Tail(s)) \cup {Head(s)}
<1> DEFINE n == Len(s)
           t == Tail(s)
<1>1. n \in Nat \ {0} /\ DOMAIN s = 1..n /\ DOMAIN t = 1..(n - 1) /\ Head(s) = s[1]
      /\ Head(s) \in T /\ t \in Seq(T)
  OBVIOUS
<1>2. \A k \in 1..(n - 1) : t[k] = s[k + 1]
  OBVIOUS
<1> HIDE DEF t, n
<1>3. \A i, j \in 1..n : s[i] = s[j] => i = j
  BY <1>1 DEF Distinct
<1>4. \A k \in 1..(n - 1) : k + 1 \in 1..n /\ k + 1 # 1
  BY <1>1
<1>5. Distinct(t)
  <2>1. ASSUME NEW i \in 1..(n - 1), NEW j \in 1..(n - 1), t[i] = t[j] PROVE i = j
    <3>1. i + 1 = j + 1
      BY <1>2, <1>3, <1>4, <2>1
    <3> QED  BY <3>1
  <2> QED  BY <1>1, <2>1 DEF Distinct
<1>6. Head(s) \notin ToSet(t)
  <2>1. \A k \in 1..(n - 1) : t[k] # s[1]
    BY <1>1, <1>2, <1>3, <1>4
  <2> QED  BY <1>1, <2>1 DEF ToSet
<1>7. ToSet(s) = ToSet(t) \cup {s[1]}
  <2>1. \A i \in 1..n : i # 1 => i - 1 \in 1..(n - 1) /\ t[i - 1] = s[i]
    <3> SUFFICES ASSUME NEW i \in 1..n, i # 1 PROVE i - 1 \in 1..(n - 1) /\ t[i - 1] = s[i]
      OBVIOUS
    <3>1. i - 1 \in 1..(n - 1) /\ (i - 1) + 1 = i
      BY <1>1
    <3> QED  BY <1>2, <3>1
  <2>2. ASSUME NEW x, x \in ToSet(s) PROVE x \in ToSet(t) \/ x = s[1]
    <3>1. PICK i \in 1..n : x = s[i]
      BY <1>1, <2>2 DEF ToSet
    <3> QED  BY <1>1, <2>1, <3>1 DEF ToSet
  <2>3. ASSUME NEW x, x \in ToSet(t) PROVE x \in ToSet(s)
    <3>1. PICK i \in 1..(n - 1) : x = t[i]
      BY <1>1, <2>3 DEF ToSet
    <3>2. x = s[i + 1] /\ i + 1 \in DOMAIN s
      BY <1>1, <1>2, <1>4, <3>1
    <3> QED  BY <3>2 DEF ToSet
  <2>4. s[1] \in ToSet(s)
    BY <1>1 DEF ToSet
  <2> QED  BY <2>2, <2>3, <2>4
<1> QED  BY <1>1, <1>5, <1>6, <1>7 DEF t

LEMMA AddStep ==
  ASSUME Inv, opt_init_cb_addtobtree
  PROVE  Inv'
<1> DEFINE conf == Head(todo)
           new == ToSet(conf.names)
           D == DOMAIN btree.node
<1>1. /\ stage = "init" /\ todo # <<>> /\ todo' = Tail(todo)
      /\ UNCHANGED <<sections, line, itr, set, loop>>
      /\ stage' = (IF new \cap D # {} THEN "failed" ELSE stage)
      /\ btree' = add_names(btree, conf)
      /\ positionals' = IF conf.positional = 0 THEN positionals
                        ELSE [positionals EXCEPT !.conf = Append(@, conf)]
  BY DEF opt_init_cb_addtobtree
<1>2. TreeInv /\ PositionalsInv /\ IteratorInv /\ SettingsInv /\ FinishInv
  BY DEF Inv
<1>3. /\ conf \in Confs /\ todo' \in Seq(Confs) /\ Distinct(todo') /\ conf \notin ToSet(todo')
      /\ ToSet(todo) = ToSet(todo') \cup {conf}
  <2> DEFINE s == todo
  <2>1. s \in Seq(Confs) /\ Distinct(s) /\ s # <<>> /\ todo' = Tail(s)
    BY <1>1, <1>2 DEF TreeInv
  <2> HIDE DEF s
  <2>2. /\ Head(s) \in Confs /\ Tail(s) \in Seq(Confs) /\ Distinct(Tail(s))
        /\ Head(s) \notin ToSet(Tail(s)) /\ ToSet(s) = ToSet(Tail(s)) \cup {Head(s)}
    BY <2>1, HeadAndTail
  <2> QED  BY <2>1, <2>2 DEF s
<1>4. stage' \in {"init", "failed"}
  BY <1>1
<1> HIDE DEF conf
<1>5. TreeInv'
  <2> DEFINE bt == btree
             t == add_names(bt, conf)
  <2>1. Tree(bt, Names, Confs) /\ conf.names \in Seq(Names)
    BY <1>2, <1>3, ConfNames DEF TreeInv, Names
  <2> HIDE DEF bt
  <2>2. /\ Tree(t, Names, Confs) /\ DOMAIN t.node = DOMAIN bt.node \cup new
        /\ \A n \in new \ DOMAIN bt.node : t.node[n].data = conf
        /\ \A n \in DOMAIN bt.node : t.node[n].data = bt.node[n].data
    BY <1>3, <2>1, AddNames
  <2>3. btree' = t /\ bt = btree
    BY <1>1 DEF bt
  <2> HIDE DEF t, new
  <2>4. ASSUME NEW n \in DOMAIN t.node
        PROVE  t.node[n].data \notin ToSet(todo') /\ n \in ToSet(t.node[n].data.names)
    <3>1. CASE n \in D
      <4>1. bt.node[n].data \notin ToSet(todo) /\ n \in ToSet(bt.node[n].data.names)
        BY <1>2, <2>3, <3>1 DEF TreeInv
      <4> QED  BY <1>3, <2>2, <2>3, <3>1, <4>1
    <3>2. CASE n \notin D
      <4>1. n \in new /\ t.node[n].data = conf
        BY <2>2, <2>3, <3>2
      <4> QED  BY <1>3, <4>1 DEF new
    <3> QED  BY <3>1, <3>2
  <2>5. ASSUME NEW c \in Confs
        PROVE  c \in ToSet(todo') \/ ToSet(c.names) \subseteq DOMAIN t.node
    <3>1. CASE c = conf
      BY <2>2, <3>1 DEF new
    <3>2. CASE c # conf
      <4>1. c \in ToSet(todo) \/ ToSet(c.names) \subseteq D
        BY <1>1, <1>2 DEF TreeInv
      <4> QED  BY <1>3, <2>2, <2>3, <3>2, <4>1
    <3> QED  BY <3>1, <3>2
  <2>6. Tree(btree, Names, Confs)'
    BY <2>2, <2>3
  <2> QED  BY <1>3, <2>3, <2>4, <2>5, <2>6 DEF TreeInv
<1>6. PositionalsInv'
  <2> DEFINE p == positionals.conf
  <2>1. positionals = [conf |-> p, last |-> positionals.last] /\ p \in Seq(Confs)
        /\ positionals.last \in Nat /\ positionals.last <= Len(p)
    BY <1>2 DEF PositionalsInv
  <2>2. \A c \in Confs : c.positional # 0 => c \in ToSet(todo) \/ c \in ToSet(p)
    BY <1>2 DEF PositionalsInv
  <2> HIDE DEF p
  <2>3. CASE conf.positional = 0
    <3>1. positionals' = positionals
      BY <1>1, <2>3
    <3>2. positionals' \in [conf : Seq(Confs), last : Nat]
          /\ positionals.last' <= Len(positionals.conf')
      BY <1>2, <3>1 DEF PositionalsInv
    <3>3. \A c \in Confs : c.positional # 0 => c \in ToSet(todo') \/ c \in ToSet(positionals.conf')
      BY <1>3, <2>2, <2>3, <3>1 DEF p
    <3> QED  BY <1>4, <3>2, <3>3 DEF PositionalsInv
  <2>4. CASE conf.positional # 0
    <3> DEFINE q == Append(p, conf)
    <3>1. positionals' = [conf |-> q, last |-> positionals.last]
      BY <1>1, <2>1, <2>4 DEF p
    <3>2. q \in Seq(Confs) /\ Len(q) = Len(p) + 1 /\ Len(p) \in Nat /\ q[Len(p) + 1] = conf
          /\ \A k \in 1..Len(p) : q[k] = p[k]
      BY <1>3, <2>1
    <3>3. DOMAIN q = 1..(Len(p) + 1) /\ DOMAIN p = 1..Len(p)
      BY <2>1, <3>2
    <3> HIDE DEF q
    <3>4. \A c : c \in ToSet(p) \/ c = conf => c \in ToSet(q)
      BY <3>2, <3>3 DEF ToSet
    <3>5. positionals' \in [conf : Seq(Confs), last : Nat]
          /\ positionals.last' <= Len(positionals.conf')
      BY <2>1, <3>1, <3>2
    <3>6. \A c \in Confs : c.positional # 0 => c \in ToSet(todo') \/ c \in ToSet(positionals.conf')
      BY <1>3, <2>2, <3>1, <3>4
    <3> QED  BY <1>4, <3>5, <3>6 DEF PositionalsInv
  <2> QED  BY <2>3, <2>4
<1>7. IteratorInv'
  BY <1>1, <1>2, <1>4, IteratorStays
<1>8. SettingsInv'
  BY <1>1, <1>2, <1>4, SettingsStay
<1>9. FinishInv'
  BY <1>1, <1>2, <1>4, FinishStays
<1> QED  BY <1>4, <1>5, <1>6, <1>7, <1>8, <1>9 DEF Inv, Stages, Errors

(* The program is called. *)
LEMMA MainStep ==
  ASSUME Inv, main
  PROVE  Inv'
<1>1. stage = "init" /\ todo = <<>> /\ line' \in Lines /\ stage' = "args"
      /\ UNCHANGED <<todo, sections, btree, positionals, itr, set, loop>>
  BY DEF main
<1>2. TreeInv /\ PositionalsInv /\ IteratorInv /\ SettingsInv /\ FinishInv
  BY DEF Inv
<1>3. TreeInv'
  BY <1>1, <1>2, TreeStays
<1>4. PositionalsInv'
  BY <1>1, <1>2 DEF PositionalsInv
<1>5. IteratorInv'
  <2>1. itr' = opt_argviter_init
    BY <1>1, <1>2 DEF IteratorInv
  <2>2. itr' \in Iterator(line.argv', TokensOf(line.argv'))
    BY <2>1, InitIterator
  <2>3. line.argv' \in Seq(Seq(TokensOf(line.argv')))
    BY <1>1, LinesAssumption
  <2>4. itr.dashes' \in 0..2 /\ itr.status' = "ok"
    BY <2>1 DEF opt_argviter_init
  <2> QED  BY <1>1, <2>2, <2>3, <2>4 DEF IteratorInv
<1>6. SettingsInv'
  BY <1>1, <1>2 DEF SettingsInv
<1>7. FinishInv'
  BY <1>1, <1>2, FinishStays
<1> QED  BY <1>1, <1>3, <1>4, <1>5, <1>6, <1>7 DEF Inv, Stages

-----------------------------------------------------------------------------
(* The loop of opt_parse_args().                                           *)

LEMMA KeyIs ==
  ASSUME IteratorInv, stage = "args"
  PROVE  /\ Key \in Iterator(line.argv, TokensOf(line.argv))
         /\ Key.status \in {"ok", "DONE"} => Key.dashes \in 0..2
         /\ Key.status = "ok" => LeftOf(Key, line.argv) < LeftOf(itr, line.argv)
<1> DEFINE argv == line.argv
           T == TokensOf(argv)
<1>1. argv \in Seq(Seq(T)) /\ itr \in Iterator(argv, T) /\ itr.dashes \in 0..2 /\ itr.status = "ok"
  BY DEF IteratorInv
<1> HIDE DEF argv, T
<1>2. LET q == opt_argviter_getkey(itr, argv)
      IN  /\ q \in Iterator(argv, T)
          /\ q.status \in {"ok", "DONE"} => q.dashes \in 0..2
          /\ q.status = "ok" => LeftOf(q, argv) < LeftOf(itr, argv)
  BY <1>1, GetKey
<1> QED  BY <1>2 DEF Key, argv, T

LEMMA LeftType ==
  ASSUME NEW T, NEW argv \in Seq(Seq(T)), NEW p \in Iterator(argv, T)
  PROVE  LeftOf(p, argv) \in Nat
<1>1. p.sp \in Seq(T) /\ p.argi \in Nat
  BY DEF Iterator
<1>2. Behind(argv, p.argi) \in Nat
  BY <1>1, BehindType
<1>3. Len(p.sp) \in Nat
  BY <1>1
<1> QED  BY <1>2, <1>3 DEF LeftOf

LEMMA LeftIs ==
  ASSUME NEW T, NEW argv \in Seq(Seq(T)), NEW p \in Iterator(argv, T)
  PROVE  LET rest == SubSeq(argv, p.argi + 1, Len(argv))
         IN  Len(p.sp) + Len(rest) + Len(FlattenSeq(rest)) = LeftOf(p, argv)
<1> DEFINE rest == SubSeq(argv, p.argi + 1, Len(argv))
           V == Seq(T)
<1>1. p.sp \in V /\ p.argi \in Nat
  BY DEF Iterator
<1>2. Len(p.sp) \in Nat
  BY <1>1
<1>3. rest \in Seq(V) /\ Len(rest) \in Nat
  <2> HIDE DEF V
  <2>1. argv \in Seq(V)
    BY DEF V
  <2> QED  BY <1>1, <2>1
<1>4. LeftOf(p, argv) = Len(p.sp) + (Len(rest) + Len(FlattenSeq(rest)))
  BY DEF LeftOf, Behind
<1> HIDE DEF rest
<1>5. FlattenSeq(rest) \in V
  BY <1>3, FlattenType
<1>6. Len(FlattenSeq(rest)) \in Nat
  BY <1>5
<1> HIDE DEF V
<1>7. Len(p.sp) + Len(rest) + Len(FlattenSeq(rest)) = LeftOf(p, argv)
  <2>1. \A a, b, c \in Nat : a + b + c = a + (b + c)
    OBVIOUS
  <2> QED  BY <1>2, <1>3, <1>4, <1>6, <2>1
<1> QED  BY <1>7 DEF rest

LEMMA GivenIs ==
  ASSUME IteratorInv, stage = "args", Key.status = "ok"
  PROVE  /\ Given \in Iterator(line.argv, TokensOf(line.argv)) /\ Given.dashes \in 0..2
         /\ Given.status = "ok" => LeftOf(Given, line.argv) <= LeftOf(Key, line.argv)
         /\ Given.status \in {"ok", "EINVAL", "assert"} /\ Sval \in Seq(TokensOf(line.argv))
<1> DEFINE argv == line.argv
           T == TokensOf(argv)
           k == Key
           g == opt_argviter_getval(k, argv)
<1>1. argv \in Seq(Seq(T)) /\ k \in Iterator(argv, T) /\ k.dashes \in 0..2 /\ k.status = "ok"
  BY KeyIs DEF IteratorInv
<1>2. k.name \in Seq(T) /\ k.sp \in Seq(T) /\ k.argi \in Nat
  BY <1>1 DEF Iterator
<1>3. LeftOf(k, argv) \in Nat
  <2> HIDE DEF k, argv, T
  <2> QED  BY <1>1, LeftType
<1> HIDE DEF k, argv, T
<1>4. /\ g \in Iterator(argv, T) /\ g.dashes \in 0..2
      /\ g.status \in {k.status, "EINVAL", "assert"}
      /\ g.status = "ok" => LeftOf(g, argv) <= LeftOf(k, argv)
  BY <1>1, GetVal
<1>5. g.val \in Seq(T)
  BY <1>4 DEF Iterator
<1>6. CASE opt_conf_has_val(Conf)
  <2>1. Given = g /\ Sval = g.val
    BY <1>6 DEF Given, Sval, k, argv
  <2> HIDE DEF g
  <2> QED  BY <1>4, <1>5, <2>1 DEF k, argv, T
<1>7. CASE ~opt_conf_has_val(Conf)
  <2>1. Given = k /\ Sval = k.name
    BY <1>7 DEF Given, Sval, k
  <2>2. LeftOf(k, argv) <= LeftOf(k, argv)
    BY <1>3
  <2> QED  BY <1>1, <1>2, <2>1, <2>2 DEF k, argv, T
<1> QED  BY <1>6, <1>7

(* What opt_lookup() finds is an option. *)
LEMMA LookupIs == ASSUME TreeInv, NEW name PROVE opt_lookup(name) \in Confs \cup {NoConf}
<1> DEFINE bt == btree
           found == btree_find(bt, name)
           D == DOMAIN bt.node
<1>1. Tree(bt, Names, Confs)
  BY DEF TreeInv
<1> HIDE DEF bt
<1>2. found \in D \cup {NULL}
  BY <1>1, FindType
<1>3. \A n \in D : bt.node[n].data \in Confs
  BY <1>1 DEF Tree, TreeBy, Node
<1>4. opt_lookup(name) = IF found = NULL THEN NoConf ELSE bt.node[found].data
  BY DEF opt_lookup, bt
<1> HIDE DEF found
<1> QED  BY <1>2, <1>3, <1>4

LEMMA NextPositionalIs ==
  ASSUME PositionalsInv
  PROVE  opt_lookup_next_positional \in Confs \cup {NoConf}
<1> DEFINE p == positionals.conf
           later == {i \in DOMAIN p : p[i].positional > positionals.last}
           first == CHOOSE i \in later : \A j \in later : i <= j
<1>1. p \in Seq(Confs)
  BY DEF PositionalsInv
<1>2. opt_lookup_next_positional = IF later = {} THEN NoConf ELSE p[first]
  BY DEF opt_lookup_next_positional
<1> HIDE DEF p
<1>3. later \subseteq 1..Len(p) /\ Len(p) \in Nat /\ \A i \in 1..Len(p) : p[i] \in Confs
  <2>1. DOMAIN p = 1..Len(p) /\ Len(p) \in Nat
    BY <1>1
  <2> QED  BY <1>1, <2>1
<1>4. later # {} => first \in later
  <2> HIDE DEF later
  <2> QED  BY <1>3, SmallestOf
<1> HIDE DEF first, later
<1> QED  BY <1>2, <1>3, <1>4

LEMMA ConfIs == ASSUME TreeInv, PositionalsInv PROVE Conf \in Confs \cup {NoConf}
BY LookupIs, NextPositionalIs DEF Conf

(* Both positional options are there. *)
LEMMA PositionalsFit ==
  ASSUME PositionalsInv, todo = <<>>, NEW conf \in Confs
  PROVE  conf.positional \in Nat /\ conf.positional <= Len(positionals.conf)
<1> DEFINE p == positionals.conf
<1>1. conf.positional \in 0..2
  BY ConfsSuit DEF Suits
<1>2. PICK a, b \in Confs : a # b /\ a.positional # 0 /\ b.positional # 0
  BY TwoPositionals
<1>3. a \in ToSet(p) /\ b \in ToSet(p) /\ p \in Seq(Confs)
  <2>1. \A c : c \notin ToSet(<<>>)
    BY DEF ToSet
  <2> QED  BY <1>2, <2>1 DEF PositionalsInv
<1> HIDE DEF p
<1>4. DOMAIN p = 1..Len(p) /\ Len(p) \in Nat
  BY <1>3
<1>5. PICK i, j \in 1..Len(p) : p[i] = a /\ p[j] = b
  BY <1>3, <1>4 DEF ToSet
<1>6. i # j
  BY <1>2, <1>5
<1>7. Len(p) >= 2
  BY <1>4, <1>6
<1> QED  BY <1>1, <1>4, <1>7 DEF p

LEMMA NoMoreStep ==
  ASSUME Inv, no_more_args
  PROVE  Inv'
<1>1. stage = "args" /\ Key.status = "DONE" /\ stage' = "post" /\ itr' = Key
      /\ UNCHANGED <<todo, sections, btree, positionals, line, set, loop>>
  BY DEF no_more_args
<1>2. TreeInv /\ PositionalsInv /\ IteratorInv /\ SettingsInv /\ FinishInv
  BY DEF Inv
<1>3. IteratorInv'
  <2>1. itr' \in Iterator(line.argv, TokensOf(line.argv)) /\ itr.dashes' \in 0..2
    BY <1>1, <1>2, KeyIs
  <2>2. line.argv \in Seq(Seq(TokensOf(line.argv)))
    BY <1>2 DEF IteratorInv
  <2> QED  BY <1>1, <2>1, <2>2 DEF IteratorInv
<1>4. TreeInv'
  BY <1>1, <1>2, TreeStays
<1>5. PositionalsInv'
  BY <1>1, <1>2, PositionalsStay
<1>6. SettingsInv'
  BY <1>1, <1>2, SettingsStay
<1>7. FinishInv'
  BY <1>1, <1>2, FinishStays
<1> QED  BY <1>1, <1>3, <1>4, <1>5, <1>6, <1>7 DEF Inv, Stages

(* How the loop can end with an error. *)
LEMMA BadArgEnds ==
  ASSUME Inv, bad_arg
  PROVE  stage = "args" /\ stage' \in {"EINVAL", "assert", "ENOENT"}
<1>1. stage = "args" /\ IteratorInv
  BY DEF bad_arg, Inv
<1>2. Key.status \in Statuses /\ Key.status # "DONE"
  BY <1>1, KeyIs DEF bad_arg, Iterator
<1>3. CASE Key.status # "ok"
  BY <1>1, <1>2, <1>3 DEF bad_arg, Statuses
<1>4. CASE Key.status = "ok" /\ Conf = NoConf
  BY <1>1, <1>4 DEF bad_arg
<1>5. CASE Key.status = "ok" /\ Conf # NoConf
  <2>1. Given.status # "ok" /\ stage' = Given.status
    BY <1>5 DEF bad_arg
  <2>2. Given.status \in {"ok", "EINVAL", "assert"}
    BY <1>1, <1>5, GivenIs
  <2> QED  BY <1>1, <2>1, <2>2
<1> QED  BY <1>3, <1>4, <1>5

LEMMA BadArgStep ==
  ASSUME Inv, bad_arg
  PROVE  Inv'
<1>1. stage = "args" /\ stage' \in {"EINVAL", "assert", "ENOENT"}
  BY BadArgEnds
<1>2. UNCHANGED <<todo, sections, btree, positionals, line, itr, set, loop>>
  BY DEF bad_arg
<1>3. TreeInv /\ PositionalsInv /\ IteratorInv /\ SettingsInv /\ FinishInv
  BY DEF Inv
<1>4. TreeInv'
  BY <1>1, <1>2, <1>3, TreeStays
<1>5. PositionalsInv'
  BY <1>1, <1>2, <1>3, PositionalsStay
<1>6. IteratorInv'
  BY <1>1, <1>2, <1>3, IteratorStays
<1>7. SettingsInv'
  BY <1>1, <1>2, <1>3, SettingsStay
<1>8. FinishInv'
  BY <1>1, <1>2, <1>3, FinishStays
<1> QED  BY <1>1, <1>4, <1>5, <1>6, <1>7, <1>8 DEF Inv, Stages, Errors

(* What the parser of an option does to the settings. *)
LEMMA ParserAnswers ==
  ASSUME Inv, opt_conf_parse_val
  PROVE  /\ stage = "args" /\ Key.status = "ok" /\ Given.status = "ok" /\ itr' = Given
         /\ Conf \in Confs /\ SettingsOK(set)'
         /\ loop' = [dest |-> Conf.dest, at |-> loop.at'] /\ loop.at' \in Loops
         /\ stage' \in Stops \cup {"args"}
         /\ stage' = "looping" =>
              NamesGroup /\ Conf.dest \in {"charmap_tx", "charmap_rx"}
         /\ stage' = "failed" => \A d \in Line : set'[d] = set[d]
<1> DEFINE s == set
           v == Sval
           conf == Conf
           T == TokensOf(line.argv)
           r == parse(conf, v, s)
<1>1. /\ stage = "args" /\ Key.status = "ok" /\ conf # NoConf /\ Given.status = "ok"
      /\ itr' = Given /\ set' = r.set /\ loop' = [dest |-> conf.dest, at |-> r.loop]
      /\ stage' = IF r.st \in Stops THEN r.st ELSE "args"
  BY DEF opt_conf_parse_val, Answered
<1>2. TreeInv /\ PositionalsInv /\ IteratorInv /\ SettingsInv
  BY DEF Inv
<1>3. conf \in Confs /\ Suits(conf)
  BY <1>1, <1>2, ConfIs, ConfsSuit
<1>4. v \in Seq(T)
  BY <1>1, <1>2, GivenIs
<1>5. SettingsOK(s)
  BY <1>2 DEF SettingsInv
<1> HIDE DEF v, conf, T, s
<1>6. /\ SettingsOK(r.set) /\ r.loop \in Loops
      /\ r.st = "looping" => Named(T) /\ conf.dest \in {"charmap_tx", "charmap_rx"}
      /\ r.st = "failed" => \A d \in Line : r.set[d] = s[d]
  BY <1>3, <1>4, <1>5, ParseAnswers
<1> HIDE DEF r
<1>7. loop' = [dest |-> conf.dest, at |-> loop.at'] /\ loop.at' = r.loop
  BY <1>1
<1>8. stage' \in Stops \cup {"args"} /\ (stage' \in {"looping", "failed"} => r.st = stage')
  BY <1>1 DEF Stops
<1>9. stage' = "looping" => NamesGroup
  BY <1>6, <1>8 DEF NamesGroup, Named, T
<1>10. SettingsOK(set)'
  BY <1>1, <1>6
<1>11. stage' = "failed" => \A d \in Line : set'[d] = set[d]
  BY <1>1, <1>6, <1>8 DEF s
<1> QED  BY <1>1, <1>3, <1>6, <1>7, <1>8, <1>9, <1>10, <1>11 DEF conf

LEMMA ParseStep ==
  ASSUME Inv, opt_conf_parse_val
  PROVE  Inv'
<1>1. /\ stage = "args" /\ Key.status = "ok" /\ Given.status = "ok" /\ itr' = Given
      /\ Conf \in Confs /\ SettingsOK(set)'
      /\ loop' = [dest |-> Conf.dest, at |-> loop.at'] /\ loop.at' \in Loops
      /\ stage' \in Stops \cup {"args"}
      /\ stage' = "looping" => NamesGroup /\ Conf.dest \in {"charmap_tx", "charmap_rx"}
  BY ParserAnswers
<1>2. /\ UNCHANGED <<todo, sections, btree, line>>
      /\ positionals' = IF Key.dashes = 0 THEN [positionals EXCEPT !.last = Conf.positional]
                        ELSE positionals
  BY DEF opt_conf_parse_val
<1>3. TreeInv /\ PositionalsInv /\ IteratorInv /\ SettingsInv /\ FinishInv
  BY DEF Inv
<1>4. stage' \in {"args", "failed", "exit", "looping"}
  BY <1>1 DEF Stops
<1>5. TreeInv'
  BY <1>2, <1>3, <1>4, TreeStays
<1>6. PositionalsInv'
  <2>1. todo = <<>> /\ positionals \in [conf : Seq(Confs), last : Nat]
    BY <1>1, <1>3 DEF PositionalsInv
  <2>2. Conf.positional \in Nat /\ Conf.positional <= Len(positionals.conf)
    BY <1>1, <1>3, <2>1, PositionalsFit
  <2>3. CASE Key.dashes = 0
    <3> DEFINE l == Conf.positional
    <3>1. positionals' = [conf |-> positionals.conf, last |-> l]
      BY <1>2, <2>1, <2>3
    <3> HIDE DEF l
    <3>2. positionals.conf' = positionals.conf /\ positionals.last' = l
      BY <3>1
    <3>3. positionals' \in [conf : Seq(Confs), last : Nat] /\ l <= Len(positionals.conf)
      BY <2>1, <2>2, <3>1 DEF l
    <3> QED  BY <1>2, <1>3, <2>1, <3>2, <3>3 DEF PositionalsInv
  <2>4. CASE Key.dashes # 0
    BY <1>1, <1>2, <1>3, <2>4, PositionalsStay
  <2> QED  BY <2>3, <2>4
<1>7. IteratorInv'
  <2>1. itr' \in Iterator(line.argv, TokensOf(line.argv)) /\ itr.dashes' \in 0..2
        /\ itr.status' = "ok"
    BY <1>1, <1>3, GivenIs
  <2>2. line.argv \in Seq(Seq(TokensOf(line.argv)))
    BY <1>3 DEF IteratorInv
  <2> QED  BY <1>2, <1>4, <2>1, <2>2 DEF IteratorInv
<1>8. SettingsInv'
  <2>1. loop.dest' = Conf.dest
    BY <1>1
  <2>2. NamesGroup' <=> NamesGroup
    BY <1>2 DEF NamesGroup
  <2> QED  BY <1>1, <2>1, <2>2 DEF SettingsInv
<1>9. FinishInv'
  BY <1>1, <1>2, <1>3, <1>4, FinishStays
<1> QED  BY <1>4, <1>5, <1>6, <1>7, <1>8, <1>9 DEF Inv, Stages, Errors

(* The loop over all characters. *)
LEMMA LoopStep ==
  ASSUME Inv, group_loop
  PROVE  Inv'
<1>1. /\ stage = "looping"
      /\ set' = IF is_in_group(loop.at.c, loop.at.group)
                THEN [set EXCEPT ![loop.dest].map = mapped(@, loop.at.c, loop.at.repr)] ELSE set
      /\ loop' = [loop EXCEPT !.at.c = (@ + 1) % (UCHAR_MAX + 1)]
      /\ UNCHANGED <<stage, todo, sections, btree, positionals, line, itr>>
  BY DEF group_loop
<1>2. TreeInv /\ PositionalsInv /\ IteratorInv /\ SettingsInv /\ FinishInv
  BY DEF Inv
<1>3. /\ SettingsOK(set) /\ loop = [dest |-> loop.dest, at |-> loop.at] /\ loop.at \in Loops
      /\ loop.dest \in {"charmap_tx", "charmap_rx"} /\ NamesGroup
  BY <1>1, <1>2 DEF SettingsInv
<1>4. SettingsOK(set)'
  <2> DEFINE s == set
             d == loop.dest
             m == s[d].map
             n == mapped(m, loop.at.c, loop.at.repr)
             v == [s[d] EXCEPT !.map = n]
  <2>1. set' = s \/ set' = [s EXCEPT ![d] = v]
    BY <1>1
  <2>2. s[d].map \in CharMaps
    <3>1. d \in DOMAIN Defaults
      BY <1>3 DEF Defaults
    <3>2. Typed(d, s[d])
      BY <1>3, <3>1 DEF SettingsOK
    <3> QED  BY <1>3, <3>2 DEF Typed
  <2>3. loop.at.c \in 0..UCHAR_MAX /\ loop.at.repr \in Nat
    BY <1>3 DEF Loops
  <2>4. n \in CharMaps
    <3> HIDE DEF m
    <3>1. m \in CharMaps
      BY <2>2 DEF m
    <3> QED  BY <2>3, <3>1, MappedType
  <2>5. d \notin {"baudrate", "databits", "stopbits", "verbose", "wait", "stay"}
    BY <1>3
  <2> HIDE DEF n
  <2>6. v.map \in CharMaps
    <3>1. v.map = n \/ v.map = s[d].map
      OBVIOUS
    <3> QED  BY <2>2, <2>4, <3>1
  <2> HIDE DEF v
  <2>7. Typed(d, v)
    BY <2>5, <2>6, Zenon DEF Typed
  <2>8. SettingsOK(s)
    BY <1>3
  <2> HIDE DEF d, s
  <2>9. SettingsOK([s EXCEPT ![d] = v])
    BY <2>7, <2>8, SetOne
  <2> QED  BY <2>1, <2>8, <2>9
<1>5. /\ loop' = [dest |-> loop.dest', at |-> loop.at'] /\ loop.dest' = loop.dest
      /\ loop.at' \in Loops
  <2> DEFINE l == loop
             c == (l.at.c + 1) % (UCHAR_MAX + 1)
  <2>1. l = [dest |-> l.dest, at |-> l.at] /\ l.at \in Loops
    BY <1>3
  <2>2. loop' = [l EXCEPT !.at = [@ EXCEPT !.c = c]]
    BY <1>1
  <2>3. c \in 0..UCHAR_MAX
    <3>1. l.at.c \in Nat
      BY <2>1 DEF Loops
    <3> QED  BY <3>1 DEF UCHAR_MAX
  <2> HIDE DEF l, c
  <2>4. [l.at EXCEPT !.c = c] \in Loops
    BY <2>1, <2>3 DEF Loops
  <2>5. loop' = [dest |-> l.dest, at |-> [l.at EXCEPT !.c = c]]
    BY <2>1, <2>2
  <2> QED  BY <2>4, <2>5 DEF l
<1>6. SettingsInv'
  <2>1. NamesGroup' <=> NamesGroup
    BY <1>1 DEF NamesGroup
  <2> QED  BY <1>1, <1>3, <1>4, <1>5, <2>1 DEF SettingsInv
<1>7. TreeInv'
  BY <1>1, <1>2, TreeStays
<1>8. PositionalsInv'
  BY <1>1, <1>2, PositionalsStay
<1>9. IteratorInv'
  BY <1>1, <1>2, IteratorStays
<1>10. FinishInv'
  BY <1>1, <1>2, FinishStays
<1> QED  BY <1>1, <1>6, <1>7, <1>8, <1>9, <1>10 DEF Inv

-----------------------------------------------------------------------------
(* entry->post_parse().                                                    *)

(* What the sections finish: --stay switches --wait on, and nothing else   *)
(* touches either.                                                         *)
LEMMA PostParse ==
  ASSUME NEW s, SettingsOK(s)
  PROVE  /\ port_post_parse(s).stay => port_post_parse(s).wait
         /\ SettingsOK(port_post_parse(s))
         /\ \A t \in {eol_post_parse(s), ctohex_post_parse(s), outfmt_post_parse(s)} :
              SettingsOK(t) /\ t.stay = s.stay /\ t.wait = s.wait
<1>1. "wait" \in DOMAIN s /\ "stay" \in DOMAIN s
  <2>1. "wait" \in DOMAIN Defaults /\ "stay" \in DOMAIN Defaults
    BY DEF Defaults
  <2> QED  BY <2>1 DEF SettingsOK
<1>2. \A d, v : Free(d) => Typed(d, v)
  BY FreeTyped
<1>3. (port_post_parse(s).stay => port_post_parse(s).wait) /\ SettingsOK(port_post_parse(s))
  <2>1. Typed("wait", TRUE)
    BY Zenon DEF Typed
  <2>2. SettingsOK([s EXCEPT !["wait"] = TRUE])
    BY <2>1, SetOne
  <2> QED  BY <1>1, <2>2 DEF port_post_parse
<1>4. SettingsOK(eol_post_parse(s)) /\ eol_post_parse(s).stay = s.stay
      /\ eol_post_parse(s).wait = s.wait
  <2> DEFINE used(own, before) ==
               IF own.match # "none" THEN own
               ELSE IF s.eol_txrx.match # "none" THEN s.eol_txrx ELSE before
             a == used(s.eol_tx, s.eol_tx_used)
             b == used(s.eol_rx, s.eol_rx_used)
             t == [s EXCEPT !["eol_tx_used"] = a]
             u == [t EXCEPT !["eol_rx_used"] = b]
  <2>1. eol_post_parse(s) = u
    BY DEF eol_post_parse
  <2> HIDE DEF a, b
  <2>2. Typed("eol_tx_used", a) /\ Typed("eol_rx_used", b)
    BY <1>2 DEF Free
  <2>3. SettingsOK(t)
    BY <2>2, SetOne
  <2>4. t.stay = s.stay /\ t.wait = s.wait /\ "wait" \in DOMAIN t /\ "stay" \in DOMAIN t
    BY <1>1
  <2> HIDE DEF t
  <2>5. SettingsOK(u) /\ u.stay = t.stay /\ u.wait = t.wait
    <3>1. SettingsOK(u)
      BY <2>2, <2>3, SetOne
    <3> QED  BY <2>4, <3>1
  <2> QED  BY <2>1, <2>4, <2>5
<1>5. SettingsOK(ctohex_post_parse(s)) /\ ctohex_post_parse(s).stay = s.stay
      /\ ctohex_post_parse(s).wait = s.wait
  <2> DEFINE v == s.hexfmt
             t == [s EXCEPT !["ctohex_table"] = v]
  <2>1. ctohex_post_parse(s) = t
    BY DEF ctohex_post_parse
  <2> HIDE DEF v
  <2>2. Typed("ctohex_table", v)
    BY <1>2 DEF Free
  <2>3. SettingsOK(t)
    BY <2>2, SetOne
  <2>4. t.stay = s.stay /\ t.wait = s.wait
    BY <1>1
  <2> QED  BY <2>1, <2>3, <2>4
<1>6. SettingsOK(outfmt_post_parse(s)) /\ outfmt_post_parse(s).stay = s.stay
      /\ outfmt_post_parse(s).wait = s.wait
  <2> DEFINE t == [s EXCEPT !["colors_remapped"] = TRUE]
  <2>1. outfmt_post_parse(s) = t \/ outfmt_post_parse(s) = s
    BY DEF outfmt_post_parse
  <2>2. Typed("colors_remapped", TRUE)
    BY Zenon DEF Typed
  <2>3. SettingsOK(t)
    BY <2>2, SetOne
  <2>4. t.stay = s.stay /\ t.wait = s.wait
    BY <1>1
  <2> HIDE DEF t
  <2> QED  BY <2>1, <2>3, <2>4
<1> QED  BY <1>3, <1>4, <1>5, <1>6

(* The sections behind the one that finishes are still to finish.          *)
LEMMA SectionsLeft ==
  ASSUME sections \in Seq(DOMAIN Tables), NEW i \in DOMAIN sections,
         \A j \in 1..i - 1 : sections[j] \notin PostParsers,
         sections' = SubSeq(sections, i + 1, Len(sections))
  PROVE  /\ sections' \in Seq(DOMAIN Tables)
         /\ \A k \in DOMAIN sections :
              sections[k] \in PostParsers /\ sections[k] # sections[i]
                => \E j \in DOMAIN sections' : sections'[j] = sections[k]
<1>1. Len(sections) \in Nat /\ DOMAIN sections = 1..Len(sections)
      /\ \A j \in 1..Len(sections) : sections[j] \in DOMAIN Tables
  OBVIOUS
<1>2. /\ sections' \in Seq(DOMAIN Tables)
      /\ Len(sections') = IF i + 1 <= Len(sections) THEN Len(sections) - (i + 1) + 1 ELSE 0
      /\ \A j \in 1..Len(sections) - (i + 1) + 1 : sections'[j] = sections[i + 1 + j - 1]
  <2> DEFINE D == DOMAIN Tables
  <2>1. \A j \in (i + 1)..Len(sections) : sections[j] \in D
    BY <1>1
  <2>2. i + 1 \in Int /\ Len(sections) \in Int
    BY <1>1
  <2> HIDE DEF D
  <2>3. sections' \in Seq(D)
    BY <2>1, <2>2
  <2>4. /\ Len(sections') = IF i + 1 <= Len(sections) THEN Len(sections) - (i + 1) + 1 ELSE 0
        /\ \A j \in 1..Len(sections) - (i + 1) + 1 : sections'[j] = sections[i + 1 + j - 1]
    BY <2>2
  <2> QED  BY <2>3, <2>4 DEF D
<1>3. ASSUME NEW k \in DOMAIN sections, sections[k] \in PostParsers, sections[k] # sections[i]
      PROVE  \E j \in DOMAIN sections' : sections'[j] = sections[k]
  <2>1. k > i
    BY <1>1, <1>3
  <2>2. k - i \in 1..Len(sections) - (i + 1) + 1 /\ Len(sections') = Len(sections) - (i + 1) + 1
        /\ i + 1 + (k - i) - 1 = k
    BY <1>1, <1>2, <1>3, <2>1
  <2>3. sections'[k - i] = sections[k] /\ k - i \in 1..Len(sections')
    BY <1>2, <2>2
  <2>4. DOMAIN sections' = 1..Len(sections')
    BY <1>2
  <2> QED  BY <2>3, <2>4
<1> QED  BY <1>2, <1>3

(* The first section that finishes is the port's or comes before it.       *)
LEMMA FinishStep ==
  ASSUME Inv, post_parse
  PROVE  Inv'
<1>1. PICK i \in DOMAIN sections :
        /\ sections[i] \in PostParsers /\ \A j \in 1..i - 1 : sections[j] \notin PostParsers
        /\ set' = CASE sections[i] = "eol" -> eol_post_parse(set)
                    [] sections[i] = "port_opts" -> port_post_parse(set)
                    [] sections[i] = "ctohex" -> ctohex_post_parse(set)
                    [] sections[i] = "outfmt" -> outfmt_post_parse(set)
        /\ sections' = SubSeq(sections, i + 1, Len(sections))
  BY DEF post_parse
<1>2. stage = "post" /\ UNCHANGED <<stage, todo, btree, positionals, line, itr, loop>>
  BY DEF post_parse
<1>3. /\ TreeInv /\ PositionalsInv /\ IteratorInv /\ SettingsInv /\ FinishInv
      /\ SettingsOK(set) /\ (Pending \/ Applied) /\ sections \in Seq(DOMAIN Tables)
  BY <1>2 DEF Inv, SettingsInv, FinishInv
<1>5. sections' \in Seq(DOMAIN Tables)
  BY <1>1, <1>3, SectionsLeft
<1>6. SettingsOK(set)' /\ (sections[i] = "port_opts" => Applied')
      /\ (sections[i] # "port_opts" /\ Applied => Applied')
  <2>1. CASE sections[i] = "port_opts"
    <3>1. set' = port_post_parse(set)
      BY <1>1, <2>1
    <3> QED  BY <1>3, <2>1, <3>1, PostParse DEF Applied
  <2>2. CASE sections[i] # "port_opts"
    <3>1. set' \in {eol_post_parse(set), ctohex_post_parse(set), outfmt_post_parse(set)}
      BY <1>1, <2>2 DEF PostParsers
    <3>2. SettingsOK(set)' /\ set'.stay = set.stay /\ set'.wait = set.wait
      BY <1>3, <3>1, PostParse
    <3> QED  BY <2>2, <3>2 DEF Applied
  <2> QED  BY <2>1, <2>2
<1>7. sections[i] # "port_opts" /\ Pending => Pending'
  <2> SUFFICES ASSUME sections[i] # "port_opts", Pending PROVE Pending'
    OBVIOUS
  <2>1. PICK k \in DOMAIN sections : sections[k] = "port_opts"
    BY DEF Pending
  <2>2. \E j \in DOMAIN sections' : sections'[j] = sections[k]
    BY <1>1, <1>3, <2>1, SectionsLeft DEF PostParsers
  <2> QED  BY <2>1, <2>2 DEF Pending
<1>8. FinishInv'
  <2>1. Pending' \/ Applied'
    BY <1>3, <1>6, <1>7
  <2> QED  BY <1>2, <1>5, <2>1 DEF FinishInv
<1>9. SettingsInv'
  <2>1. NamesGroup' <=> NamesGroup
    BY <1>2 DEF NamesGroup
  <2> QED  BY <1>2, <1>3, <1>6, <2>1 DEF SettingsInv
<1>10. TreeInv'
  BY <1>2, <1>3, TreeStays
<1>11. PositionalsInv'
  BY <1>2, <1>3, PositionalsStay
<1>12. IteratorInv'
  BY <1>2, <1>3, IteratorStays
<1> QED  BY <1>2, <1>8, <1>9, <1>10, <1>11, <1>12 DEF Inv

LEMMA ReturnsStep ==
  ASSUME Inv, opt_parse_args_returns
  PROVE  Inv'
<1>1. stage = "post" /\ stage' = "done"
      /\ UNCHANGED <<todo, sections, btree, positionals, line, itr, set, loop>>
      /\ \A i \in DOMAIN sections : sections[i] \notin PostParsers
  BY DEF opt_parse_args_returns
<1>2. TreeInv /\ PositionalsInv /\ IteratorInv /\ SettingsInv /\ FinishInv
  BY DEF Inv
<1>3. FinishInv'
  <2>1. ~Pending
    BY <1>1 DEF Pending, PostParsers
  <2>2. Applied' /\ sections' \in Seq(DOMAIN Tables)
    BY <1>1, <1>2, <2>1 DEF FinishInv, Applied
  <2> QED  BY <1>1, <2>2 DEF FinishInv
<1>4. TreeInv'
  BY <1>1, <1>2, TreeStays
<1>5. PositionalsInv'
  BY <1>1, <1>2, PositionalsStay
<1>6. IteratorInv'
  BY <1>1, <1>2, IteratorStays
<1>7. SettingsInv'
  BY <1>1, <1>2, SettingsStay
<1> QED  BY <1>1, <1>3, <1>4, <1>5, <1>6, <1>7 DEF Inv, Stages

LEMMA StutterStep ==
  ASSUME Inv, UNCHANGED vars
  PROVE  Inv'
<1>1. UNCHANGED <<stage, todo, sections, btree, positionals, line, itr, set, loop>>
  BY DEF vars
<1>2. TreeInv' /\ PositionalsInv' /\ IteratorInv' /\ SettingsInv'
  BY <1>1, TreeStays, PositionalsStay, IteratorStays, SettingsStay DEF Inv
<1>3. FinishInv'
  BY <1>1 DEF Inv, FinishInv, Pending, Applied
<1> QED  BY <1>1, <1>2, <1>3 DEF Inv

LEMMA NextInv == Inv /\ [Next]_vars => Inv'
BY AddStep, MainStep, NoMoreStep, BadArgStep, ParseStep, LoopStep, FinishStep, ReturnsStep,
   StutterStep DEF Next

(* The invariant holds, for any command line and any order of the sections *)
(* (opt.c, opt_parse.c, opt_argviter.c, btree.c).                          *)
THEOREM OptionsInvariant == Spec => []Inv
BY InitInv, NextInv, PTL DEF Spec

-----------------------------------------------------------------------------
(* What follows from it.                                                   *)

(* The iterator stays on the command line, the numbers of the port are     *)
(* those the port has, the loop over the characters counts in a byte,      *)
(* whatever the command line is (opt_argviter.c, port_opts.c, charmap.c).  *)
THEOREM OptionsTypeOK == Spec => []TypeOK
<1>1. ASSUME Inv PROVE TypeOK
  <2>1. /\ itr.argi \in (1..Len(line.argv)) \cup {1} /\ itr.dashes \in 0..2
    BY <1>1 DEF Inv, IteratorInv, Iterator
  <2>2. positionals.last \in 0..Len(positionals.conf)
    <3>1. positionals.conf \in Seq(Confs) /\ positionals.last \in Nat
          /\ positionals.last <= Len(positionals.conf)
      BY <1>1 DEF Inv, PositionalsInv
    <3>2. Len(positionals.conf) \in Nat
      BY <3>1
    <3> QED  BY <3>1, <3>2
  <2>3. SettingsOK(set) /\ loop.at.c \in 0..UCHAR_MAX
    BY <1>1 DEF Inv, SettingsInv, Loops
  <2>4. ASSUME NEW d \in DOMAIN Defaults PROVE Typed(d, set[d])
    BY <2>3 DEF SettingsOK
  <2>5. {"baudrate", "databits", "stopbits", "verbose", "wait", "stay", "charmap_tx",
         "charmap_rx"} \subseteq DOMAIN Defaults
    BY DEF Defaults
  <2>6. /\ Typed("baudrate", set.baudrate) /\ Typed("databits", set.databits)
        /\ Typed("stopbits", set.stopbits) /\ Typed("verbose", set.verbose)
        /\ Typed("wait", set.wait) /\ Typed("stay", set.stay)
        /\ Typed("charmap_tx", set.charmap_tx) /\ Typed("charmap_rx", set.charmap_rx)
    BY <2>4, <2>5
  <2>7. /\ set.baudrate \in (Nat \ {0}) \cup {Unset} /\ set.databits \in (5..9) \cup {Unset}
        /\ set.stopbits \in (1..2) \cup {Unset} /\ set.verbose \in Nat
    BY <2>6 DEF Typed
  <2>8. set.wait \in BOOLEAN /\ set.stay \in BOOLEAN
    BY <2>6, Zenon DEF Typed
  <2>9. /\ DOMAIN set.charmap_tx.map \subseteq 0..UCHAR_MAX
        /\ DOMAIN set.charmap_rx.map \subseteq 0..UCHAR_MAX
    <3>1. \A m \in CharMaps : DOMAIN m \subseteq 0..UCHAR_MAX
      BY DEF CharMaps
    <3>2. set.charmap_tx.map \in CharMaps /\ set.charmap_rx.map \in CharMaps
      BY <2>6 DEF Typed
    <3> QED  BY <3>1, <3>2
  <2>10. stage \in {"init", "args", "post", "looping", "exit", "done"} \cup Errors
    BY <1>1 DEF Inv, Stages
  <2>11. DOMAIN set = DOMAIN Defaults
    BY <2>3 DEF SettingsOK
  <2> QED  BY <2>1, <2>2, <2>3, <2>7, <2>8, <2>9, <2>10, <2>11 DEF TypeOK
<1> QED  BY <1>1, OptionsInvariant, PTL

(* Whatever the order of the sections and however far the tree has been    *)
(* built: an option is found by each of its names, and by nothing else,    *)
(* not even the beginning of one (btree_add_node(), btree_find()).         *)
THEOREM LookupAlwaysExact == Spec => []LookupIsExact
<1>1. ASSUME Inv PROVE LookupIsExact
  <2> DEFINE bt == btree
             D == DOMAIN bt.node
             added == Confs \ ToSet(todo)
             starts == UNION {{SubSeq(n, 1, i) : i \in 1..Len(n)} : n \in AllNames}
             has(name) == {conf \in added : name \in ToSet(conf.names)}
  <2>1. SUFFICES ASSUME stage = "init", NEW name \in starts
                 PROVE  IF has(name) = {} THEN opt_lookup(name) = NoConf
                        ELSE opt_lookup(name) \in has(name)
    BY DEF LookupIsExact
  <2>2. /\ Tree(bt, Names, Confs)
        /\ \A n \in D :
             LET conf == bt.node[n].data IN conf \notin ToSet(todo) /\ n \in ToSet(conf.names)
        /\ \A conf \in Confs : conf \in ToSet(todo) \/ ToSet(conf.names) \subseteq D
    BY <1>1, <2>1 DEF Inv, TreeInv
  <2>3. name \in Names
    <3>0. PICK n \in AllNames : \E i \in 1..Len(n) : name = SubSeq(n, 1, i)
      OBVIOUS
    <3>1. PICK i \in 1..Len(n) : name = SubSeq(n, 1, i)
      BY <3>0
    <3>2. PICK conf \in Confs : n \in ToSet(conf.names)
      BY DEF AllNames
    <3> DEFINE P == ToSet(Tokens)
               Q == Seq(P) \ {NULL}
    <3>3. conf.names \in Seq(Q)
      BY ConfNames
    <3> HIDE DEF Q
    <3>4. n \in Q
      BY <3>2, <3>3 DEF ToSet
    <3> HIDE DEF P
    <3>5. n \in Seq(P)
      BY <3>4 DEF Q
    <3>6. SubSeq(n, 1, i) \in Seq(P) /\ Len(SubSeq(n, 1, i)) = i /\ i # 0
      BY <3>5
    <3> QED  BY <3>1, <3>6 DEF Names, NULL, P
  <2> HIDE DEF bt, starts
  <2>4. btree_find(bt, name) = IF name \in D THEN name ELSE NULL
    BY <2>2, <2>3, FindExact
  <2>5. name # NULL
    BY <2>3 DEF Names
  <2>6. opt_lookup(name) = IF name \in D THEN bt.node[name].data ELSE NoConf
    BY <2>4, <2>5 DEF opt_lookup, bt
  <2>7. CASE name \in D
    <3> DEFINE conf == bt.node[name].data
    <3>1. conf \in Confs
      BY <2>2, <2>7 DEF Tree, TreeBy, Node
    <3>2. conf \in has(name)
      BY <2>2, <2>7, <3>1
    <3> QED  BY <2>6, <2>7, <3>2
  <2>8. CASE name \notin D
    <3>1. has(name) = {}
      BY <2>2, <2>8
    <3> QED  BY <2>6, <2>8, <3>1
  <2> QED  BY <2>7, <2>8
<1> QED  BY <1>1, OptionsInvariant, PTL

(* In whatever order the linker places the sections and whatever the       *)
(* command line is: when it has been parsed, --stay implies --wait, which  *)
(* is what Port assumes (port_opts_post_parse()).                          *)
THEOREM StayAlwaysWaits == Spec => []StayImpliesWait
<1>1. Inv => StayImpliesWait
  BY DEF Inv, FinishInv, Applied, StayImpliesWait
<1> QED  BY <1>1, OptionsInvariant, PTL

(* The end of line of one direction: its own option, or else --eol.        *)
Decides(own, both, used) ==
  /\ own.match # "none" => used = own
  /\ own.match = "none" /\ both.match # "none" => used = both

SpecificFirst ==
  /\ Decides(set.eol_tx, set.eol_txrx, set.eol_tx_used)
  /\ Decides(set.eol_rx, set.eol_txrx, set.eol_rx_used)

EolPending == \E i \in DOMAIN sections : sections[i] = "eol"

EolInv ==
  /\ stage \notin {"post", "done"} => EolPending
  /\ stage = "post" => EolPending \/ SpecificFirst
  /\ stage = "done" => SpecificFirst

LEMMA EolPostParse ==
  ASSUME NEW s, SettingsOK(s)
  PROVE  /\ LET t == eol_post_parse(s)
            IN  /\ Decides(t.eol_tx, t.eol_txrx, t.eol_tx_used)
                /\ Decides(t.eol_rx, t.eol_txrx, t.eol_rx_used)
         /\ \A t \in {port_post_parse(s), ctohex_post_parse(s), outfmt_post_parse(s)} :
              /\ t.eol_tx = s.eol_tx /\ t.eol_rx = s.eol_rx /\ t.eol_txrx = s.eol_txrx
              /\ t.eol_tx_used = s.eol_tx_used /\ t.eol_rx_used = s.eol_rx_used
<1>1. {"eol_tx", "eol_rx", "eol_txrx", "eol_tx_used", "eol_rx_used"} \subseteq DOMAIN s
  <2>1. {"eol_tx", "eol_rx", "eol_txrx", "eol_tx_used", "eol_rx_used"} \subseteq DOMAIN Defaults
    BY DEF Defaults
  <2> QED  BY <2>1 DEF SettingsOK
<1>2. /\ Decides(s.eol_tx, s.eol_txrx, eol_post_parse(s).eol_tx_used)
      /\ Decides(s.eol_rx, s.eol_txrx, eol_post_parse(s).eol_rx_used)
  BY <1>1 DEF eol_post_parse, Decides
<1>3. /\ eol_post_parse(s).eol_tx = s.eol_tx /\ eol_post_parse(s).eol_rx = s.eol_rx
      /\ eol_post_parse(s).eol_txrx = s.eol_txrx
  BY <1>1 DEF eol_post_parse
<1>4. ASSUME NEW t \in {port_post_parse(s), ctohex_post_parse(s), outfmt_post_parse(s)}
      PROVE  /\ t.eol_tx = s.eol_tx /\ t.eol_rx = s.eol_rx /\ t.eol_txrx = s.eol_txrx
             /\ t.eol_tx_used = s.eol_tx_used /\ t.eol_rx_used = s.eol_rx_used
  <2>1. CASE t = port_post_parse(s)
    BY <1>1, <2>1 DEF port_post_parse
  <2>2. CASE t = ctohex_post_parse(s)
    BY <1>1, <2>2 DEF ctohex_post_parse
  <2>3. CASE t = outfmt_post_parse(s)
    BY <1>1, <2>3 DEF outfmt_post_parse
  <2> QED  BY <2>1, <2>2, <2>3
<1> QED  BY <1>2, <1>3, <1>4

LEMMA EolFinishStep ==
  ASSUME Inv, EolInv, post_parse
  PROVE  EolInv'
<1>1. PICK i \in DOMAIN sections :
        /\ sections[i] \in PostParsers /\ \A j \in 1..i - 1 : sections[j] \notin PostParsers
        /\ set' = CASE sections[i] = "eol" -> eol_post_parse(set)
                    [] sections[i] = "port_opts" -> port_post_parse(set)
                    [] sections[i] = "ctohex" -> ctohex_post_parse(set)
                    [] sections[i] = "outfmt" -> outfmt_post_parse(set)
        /\ sections' = SubSeq(sections, i + 1, Len(sections))
  BY DEF post_parse
<1>2. stage = "post" /\ stage' = stage
  BY DEF post_parse
<1>3. SettingsOK(set) /\ sections \in Seq(DOMAIN Tables) /\ (EolPending \/ SpecificFirst)
  BY <1>2 DEF Inv, SettingsInv, FinishInv, EolInv
<1>4. CASE sections[i] = "eol"
  <2>1. set' = eol_post_parse(set)
    BY <1>1, <1>4
  <2>2. SpecificFirst'
    BY <1>3, <2>1, EolPostParse DEF SpecificFirst
  <2> QED  BY <1>2, <2>2 DEF EolInv
<1>5. CASE sections[i] # "eol"
  <2>1. set' \in {port_post_parse(set), ctohex_post_parse(set), outfmt_post_parse(set)}
    BY <1>1, <1>5 DEF PostParsers
  <2>2. SpecificFirst => SpecificFirst'
    <3>1. /\ set'.eol_tx = set.eol_tx /\ set'.eol_rx = set.eol_rx /\ set'.eol_txrx = set.eol_txrx
          /\ set'.eol_tx_used = set.eol_tx_used /\ set'.eol_rx_used = set.eol_rx_used
      BY <1>3, <2>1, EolPostParse
    <3> QED  BY <3>1 DEF SpecificFirst
  <2>3. EolPending => EolPending'
    <3> SUFFICES ASSUME EolPending PROVE EolPending'
      OBVIOUS
    <3>1. PICK k \in DOMAIN sections : sections[k] = "eol"
      BY DEF EolPending
    <3>2. \E j \in DOMAIN sections' : sections'[j] = sections[k]
      BY <1>1, <1>3, <1>5, <3>1, SectionsLeft DEF PostParsers
    <3> QED  BY <3>1, <3>2 DEF EolPending
  <2> QED  BY <1>2, <1>3, <2>2, <2>3 DEF EolInv
<1> QED  BY <1>4, <1>5

(* However --eol, --eol-tx and --eol-rx are ordered, and in whatever order *)
(* the sections finish: the option of a direction decides its end of line, *)
(* and --eol where there is none (eol_opt_post_parse()).                   *)
THEOREM SpecificEolDecides == Spec => [](stage = "done" => SpecificFirst)
<1>1. Init => EolInv
  <2> SUFFICES ASSUME Init PROVE EolInv
    OBVIOUS
  <2>1. "eol" \in DOMAIN Tables
    BY DEF Tables
  <2>2. sections \in Orders /\ stage \in {"init", "failed"}
    BY DEF Init
  <2>3. DOMAIN Tables \subseteq ToSet(sections)
    BY <2>2, OptionsAssumption
  <2> QED  BY <2>1, <2>2, <2>3 DEF EolInv, EolPending, ToSet
<1>2. Inv /\ EolInv /\ [Next]_vars => EolInv'
  <2> SUFFICES ASSUME Inv, EolInv, [Next]_vars PROVE EolInv'
    OBVIOUS
  <2>1. CASE post_parse
    BY <2>1, EolFinishStep
  <2>2. CASE opt_parse_args_returns
    <3>1. stage = "post" /\ stage' = "done" /\ UNCHANGED <<set, sections>> /\ ~EolPending
      BY <2>2 DEF opt_parse_args_returns, EolPending, PostParsers
    <3> QED  BY <3>1 DEF EolInv, SpecificFirst
  <2>3. CASE opt_init_cb_addtobtree \/ main \/ no_more_args \/ bad_arg \/ opt_conf_parse_val
             \/ group_loop
    <3>1. stage \notin {"post", "done"} /\ UNCHANGED sections
      BY <2>3 DEF opt_init_cb_addtobtree, main, no_more_args, bad_arg, opt_conf_parse_val,
                  group_loop
    <3>2. stage' # "done"
      <4>1. CASE bad_arg
        BY <2>3, <4>1, BadArgEnds DEF Inv
      <4>2. CASE opt_conf_parse_val
        BY <4>2, ParserAnswers DEF Stops
      <4>3. CASE opt_init_cb_addtobtree \/ main \/ no_more_args \/ group_loop
        BY <3>1, <4>3 DEF opt_init_cb_addtobtree, main, no_more_args, group_loop
      <4> QED  BY <2>3, <4>1, <4>2, <4>3
    <3> QED  BY <3>1, <3>2 DEF EolInv, EolPending
  <2>4. CASE UNCHANGED vars
    BY <2>4 DEF EolInv, EolPending, SpecificFirst, vars
  <2> QED  BY <2>1, <2>2, <2>3, <2>4 DEF Next
<1>3. EolInv => (stage = "done" => SpecificFirst)
  BY DEF EolInv
<1> QED  BY <1>1, <1>2, <1>3, OptionsInvariant, PTL DEF Spec

(* A value that is refused leaves the speed, the data bits and the stop    *)
(* bits as they were, whatever the value is ("result params only set on    *)
(* valid string format", port_opts.c).                                     *)
THEOREM RefusedLeavesTheLine == Spec => AllOrNothing
<1> DEFINE A == stage' = "failed" =>
                  \A d \in {"baudrate", "databits", "stopbits"} : set'[d] = set[d]
<1>1. ASSUME Inv, [Next]_vars PROVE [A]_vars
  <2>1. CASE opt_conf_parse_val
    BY <1>1, <2>1, ParserAnswers DEF Line
  <2>2. CASE group_loop
    <3>1. stage' # "failed"
      BY <2>2 DEF group_loop
    <3> QED  BY <3>1
  <2>3. CASE post_parse
    <3>1. stage' # "failed"
      BY <2>3 DEF post_parse
    <3> QED  BY <3>1
  <2>4. CASE opt_init_cb_addtobtree \/ main \/ no_more_args \/ bad_arg \/ opt_parse_args_returns
    <3>1. set' = set
      BY <2>4 DEF opt_init_cb_addtobtree, main, no_more_args, bad_arg, opt_parse_args_returns
    <3> QED  BY <3>1
  <2> QED  BY <1>1, <2>1, <2>2, <2>3, <2>4 DEF Next
<1> HIDE DEF A
<1>2. Spec => [][A]_vars
  BY <1>1, OptionsInvariant, PTL DEF Spec
<1> QED  BY <1>2, PTL DEF AllOrNothing, A

(* Parsing ends, whatever the command line is: every option takes          *)
(* something off it, and only a map that names a group of characters       *)
(* starts a loop (opt_argviter.c, charmap_set_group_repr()).               *)
THEOREM ParsingAlwaysAdvances == Spec => ParsingAdvances
<1> DEFINE A == /\ stage = "args" /\ stage' = "args" => Left' < Left
                /\ stage' = "looping" => NamesGroup'
<1>1. ASSUME Inv, [Next]_vars PROVE [A]_vars
  <2>1. CASE opt_conf_parse_val
    <3>1. /\ stage = "args" /\ Key.status = "ok" /\ Given.status = "ok" /\ itr' = Given
          /\ stage' = "looping" => NamesGroup
      BY <1>1, <2>1, ParserAnswers
    <3>2. line' = line /\ IteratorInv
      BY <1>1, <2>1 DEF opt_conf_parse_val, Inv
    <3>3. /\ LeftOf(Key, line.argv) < LeftOf(itr, line.argv)
          /\ LeftOf(Given, line.argv) <= LeftOf(Key, line.argv)
          /\ Key \in Iterator(line.argv, TokensOf(line.argv))
          /\ Given \in Iterator(line.argv, TokensOf(line.argv))
      BY <3>1, <3>2, KeyIs, GivenIs
    <3>4. LeftOf(itr, line.argv) \in Nat /\ LeftOf(Key, line.argv) \in Nat
          /\ LeftOf(Given, line.argv) \in Nat
      BY <3>2, <3>3, LeftType DEF IteratorInv
    <3>5. Left = LeftOf(itr, line.argv) /\ Left' = LeftOf(Given, line.argv)
      <4>1. \A p \in {itr, Given} :
              LET rest == SubSeq(line.argv, p.argi + 1, Len(line.argv))
              IN  Len(p.sp) + Len(rest) + Len(FlattenSeq(rest)) = LeftOf(p, line.argv)
        BY <3>2, <3>3, LeftIs DEF IteratorInv
      <4>2. itr' = Given /\ line' = line
        BY <3>1, <3>2
      <4> QED  BY <4>1, <4>2 DEF Left
    <3> DEFINE a == LeftOf(itr, line.argv)
               b == LeftOf(Key, line.argv)
               c == LeftOf(Given, line.argv)
    <3>7. a \in Nat /\ b \in Nat /\ c \in Nat /\ b < a /\ c <= b /\ Left = a /\ Left' = c
      BY <3>3, <3>4, <3>5
    <3> HIDE DEF a, b, c
    <3>8. Left' < Left
      BY <3>7
    <3>9. stage' = "looping" => NamesGroup'
      BY <3>1, <3>2 DEF NamesGroup
    <3> QED  BY <3>8, <3>9
  <2>2. CASE group_loop
    <3>1. stage = "looping" /\ line' = line
      BY <2>2 DEF group_loop
    <3>2. NamesGroup'
      BY <1>1, <3>1 DEF Inv, SettingsInv, NamesGroup
    <3> QED  BY <3>1, <3>2
  <2>3. CASE bad_arg
    BY <1>1, <2>3, BadArgEnds
  <2>4. CASE opt_init_cb_addtobtree \/ main \/ no_more_args \/ post_parse \/ opt_parse_args_returns
    <3>1. stage # "args" \/ stage' # "args"
      BY <2>4 DEF opt_init_cb_addtobtree, main, no_more_args, post_parse, opt_parse_args_returns
    <3>2. stage' # "looping"
      BY <2>4 DEF opt_init_cb_addtobtree, main, no_more_args, post_parse, opt_parse_args_returns
    <3> QED  BY <3>1, <3>2
  <2> QED  BY <1>1, <2>1, <2>2, <2>3, <2>4 DEF Next
<1> HIDE DEF A
<1>2. Spec => [][A]_vars
  BY <1>1, OptionsInvariant, PTL DEF Spec
<1> QED  BY <1>2, PTL DEF ParsingAdvances, A

-----------------------------------------------------------------------------
(* Command lines in words: the elements of a command line.                 *)

LEMMA SeqWider ==
  ASSUME NEW T, NEW V, T \subseteq V, NEW s \in Seq(T)
  PROVE  s \in Seq(V)
OBVIOUS

LEMMA FirstOf ==
  ASSUME NEW S, NEW x \in S, NEW y \in S, NEW s \in Seq(S), NEW t \in Seq(S)
  PROVE  /\ <<x>> \o s \in Seq(S) /\ <<x>> \o s # <<>> /\ (<<x>> \o s)[1] = x
         /\ Head(<<x>> \o s) = x /\ Tail(<<x>> \o s) = s
         /\ <<x>> \o s = <<y>> \o t => x = y /\ s = t
<1> DEFINE a == <<x>> \o s
           b == <<y>> \o t
<1>1. a \in Seq(S) /\ a # <<>> /\ Head(a) = x /\ a[1] = x /\ Tail(a) = s
  OBVIOUS
<1>2. Head(b) = y /\ Tail(b) = t
  OBVIOUS
<1> HIDE DEF a, b
<1>3. a = b => x = y /\ s = t
  BY <1>1, <1>2
<1> QED  BY <1>1, <1>3 DEF a, b

LEMMA AheadIs ==
  ASSUME NEW S, NEW argv \in Seq(S), NEW i \in Nat
  PROVE  /\ Ahead(argv, i) \in Seq(S)
         /\ Len(argv) <= i => Ahead(argv, i) = <<>>
         /\ i < Len(argv) => /\ argv[i + 1] \in S /\ Ahead(argv, i + 1) \in Seq(S)
                             /\ Ahead(argv, i) = <<argv[i + 1]>> \o Ahead(argv, i + 1)
<1> DEFINE r == Ahead(argv, i)
           f == Ahead(argv, i + 1)
           x == argv[i + 1]
<1>1. r \in Seq(S) /\ Len(argv) \in Nat
  BY DEF Ahead
<1>2. Len(argv) <= i => r = <<>>
  BY DEF Ahead
<1>3. CASE i < Len(argv)
  <2>1. /\ x \in S /\ f \in Seq(S) /\ Len(f) = Len(argv) - (i + 1)
        /\ \A k \in 1..Len(f) : f[k] = argv[i + 1 + k]
    BY <1>3 DEF Ahead
  <2>2. Len(r) = Len(argv) - i /\ \A k \in 1..Len(r) : r[k] = argv[i + k]
    BY <1>3 DEF Ahead
  <2> HIDE DEF r, f, x
  <2> DEFINE c == <<x>> \o f
  <2>3. c \in Seq(S) /\ Len(c) = 1 + Len(f) /\ c[1] = x
    BY <2>1
  <2>4. \A k \in 1..Len(f) : c[1 + k] = f[k]
    BY <2>1
  <2> HIDE DEF c
  <2>5. ASSUME NEW k \in 1..Len(r) PROVE r[k] = c[k]
    <3>1. CASE k = 1
      BY <1>3, <2>2, <2>3, <3>1 DEF x
    <3>2. CASE k # 1
      <4>1. k - 1 \in 1..Len(f) /\ 1 + (k - 1) = k /\ i + 1 + (k - 1) = i + k
        BY <1>1, <1>3, <2>1, <2>2, <3>2
      <4>2. c[k] = f[k - 1] /\ f[k - 1] = argv[i + k]
        BY <2>1, <2>4, <4>1
      <4> QED  BY <2>2, <4>2
    <3> QED  BY <3>1, <3>2
  <2>6. Len(r) = Len(c)
    BY <1>1, <1>3, <2>1, <2>2, <2>3
  <2>7. r = c
    BY <1>1, <2>3, <2>5, <2>6, SameElements
  <2> QED  BY <1>1, <1>2, <1>3, <2>1, <2>7 DEF r, f, x, c
<1> QED  BY <1>1, <1>2, <1>3 DEF r

(* The dashes an element begins with. *)
LEMMA DashesAre ==
  ASSUME NEW T, NEW e \in Seq(T)
  PROVE  /\ Dashes(e) \in 0..Len(e) /\ \A i \in 1..Dashes(e) : e[i] = "-"
         /\ Dashes(e) < Len(e) => e[Dashes(e) + 1] # "-"
<1> DEFINE a == Append(e, "end")
           V == T \cup {"end"}
           I == {i \in 1..Len(a) : a[i] # "-"}
<1>1. /\ a \in Seq(V) /\ Len(a) = Len(e) + 1 /\ a[Len(e) + 1] = "end" /\ Len(e) \in Nat
      /\ \A i \in 1..Len(e) : a[i] = e[i]
  OBVIOUS
<1> HIDE DEF a, V
<1>2. Len(e) + 1 \in I
  BY <1>1
<1>3. I \subseteq 1..Len(a) /\ I \subseteq Nat /\ I # {}
  BY <1>1, <1>2
<1>4. Dashes(e) = Min(I) - 1
  <2>1. Dashes(e) = (IF I # {} THEN Min(I) ELSE 0) - 1
    BY DEF Dashes, SelectInSeq, a
  <2> HIDE DEF I
  <2> QED  BY <1>3, <2>1
<1> HIDE DEF I
<1>5. Min(I) \in I /\ \A j \in I : Min(I) <= j
  <2>1. PICK x \in I : \A y \in I : x <= y
    BY <1>3, SmallestNat
  <2> QED  BY <1>3, <2>1 DEF Min
<1> DEFINE m == Min(I)
<1>6. m \in 1..(Len(e) + 1) /\ Dashes(e) = m - 1
  BY <1>1, <1>3, <1>4, <1>5
<1>7. a[m] # "-" /\ \A j \in 1..(Len(e) + 1) : j < m => a[j] = "-"
  <2>1. a[m] # "-"
    BY <1>5 DEF I
  <2>2. ASSUME NEW j \in 1..(Len(e) + 1), j < m PROVE a[j] = "-"
    <3>1. j \notin I
      BY <1>1, <1>5, <1>6, <2>2
    <3> QED  BY <1>1, <3>1 DEF I
  <2> QED  BY <2>1, <2>2
<1> HIDE DEF m
<1>8. ASSUME NEW i \in 1..(m - 1) PROVE e[i] = "-"
  <2>1. i \in 1..Len(e) /\ i \in 1..(Len(e) + 1) /\ i < m
    BY <1>1, <1>6
  <2> QED  BY <1>1, <1>7, <2>1
<1>9. m - 1 < Len(e) => e[(m - 1) + 1] # "-"
  <2>1. m - 1 < Len(e) => m \in 1..Len(e) /\ (m - 1) + 1 = m
    BY <1>1, <1>6
  <2> QED  BY <1>1, <1>7, <2>1
<1> QED  BY <1>1, <1>6, <1>8, <1>9

(* One dash, two of them, or none. *)
Dashed(n) == IF n = 0 THEN <<>> ELSE IF n = 1 THEN <<"-">> ELSE <<"-", "-">>

LEMMA DashedIs ==
  ASSUME NEW n \in 0..2, NEW V, "-" \in V
  PROVE  Dashed(n) \in Seq(V) /\ Len(Dashed(n)) = n /\ \A i \in 1..n : Dashed(n)[i] = "-"
<1>1. CASE n = 0
  BY <1>1 DEF Dashed
<1>2. CASE n = 1
  <2>1. Dashed(n) = <<"-">>
    BY <1>2 DEF Dashed
  <2>2. <<"-">> \in Seq(V) /\ Len(<<"-">>) = 1 /\ \A i \in 1..1 : <<"-">>[i] = "-"
    OBVIOUS
  <2> QED  BY <1>2, <2>1, <2>2
<1>3. CASE n = 2
  <2>1. Dashed(n) = <<"-", "-">>
    BY <1>3 DEF Dashed
  <2>2. <<"-", "-">> \in Seq(V) /\ Len(<<"-", "-">>) = 2 /\ \A i \in 1..2 : <<"-", "-">>[i] = "-"
    OBVIOUS
  <2> QED  BY <1>3, <2>1, <2>2
<1> QED  BY <1>1, <1>2, <1>3

LEMMA ElementSplits ==
  ASSUME NEW T, NEW e \in Seq(T), Dashes(e) \in 0..2
  PROVE  LET k == SubSeq(e, Dashes(e) + 1, Len(e))
         IN  k \in Seq(T) /\ e = Dashed(Dashes(e)) \o k /\ (k # <<>> => k[1] # "-")
<1> DEFINE n == Dashes(e)
           k == SubSeq(e, n + 1, Len(e))
           d == Dashed(n)
           V == T \cup {"-"}
<1>1. /\ n \in 0..2 /\ n \in 0..Len(e) /\ Len(e) \in Nat /\ \A i \in 1..n : e[i] = "-"
      /\ n < Len(e) => e[n + 1] # "-"
  BY DashesAre
<1> HIDE DEF n
<1>2. k \in Seq(T) /\ Len(k) = Len(e) - n /\ \A i \in 1..Len(k) : k[i] = e[n + i]
  BY <1>1
<1>3. d \in Seq(V) /\ Len(d) = n /\ \A i \in 1..n : d[i] = "-"
  BY <1>1, DashedIs
<1>4. e \in Seq(V) /\ k \in Seq(V)
  BY <1>2
<1> HIDE DEF k, d, V
<1>5. /\ d \o k \in Seq(V) /\ Len(d \o k) = Len(e)
      /\ \A i \in 1..n : (d \o k)[i] = d[i]
      /\ \A i \in 1..Len(k) : (d \o k)[n + i] = k[i]
  <2>1. /\ d \o k \in Seq(V) /\ Len(d \o k) = Len(d) + Len(k)
        /\ \A i \in 1..Len(d) : (d \o k)[i] = d[i]
        /\ \A i \in 1..Len(k) : (d \o k)[Len(d) + i] = k[i]
    <3>1. d \in Seq(V) /\ k \in Seq(V)
      BY <1>3, <1>4
    <3> QED  BY <3>1, CatProperties
  <2> QED  BY <1>1, <1>2, <1>3, <2>1
<1>6. ASSUME NEW i \in 1..Len(e) PROVE e[i] = (d \o k)[i]
  <2>1. CASE i <= n
    BY <1>1, <1>3, <1>5, <2>1
  <2>2. CASE ~(i <= n)
    <3>1. i - n \in 1..Len(k) /\ n + (i - n) = i
      BY <1>1, <1>2, <2>2
    <3> QED  BY <1>2, <1>5, <3>1
  <2> QED  BY <2>1, <2>2
<1>7. e = d \o k
  BY <1>4, <1>5, <1>6, SameElements
<1>8. k # <<>> => k[1] # "-"
  <2>1. k # <<>> => Len(k) \in Nat /\ Len(k) # 0
    BY <1>2
  <2> QED  BY <1>1, <1>2, <2>1
<1> QED  BY <1>2, <1>7, <1>8 DEF n, k, d

LEMMA ElementJoins ==
  ASSUME NEW T, NEW n \in 0..2, NEW k \in Seq(T), k # <<>> => k[1] # "-",
         Dashed(n) \o k \in Seq(T)
  PROVE  LET e == Dashed(n) \o k
         IN  Dashes(e) = n /\ SubSeq(e, n + 1, Len(e)) = k
<1> DEFINE e == Dashed(n) \o k
           m == Dashes(e)
           d == Dashed(n)
<1>1. d \in Seq({"-"}) /\ Len(d) = n /\ \A i \in 1..n : d[i] = "-"
  BY DashedIs
<1> HIDE DEF d
<1>2. /\ Len(e) = n + Len(k) /\ Len(k) \in Nat /\ \A i \in 1..n : e[i] = "-"
      /\ \A i \in 1..Len(k) : e[n + i] = k[i]
  <2> DEFINE V == T \cup {"-"}
  <2>1. d \in Seq(V) /\ k \in Seq(V)
    BY <1>1
  <2> HIDE DEF V
  <2>2. /\ Len(d \o k) = Len(d) + Len(k) /\ \A i \in 1..Len(d) : (d \o k)[i] = d[i]
        /\ \A i \in 1..Len(k) : (d \o k)[Len(d) + i] = k[i]
    BY <2>1, CatProperties
  <2> QED  BY <1>1, <2>2 DEF d
<1>3. e \in Seq(T)
  OBVIOUS
<1> HIDE DEF e
<1>4. /\ m \in 0..Len(e) /\ \A i \in 1..m : e[i] = "-"
      /\ m < Len(e) => e[m + 1] # "-"
  BY <1>3, DashesAre
<1> HIDE DEF m
<1>5. ~(m < n)
  <2>1. m < n => m + 1 \in 1..n /\ m < Len(e)
    BY <1>2, <1>4
  <2> QED  BY <1>2, <1>4, <2>1
<1>6. ~(n < m)
  <2>1. n < m => Len(k) # 0 /\ 1 \in 1..Len(k) /\ n + 1 \in 1..m /\ k # <<>>
    BY <1>2, <1>4
  <2>2. 1 \in 1..Len(k) => e[n + 1] = k[1]
    BY <1>2
  <2> QED  BY <1>4, <2>1, <2>2
<1>7. m = n
  BY <1>4, <1>5, <1>6
<1> DEFINE s == SubSeq(e, n + 1, Len(e))
<1>8. s \in Seq(T) /\ Len(s) = Len(k) /\ \A i \in 1..Len(s) : s[i] = e[n + i]
  BY <1>2, <1>3
<1> HIDE DEF s
<1>9. \A i \in 1..Len(s) : s[i] = k[i]
  BY <1>2, <1>8
<1>10. s = k
  BY <1>8, <1>9, SameElements
<1> QED  BY <1>7, <1>10 DEF e, m, s

(* Where the "=" of a long name is. *)
FirstAt(at, s) == at \in 1..Len(s) /\ s[at] = "=" /\ \A i \in 1..(at - 1) : s[i] # "="

(* What parse_long_key() has left alone. *)
SamePlace(q, p) == q.argi = p.argi /\ q.dashes = p.dashes /\ q.status = p.status

LEMMA LongKeyIs ==
  ASSUME NEW argv, NEW T, NEW p \in Iterator(argv, T)
  PROVE  LET q == parse_long_key(p)
             s == p.sp
         IN  /\ SamePlace(q, p)
             /\ \/ "=" \notin ToSet(s) /\ q.name = s /\ q.sp = s /\ q.eq = p.eq
                \/ \E at : /\ FirstAt(at, s) /\ q.name = SubSeq(s, 1, at - 1)
                           /\ q.sp = SubSeq(s, at + 1, Len(s)) /\ q.eq = TRUE
<1> DEFINE s == p.sp
           I == {i \in 1..Len(s) : s[i] = "="}
           at == SelectInSeq(s, LAMBDA t : t = "=")
           front == SubSeq(s, 1, at - 1)
           back == SubSeq(s, at + 1, Len(s))
<1>1. s \in Seq(T) /\ Len(s) \in Nat
  BY DEF Iterator
<1>2. at = IF I # {} THEN Min(I) ELSE 0
  BY DEF SelectInSeq
<1>3. parse_long_key(p) = IF at = 0 THEN [p EXCEPT !.name = s]
                          ELSE [p EXCEPT !.name = front, !.sp = back, !.eq = TRUE]
  BY DEF parse_long_key
<1>4. I \subseteq 1..Len(s) /\ I \subseteq Nat
  OBVIOUS
<1>5. p \in [argi : Nat, sp : Seq(T), dashes : Nat, eq : BOOLEAN, status : Statuses,
             name : Seq(T), val : Seq(T)]
  BY DEF Iterator
<1> HIDE DEF front, back, at
<1>6. CASE I = {}
  <2>1. at = 0
    BY <1>2, <1>6
  <2>2. "=" \notin ToSet(s)
    BY <1>1, <1>6 DEF ToSet
  <2> HIDE DEF I
  <2>3. parse_long_key(p) = [p EXCEPT !.name = s]
    BY <1>3, <2>1
  <2> QED  BY <1>5, <2>2, <2>3 DEF SamePlace
<1>7. CASE I # {}
  <2>1. PICK x \in I : \A y \in I : x <= y
    BY <1>4, <1>7, SmallestNat
  <2>2. at \in I /\ \A y \in I : at <= y
    BY <1>2, <1>4, <1>7, <2>1 DEF Min
  <2>3. FirstAt(at, s)
    BY <1>1, <2>2 DEF FirstAt
  <2> HIDE DEF I, s
  <2>4. at # 0
    BY <1>1, <2>3 DEF FirstAt
  <2>5. parse_long_key(p) = [p EXCEPT !.name = front, !.sp = back, !.eq = TRUE]
    BY <1>3, <2>4
  <2> DEFINE q == [p EXCEPT !.name = front, !.sp = back, !.eq = TRUE]
  <2>6. SamePlace(q, p) /\ q.name = front /\ q.sp = back /\ q.eq = TRUE
    BY <1>5 DEF SamePlace
  <2> QED  BY <2>3, <2>5, <2>6 DEF front, back, s
<1> QED  BY <1>6, <1>7

(* Cut at the first "=", and put together again. *)
LEMMA CutAtEq ==
  ASSUME NEW T, NEW s \in Seq(T), NEW at, FirstAt(at, s)
  PROVE  LET k == SubSeq(s, 1, at - 1)
             v == SubSeq(s, at + 1, Len(s))
         IN  /\ k \in Seq(T) /\ v \in Seq(T) /\ "=" \notin ToSet(k)
             /\ (k \o <<"=">>) \o v = s /\ (k # <<>> => k[1] = s[1])
<1> DEFINE k == SubSeq(s, 1, at - 1)
           v == SubSeq(s, at + 1, Len(s))
           f == SubSeq(s, 1, at)
<1>1. at \in 1..Len(s) /\ s[at] = "=" /\ at \in Nat /\ "=" \in T
  BY DEF FirstAt
<1>2. k \in Seq(T) /\ Len(k) = at - 1 /\ \A i \in 1..(at - 1) : k[i] = s[i]
  BY <1>1
<1>3. "=" \notin ToSet(k)
  BY <1>2 DEF ToSet, FirstAt
<1>4. /\ f \in Seq(T) /\ v \in Seq(T) /\ f \o v = s
  <2>1. at \in 0..Len(s)
    BY <1>1
  <2> HIDE DEF f, v
  <2> QED  BY <2>1, SplitSeq DEF f, v
<1>5. f = k \o <<"=">>
  <2>1. Len(f) = at /\ \A i \in 1..at : f[i] = s[i]
    BY <1>1
  <2> HIDE DEF f, k
  <2>2. <<"=">> \in Seq(T) /\ Len(<<"=">>) = 1 /\ <<"=">>[1] = "="
    BY <1>1
  <2> DEFINE g == k \o <<"=">>
  <2>3. g \in Seq(T) /\ Len(g) = at /\ g[at] = "=" /\ \A i \in 1..(at - 1) : g[i] = k[i]
    BY <1>1, <1>2, <2>2
  <2> HIDE DEF g
  <2>4. ASSUME NEW i \in 1..Len(f) PROVE f[i] = g[i]
    <3>1. CASE i = at
      BY <1>1, <2>1, <2>3, <3>1
    <3>2. CASE i # at
      <4>1. i \in 1..(at - 1)
        BY <1>1, <2>1, <3>2
      <4> QED  BY <1>2, <2>1, <2>3, <4>1
    <3> QED  BY <3>1, <3>2
  <2>5. Len(f) = Len(g)
    BY <2>1, <2>3
  <2>6. f = g
    BY <1>4, <2>3, <2>4, <2>5, SameElements
  <2> QED  BY <2>6 DEF g
<1>6. k # <<>> => k[1] = s[1]
  <2>1. k # <<>> => 1 \in 1..(at - 1)
    BY <1>1, <1>2
  <2> QED  BY <1>2, <2>1
<1> QED  BY <1>2, <1>3, <1>4, <1>5, <1>6 DEF f, k, v

LEMMA JoinedAtEq ==
  ASSUME NEW T, NEW k \in Seq(T), NEW v \in Seq(T), "=" \in T, "=" \notin ToSet(k), NEW at,
         FirstAt(at, (k \o <<"=">>) \o v)
  PROVE  LET s == (k \o <<"=">>) \o v
         IN  /\ SubSeq(s, 1, at - 1) = k /\ SubSeq(s, at + 1, Len(s)) = v
<1> DEFINE ke == k \o <<"=">>
           s == ke \o v
           n == Len(k)
<1>1. /\ ke \in Seq(T) /\ Len(ke) = n + 1 /\ n \in Nat /\ ke[n + 1] = "="
      /\ \A i \in 1..n : ke[i] = k[i]
  OBVIOUS
<1> HIDE DEF ke
<1>2. /\ s \in Seq(T) /\ Len(s) = n + 1 + Len(v) /\ \A i \in 1..(n + 1) : s[i] = ke[i]
      /\ \A i \in 1..Len(v) : s[n + 1 + i] = v[i]
  <2>1. /\ s \in Seq(T) /\ Len(s) = Len(ke) + Len(v) /\ \A i \in 1..Len(ke) : s[i] = ke[i]
        /\ \A i \in 1..Len(v) : s[Len(ke) + i] = v[i]
    <3>1. ke \in Seq(T) /\ v \in Seq(T)
      BY <1>1
    <3> QED  BY <3>1, CatProperties
  <2> HIDE DEF s
  <2> QED  BY <1>1, <2>1
<1>3. s[n + 1] = "=" /\ \A i \in 1..n : s[i] = k[i]
  BY <1>1, <1>2
<1>4. \A i \in 1..n : s[i] # "="
  <2>1. \A i \in 1..n : k[i] # "="
    BY DEF ToSet
  <2> QED  BY <1>3, <2>1
<1>5. FirstAt(at, s)
  BY DEF ke
<1> HIDE DEF s
<1>6. at \in 1..Len(s) /\ s[at] = "=" /\ \A i \in 1..(at - 1) : s[i] # "="
  BY <1>5 DEF FirstAt
<1>7. at = n + 1
  <2>1. ~(at <= n)
    BY <1>1, <1>4, <1>6
  <2>2. ~(n + 1 < at)
    BY <1>1, <1>3, <1>6
  <2> QED  BY <1>1, <1>2, <1>6, <2>1, <2>2
<1> DEFINE f == SubSeq(s, 1, n)
           b == SubSeq(s, n + 2, Len(s))
<1>8. f \in Seq(T) /\ Len(f) = n /\ \A i \in 1..n : f[i] = s[i]
  BY <1>1, <1>2
<1>9. b \in Seq(T) /\ Len(b) = Len(v) /\ \A i \in 1..Len(b) : b[i] = s[n + 1 + i]
  BY <1>1, <1>2
<1> HIDE DEF f, b
<1>10. f = k
  BY <1>3, <1>8, SameElements
<1>11. b = v
  BY <1>2, <1>9, SameElements
<1>12. at - 1 = n /\ at + 1 = n + 2
  BY <1>1, <1>7
<1> QED  BY <1>10, <1>11, <1>12 DEF f, b, s, ke

(* A long name: all of the element, or what is before the "=" of it. *)
LongNameOf(q, s) ==
  \/ "=" \notin ToSet(s) /\ q.name = s /\ q.eq = FALSE
  \/ \E at : /\ FirstAt(at, s) /\ q.name = SubSeq(s, 1, at - 1)
             /\ q.sp = SubSeq(s, at + 1, Len(s)) /\ q.eq = TRUE

(* A letter behind one dash. *)
LetterOf(q, s) ==
  /\ q.name = <<Head(s)>> /\ q.sp = Tail(s) /\ q.eq = FALSE
  /\ q.status = IF Head(s) \in Punctuation THEN "assert" ELSE "ok"

LEMMA LetterIs ==
  ASSUME NEW argv, NEW T, NEW p \in Iterator(argv, T), p.eq = FALSE
  PROVE  LetterOf(parse_short_key(p), p.sp)
<1>1. p \in [argi : Nat, sp : Seq(T), dashes : Nat, eq : BOOLEAN, status : Statuses,
             name : Seq(T), val : Seq(T)]
  BY DEF Iterator
<1> QED  BY <1>1 DEF parse_short_key, LetterOf

LEMMA NextElementIs ==
  ASSUME NEW T, NEW argv \in Seq(Seq(T)), NEW p \in Iterator(argv, T), ~LastElement(p, argv),
         p.status = "ok"
  PROVE  LET q == NextElement(p, argv)
             e == argv[p.argi + 1]
             n == Dashes(e)
             k == SubSeq(e, n + 1, Len(e))
         IN  /\ q.argi = p.argi + 1 /\ q.dashes = n
             /\ k = <<>> => q.status = IF n = 2 THEN "DONE" ELSE "EINVAL"
             /\ k # <<>> /\ n = 0 => q.status = "ok" /\ q.name = k
             /\ k # <<>> /\ n = 1 => LetterOf(q, k)
             /\ k # <<>> /\ n = 2 => q.status = "ok" /\ LongNameOf(q, k)
             /\ k # <<>> /\ n \notin 0..2 => q.status = "EINVAL"
<1> DEFINE reset == [p EXCEPT !.dashes = 0, !.eq = FALSE, !.name = <<>>]
           q == load_next_argv(reset, argv)
           e == argv[p.argi + 1]
           n == Dashes(q.sp)
           k == SubSeq(q.sp, n + 1, Len(q.sp))
           r == [q EXCEPT !.dashes = n, !.sp = k]
           X == NextElement(p, argv)
<1>1. /\ p.argi \in Nat /\ p.argi < Len(argv) /\ p.argi + 1 \in 1..Len(argv) /\ Len(argv) \in Nat
  BY DEF Iterator, LastElement
<1>2. /\ reset \in Iterator(argv, T) /\ reset.status = "ok" /\ reset.argi = p.argi
      /\ reset.eq = FALSE
  <2>1. <<>> \in Seq(T)
    OBVIOUS
  <2> QED  BY <2>1 DEF Iterator
<1> HIDE DEF reset
<1>3. e \in Seq(T)
  BY <1>1
<1>4. /\ q \in Iterator(argv, T) /\ q.status = "ok" /\ q.argi = p.argi + 1 /\ q.sp = e
      /\ q.eq = FALSE
  BY <1>1, <1>2, <1>3 DEF Iterator, load_next_argv
<1> HIDE DEF q
<1>5. n \in 0..Len(q.sp) /\ Len(q.sp) \in Nat
  BY <1>3, <1>4, DashesType
<1> HIDE DEF n
<1>6. k \in Seq(T)
  <2>1. n + 1 \in 1..(Len(q.sp) + 1) /\ Len(q.sp) \in 0..Len(q.sp) /\ q.sp \in Seq(T)
    BY <1>3, <1>4, <1>5
  <2> QED  BY <2>1, SubType
<1> HIDE DEF k
<1>7. /\ r \in Iterator(argv, T) /\ r.status = "ok" /\ r.argi = p.argi + 1 /\ r.dashes = n
      /\ r.sp = k /\ r.eq = FALSE
  <2>1. n \in Nat
    BY <1>5
  <2> QED  BY <1>4, <1>6, <2>1 DEF Iterator
<1>8. X = IF r.sp = <<>> THEN IF n = 2 THEN [r EXCEPT !.status = "DONE"] ELSE parse_error(r)
          ELSE CASE n = 0 -> [r EXCEPT !.name = r.sp]
                 [] n = 1 -> parse_short_key(r)
                 [] n = 2 -> parse_long_key(r)
                 [] OTHER -> parse_error(r)
  BY Zenon DEF NextElement, reset, q, n, k
<1> HIDE DEF r, X
<1>9. r \in [argi : Nat, sp : Seq(T), dashes : Nat, eq : BOOLEAN, status : Statuses,
             name : Seq(T), val : Seq(T)]
  BY <1>7 DEF Iterator
<1> DEFINE Kept(x) == x.argi = r.argi /\ x.dashes = r.dashes
<1>10. ASSUME NEW v \in Statuses
       PROVE  Kept([r EXCEPT !.status = v]) /\ [r EXCEPT !.status = v].status = v
  BY <1>9
<1>11. Kept(parse_error(r)) /\ parse_error(r).status = "EINVAL"
  BY <1>10 DEF Statuses, parse_error
<1>12. CASE k = <<>>
  <2>1. n = 2 => X = [r EXCEPT !.status = "DONE"]
    BY <1>7, <1>8, <1>12
  <2>2. n # 2 => X = parse_error(r)
    BY <1>7, <1>8, <1>12
  <2>3. Kept([r EXCEPT !.status = "DONE"]) /\ [r EXCEPT !.status = "DONE"].status = "DONE"
    BY <1>10 DEF Statuses
  <2>4. Kept(X) /\ X.status = IF n = 2 THEN "DONE" ELSE "EINVAL"
    BY <1>11, <2>1, <2>2, <2>3
  <2> QED  BY <1>4, <1>7, <1>12, <2>4 DEF X, n, k
<1>13. CASE k # <<>> /\ n = 0
  <2>1. X = [r EXCEPT !.name = r.sp]
    BY <1>7, <1>8, <1>13
  <2>2. Kept(X) /\ X.status = r.status /\ X.name = k
    BY <1>7, <1>9, <2>1
  <2> QED  BY <1>4, <1>7, <1>13, <2>2 DEF X, n, k
<1>14. CASE k # <<>> /\ n = 1
  <2>1. X = parse_short_key(r)
    BY <1>7, <1>8, <1>14
  <2>2. Kept(X)
    BY <1>9, <2>1 DEF parse_short_key
  <2>3. LetterOf(parse_short_key(r), r.sp)
    BY <1>7, LetterIs
  <2> QED  BY <1>4, <1>7, <1>14, <2>1, <2>2, <2>3 DEF X, n, k
<1>15. CASE k # <<>> /\ n = 2
  <2>1. X = parse_long_key(r)
    BY <1>7, <1>8, <1>15
  <2> DEFINE y == parse_long_key(r)
  <2>2. SamePlace(y, r)
        /\ \/ "=" \notin ToSet(r.sp) /\ y.name = r.sp /\ y.sp = r.sp /\ y.eq = r.eq
           \/ \E at : /\ FirstAt(at, r.sp) /\ y.name = SubSeq(r.sp, 1, at - 1)
                      /\ y.sp = SubSeq(r.sp, at + 1, Len(r.sp)) /\ y.eq = TRUE
    BY <1>7, LongKeyIs
  <2> HIDE DEF y
  <2>3. LongNameOf(y, k)
    BY <1>7, <2>2 DEF LongNameOf
  <2>4. Kept(y) /\ y.status = "ok"
    BY <1>7, <2>2 DEF SamePlace
  <2>5. X = y
    BY <2>1 DEF y
  <2> QED  BY <1>4, <1>7, <1>15, <2>3, <2>4, <2>5 DEF X, n, k
<1>16. CASE k # <<>> /\ n \notin 0..2
  <2>1. X = parse_error(r)
    BY <1>5, <1>7, <1>8, <1>16
  <2> QED  BY <1>4, <1>7, <1>11, <1>16, <2>1 DEF X, n, k
<1>17. n \in 0..2 => n = 0 \/ n = 1 \/ n = 2
  OBVIOUS
<1> QED  BY <1>12, <1>13, <1>14, <1>15, <1>16, <1>17

-----------------------------------------------------------------------------
(* What the iterator finds, in what was left.                              *)

(* What opt_argviter_getkey() has found, in b: a positional, a letter, a long name. *)
FindsPositional(q, argv, b) ==
  /\ b.sp = <<>> /\ q.name # <<>> /\ q.name[1] # "-"
  /\ b.rest = <<q.name>> \o Ahead(argv, q.argi)
FindsLetter(q, argv, b) ==
  /\ Len(q.name) = 1 /\ q.name[1] \notin Punctuation /\ q.eq = FALSE
  /\ Joins(q.name \o q.sp, Ahead(argv, q.argi), b)
FindsLong(q, argv, b) ==
  LET long == <<"-", "-">> \o q.name
  IN  /\ b.sp = <<>> /\ "=" \notin ToSet(q.name) /\ (q.name # <<>> => q.name[1] # "-")
      /\ q.eq = FALSE => b.rest = <<long>> \o Ahead(argv, q.argi)
      /\ q.eq = TRUE => b.rest = <<long \o <<"=">> \o q.sp>> \o Ahead(argv, q.argi)

Finds(q, argv, b) ==
  /\ q.dashes \in 0..2
  /\ q.dashes = 0 => FindsPositional(q, argv, b)
  /\ q.dashes = 1 => FindsLetter(q, argv, b)
  /\ q.dashes = 2 => FindsLong(q, argv, b)

Regroups(s, t, u) == (s \o t) \o u = s \o (t \o u)

LEMMA Regrouped ==
  ASSUME NEW V, NEW s \in Seq(V), NEW t \in Seq(V), NEW u \in Seq(V)
  PROVE  Regroups(s, t, u)
BY CatAssociative DEF Regroups

LEMMA OneLetter ==
  ASSUME NEW T, NEW s \in Seq(T), s # <<>>
  PROVE  <<Head(s)>> \o Tail(s) = s /\ Len(<<Head(s)>>) = 1 /\ <<Head(s)>>[1] = Head(s)
<1> DEFINE h == Head(s)
           t == Tail(s)
           c == <<h>> \o t
<1>1. /\ h \in T /\ h = s[1] /\ t \in Seq(T) /\ Len(t) = Len(s) - 1 /\ Len(s) \in Nat \ {0}
      /\ \A i \in 1..Len(t) : t[i] = s[i + 1]
  OBVIOUS
<1> HIDE DEF h, t
<1>2. c \in Seq(T) /\ Len(c) = Len(s) /\ c[1] = h /\ \A i \in 1..Len(t) : c[1 + i] = t[i]
  BY <1>1
<1> HIDE DEF c
<1>3. ASSUME NEW i \in 1..Len(s) PROVE c[i] = s[i]
  <2>1. CASE i = 1
    BY <1>1, <1>2, <2>1
  <2>2. CASE i # 1
    <3>1. i - 1 \in 1..Len(t) /\ 1 + (i - 1) = i /\ (i - 1) + 1 = i
      BY <1>1, <2>2
    <3> QED  BY <1>1, <1>2, <3>1
  <2> QED  BY <2>1, <2>2
<1>4. c = s
  BY <1>2, <1>3, SameElements
<1> QED  BY <1>4 DEF h, t, c

LEMMA LongNameType ==
  ASSUME NEW T, NEW s \in Seq(T), s # <<>>, s[1] # "-", NEW q, LongNameOf(q, s)
  PROVE  /\ "=" \notin ToSet(q.name) /\ (q.name # <<>> => q.name[1] # "-")
         /\ q.eq \in BOOLEAN
         /\ q.eq = FALSE => <<"-", "-">> \o q.name = <<"-", "-">> \o s
         /\ q.eq = TRUE => <<"-", "-">> \o q.name \o <<"=">> \o q.sp = <<"-", "-">> \o s
<1>1. CASE "=" \notin ToSet(s) /\ q.name = s /\ q.eq = FALSE
  BY <1>1
<1>2. ASSUME NEW at, FirstAt(at, s), q.name = SubSeq(s, 1, at - 1),
             q.sp = SubSeq(s, at + 1, Len(s)), q.eq = TRUE
      PROVE  /\ "=" \notin ToSet(q.name) /\ (q.name # <<>> => q.name[1] # "-")
             /\ <<"-", "-">> \o q.name \o <<"=">> \o q.sp = <<"-", "-">> \o s
  <2> DEFINE k == q.name
             v == q.sp
             V == T \cup {"-", "="}
  <2>1. /\ k \in Seq(T) /\ v \in Seq(T) /\ "=" \notin ToSet(k) /\ (k \o <<"=">>) \o v = s
        /\ (k # <<>> => k[1] = s[1])
    <3> DEFINE f == SubSeq(s, 1, at - 1)
               g == SubSeq(s, at + 1, Len(s))
    <3>1. /\ f \in Seq(T) /\ g \in Seq(T) /\ "=" \notin ToSet(f) /\ (f \o <<"=">>) \o g = s
          /\ (f # <<>> => f[1] = s[1])
      <4>1. FirstAt(at, s)
        BY <1>2
      <4> QED  BY <4>1, CutAtEq
    <3>2. k = f /\ v = g
      BY <1>2
    <3> HIDE DEF f, g, k, v
    <3> QED  BY <3>1, <3>2
  <2> HIDE DEF k, v
  <2>2. k \in Seq(V) /\ v \in Seq(V) /\ <<"-", "-">> \in Seq(V) /\ <<"=">> \in Seq(V)
    BY <2>1
  <2> HIDE DEF V
  <2>3. k \o <<"=">> \in Seq(V)
    BY <2>2, CatProperties
  <2>4. (<<"-", "-">> \o k) \o <<"=">> = <<"-", "-">> \o (k \o <<"=">>)
    BY <2>2, Regrouped DEF Regroups
  <2>5. (<<"-", "-">> \o (k \o <<"=">>)) \o v = <<"-", "-">> \o ((k \o <<"=">>) \o v)
    <3> DEFINE d == <<"-", "-">>
               m == k \o <<"=">>
    <3>1. d \in Seq(V) /\ m \in Seq(V) /\ v \in Seq(V)
      BY <2>2, <2>3
    <3> HIDE DEF d, m
    <3>2. Regroups(d, m, v)
      BY <3>1, Regrouped
    <3> QED  BY <3>2 DEF d, m, Regroups
  <2> QED  BY <2>1, <2>4, <2>5 DEF k, v
<1> QED  BY <1>1, <1>2 DEF LongNameOf

(* A new element. *)
LEMMA ElementReads ==
  ASSUME NEW T, NEW argv \in Seq(Seq(T)), NEW p \in Iterator(argv, T), ~LastElement(p, argv),
         p.status = "ok", NEW b, b.sp = <<>>, b.rest = Ahead(argv, p.argi)
  PROVE  LET q == NextElement(p, argv)
         IN  (q.status = "DONE" <=> NothingLeft(b)) /\ (q.status = "ok" => Finds(q, argv, b))
<1> DEFINE q == NextElement(p, argv)
           e == argv[p.argi + 1]
           n == Dashes(e)
           k == SubSeq(e, n + 1, Len(e))
           R == Ahead(argv, p.argi + 1)
<1>1. p.argi \in Nat /\ p.argi < Len(argv)
  BY DEF Iterator, LastElement
<1>2. e \in Seq(T) /\ R \in Seq(Seq(T)) /\ b.rest = <<e>> \o R
  BY <1>1, AheadIs
<1>3. b.rest # <<>> /\ b.rest[1] = e
  <2> HIDE DEF e, R
  <2> QED  BY <1>2, FirstOf
<1>4. /\ q.argi = p.argi + 1 /\ q.dashes = n
      /\ k = <<>> => q.status = IF n = 2 THEN "DONE" ELSE "EINVAL"
      /\ k # <<>> /\ n = 0 => q.status = "ok" /\ q.name = k
      /\ k # <<>> /\ n = 1 => LetterOf(q, k)
      /\ k # <<>> /\ n = 2 => q.status = "ok" /\ LongNameOf(q, k)
      /\ k # <<>> /\ n \notin 0..2 => q.status = "EINVAL"
  BY NextElementIs
<1>5. n \in 0..2 => k \in Seq(T) /\ e = Dashed(n) \o k /\ (k # <<>> => k[1] # "-")
  <2> HIDE DEF e
  <2> QED  BY <1>2, ElementSplits
<1>6. e = <<"-", "-">> => n = 2 /\ k = <<>>
  <2> SUFFICES ASSUME e = <<"-", "-">> PROVE n = 2 /\ k = <<>>
    OBVIOUS
  <2> DEFINE c == <<"-", "-">>
  <2>1. Dashed(2) = c /\ c \o <<>> = c /\ 2 \in 0..2 /\ <<>> \in Seq(T) /\ c \in Seq(T)
    BY <1>2 DEF Dashed
  <2>2. Dashed(2) \o <<>> \in Seq(T)
    BY <2>1
  <2>3. LET f == Dashed(2) \o <<>> IN Dashes(f) = 2 /\ SubSeq(f, 2 + 1, Len(f)) = <<>>
    BY <2>1, <2>2, ElementJoins
  <2>4. Dashes(c) = 2 /\ SubSeq(c, 2 + 1, Len(c)) = <<>>
    BY <2>1, <2>3
  <2> HIDE DEF c
  <2>5. e = c
    BY DEF c
  <2> QED  BY <2>4, <2>5
<1> HIDE DEF q, e, n, k, R
<1>7. n \in 0..2 => n = 0 \/ n = 1 \/ n = 2
  OBVIOUS
<1>8. b.rest = <<e>> \o Ahead(argv, q.argi)
  BY <1>2, <1>4 DEF R
<1>9. n = 2 /\ k = <<>> => e = <<"-", "-">>
  BY <1>5 DEF Dashed
<1>10. q.status = "DONE" <=> n = 2 /\ k = <<>>
  <2>1. k # <<>> /\ n = 1 => q.status \in {"ok", "assert"}
    BY <1>4 DEF LetterOf
  <2> QED  BY <1>4, <1>7, <2>1
<1>11. q.status = "DONE" <=> NothingLeft(b)
  BY <1>3, <1>6, <1>9, <1>10 DEF NothingLeft
<1>12. ASSUME q.status = "ok" PROVE Finds(q, argv, b)
  <2>1. k # <<>> /\ n \in 0..2
    BY <1>4, <1>12
  <2>2. CASE n = 0
    <3>1. q.name = k /\ e = k
      BY <1>4, <1>5, <2>1, <2>2 DEF Dashed
    <3>2. FindsPositional(q, argv, b)
      BY <1>5, <1>8, <2>1, <3>1 DEF FindsPositional
    <3> QED  BY <1>4, <2>2, <3>2 DEF Finds
  <2>3. CASE n = 1
    <3>1. LetterOf(q, k) /\ k \in Seq(T) /\ e = <<"-">> \o k
      BY <1>4, <1>5, <2>1, <2>3 DEF Dashed
    <3>2. <<Head(k)>> \o Tail(k) = k /\ Len(<<Head(k)>>) = 1 /\ <<Head(k)>>[1] = Head(k)
      BY <2>1, <3>1, OneLetter
    <3>3. q.name \o q.sp = k /\ Len(q.name) = 1 /\ q.name[1] \notin Punctuation /\ q.eq = FALSE
      BY <1>12, <3>1, <3>2 DEF LetterOf
    <3>4. FindsLetter(q, argv, b)
      BY <1>8, <3>1, <3>3 DEF FindsLetter, Joins
    <3> QED  BY <1>4, <2>3, <3>4 DEF Finds
  <2>4. CASE n = 2
    <3>1. LongNameOf(q, k) /\ k \in Seq(T) /\ e = <<"-", "-">> \o k /\ k[1] # "-"
      BY <1>4, <1>5, <2>1, <2>4 DEF Dashed
    <3>2. FindsLong(q, argv, b)
      BY <1>8, <2>1, <3>1, LongNameType DEF FindsLong
    <3> QED  BY <1>4, <2>4, <3>2 DEF Finds
  <2> QED  BY <1>7, <2>1, <2>2, <2>3, <2>4
<1> QED  BY <1>11, <1>12 DEF q

(* What the iterator finds is what is left. *)
LEMMA KeyReads ==
  ASSUME NEW T, NEW argv \in Seq(Seq(T)), NEW p \in Iterator(argv, T), p.status = "ok",
         p.dashes = 1 => p.eq = FALSE, NEW last
  PROVE  LET q == opt_argviter_getkey(p, argv)
             b == LeftBy(p, argv, last)
         IN  (q.status = "DONE" <=> NothingLeft(b)) /\ (q.status = "ok" => Finds(q, argv, b))
<1> DEFINE q == opt_argviter_getkey(p, argv)
           b == LeftBy(p, argv, last)
<1>0. b.rest = Ahead(argv, p.argi) /\ b.sp = IF p.dashes = 1 THEN p.sp ELSE <<>>
  BY DEF LeftBy
<1> HIDE DEF b
<1>1. CASE p.dashes = 1 /\ p.sp # <<>>
  <2>1. q = parse_short_key(p)
    BY <1>1 DEF opt_argviter_getkey
  <2>2. p.sp \in Seq(T)
    BY DEF Iterator
  <2>3. q.dashes = p.dashes /\ q.argi = p.argi
    BY <1>1, <2>1, ShortKey
  <2>4. LetterOf(q, p.sp)
    BY <1>1, <2>1, LetterIs
  <2> HIDE DEF q
  <2>5. <<Head(p.sp)>> \o Tail(p.sp) = p.sp /\ Len(<<Head(p.sp)>>) = 1
        /\ <<Head(p.sp)>>[1] = Head(p.sp)
    BY <1>1, <2>2, OneLetter
  <2>6. q.status = "ok" => FindsLetter(q, argv, b)
    BY <1>0, <1>1, <2>3, <2>4, <2>5 DEF FindsLetter, LetterOf, Joins
  <2>7. q.status # "DONE" /\ ~NothingLeft(b)
    BY <1>0, <1>1, <2>4 DEF LetterOf, NothingLeft
  <2> QED  BY <1>1, <2>3, <2>6, <2>7 DEF Finds, q, b
<1>2. CASE ~(p.dashes = 1 /\ p.sp # <<>>) /\ LastElement(p, argv)
  <2>1. q = [p EXCEPT !.status = "DONE"]
    BY <1>2 DEF opt_argviter_getkey
  <2>2. q.status = "DONE"
    BY <2>1 DEF Iterator
  <2>3. p.argi \in Nat /\ Len(argv) <= p.argi
    BY <1>2 DEF Iterator, LastElement
  <2>4. Ahead(argv, p.argi) = <<>>
    BY <2>3, AheadIs
  <2>5. NothingLeft(b)
    BY <1>0, <1>2, <2>4 DEF NothingLeft
  <2> QED  BY <2>2, <2>5 DEF b
<1>3. CASE ~(p.dashes = 1 /\ p.sp # <<>>) /\ ~LastElement(p, argv)
  <2>1. q = NextElement(p, argv)
    BY <1>3 DEF opt_argviter_getkey
  <2>2. b.sp = <<>>
    BY <1>0, <1>3
  <2> QED  BY <1>0, <1>3, <2>1, <2>2, ElementReads DEF b
<1> QED  BY <1>1, <1>2, <1>3

LEMMA HeadOf ==
  ASSUME NEW S, NEW x \in S, NEW s \in Seq(S)
  PROVE  Head(<<x>> \o s) = x /\ Tail(<<x>> \o s) = s
OBVIOUS

(* A long name with a "=" and a value, taken apart. *)
TakenApart(V, d, k, v) ==
  /\ ((d \o k) \o <<"=">>) \o v = d \o ((k \o <<"=">>) \o v)
  /\ k \o <<"=">> \in Seq(V) /\ (k \o <<"=">>) \o v \in Seq(V)
  /\ d \o ((k \o <<"=">>) \o v) \in Seq(V)

LEMMA LongWithEq ==
  ASSUME NEW V, NEW k \in Seq(V), NEW v \in Seq(V), NEW d \in Seq(V), "=" \in V
  PROVE  TakenApart(V, d, k, v)
<1> DEFINE e == <<"=">>
           m == k \o e
           s == m \o v
<1>1. e \in Seq(V)
  OBVIOUS
<1> HIDE DEF e
<1>2. m \in Seq(V) /\ Regroups(d, k, e)
  <2>1. m \in Seq(V)
    BY <1>1, CatProperties
  <2> QED  BY <1>1, <2>1, Regrouped
<1> HIDE DEF m
<1>3. s \in Seq(V) /\ Regroups(d, m, v)
  <2>1. s \in Seq(V)
    BY <1>2, CatProperties
  <2> QED  BY <1>2, <2>1, Regrouped
<1> HIDE DEF s
<1>4. d \o s \in Seq(V)
  BY <1>3, CatProperties
<1> QED  BY <1>2, <1>3, <1>4 DEF s, m, e, TakenApart, Regroups

(* The element behind position i, and what follows it. *)
Leads(argv, i, x, R) == i < Len(argv) /\ argv[i + 1] = x /\ Ahead(argv, i + 1) = R

(* The element that is next is the one that is left. *)
LEMMA NextIs ==
  ASSUME NEW T, NEW argv \in Seq(Seq(T)), NEW i \in Nat, NEW V, T \subseteq V,
         NEW x \in Seq(V), NEW R \in Seq(Seq(T)), Ahead(argv, i) = <<x>> \o R
  PROVE  Leads(argv, i, x, R) /\ x \in Seq(T)
<1> DEFINE S == Seq(V)
           e == argv[i + 1]
           A == Ahead(argv, i + 1)
<1>1. \A f \in Seq(T) : f \in S
  OBVIOUS
<1>2. R \in Seq(S)
  BY <1>1
<1>3. x \in S
  OBVIOUS
<1> HIDE DEF S
<1>4. <<x>> \o R # <<>>
  BY <1>2, <1>3, FirstOf
<1>5. i < Len(argv)
  <2>1. Len(argv) <= i => Ahead(argv, i) = <<>>
    BY AheadIs
  <2> QED  BY <1>4, <2>1
<1>6. e \in Seq(T) /\ A \in Seq(Seq(T)) /\ Ahead(argv, i) = <<e>> \o A
  BY <1>5, AheadIs
<1> HIDE DEF e, A
<1>7. e \in S /\ A \in Seq(S)
  BY <1>1, <1>6 DEF S
<1>8. x = e /\ R = A
  <2>1. Head(<<x>> \o R) = x /\ Tail(<<x>> \o R) = R
    BY <1>2, <1>3, HeadOf
  <2>2. Head(<<e>> \o A) = e /\ Tail(<<e>> \o A) = A
    BY <1>7, HeadOf
  <2> QED  BY <1>6, <2>1, <2>2
<1> QED  BY <1>5, <1>6, <1>8 DEF e, A, Leads

(* What is found in an element of n dashes and k, before R. *)
FoundIn(p, argv, n, k, R) ==
  LET q == opt_argviter_getkey(p, argv)
  IN  /\ q.dashes = n /\ Ahead(argv, q.argi) = R
      /\ n = 0 => q.status = "ok" /\ q.name = k
      /\ n = 1 => LetterOf(q, k)
      /\ n = 2 => q.status = "ok" /\ LongNameOf(q, k)

LEMMA ElementFinds ==
  ASSUME NEW T, NEW argv \in Seq(Seq(T)), NEW p \in Iterator(argv, T), p.status = "ok",
         p.dashes = 1 => p.sp = <<>>,
         NEW n \in 0..2, NEW k \in Seq(T), k # <<>>, k[1] # "-", NEW R \in Seq(Seq(T)),
         Ahead(argv, p.argi) = <<Dashed(n) \o k>> \o R
  PROVE  FoundIn(p, argv, n, k, R)
<1> DEFINE q == opt_argviter_getkey(p, argv)
           x == Dashed(n) \o k
           V == T \cup {"-"}
           e == argv[p.argi + 1]
<1>1. p.argi \in Nat
  BY DEF Iterator
<1>2. x \in Seq(V)
  <2>1. "-" \in V /\ T \subseteq V
    OBVIOUS
  <2> HIDE DEF V
  <2>2. Dashed(n) \in Seq(V)
    BY <2>1, DashedIs
  <2>3. k \in Seq(V)
    BY <2>1, SeqWider
  <2> QED  BY <2>2, <2>3, CatProperties
<1>3. /\ p.argi < Len(argv) /\ e = x /\ Ahead(argv, p.argi + 1) = R /\ x \in Seq(T)
  <2>1. T \subseteq V /\ Ahead(argv, p.argi) = <<x>> \o R
    OBVIOUS
  <2> DEFINE i == p.argi
  <2>2. i \in Nat /\ x \in Seq(V) /\ T \subseteq V /\ Ahead(argv, i) = <<x>> \o R
    BY <1>1, <1>2, <2>1
  <2> HIDE DEF x, V, i
  <2>3. Leads(argv, i, x, R) /\ x \in Seq(T)
    BY <2>2, NextIs
  <2> QED  BY <2>3 DEF i, Leads
<1>4. ~LastElement(p, argv)
  BY <1>1, <1>3 DEF LastElement
<1>5. q = NextElement(p, argv)
  BY <1>4 DEF opt_argviter_getkey
<1>6. Dashes(x) = n /\ SubSeq(x, n + 1, Len(x)) = k
  BY <1>3, ElementJoins
<1>7. LET N == NextElement(p, argv)
          m == Dashes(e)
          j == SubSeq(e, m + 1, Len(e))
      IN  /\ N.argi = p.argi + 1 /\ N.dashes = m
          /\ j # <<>> /\ m = 0 => N.status = "ok" /\ N.name = j
          /\ j # <<>> /\ m = 1 => LetterOf(N, j)
          /\ j # <<>> /\ m = 2 => N.status = "ok" /\ LongNameOf(N, j)
  BY <1>4, NextElementIs
<1> HIDE DEF q, x, e
<1>8. /\ q.argi = p.argi + 1 /\ q.dashes = n
      /\ n = 0 => q.status = "ok" /\ q.name = k
      /\ n = 1 => LetterOf(q, k)
      /\ n = 2 => q.status = "ok" /\ LongNameOf(q, k)
  BY <1>3, <1>5, <1>6, <1>7
<1> QED  BY <1>3, <1>8 DEF q, FoundIn

(* The key that is found: behind n dashes the name k, with or without a "=", *)
(* what is left of the element where that matters, and the elements R.     *)
KeyFound(p, argv, n, k, eq, sp, R) ==
  LET q == opt_argviter_getkey(p, argv)
  IN  /\ q.status = "ok" /\ q.dashes = n /\ q.name = k /\ Ahead(argv, q.argi) = R
      /\ n # 0 => q.eq = eq
      /\ n = 1 \/ eq = TRUE => q.sp = sp

LEMMA FindsThePositional ==
  ASSUME NEW T, NEW argv \in Seq(Seq(T)), NEW p \in Iterator(argv, T), p.status = "ok",
         p.dashes = 1 => p.sp = <<>>,
         NEW v \in Seq(T), v # <<>>, v[1] # "-", NEW R \in Seq(Seq(T)),
         Ahead(argv, p.argi) = <<v>> \o R
  PROVE  KeyFound(p, argv, 0, v, FALSE, <<>>, R)
<1>1. p.dashes = 1 => p.sp = <<>>
  OBVIOUS
<1> DEFINE n == 0
<1>2. Dashed(n) \o v = v /\ n \in 0..2 /\ n = 0
  BY DEF Dashed
<1> HIDE DEF n
<1>3. Ahead(argv, p.argi) = <<Dashed(n) \o v>> \o R
  BY <1>2
<1>5. FoundIn(p, argv, n, v, R)
  BY <1>1, <1>2, <1>3, ElementFinds
<1> QED  BY <1>2, <1>5 DEF FoundIn, KeyFound

LEMMA FindsTheLetter ==
  ASSUME NEW T, NEW argv \in Seq(Seq(T)), NEW p \in Iterator(argv, T), p.status = "ok",
         p.dashes = 1 => p.eq = FALSE,
         NEW t \in T, t \notin Punctuation, NEW L \in Seq(T), NEW R \in Seq(Seq(T)),
         \/ p.dashes = 1 /\ p.sp = <<t>> \o L /\ Ahead(argv, p.argi) = R
         \/ /\ p.dashes = 1 => p.sp = <<>>
            /\ Ahead(argv, p.argi) = <<<<"-">> \o (<<t>> \o L)>> \o R
  PROVE  KeyFound(p, argv, 1, <<t>>, FALSE, L, R)
<1> DEFINE q == opt_argviter_getkey(p, argv)
           k == <<t>> \o L
<1>1. k \in Seq(T) /\ k # <<>> /\ k[1] = t /\ Head(k) = t /\ Tail(k) = L
  BY FirstOf
<1>2. LetterOf(q, k) => /\ q.status = "ok" /\ q.name = <<t>> /\ q.sp = L /\ q.eq = FALSE
  BY <1>1 DEF LetterOf
<1>3. CASE p.dashes = 1 /\ p.sp = k /\ Ahead(argv, p.argi) = R
  <2> HIDE DEF k
  <2>1. p.dashes = 1 /\ p.sp = k /\ p.sp # <<>> /\ Ahead(argv, p.argi) = R
    BY <1>1, <1>3
  <2>2. q = parse_short_key(p)
    BY <2>1 DEF opt_argviter_getkey
  <2>3. q.dashes = p.dashes /\ q.argi = p.argi
    BY <2>1, <2>2, ShortKey
  <2>4. LetterOf(q, k)
    BY <2>1, <2>2, LetterIs
  <2> HIDE DEF q
  <2> QED  BY <1>2, <2>1, <2>3, <2>4 DEF q, KeyFound
<1>4. CASE (p.dashes = 1 => p.sp = <<>>) /\ Ahead(argv, p.argi) = <<<<"-">> \o k>> \o R
  <2> HIDE DEF k
  <2>1. p.dashes = 1 => p.sp = <<>>
    BY <1>4
  <2> DEFINE n == 1
  <2>2. Dashed(n) = <<"-">> /\ n \in 0..2 /\ n = 1
    BY DEF Dashed
  <2> HIDE DEF n
  <2>3. Ahead(argv, p.argi) = <<Dashed(n) \o k>> \o R
    BY <1>4, <2>2
  <2>5. t # "-"
    BY DEF Punctuation
  <2>6. k \in Seq(T) /\ k # <<>> /\ k[1] # "-"
    BY <1>1, <2>5
  <2>7. FoundIn(p, argv, n, k, R)
    BY <2>1, <2>2, <2>3, <2>6, ElementFinds
  <2>4. q.dashes = 1 /\ Ahead(argv, q.argi) = R /\ LetterOf(q, k)
    BY <2>2, <2>7 DEF FoundIn
  <2> HIDE DEF q
  <2> QED  BY <1>2, <2>4 DEF q, KeyFound
<1> QED  BY <1>3, <1>4

LEMMA FindsTheLong ==
  ASSUME NEW T, NEW argv \in Seq(Seq(T)), NEW p \in Iterator(argv, T), p.status = "ok",
         p.dashes = 1 => p.sp = <<>>,
         NEW k \in Seq(T), k # <<>>, k[1] # "-", "=" \notin ToSet(k), NEW R \in Seq(Seq(T)),
         Ahead(argv, p.argi) = <<<<"-", "-">> \o k>> \o R
  PROVE  KeyFound(p, argv, 2, k, FALSE, <<>>, R)
<1> DEFINE q == opt_argviter_getkey(p, argv)
<1>1. p.dashes = 1 => p.sp = <<>>
  OBVIOUS
<1> DEFINE n == 2
<1>2. Dashed(n) = <<"-", "-">> /\ n \in 0..2 /\ n = 2
  BY DEF Dashed
<1> HIDE DEF n
<1>3. Ahead(argv, p.argi) = <<Dashed(n) \o k>> \o R
  BY <1>2
<1>7. FoundIn(p, argv, n, k, R)
  BY <1>1, <1>2, <1>3, ElementFinds
<1>4. q.dashes = 2 /\ Ahead(argv, q.argi) = R /\ q.status = "ok" /\ LongNameOf(q, k)
  BY <1>2, <1>7 DEF FoundIn
<1> HIDE DEF q
<1>5. \A at : ~FirstAt(at, k)
  BY DEF FirstAt, ToSet
<1>6. q.name = k /\ q.eq = FALSE
  BY <1>4, <1>5 DEF LongNameOf
<1> QED  BY <1>4, <1>6 DEF q, KeyFound

LEMMA FindsTheLongWithEq ==
  ASSUME NEW T, NEW argv \in Seq(Seq(T)), NEW p \in Iterator(argv, T), p.status = "ok",
         p.dashes = 1 => p.sp = <<>>,
         NEW k \in Seq(T), k # <<>>, k[1] # "-", "=" \notin ToSet(k), NEW v \in Seq(T),
         NEW R \in Seq(Seq(T)),
         Ahead(argv, p.argi) = <<<<"-", "-">> \o k \o <<"=">> \o v>> \o R
  PROVE  KeyFound(p, argv, 2, k, TRUE, v, R)
<1> DEFINE q == opt_argviter_getkey(p, argv)
           V == T \cup {"-", "="}
           d == <<"-", "-">>
           m == k \o <<"=">>
           s == m \o v
           x == ((d \o k) \o <<"=">>) \o v
<1>1. p.dashes = 1 => p.sp = <<>>
  OBVIOUS
<1> DEFINE n == 2
<1>2. Dashed(n) = d /\ n \in 0..2 /\ n = 2
  BY DEF Dashed
<1> HIDE DEF n
<1>3. /\ k \in Seq(V) /\ v \in Seq(V) /\ d \in Seq(V) /\ <<"=">> \in Seq(V) /\ T \subseteq V
      /\ "=" \in V
  OBVIOUS
<1> HIDE DEF d, V
<1>4. /\ x = d \o s /\ m \in Seq(V) /\ s \in Seq(V) /\ x \in Seq(V)
  <2>1. k \in Seq(V) /\ v \in Seq(V) /\ d \in Seq(V) /\ "=" \in V
    BY <1>3
  <2>2. TakenApart(V, d, k, v)
    BY <2>1, LongWithEq
  <2> QED  BY <2>2 DEF TakenApart
<1> HIDE DEF x
<1>5. x = d \o s /\ s \in Seq(V)
  BY <1>4
<1>6. x \in Seq(V)
  BY <1>4
<1>7. p.argi \in Nat
  BY DEF Iterator
<1>8. Ahead(argv, p.argi) = <<x>> \o R
  BY DEF x, d
<1>9. x \in Seq(T)
  <2> DEFINE i == p.argi
  <2>1. i \in Nat /\ x \in Seq(V) /\ T \subseteq V /\ Ahead(argv, i) = <<x>> \o R
    BY <1>3, <1>6, <1>7, <1>8
  <2> HIDE DEF i
  <2>2. Leads(argv, i, x, R) /\ x \in Seq(T)
    BY <2>1, NextIs
  <2> QED  BY <2>2
<1>10. /\ Len(s) = Len(k) + 1 + Len(v) /\ s[Len(k) + 1] = "=" /\ s[1] = k[1] /\ s # <<>>
       /\ Len(k) + 1 \in 1..Len(s)
  <2>1. /\ Len(m) = Len(k) + 1 /\ m[Len(k) + 1] = "=" /\ \A i \in 1..Len(k) : m[i] = k[i]
        /\ Len(k) \in Nat \ {0} /\ Len(v) \in Nat
    OBVIOUS
  <2>2. /\ Len(s) = Len(m) + Len(v) /\ \A i \in 1..Len(m) : s[i] = m[i]
    <3> HIDE DEF m, V
    <3> QED  BY <1>3, <1>4, CatProperties
  <2>3. 1 \in 1..Len(k) /\ 1 \in 1..Len(m) /\ Len(k) + 1 \in 1..Len(m)
    BY <2>1
  <2> HIDE DEF m, s
  <2>4. Len(s) # 0
    BY <2>1, <2>2
  <2>5. s # <<>>
    BY <2>4
  <2> QED  BY <2>1, <2>2, <2>3, <2>5
<1>11. s \in Seq(T)
  <2>1. Len(d) = 2 /\ d \in Seq(V)
    BY DEF d, V
  <2>2. /\ Len(x) = 2 + Len(s) /\ \A i \in 1..Len(s) : x[2 + i] = s[i]
    <3>1. Len(d \o s) = Len(d) + Len(s) /\ \A i \in 1..Len(s) : (d \o s)[Len(d) + i] = s[i]
      <4>1. d \in Seq(V) /\ s \in Seq(V)
        BY <1>5, <2>1
      <4> HIDE DEF s
      <4> QED  BY <4>1, CatProperties
    <3> HIDE DEF s
    <3> QED  BY <1>5, <2>1, <3>1
  <2> HIDE DEF s
  <2>3. Len(s) \in Nat
    BY <1>5
  <2>4. ASSUME NEW i \in 1..Len(s) PROVE s[i] \in T
    <3>1. 2 + i \in 1..Len(x)
      BY <2>2, <2>3
    <3> QED  BY <1>9, <2>2, <3>1
  <2>5. s = [i \in 1..Len(s) |-> s[i]]
    BY <1>5
  <2>6. [i \in 1..Len(s) |-> s[i]] \in Seq(T)
    BY <2>3, <2>4
  <2> QED  BY <2>5, <2>6
<1>12. Ahead(argv, p.argi) = <<Dashed(n) \o s>> \o R
  BY <1>2, <1>5, <1>8
<1>13. s[1] # "-"
  BY <1>10
<1> HIDE DEF s
<1>14. q.dashes = 2 /\ Ahead(argv, q.argi) = R /\ q.status = "ok" /\ LongNameOf(q, s)
  <2>1. s \in Seq(T) /\ s # <<>> /\ s[1] # "-" /\ n \in 0..2
    BY <1>2, <1>10, <1>11, <1>13
  <2>2. FoundIn(p, argv, n, s, R)
    BY <1>1, <1>12, <2>1, ElementFinds
  <2> QED  BY <1>2, <2>2 DEF FoundIn
<1> HIDE DEF q
<1>15. "=" \in ToSet(s)
  BY <1>10, <1>11 DEF ToSet
<1>16. PICK at : FirstAt(at, s) /\ q.name = SubSeq(s, 1, at - 1)
                 /\ q.sp = SubSeq(s, at + 1, Len(s)) /\ q.eq = TRUE
  BY <1>14, <1>15 DEF LongNameOf
<1>17. SubSeq(s, 1, at - 1) = k /\ SubSeq(s, at + 1, Len(s)) = v
  <2>1. FirstAt(at, (k \o <<"=">>) \o v)
    BY <1>16 DEF s
  <2>2. LET u == (k \o <<"=">>) \o v IN SubSeq(u, 1, at - 1) = k /\ SubSeq(u, at + 1, Len(u)) = v
    BY <1>3, <2>1, JoinedAtEq
  <2> QED  BY <2>2 DEF s
<1> QED  BY <1>14, <1>16, <1>17 DEF q, KeyFound

-----------------------------------------------------------------------------
(* The value of an option.                                                 *)

(* The value of an option is in its element already. *)
OwnValue(q) == q.eq = TRUE \/ (q.dashes = 1 /\ q.sp # <<>>)

(* What opt_argviter_getval() has taken. *)
TakesValue(q, argv) ==
  LET g == opt_argviter_getval(q, argv)
  IN  g.status = "ok" =>
        /\ g.dashes = 0
        /\ OwnValue(q) => g.val = q.sp /\ g.argi = q.argi
        /\ ~OwnValue(q) => /\ Ahead(argv, q.argi) = <<g.val>> \o Ahead(argv, g.argi)
                           /\ q.dashes = 1 => g.val # <<>>

LEMMA ValueReads ==
  ASSUME NEW T, NEW argv \in Seq(Seq(T)), NEW q \in Iterator(argv, T), q.status = "ok"
  PROVE  TakesValue(q, argv)
<1> DEFINE own == q.eq \/ (q.dashes = 1 /\ q.sp # <<>>)
           g == opt_argviter_getval(q, argv)
           l == load_next_argv(q, argv)
           Taken(i) == IF q.dashes = 1 /\ i.sp = <<>> THEN [i EXCEPT !.status = "assert"]
                       ELSE [i EXCEPT !.val = i.sp, !.dashes = 0]
<1>1. g = IF ~own /\ LastElement(q, argv) THEN parse_error(q)
          ELSE IF own THEN Taken(q) ELSE Taken(l)
  BY DEF opt_argviter_getval
<1>2. q \in [argi : Nat, sp : Seq(T), dashes : Nat, eq : BOOLEAN, status : Statuses,
             name : Seq(T), val : Seq(T)]
  BY DEF Iterator
<1>3. own <=> OwnValue(q)
  BY <1>2 DEF OwnValue
<1>4. ASSUME NEW i \in [argi : Nat, sp : Seq(T), dashes : Nat, eq : BOOLEAN, status : Statuses,
                        name : Seq(T), val : Seq(T)],
             Taken(i).status = "ok"
      PROVE  /\ Taken(i).dashes = 0 /\ Taken(i).val = i.sp /\ Taken(i).argi = i.argi
             /\ (q.dashes = 1 => i.sp # <<>>)
  <2>1. CASE q.dashes = 1 /\ i.sp = <<>>
    <3>1. Taken(i) = [i EXCEPT !.status = "assert"]
      BY <2>1
    <3>2. Taken(i).status = "assert"
      BY <3>1
    <3> QED  BY <1>4, <3>2
  <2>2. CASE ~(q.dashes = 1 /\ i.sp = <<>>)
    BY <2>2
  <2> QED  BY <2>1, <2>2
<1> HIDE DEF own, g, Taken
<1>5. CASE own
  BY <1>1, <1>2, <1>3, <1>4, <1>5 DEF TakesValue, g
<1>6. CASE ~own /\ LastElement(q, argv)
  <2>1. g.status = "EINVAL"
    BY <1>1, <1>2, <1>6 DEF parse_error
  <2> QED  BY <2>1 DEF TakesValue, g
<1>7. CASE ~own /\ ~LastElement(q, argv)
  <2>1. q.argi \in Nat /\ q.argi < Len(argv)
    BY <1>2, <1>7 DEF LastElement
  <2>2. /\ argv[q.argi + 1] \in Seq(T)
        /\ Ahead(argv, q.argi) = <<argv[q.argi + 1]>> \o Ahead(argv, q.argi + 1)
    BY <2>1, AheadIs
  <2> DEFINE e == argv[q.argi + 1]
             i == q.argi + 1
  <2>6. l = [q EXCEPT !.argi = i, !.sp = e]
    BY DEF load_next_argv
  <2>7. e \in Seq(T) /\ i \in Nat
    BY <2>1, <2>2
  <2> HIDE DEF e, i, l
  <2>8. l \in [argi : Nat, sp : Seq(T), dashes : Nat, eq : BOOLEAN, status : Statuses,
               name : Seq(T), val : Seq(T)]
    BY <1>2, <2>6, <2>7
  <2>9. l.argi = i /\ l.sp = e /\ l.status = q.status
    BY <1>2, <2>6
  <2>3. /\ l \in [argi : Nat, sp : Seq(T), dashes : Nat, eq : BOOLEAN, status : Statuses,
                  name : Seq(T), val : Seq(T)]
        /\ l.argi = q.argi + 1 /\ l.sp = argv[q.argi + 1]
    BY <2>8, <2>9 DEF e, i
  <2>4. g = Taken(l)
    BY <1>1, <1>7
  <2>5. g.status = "ok" => /\ g.dashes = 0 /\ g.val = l.sp /\ g.argi = l.argi
                           /\ (q.dashes = 1 => l.sp # <<>>)
    BY <1>4, <2>3, <2>4
  <2> QED  BY <1>3, <1>7, <2>2, <2>3, <2>5 DEF TakesValue, g
<1> QED  BY <1>5, <1>6, <1>7

(* It succeeds when there is a value to take. *)
LEMMA ValueThere ==
  ASSUME NEW T, NEW argv \in Seq(Seq(T)), NEW q \in Iterator(argv, T), q.status = "ok",
         q.eq = TRUE => q.dashes # 1,
         \/ OwnValue(q)
         \/ /\ ~LastElement(q, argv)
            /\ q.dashes = 1 => argv[q.argi + 1] # <<>>
  PROVE  opt_argviter_getval(q, argv).status = "ok"
<1> DEFINE own == q.eq \/ (q.dashes = 1 /\ q.sp # <<>>)
           g == opt_argviter_getval(q, argv)
           l == load_next_argv(q, argv)
           Taken(i) == IF q.dashes = 1 /\ i.sp = <<>> THEN [i EXCEPT !.status = "assert"]
                       ELSE [i EXCEPT !.val = i.sp, !.dashes = 0]
<1>1. g = IF ~own /\ LastElement(q, argv) THEN parse_error(q)
          ELSE IF own THEN Taken(q) ELSE Taken(l)
  BY DEF opt_argviter_getval
<1>2. q \in [argi : Nat, sp : Seq(T), dashes : Nat, eq : BOOLEAN, status : Statuses,
             name : Seq(T), val : Seq(T)]
  BY DEF Iterator
<1>3. own <=> OwnValue(q)
  BY <1>2 DEF OwnValue
<1>4. ASSUME NEW i \in [argi : Nat, sp : Seq(T), dashes : Nat, eq : BOOLEAN, status : Statuses,
                        name : Seq(T), val : Seq(T)],
             ~(q.dashes = 1 /\ i.sp = <<>>), i.status = "ok"
      PROVE  Taken(i).status = "ok"
  <2>1. Taken(i) = [i EXCEPT !.val = i.sp, !.dashes = 0]
    BY <1>4
  <2> HIDE DEF Taken
  <2> QED  BY <1>4, <2>1
<1> HIDE DEF Taken, g
<1>5. CASE own
  <2>1. ~(q.dashes = 1 /\ q.sp = <<>>)
    BY <1>2, <1>5
  <2> HIDE DEF own
  <2>2. g = Taken(q)
    BY <1>1, <1>5
  <2> QED  BY <1>2, <1>4, <2>1, <2>2 DEF g
<1>6. CASE ~own
  <2> HIDE DEF own
  <2>1. ~LastElement(q, argv) /\ (q.dashes = 1 => argv[q.argi + 1] # <<>>)
    BY <1>3, <1>6
  <2>2. q.argi \in Nat /\ q.argi < Len(argv)
    BY <1>2, <2>1 DEF LastElement
  <2>3. argv[q.argi + 1] \in Seq(T)
    BY <2>2, AheadIs
  <2> DEFINE e == argv[q.argi + 1]
             i == q.argi + 1
  <2>6. l = [q EXCEPT !.argi = i, !.sp = e]
    BY DEF load_next_argv
  <2>7. e \in Seq(T) /\ i \in Nat
    BY <2>2, <2>3
  <2> HIDE DEF e, i, l
  <2>8. l \in [argi : Nat, sp : Seq(T), dashes : Nat, eq : BOOLEAN, status : Statuses,
               name : Seq(T), val : Seq(T)]
    BY <1>2, <2>6, <2>7
  <2>9. l.argi = i /\ l.sp = e /\ l.status = q.status
    BY <1>2, <2>6
  <2>4. /\ l \in [argi : Nat, sp : Seq(T), dashes : Nat, eq : BOOLEAN, status : Statuses,
                  name : Seq(T), val : Seq(T)]
        /\ l.status = "ok" /\ l.sp = argv[q.argi + 1]
    BY <2>8, <2>9 DEF e
  <2>5. g = Taken(l)
    BY <1>1, <1>6, <2>1
  <2> QED  BY <1>4, <2>1, <2>4, <2>5 DEF g
<1> QED  BY <1>5, <1>6

-----------------------------------------------------------------------------
(* A word that is read, and a word that is spelled.                        *)

LEMMA WordRead ==
  ASSUME NEW T, NEW argv \in Seq(Seq(T)), NEW p \in Iterator(argv, T), p.status = "ok",
         p.dashes = 1 => p.eq = FALSE, NEW last \in Nat, NEW conf, NEW q, NEW g,
         q = opt_argviter_getkey(p, argv), q \in Iterator(argv, T), q.status = "ok",
         g = IF opt_conf_has_val(conf) THEN opt_argviter_getval(q, argv) ELSE q,
         g.status = "ok",
         q.dashes = 0 => conf.positional # 0 /\ conf.positional = last + 1,
         q.dashes # 0 => conf.positional = 0 /\ q.name # <<>>
  PROVE  Spells(WordOf(conf, q, g), LeftBy(p, argv, last),
                LeftBy(g, argv, IF q.dashes = 0 THEN conf.positional ELSE last))
<1> DEFINE w == WordOf(conf, q, g)
           b == LeftBy(p, argv, last)
           now == IF q.dashes = 0 THEN conf.positional ELSE last
           a == LeftBy(g, argv, now)
           has == opt_conf_has_val(conf)
<1>1. /\ w.conf = conf /\ w.key = IF q.dashes = 0 THEN <<>> ELSE q.name
      /\ w.val = IF q.dashes = 0 THEN q.name
                 ELSE IF has THEN g.val ELSE IF q.eq THEN q.sp ELSE <<>>
  BY DEF WordOf
<1>2. b.last = last /\ a.last = now /\ a.rest = Ahead(argv, g.argi)
      /\ a.sp = IF g.dashes = 1 THEN g.sp ELSE <<>>
  BY DEF LeftBy
<1>3. Finds(q, argv, b)
  BY KeyReads
<1>4. has => g = opt_argviter_getval(q, argv)
  OBVIOUS
<1>5. ~has => g = q
  OBVIOUS
<1>6. has => /\ g.dashes = 0
             /\ OwnValue(q) => g.val = q.sp /\ g.argi = q.argi
             /\ ~OwnValue(q) => /\ Ahead(argv, q.argi) = <<g.val>> \o Ahead(argv, g.argi)
                                /\ q.dashes = 1 => g.val # <<>>
  <2>1. TakesValue(q, argv)
    BY ValueReads
  <2> QED  BY <1>4, <2>1 DEF TakesValue
<1>7. conf.positional # 0 => ~has
  BY DEF opt_conf_has_val
<1>8. q.eq \in BOOLEAN /\ q.name \in Seq(T) /\ q.sp \in Seq(T)
  BY DEF Iterator
<1> HIDE DEF w, b, a, has
<1>9. CASE q.dashes = 0
  <2>1. FindsPositional(q, argv, b)
    BY <1>3, <1>9 DEF Finds
  <2>2. g = q /\ a.sp = <<>> /\ now = conf.positional /\ w.val = q.name
    BY <1>1, <1>2, <1>5, <1>7, <1>9
  <2>3. SpellsPositional(w, b, a)
    BY <1>1, <1>2, <1>9, <2>1, <2>2 DEF SpellsPositional, FindsPositional
  <2> QED  BY <1>1, <1>2, <1>9, <2>2, <2>3 DEF Spells, w, b, a
<1>10. CASE q.dashes = 1
  <2>1. /\ Len(q.name) = 1 /\ q.name[1] \notin Punctuation /\ q.eq = FALSE
        /\ Joins(q.name \o q.sp, Ahead(argv, q.argi), b)
    BY <1>3, <1>10 DEF Finds, FindsLetter
  <2>2. w.key = q.name /\ now = last /\ conf.positional = 0
    BY <1>1, <1>10
  <2>3. ASSUME ~has PROVE SpellsShort(w, b, a)
    <3>1. a.sp = q.sp /\ a.rest = Ahead(argv, q.argi)
      BY <1>2, <1>5, <1>10, <2>3
    <3> QED  BY <1>1, <2>1, <2>2, <2>3, <3>1 DEF SpellsShort, has
  <2>4. ASSUME has /\ q.sp # <<>> PROVE SpellsShort(w, b, a)
    <3>1. OwnValue(q)
      BY <1>10, <2>4 DEF OwnValue
    <3>2. a.sp = <<>> /\ w.val = q.sp /\ a.rest = Ahead(argv, q.argi)
      BY <1>1, <1>2, <1>6, <1>10, <2>4, <3>1
    <3> QED  BY <1>1, <2>1, <2>2, <2>4, <3>2 DEF SpellsShort, has
  <2>5. ASSUME has /\ q.sp = <<>> PROVE SpellsShort(w, b, a)
    <3>1. ~OwnValue(q)
      BY <1>10, <2>1, <2>5 DEF OwnValue
    <3>2. a.sp = <<>> /\ w.val = g.val /\ w.val # <<>> /\ Ahead(argv, q.argi) = <<w.val>> \o a.rest
      BY <1>1, <1>2, <1>6, <1>10, <2>5, <3>1
    <3>3. q.name \o q.sp = q.name
      BY <1>8, <2>5
    <3> QED  BY <1>1, <2>1, <2>2, <2>5, <3>2, <3>3 DEF SpellsShort, has
  <2>6. SpellsShort(w, b, a)
    BY <2>3, <2>4, <2>5
  <2> QED  BY <1>1, <1>2, <2>2, <2>6 DEF Spells, w, b, a
<1>11. CASE q.dashes = 2
  <2> DEFINE long == <<"-", "-">> \o q.name
  <2>1. /\ b.sp = <<>> /\ "=" \notin ToSet(q.name) /\ (q.name # <<>> => q.name[1] # "-")
        /\ q.eq = FALSE => b.rest = <<long>> \o Ahead(argv, q.argi)
        /\ q.eq = TRUE => b.rest = <<long \o <<"=">> \o q.sp>> \o Ahead(argv, q.argi)
    BY <1>3, <1>11 DEF Finds, FindsLong
  <2>2. w.key = q.name /\ now = last /\ conf.positional = 0 /\ w.key # <<>> /\ a.sp = <<>>
    BY <1>1, <1>2, <1>5, <1>6, <1>11
  <2> HIDE DEF long
  <2>3. ASSUME q.eq = TRUE PROVE SpellsLong(w, b, a)
    <3>1. OwnValue(q)
      BY <2>3 DEF OwnValue
    <3>2. w.val = q.sp /\ a.rest = Ahead(argv, q.argi)
      BY <1>1, <1>2, <1>5, <1>6, <1>11, <2>3, <3>1
    <3> QED  BY <2>1, <2>2, <2>3, <3>2 DEF SpellsLong, long
  <2>4. ASSUME q.eq = FALSE /\ has PROVE SpellsLong(w, b, a)
    <3>1. ~OwnValue(q)
      BY <1>11, <2>4 DEF OwnValue
    <3>2. w.val = g.val /\ Ahead(argv, q.argi) = <<w.val>> \o a.rest
      BY <1>1, <1>2, <1>6, <1>11, <2>4, <3>1
    <3> QED  BY <1>1, <2>1, <2>2, <2>4, <3>2 DEF SpellsLong, long, has
  <2>5. ASSUME q.eq = FALSE /\ ~has PROVE SpellsLong(w, b, a)
    <3>1. a.rest = Ahead(argv, q.argi)
      BY <1>2, <1>5, <2>5
    <3> QED  BY <1>1, <2>1, <2>2, <2>5, <3>1 DEF SpellsLong, long, has
  <2>6. SpellsLong(w, b, a)
    BY <1>8, <2>3, <2>4, <2>5
  <2> QED  BY <1>1, <1>2, <2>2, <2>6 DEF Spells, w, b, a
<1>12. q.dashes = 0 \/ q.dashes = 1 \/ q.dashes = 2
  BY <1>3 DEF Finds
<1> QED  BY <1>9, <1>10, <1>11, <1>12

(* opt_argviter_getval() takes v and leaves the elements R. *)
Takes(q, argv, v, R) ==
  LET g == opt_argviter_getval(q, argv)
  IN  g.status = "ok" /\ g.val = v /\ Ahead(argv, g.argi) = R /\ g.dashes = 0

LEMMA TakesOwn ==
  ASSUME NEW T, NEW argv \in Seq(Seq(T)), NEW q \in Iterator(argv, T), q.status = "ok",
         q.eq = TRUE => q.dashes # 1, OwnValue(q)
  PROVE  Takes(q, argv, q.sp, Ahead(argv, q.argi))
<1>1. opt_argviter_getval(q, argv).status = "ok"
  BY ValueThere
<1>2. TakesValue(q, argv)
  BY ValueReads
<1> QED  BY <1>1, <1>2 DEF TakesValue, Takes

LEMMA TakesNext ==
  ASSUME NEW T, NEW argv \in Seq(Seq(T)), NEW q \in Iterator(argv, T), q.status = "ok",
         q.dashes \in 0..2, q.eq = TRUE => q.dashes # 1, ~OwnValue(q),
         NEW v \in Seq(T), NEW R \in Seq(Seq(T)), Ahead(argv, q.argi) = <<v>> \o R,
         q.dashes = 1 => v # <<>>
  PROVE  Takes(q, argv, v, R)
<1> DEFINE g == opt_argviter_getval(q, argv)
           i == q.argi
<1>1. i \in Nat
  BY DEF Iterator
<1>2. Leads(argv, i, v, R)
  <2> HIDE DEF i
  <2>1. T \subseteq T
    OBVIOUS
  <2>2. Ahead(argv, i) = <<v>> \o R
    BY DEF i
  <2> QED  BY <1>1, <2>1, <2>2, NextIs
<1>3. i < Len(argv) /\ argv[i + 1] = v
  BY <1>2 DEF Leads
<1>4. ~LastElement(q, argv)
  BY <1>1, <1>3 DEF LastElement
<1>5. g.status = "ok"
  BY <1>3, <1>4, ValueThere
<1>6. g.dashes = 0 /\ Ahead(argv, i) = <<g.val>> \o Ahead(argv, g.argi)
  <2>1. TakesValue(q, argv)
    BY ValueReads
  <2> QED  BY <1>5, <2>1 DEF TakesValue
<1>7. g \in Iterator(argv, T)
  BY GetVal
<1>8. g.val \in Seq(T) /\ g.argi \in Nat
  BY <1>7 DEF Iterator
<1>9. g.val = v /\ Ahead(argv, g.argi) = R
  <2> DEFINE u == g.val
             A == Ahead(argv, g.argi)
             S == Seq(T)
  <2>1. A \in Seq(S) /\ u \in S /\ v \in S /\ R \in Seq(S)
    BY <1>8, AheadIs
  <2>2. <<u>> \o A = <<v>> \o R
    BY <1>6
  <2> HIDE DEF u, A, S
  <2>3. Head(<<u>> \o A) = u /\ Tail(<<u>> \o A) = A
    BY <2>1, HeadOf
  <2>4. Head(<<v>> \o R) = v /\ Tail(<<v>> \o R) = R
    BY <2>1, HeadOf
  <2> QED  BY <2>2, <2>3, <2>4 DEF u, A
<1> QED  BY <1>5, <1>6, <1>9 DEF Takes

(* The iterator finds the word w where it has b left, and then has a left. *)
ReadAs(w, p, argv, a) ==
  LET q == opt_argviter_getkey(p, argv)
      g == IF opt_conf_has_val(w.conf) THEN opt_argviter_getval(q, argv) ELSE q
  IN  /\ q.status = "ok" /\ g.status = "ok"
      /\ w.conf.positional # 0 => q.dashes = 0 /\ q.name = w.val
      /\ w.conf.positional = 0 => q.dashes # 0 /\ q.name = w.key
      /\ opt_conf_has_val(w.conf) => g.val = w.val
      /\ LeftBy(g, argv, a.last) = a

LEMMA LeftIsThis ==
  ASSUME NEW T, NEW a \in LeftOvers(T), NEW p, NEW argv,
         a.sp = IF p.dashes = 1 THEN p.sp ELSE <<>>, a.rest = Ahead(argv, p.argi)
  PROVE  LeftBy(p, argv, a.last) = a
BY DEF LeftOvers, LeftBy

(* A word that is spelled is the word that is found. *)
LEMMA WordFound ==
  ASSUME NEW T, NEW argv \in Seq(Seq(T)), NEW p \in Iterator(argv, T), p.status = "ok",
         p.dashes \in 0..2, p.dashes = 1 => p.eq = FALSE, NEW last,
         NEW w \in WordsOf(T), NEW a \in LeftOvers(T),
         Spells(w, LeftBy(p, argv, last), a)
  PROVE  ReadAs(w, p, argv, a)
<1> DEFINE q == opt_argviter_getkey(p, argv)
           b == LeftBy(p, argv, last)
           has == opt_conf_has_val(w.conf)
           g == IF has THEN opt_argviter_getval(q, argv) ELSE q
           pos == w.conf.positional
           S == Seq(T)
<1>1. /\ w.key \in S /\ w.val \in S /\ a.sp \in S /\ a.rest \in Seq(S)
  BY DEF WordsOf, LeftOvers
<1>2. q \in Iterator(argv, T) /\ (q.status = "ok" => q.dashes \in 0..2)
  BY GetKey
<1>3. pos # 0 => ~has
  BY DEF opt_conf_has_val
<1>4. \A v \in S, R \in Seq(S) :
        has /\ Takes(q, argv, v, R)
          => g.status = "ok" /\ g.val = v /\ Ahead(argv, g.argi) = R /\ g.dashes = 0
  BY DEF Takes
<1>5. ~has => g = q
  OBVIOUS
<1>6. <<w.val>> \o a.rest \in Seq(S)
  BY <1>1, FirstOf
<1>7. ASSUME q.status = "ok", g.status = "ok",
             pos # 0 => q.dashes = 0 /\ q.name = w.val,
             pos = 0 => q.dashes # 0 /\ q.name = w.key,
             has => g.val = w.val,
             a.sp = IF g.dashes = 1 THEN g.sp ELSE <<>>, a.rest = Ahead(argv, g.argi)
      PROVE  ReadAs(w, p, argv, a)
  <2> HIDE DEF g
  <2>1. LeftBy(g, argv, a.last) = a
    BY <1>7, LeftIsThis
  <2> QED  BY <1>7, <2>1 DEF ReadAs, g
<1>18. b.sp = (IF p.dashes = 1 THEN p.sp ELSE <<>>) /\ b.rest = Ahead(argv, p.argi)
  BY DEF LeftBy
<1> HIDE DEF b
<1>12. ASSUME NEW v \in Seq(T), NEW R \in Seq(Seq(T)), v # <<>>, v[1] # "-",
              b.sp = <<>>, b.rest = <<v>> \o R
       PROVE  q.status = "ok" /\ q.dashes = 0 /\ q.name = v /\ Ahead(argv, q.argi) = R
  <2>1. (p.dashes = 1 => p.sp = <<>>) /\ Ahead(argv, p.argi) = <<v>> \o R
    BY <1>12, <1>18
  <2>2. KeyFound(p, argv, 0, v, FALSE, <<>>, R)
    BY <1>12, <2>1, FindsThePositional
  <2> QED  BY <2>2 DEF KeyFound
<1>13. ASSUME NEW t \in T, NEW L \in Seq(T), NEW R \in Seq(Seq(T)), t \notin Punctuation,
              Joins(<<t>> \o L, R, b)
       PROVE  /\ q.status = "ok" /\ q.dashes = 1 /\ q.name = <<t>> /\ q.sp = L /\ q.eq = FALSE
              /\ Ahead(argv, q.argi) = R
  <2>1. \/ p.dashes = 1 /\ p.sp = <<t>> \o L /\ Ahead(argv, p.argi) = R
        \/ /\ p.dashes = 1 => p.sp = <<>>
           /\ Ahead(argv, p.argi) = <<<<"-">> \o (<<t>> \o L)>> \o R
    <3>1. <<t>> \o L # <<>>
      BY FirstOf
    <3> QED  BY <1>13, <1>18, <3>1 DEF Joins
  <2>2. KeyFound(p, argv, 1, <<t>>, FALSE, L, R)
    BY <1>13, <2>1, FindsTheLetter
  <2> QED  BY <2>2 DEF KeyFound
<1>14. ASSUME NEW k \in Seq(T), NEW R \in Seq(Seq(T)), k # <<>>, k[1] # "-", "=" \notin ToSet(k),
              b.sp = <<>>, b.rest = <<<<"-", "-">> \o k>> \o R
       PROVE  /\ q.status = "ok" /\ q.dashes = 2 /\ q.name = k /\ q.eq = FALSE
              /\ Ahead(argv, q.argi) = R
  <2>1. (p.dashes = 1 => p.sp = <<>>) /\ Ahead(argv, p.argi) = <<<<"-", "-">> \o k>> \o R
    BY <1>14, <1>18
  <2>2. KeyFound(p, argv, 2, k, FALSE, <<>>, R)
    BY <1>14, <2>1, FindsTheLong
  <2> QED  BY <2>2 DEF KeyFound
<1>15. ASSUME NEW k \in Seq(T), NEW v \in Seq(T), NEW R \in Seq(Seq(T)), k # <<>>, k[1] # "-",
              "=" \notin ToSet(k),
              b.sp = <<>>, b.rest = <<<<"-", "-">> \o k \o <<"=">> \o v>> \o R
       PROVE  /\ q.status = "ok" /\ q.dashes = 2 /\ q.name = k /\ q.eq = TRUE /\ q.sp = v
              /\ Ahead(argv, q.argi) = R
  <2>1. /\ p.dashes = 1 => p.sp = <<>>
        /\ Ahead(argv, p.argi) = <<<<"-", "-">> \o k \o <<"=">> \o v>> \o R
    BY <1>15, <1>18
  <2>2. KeyFound(p, argv, 2, k, TRUE, v, R)
    BY <1>15, <2>1, FindsTheLongWithEq
  <2> QED  BY <2>2 DEF KeyFound
<1>16. ASSUME OwnValue(q), q.status = "ok", q.eq = TRUE => q.dashes # 1
       PROVE  Takes(q, argv, q.sp, Ahead(argv, q.argi))
  BY <1>2, <1>16, TakesOwn
<1>17. ASSUME NEW v \in Seq(T), NEW R \in Seq(Seq(T)), ~OwnValue(q), q.status = "ok",
              q.dashes \in 0..2, q.eq = TRUE => q.dashes # 1, q.dashes = 1 => v # <<>>,
              Ahead(argv, q.argi) = <<v>> \o R
       PROVE  Takes(q, argv, v, R)
  BY <1>2, <1>17, TakesNext
<1> HIDE DEF q
<1>8. CASE pos # 0
  <2>1. /\ b.sp = <<>> /\ a.sp = <<>> /\ w.val # <<>> /\ w.val[1] # "-"
        /\ b.rest = <<w.val>> \o a.rest
    BY <1>8 DEF Spells, SpellsPositional, b
  <2>2. q.status = "ok" /\ q.dashes = 0 /\ q.name = w.val /\ Ahead(argv, q.argi) = a.rest
    BY <1>1, <1>12, <2>1
  <2>3. g = q
    BY <1>3, <1>8
  <2> HIDE DEF g
  <2> QED  BY <1>3, <1>7, <1>8, <2>1, <2>2, <2>3
<1>9. CASE pos = 0 /\ SpellsLong(w, b, a)
  <2> DEFINE long == <<"-", "-">> \o w.key
  <2>1. /\ b.sp = <<>> /\ a.sp = <<>>
        /\ w.key # <<>> /\ w.key[1] # "-" /\ "=" \notin ToSet(w.key)
        /\ \/ b.rest = <<long \o <<"=">> \o w.val>> \o a.rest
           \/ has /\ b.rest = <<long>> \o (<<w.val>> \o a.rest)
           \/ ~has /\ b.rest = <<long>> \o a.rest
    BY <1>9 DEF SpellsLong
  <2>2. CASE b.rest = <<long \o <<"=">> \o w.val>> \o a.rest
    <3>1. /\ q.status = "ok" /\ q.dashes = 2 /\ q.name = w.key /\ q.eq = TRUE /\ q.sp = w.val
          /\ Ahead(argv, q.argi) = a.rest
      BY <1>1, <1>15, <2>1, <2>2
    <3>2. Takes(q, argv, w.val, a.rest)
      <4>1. OwnValue(q)
        BY <3>1 DEF OwnValue
      <4>2. Takes(q, argv, q.sp, Ahead(argv, q.argi))
        BY <1>16, <3>1, <4>1
      <4> QED  BY <3>1, <4>2
    <3>3. /\ g.status = "ok" /\ (has => g.val = w.val)
          /\ a.sp = (IF g.dashes = 1 THEN g.sp ELSE <<>>) /\ a.rest = Ahead(argv, g.argi)
      <4>1. CASE has
        BY <1>1, <1>4, <2>1, <3>2, <4>1
      <4>2. CASE ~has
        BY <1>5, <2>1, <3>1, <4>2
      <4> QED  BY <4>1, <4>2
    <3> HIDE DEF g
    <3> QED  BY <1>7, <1>9, <3>1, <3>3
  <2>3. CASE has /\ b.rest = <<long>> \o (<<w.val>> \o a.rest)
    <3> DEFINE R == <<w.val>> \o a.rest
    <3>1. R \in Seq(S)
      BY <1>6
    <3>2. b.rest = <<long>> \o R
      BY <2>3
    <3> HIDE DEF R
    <3>3. /\ q.status = "ok" /\ q.dashes = 2 /\ q.name = w.key /\ q.eq = FALSE
          /\ Ahead(argv, q.argi) = R
      BY <1>1, <1>14, <2>1, <3>1, <3>2
    <3>4. Takes(q, argv, w.val, a.rest)
      <4>1. ~OwnValue(q)
        BY <3>3 DEF OwnValue
      <4>2. Ahead(argv, q.argi) = <<w.val>> \o a.rest
        BY <3>3 DEF R
      <4>3. w.val \in Seq(T) /\ a.rest \in Seq(Seq(T))
        BY <1>1
      <4> HIDE DEF S, R
      <4>6. q.status = "ok" /\ q.dashes \in 0..2
        BY <1>2, <3>3
      <4>7. q.dashes # 1
        BY <3>3
      <4>8. q.eq # TRUE
        BY <3>3
      <4>5. q.status = "ok" /\ q.dashes \in 0..2 /\ q.dashes # 1 /\ q.eq # TRUE
        BY <4>6, <4>7, <4>8
      <4> QED  BY <1>17, <4>1, <4>2, <4>3, <4>5
    <3>5. /\ g.status = "ok" /\ g.val = w.val
          /\ a.sp = (IF g.dashes = 1 THEN g.sp ELSE <<>>) /\ a.rest = Ahead(argv, g.argi)
      BY <1>1, <1>4, <2>1, <2>3, <3>4
    <3> HIDE DEF g
    <3> QED  BY <1>7, <1>9, <3>3, <3>5
  <2>4. CASE ~has /\ b.rest = <<long>> \o a.rest
    <3>1. /\ q.status = "ok" /\ q.dashes = 2 /\ q.name = w.key /\ q.eq = FALSE
          /\ Ahead(argv, q.argi) = a.rest
      BY <1>1, <1>14, <2>1, <2>4
    <3>2. g = q
      BY <1>5, <2>4
    <3> HIDE DEF g
    <3> QED  BY <1>7, <1>9, <2>1, <2>4, <3>1, <3>2
  <2> QED  BY <2>1, <2>2, <2>3, <2>4
<1>10. CASE pos = 0 /\ SpellsShort(w, b, a)
  <2> DEFINE t == w.key[1]
  <2>1. t \in T /\ w.key = <<t>> /\ t \notin Punctuation
    BY <1>1, <1>10 DEF SpellsShort
  <2> HIDE DEF t
  <2>2. ASSUME NEW L \in S, NEW R \in Seq(S), Joins(w.key \o L, R, b)
        PROVE  /\ q.status = "ok" /\ q.dashes = 1 /\ q.name = w.key /\ q.sp = L /\ q.eq = FALSE
               /\ Ahead(argv, q.argi) = R
    <3>1. Joins(<<t>> \o L, R, b)
      BY <2>1, <2>2
    <3> QED  BY <1>13, <2>1, <2>2, <3>1
  <2>3. \/ ~has /\ Joins(w.key \o a.sp, a.rest, b)
        \/ has /\ a.sp = <<>> /\ w.val # <<>> /\ Joins(w.key \o w.val, a.rest, b)
        \/ has /\ a.sp = <<>> /\ w.val # <<>> /\ Joins(w.key, <<w.val>> \o a.rest, b)
    BY <1>10 DEF SpellsShort
  <2>4. CASE ~has /\ Joins(w.key \o a.sp, a.rest, b)
    <3>1. q.status = "ok" /\ q.dashes = 1 /\ q.name = w.key /\ q.sp = a.sp
          /\ Ahead(argv, q.argi) = a.rest
      BY <1>1, <2>2, <2>4
    <3>2. g = q
      BY <1>5, <2>4
    <3> HIDE DEF g
    <3> QED  BY <1>7, <1>10, <2>4, <3>1, <3>2
  <2>5. CASE has /\ a.sp = <<>> /\ w.val # <<>> /\ Joins(w.key \o w.val, a.rest, b)
    <3>1. q.status = "ok" /\ q.dashes = 1 /\ q.name = w.key /\ q.sp = w.val /\ q.eq = FALSE
          /\ Ahead(argv, q.argi) = a.rest
      BY <1>1, <2>2, <2>5
    <3>2. Takes(q, argv, w.val, a.rest)
      <4>1. OwnValue(q)
        BY <2>5, <3>1 DEF OwnValue
      <4>2. Takes(q, argv, q.sp, Ahead(argv, q.argi))
        BY <1>16, <3>1, <4>1
      <4> QED  BY <3>1, <4>2
    <3>5. /\ g.status = "ok" /\ g.val = w.val
          /\ a.sp = (IF g.dashes = 1 THEN g.sp ELSE <<>>) /\ a.rest = Ahead(argv, g.argi)
      BY <1>1, <1>4, <2>5, <3>2
    <3> HIDE DEF g
    <3> QED  BY <1>7, <1>10, <3>1, <3>5
  <2>6. CASE has /\ a.sp = <<>> /\ w.val # <<>> /\ Joins(w.key, <<w.val>> \o a.rest, b)
    <3> DEFINE R == <<w.val>> \o a.rest
    <3>1. R \in Seq(S) /\ <<>> \in S
      BY <1>6
    <3>2. Joins(w.key \o <<>>, R, b)
      <4>1. w.key \o <<>> = w.key
        BY <1>1
      <4> QED  BY <2>6, <4>1
    <3> HIDE DEF R
    <3>3. /\ q.status = "ok" /\ q.dashes = 1 /\ q.name = w.key /\ q.eq = FALSE /\ q.sp = <<>>
          /\ Ahead(argv, q.argi) = R
      BY <2>2, <3>1, <3>2
    <3>4. Takes(q, argv, w.val, a.rest)
      <4>1. ~OwnValue(q)
        BY <3>3 DEF OwnValue
      <4>2. Ahead(argv, q.argi) = <<w.val>> \o a.rest
        BY <3>3 DEF R
      <4>3. w.val \in Seq(T) /\ a.rest \in Seq(Seq(T))
        BY <1>1
      <4>4. \A n : n = 1 \/ n = 2 => n \in 0..2
        OBVIOUS
      <4> HIDE DEF S, R
      <4>5. q.status = "ok" /\ q.dashes \in 0..2 /\ w.val # <<>> /\ q.eq # TRUE
        BY <2>6, <3>3, <4>4
      <4> QED  BY <1>17, <4>1, <4>2, <4>3, <4>5
    <3>5. /\ g.status = "ok" /\ g.val = w.val
          /\ a.sp = (IF g.dashes = 1 THEN g.sp ELSE <<>>) /\ a.rest = Ahead(argv, g.argi)
      BY <1>1, <1>4, <2>6, <3>4
    <3> HIDE DEF g
    <3> QED  BY <1>7, <1>10, <3>3, <3>5
  <2> QED  BY <2>3, <2>4, <2>5, <2>6
<1>11. pos = 0 => SpellsLong(w, b, a) \/ SpellsShort(w, b, a)
  BY DEF Spells, b
<1> QED  BY <1>8, <1>9, <1>10, <1>11

-----------------------------------------------------------------------------
(* The positional options.                                                 *)

First == Positional(1, "devname")
Second == Positional(2, "baud_dps")

(* These two, and no others, are positional.                               *)
NoOthers(t) == \A i \in DOMAIN t : t[i].positional = 0 \/ t[i] = First \/ t[i] = Second

LEMMA NoOtherPositionals ==
  \A conf \in Confs : conf.positional = 0 \/ conf = First \/ conf = Second
<1> USE DEF NoOthers, Opt
<1>1. NoOthers(main_opts_conf)
  BY DEF main_opts_conf
<1>2. NoOthers(charmap_opts_conf)
  BY DEF charmap_opts_conf
<1>3. NoOthers(cmd_opts_conf)
  BY DEF cmd_opts_conf
<1>4. NoOthers(ctohex_opts_conf)
  BY DEF ctohex_opts_conf
<1>5. NoOthers(eol_opts_conf)
  BY DEF eol_opts_conf
<1>6. NoOthers(log_opts_conf)
  BY DEF log_opts_conf
<1>7. NoOthers(outfmt_opts_conf)
  BY DEF outfmt_opts_conf
<1>8. NoOthers(port_opts_conf)
  BY DEF port_opts_conf, First, Second, Positional
<1>9. NoOthers(shell_opts_conf)
  BY DEF shell_opts_conf
<1>10. NoOthers(sh_cooked_opts_conf)
  BY DEF sh_cooked_opts_conf
<1>11. NoOthers(keybind_opts_conf)
  BY DEF keybind_opts_conf
<1>12. NoOthers(timeout_opts_conf)
  BY DEF timeout_opts_conf
<1> HIDE DEF NoOthers
<1>13. \A s \in DOMAIN Tables : NoOthers(Tables[s])
  BY <1>1, <1>2, <1>3, <1>4, <1>5, <1>6, <1>7, <1>8, <1>9, <1>10, <1>11, <1>12 DEF Tables
<1> QED  BY <1>13 DEF Confs, NoOthers, ToSet

(* The place where a table is, in the row of all options.                  *)
PlacedAt(a, t, o) ==
  o \in Nat /\ o + Len(t) <= Len(a) /\ \A i \in 1..Len(t) : a[o + i] = t[i]

LEMMA TablePlace ==
  ASSUME NEW S, NEW ss \in Seq(Seq(S)), NEW m \in 1..Len(ss)
  PROVE  \E o : PlacedAt(FlattenSeq(ss), ss[m], o)
<1> DEFINE V == Seq(S)
           front == SubSeq(ss, 1, m - 1)
           head == SubSeq(ss, 1, m)
           rest == SubSeq(ss, m + 1, Len(ss))
           F == FlattenSeq(front)
           R == FlattenSeq(rest)
           t == ss[m]
<1>1. /\ front \in Seq(V) /\ head \in Seq(V) /\ rest \in Seq(V) /\ t \in V
      /\ head = Append(front, t) /\ head \o rest = ss
  <2> HIDE DEF V
  <2>1. ss \in Seq(V) /\ m \in 0..Len(ss) /\ m - 1 \in 0..Len(ss)
    BY DEF V
  <2>2. head \in Seq(V) /\ Len(head) = m /\ rest \in Seq(V) /\ head \o rest = ss
    BY <2>1, SplitSeq
  <2>3. front \in Seq(V) /\ Len(front) = m - 1 /\ t \in V
    BY <2>1
  <2>4. Append(front, t) \in Seq(V) /\ Len(Append(front, t)) = m
    BY <2>1, <2>3
  <2>5. \A k \in 1..Len(head) : head[k] = Append(front, t)[k]
    BY <2>1, <2>2, <2>3
  <2>6. head = Append(front, t)
    <3> HIDE DEF head, front, t
    <3> QED  BY <2>2, <2>4, <2>5, SameElements
  <2> QED  BY <2>2, <2>3, <2>6
<1> HIDE DEF front, head, rest, t
<1>2. F \in V /\ R \in V
  BY <1>1, FlattenType
<1>3. FlattenSeq(head) = F \o t
  BY <1>1, FlattenAppend
<1>4. FlattenSeq(ss) = (F \o t) \o R
  BY <1>1, <1>3, FlattenCat
<1> HIDE DEF F, R
<1> DEFINE c == F \o t
<1>5. /\ c \in V /\ Len(c) = Len(F) + Len(t) /\ \A k \in 1..Len(t) : c[Len(F) + k] = t[k]
  BY <1>1, <1>2, CatProperties
<1> HIDE DEF c
<1>12. c \in Seq(S) /\ R \in Seq(S)
  BY <1>2, <1>5
<1>6. /\ Len(c \o R) = Len(c) + Len(R) /\ \A k \in 1..Len(c) : (c \o R)[k] = c[k]
  BY <1>12, CatProperties
<1>7. Len(F) \in Nat /\ Len(t) \in Nat /\ Len(R) \in Nat
  BY <1>1, <1>2
<1> DEFINE x == c \o R
<1>8. FlattenSeq(ss) = x
  BY <1>4 DEF c
<1> HIDE DEF x
<1>9. Len(F) + Len(t) <= Len(x)
  BY <1>5, <1>6, <1>7 DEF x
<1>10. ASSUME NEW i \in 1..Len(t) PROVE x[Len(F) + i] = t[i]
  <2>1. Len(F) + i \in 1..Len(c)
    BY <1>5, <1>7
  <2> QED  BY <1>5, <1>6, <2>1 DEF x
<1>11. PlacedAt(x, t, Len(F))
  BY <1>7, <1>9, <1>10 DEF PlacedAt
<1> QED  BY <1>8, <1>11 DEF t

(* The first positional comes right before the second, and once.           *)
PositionalsAt(a, o) ==
  /\ o \in Nat /\ o + 2 <= Len(a) /\ a[o + 1] = First /\ a[o + 2] = Second
  /\ \A i \in 1..Len(a) : i # o + 1 /\ i # o + 2 => a[i].positional = 0

LEMMA PositionalsAre == \A order \in Orders : \E o : PositionalsAt(AllConfs(order), o)
<1> SUFFICES ASSUME NEW order \in Orders PROVE \E o : PositionalsAt(AllConfs(order), o)
  OBVIOUS
<1> DEFINE ss == [i \in DOMAIN order |-> Tables[order[i]]]
           D == DOMAIN Tables
           a == AllConfs(order)
<1>1. order \in Seq(D) /\ "port_opts" \in ToSet(order)
  <2>1. "port_opts" \in D
    BY DEF Tables
  <2> QED  BY <2>1, OptionsAssumption
<1>2. a \in Seq(Confs) /\ Distinct(a)
  BY AllConfsAre
<1>3. \A s \in D : Tables[s] \in Seq(Confs)
  <2> SUFFICES ASSUME NEW s \in D PROVE Tables[s] \in Seq(Confs)
    OBVIOUS
  <2> DEFINE t == Tables[s]
  <2>1. t \in Seq(ToSet(t))
    BY TablesOK DEF TableOK
  <2>2. ToSet(t) \subseteq Confs
    BY DEF Confs
  <2> HIDE DEF t
  <2>3. t \in Seq(Confs)
    BY <2>1, <2>2
  <2> QED  BY <2>3 DEF t
<1>4. Tables["port_opts"] = port_opts_conf
  BY DEF Tables
<1>5. Len(port_opts_conf) = 11 /\ port_opts_conf[1] = First /\ port_opts_conf[2] = Second
  BY DEF port_opts_conf, First, Second
<1>6. First.positional = 1 /\ Second.positional = 2
  BY DEF First, Second, Positional
<1> HIDE DEF D
<1>7. Len(order) \in Nat /\ DOMAIN order = 1..Len(order) /\ \A i \in 1..Len(order) : order[i] \in D
  BY <1>1
<1>8. ss \in Seq(Seq(Confs)) /\ Len(ss) = Len(order)
      /\ \A i \in 1..Len(order) : ss[i] = Tables[order[i]]
  <2>1. \A i \in 1..Len(order) : Tables[order[i]] \in Seq(Confs)
    BY <1>3, <1>7
  <2> QED  BY <1>7, <2>1
<1>9. PICK m \in 1..Len(order) : order[m] = "port_opts"
  BY <1>1, <1>7 DEF ToSet
<1>10. a = FlattenSeq(ss)
  BY DEF AllConfs
<1> HIDE DEF ss, a
<1>11. ss[m] = port_opts_conf /\ m \in 1..Len(ss)
  BY <1>4, <1>8, <1>9
<1>12. PICK o : PlacedAt(a, port_opts_conf, o)
  <2>1. \E o : PlacedAt(FlattenSeq(ss), ss[m], o)
    BY <1>8, <1>11, TablePlace
  <2> QED  BY <1>10, <1>11, <2>1
<1>13. o \in Nat /\ o + 11 <= Len(a) /\ Len(a) \in Nat
  BY <1>2, <1>5, <1>12 DEF PlacedAt
<1>14. a[o + 1] = First /\ a[o + 2] = Second
  <2>1. 1 \in 1..Len(port_opts_conf) /\ 2 \in 1..Len(port_opts_conf)
    BY <1>5
  <2> QED  BY <1>5, <1>12, <2>1 DEF PlacedAt
<1>15. ASSUME NEW i \in 1..Len(a), i # o + 1, i # o + 2 PROVE a[i].positional = 0
  <2>1. o + 1 \in 1..Len(a) /\ o + 2 \in 1..Len(a)
    BY <1>13
  <2>2. DOMAIN a = 1..Len(a) /\ a[i] \in Confs
    BY <1>2
  <2>3. a[i] # First /\ a[i] # Second
    BY <1>2, <1>14, <1>15, <2>1, <2>2 DEF Distinct
  <2> QED  BY <2>2, <2>3, NoOtherPositionals
<1>16. o + 2 <= Len(a)
  BY <1>13
<1>17. PositionalsAt(a, o)
  BY <1>13, <1>14, <1>15, <1>16 DEF PositionalsAt
<1> QED  BY <1>17 DEF a

-----------------------------------------------------------------------------
(* What reading a command line rests on.                                   *)

(* The positional options come in the order of their numbers: those that   *)
(* are listed, and those still to be added.                                *)
Numbered(todos, listed) ==
  /\ \A i \in 1..Len(listed) : listed[i].positional = i
  /\ \A i \in 1..Len(todos) :
       todos[i].positional # 0 /\ (\A j \in 1..(i - 1) : todos[j].positional = 0)
         => todos[i].positional = Len(listed) + 1
  /\ \A i, j \in 1..Len(todos) :
       i < j /\ todos[i].positional # 0 /\ todos[j].positional # 0
         => todos[j].positional = todos[i].positional + 1

(* Every name of an option that was added stands for it. *)
NamesInv ==
  stage \in {"init", "args"} =>
    \A conf \in Confs : \A n \in ToSet(conf.names) :
      conf \in ToSet(todo) \/ (n \in DOMAIN btree.node /\ btree.node[n].data = conf)

(* What reading a command line rests on. *)
WordsInv ==
  /\ NamesInv /\ Numbered(todo, positionals.conf)
  /\ stage = "init" => itr = opt_argviter_init
  /\ stage = "args" => (itr.dashes = 1 => itr.eq = FALSE)

LEMMA NumberedFirst ==
  ASSUME NEW a, NEW o, PositionalsAt(a, o), Len(a) \in Nat
  PROVE  Numbered(a, <<>>)
<1>1. First.positional = 1 /\ Second.positional = 2
  BY DEF First, Second, Positional
<1>2. o \in Nat /\ o + 2 <= Len(a) /\ a[o + 1].positional = 1 /\ a[o + 2].positional = 2
  BY <1>1 DEF PositionalsAt
<1>3. \A i \in 1..Len(a) : a[i].positional # 0 => i = o + 1 \/ i = o + 2
  BY DEF PositionalsAt
<1> DEFINE p(i) == a[i].positional
<1>4. /\ \A i \in 1..Len(a) : p(i) # 0 => i = o + 1 \/ i = o + 2
      /\ p(o + 1) = 1 /\ p(o + 2) = 2
  BY <1>2, <1>3
<1> HIDE DEF p
<1>5. ASSUME NEW i \in 1..Len(a), p(i) # 0, \A j \in 1..(i - 1) : p(j) = 0
      PROVE  p(i) = 1
  <2>1. CASE i = o + 1
    BY <1>4, <2>1
  <2>2. CASE i = o + 2
    <3>1. o + 1 \in 1..(i - 1)
      BY <1>2, <2>2
    <3> QED  BY <1>4, <1>5, <3>1
  <2> QED  BY <1>4, <1>5, <2>1, <2>2
<1>6. ASSUME NEW i \in 1..Len(a), NEW j \in 1..Len(a), i < j, p(i) # 0, p(j) # 0
      PROVE  p(j) = p(i) + 1
  <2>1. i = o + 1 /\ j = o + 2
    BY <1>2, <1>4, <1>6
  <2> QED  BY <1>4, <2>1
<1>7. Len(<<>>) = 0
  OBVIOUS
<1> QED  BY <1>5, <1>6, <1>7 DEF Numbered, p

(* The next option is added to the list when it is positional.             *)
LEMMA NumberedTail ==
  ASSUME NEW S, NEW todos \in Seq(S), NEW listed \in Seq(S), todos # <<>>, Numbered(todos, listed)
  PROVE  LET conf == Head(todos)
             now == IF conf.positional = 0 THEN listed ELSE Append(listed, conf)
         IN  Numbered(Tail(todos), now)
<1> DEFINE conf == Head(todos)
           now == IF conf.positional = 0 THEN listed ELSE Append(listed, conf)
           rest == Tail(todos)
           L == Len(listed)
           N == Len(todos)
           p(i) == todos[i].positional
<1>1. /\ L \in Nat /\ N \in Nat \ {0} /\ Len(rest) = N - 1 /\ conf = todos[1]
      /\ \A i \in 1..(N - 1) : rest[i] = todos[i + 1]
  OBVIOUS
<1>2. /\ \A i \in 1..N : p(i) # 0 /\ (\A j \in 1..(i - 1) : p(j) = 0) => p(i) = L + 1
      /\ \A i, j \in 1..N : i < j /\ p(i) # 0 /\ p(j) # 0 => p(j) = p(i) + 1
      /\ \A i \in 1..L : listed[i].positional = i
  BY DEF Numbered
<1>3. conf.positional = p(1) /\ \A i \in 1..(N - 1) : rest[i].positional = p(i + 1)
  BY <1>1
<1>4. p(1) # 0 => p(1) = L + 1
  <2>1. \A j \in 1..(1 - 1) : p(j) = 0
    OBVIOUS
  <2> QED  BY <1>1, <1>2, <2>1
<1>5. IF p(1) = 0 THEN now = listed
      ELSE Len(now) = L + 1 /\ now[L + 1] = conf /\ \A i \in 1..L : now[i] = listed[i]
  <2>1. conf \in S
    BY <1>1
  <2>2. LET a == Append(listed, conf)
        IN  Len(a) = L + 1 /\ a[L + 1] = conf /\ \A i \in 1..L : a[i] = listed[i]
    BY <2>1
  <2> QED  BY <1>3, <2>2
<1> HIDE DEF conf, now, rest, L, N, p
<1>6. ASSUME NEW i \in 1..Len(now) PROVE now[i].positional = i
  <2>1. CASE p(1) = 0
    BY <1>2, <1>5, <1>6, <2>1 DEF L
  <2>2. CASE p(1) # 0
    <3>1. i \in 1..L \/ i = L + 1
      BY <1>1, <1>5, <1>6, <2>2
    <3> QED  BY <1>2, <1>3, <1>4, <1>5, <2>2, <3>1
  <2> QED  BY <2>1, <2>2
<1>7. ASSUME NEW i \in 1..Len(rest), rest[i].positional # 0,
             \A j \in 1..(i - 1) : rest[j].positional = 0
      PROVE  rest[i].positional = Len(now) + 1
  <2>1. i \in 1..(N - 1) /\ i + 1 \in 1..N /\ 1 \in 1..N /\ 1 < i + 1
    BY <1>1
  <2>2. p(i + 1) # 0 /\ rest[i].positional = p(i + 1)
    BY <1>3, <1>7, <2>1
  <2>3. CASE p(1) = 0
    <3>1. ASSUME NEW j \in 1..i PROVE p(j) = 0
      <4>1. CASE j = 1
        BY <2>3, <4>1
      <4>2. CASE j # 1
        <5>1. j - 1 \in 1..(i - 1) /\ j - 1 \in 1..(N - 1) /\ (j - 1) + 1 = j
          BY <1>1, <2>1, <4>2
        <5> QED  BY <1>3, <1>7, <5>1
      <4> QED  BY <4>1, <4>2
    <3>2. (i + 1) - 1 = i
      BY <2>1
    <3>3. p(i + 1) = L + 1
      BY <1>2, <2>1, <2>2, <3>1, <3>2
    <3> QED  BY <1>5, <2>2, <2>3, <3>3 DEF L
  <2>4. CASE p(1) # 0
    <3>1. p(i + 1) = p(1) + 1
      BY <1>2, <2>1, <2>2, <2>4
    <3> QED  BY <1>4, <1>5, <2>2, <2>4, <3>1
  <2> QED  BY <2>3, <2>4
<1>8. ASSUME NEW i \in 1..Len(rest), NEW j \in 1..Len(rest), i < j,
             rest[i].positional # 0, rest[j].positional # 0
      PROVE  rest[j].positional = rest[i].positional + 1
  <2>1. /\ i \in 1..(N - 1) /\ j \in 1..(N - 1) /\ i + 1 \in 1..N /\ j + 1 \in 1..N
        /\ i + 1 < j + 1
    BY <1>1, <1>8
  <2> QED  BY <1>2, <1>3, <1>8, <2>1
<1>9. Numbered(rest, now)
  BY <1>6, <1>7, <1>8 DEF Numbered
<1> QED  BY <1>9 DEF rest, now, conf

(* The positional that comes next has the next number. *)
LEMMA NextNumber ==
  ASSUME PositionalsInv, WordsInv, opt_lookup_next_positional # NoConf
  PROVE  /\ opt_lookup_next_positional.positional = positionals.last + 1
         /\ positionals.last + 1 \in 1..Len(positionals.conf)
         /\ opt_lookup_next_positional = positionals.conf[positionals.last + 1]
<1> DEFINE s == positionals.conf
           l == positionals.last
           later == {i \in DOMAIN s : s[i].positional > l}
           next == CHOOSE i \in later : \A j \in later : i <= j
<1>1. s \in Seq(Confs) /\ l \in Nat /\ l <= Len(s) /\ \A i \in 1..Len(s) : s[i].positional = i
  BY DEF PositionalsInv, WordsInv, Numbered
<1>2. later # {} /\ opt_lookup_next_positional = s[next]
  BY DEF opt_lookup_next_positional
<1> HIDE DEF s, l
<1>3. DOMAIN s = 1..Len(s) /\ Len(s) \in Nat
  BY <1>1
<1>4. later = (l + 1)..Len(s)
  BY <1>1, <1>3
<1> HIDE DEF later
<1>5. l + 1 \in later /\ \A j \in later : l + 1 <= j
  BY <1>1, <1>2, <1>3, <1>4
<1>6. next \in later /\ \A j \in later : next <= j
  BY <1>5
<1> HIDE DEF next
<1>7. next = l + 1
  BY <1>1, <1>3, <1>4, <1>5, <1>6
<1>8. next \in 1..Len(s)
  BY <1>1, <1>3, <1>4, <1>6
<1> QED  BY <1>1, <1>2, <1>7, <1>8 DEF s, l

LEMMA WordsInit == Init => WordsInv
<1> SUFFICES ASSUME Init PROVE WordsInv
  OBVIOUS
<1> DEFINE a == AllConfs(sections)
<1>1. /\ sections \in Orders /\ todo = a /\ positionals.conf = <<>> /\ stage \in {"init", "failed"}
      /\ itr = opt_argviter_init
  BY DEF Init
<1>2. a \in Seq(Confs) /\ \A conf \in Confs : conf \in ToSet(a)
  BY <1>1, AllConfsAre
<1>3. PICK o : PositionalsAt(a, o)
  BY <1>1, PositionalsAre
<1> HIDE DEF a
<1>4. Len(a) \in Nat
  BY <1>2
<1>5. Numbered(a, <<>>)
  BY <1>3, <1>4, NumberedFirst
<1>6. NamesInv
  BY <1>1, <1>2 DEF NamesInv
<1> QED  BY <1>1, <1>5, <1>6 DEF WordsInv

LEMMA WordsAdd ==
  ASSUME Inv, WordsInv, opt_init_cb_addtobtree
  PROVE  WordsInv'
<1> DEFINE conf == Head(todo)
           new == ToSet(conf.names)
           D == DOMAIN btree.node
<1>1. /\ stage = "init" /\ todo # <<>> /\ todo' = Tail(todo) /\ itr' = itr
      /\ stage' = (IF new \cap D # {} THEN "failed" ELSE stage)
      /\ btree' = add_names(btree, conf)
      /\ positionals' = IF conf.positional = 0 THEN positionals
                        ELSE [positionals EXCEPT !.conf = Append(@, conf)]
  BY DEF opt_init_cb_addtobtree
<1>2. /\ todo \in Seq(Confs) /\ Distinct(todo) /\ Tree(btree, Names, Confs)
      /\ positionals \in [conf : Seq(Confs), last : Nat]
  BY DEF Inv, TreeInv, PositionalsInv
<1>3. conf \in Confs /\ ToSet(todo) = ToSet(todo') \cup {conf}
  <2> DEFINE s == todo
  <2>1. s \in Seq(Confs) /\ Distinct(s) /\ s # <<>> /\ todo' = Tail(s)
    BY <1>1, <1>2
  <2> HIDE DEF s
  <2>2. Head(s) \in Confs /\ ToSet(s) = ToSet(Tail(s)) \cup {Head(s)}
    BY <2>1, HeadAndTail
  <2> QED  BY <2>1, <2>2 DEF s
<1>4. Numbered(todo, positionals.conf)'
  <2> DEFINE s == todo
             t == positionals.conf
             now == IF conf.positional = 0 THEN t ELSE Append(t, conf)
  <2>1. s \in Seq(Confs) /\ t \in Seq(Confs) /\ s # <<>> /\ Numbered(s, t)
    BY <1>1, <1>2 DEF WordsInv
  <2>2. positionals.conf' = now
    BY <1>1, <1>2
  <2>3. LET c == Head(s)
            n == IF c.positional = 0 THEN t ELSE Append(t, c)
        IN  Numbered(Tail(s), n)
    <3> HIDE DEF s, t
    <3> QED  BY <2>1, NumberedTail
  <2>4. Numbered(Tail(s), now)
    BY <2>3
  <2> QED  BY <1>1, <2>2, <2>4
<1> HIDE DEF conf
<1>5. NamesInv'
  <2>1. SUFFICES ASSUME stage' = "init", NEW c \in Confs, NEW n \in ToSet(c.names),
                        c \notin ToSet(todo')
                 PROVE  n \in DOMAIN btree'.node /\ btree'.node[n].data = c
    BY <1>1 DEF NamesInv
  <2>2. new \cap D = {}
    BY <1>1, <2>1
  <2> DEFINE bt == btree
             t == add_names(bt, conf)
  <2>3. Tree(bt, Names, Confs) /\ conf.names \in Seq(Names)
    BY <1>2, <1>3, ConfNames DEF Names
  <2>4. bt = btree /\ btree' = t
    BY <1>1
  <2> HIDE DEF bt, new
  <2>5. /\ DOMAIN t.node = DOMAIN bt.node \cup ToSet(conf.names)
        /\ \A m \in ToSet(conf.names) \ DOMAIN bt.node : t.node[m].data = conf
        /\ \A m \in DOMAIN bt.node : t.node[m].data = bt.node[m].data
    BY <1>3, <2>3, AddNames
  <2> HIDE DEF t
  <2>6. CASE c = conf
    BY <2>1, <2>2, <2>4, <2>5, <2>6 DEF new
  <2>7. CASE c # conf
    <3>1. c \notin ToSet(todo)
      BY <1>3, <2>1, <2>7
    <3>2. n \in DOMAIN btree.node /\ btree.node[n].data = c
      BY <1>1, <3>1 DEF WordsInv, NamesInv
    <3> QED  BY <2>4, <2>5, <3>2
  <2> QED  BY <2>6, <2>7
<1>6. stage' \in {"init", "failed"} /\ itr' = opt_argviter_init
  BY <1>1 DEF WordsInv
<1> QED  BY <1>4, <1>5, <1>6 DEF WordsInv

(* What the iterator has found, with what it has left. *)
LEMMA KeyFinds ==
  ASSUME Inv, WordsInv, stage = "args"
  PROVE  /\ Key.status = "DONE" <=> NothingLeft(LeftBy(itr, line.argv, positionals.last))
         /\ Key.status = "ok" =>
              Finds(Key, line.argv, LeftBy(itr, line.argv, positionals.last))
<1> DEFINE argv == line.argv
           T == TokensOf(argv)
           p == itr
           last == positionals.last
<1>1. /\ argv \in Seq(Seq(T)) /\ p \in Iterator(argv, T) /\ p.status = "ok"
      /\ p.dashes = 1 => p.eq = FALSE
  BY DEF Inv, IteratorInv, WordsInv
<1> HIDE DEF argv, T, p, last
<1>2. LET q == opt_argviter_getkey(p, argv)
          b == LeftBy(p, argv, last)
      IN  (q.status = "DONE" <=> NothingLeft(b)) /\ (q.status = "ok" => Finds(q, argv, b))
  BY <1>1, KeyReads
<1> QED  BY <1>2 DEF Key, argv, p, last

LEMMA WordsParse ==
  ASSUME Inv, WordsInv, opt_conf_parse_val
  PROVE  WordsInv'
<1>1. /\ stage = "args" /\ Key.status = "ok" /\ Given.status = "ok" /\ itr' = Given
      /\ stage' \in Stops \cup {"args"}
  BY ParserAnswers
<1>2. /\ UNCHANGED <<todo, sections, btree, line>>
      /\ positionals' = IF Key.dashes = 0 THEN [positionals EXCEPT !.last = Conf.positional]
                        ELSE positionals
  BY DEF opt_conf_parse_val
<1>3. positionals.conf' = positionals.conf
  BY <1>2 DEF Inv, PositionalsInv
<1>4. NamesInv' /\ Numbered(todo, positionals.conf)'
  BY <1>1, <1>2, <1>3 DEF WordsInv, NamesInv
<1>5. stage' # "init"
  BY <1>1 DEF Stops
<1>6. Given.dashes = 1 => Given.eq = FALSE
  <2>1. CASE opt_conf_has_val(Conf)
    <3> DEFINE argv == line.argv
               T == TokensOf(argv)
               k == Key
               g == opt_argviter_getval(k, argv)
    <3>1. argv \in Seq(Seq(T)) /\ k \in Iterator(argv, T) /\ k.status = "ok"
      BY <1>1, KeyIs DEF Inv, IteratorInv
    <3>2. Given = g
      BY <2>1 DEF Given
    <3> HIDE DEF argv, T, k
    <3>3. TakesValue(k, argv)
      BY <3>1, ValueReads
    <3>4. g.dashes = 0
      BY <1>1, <3>2, <3>3 DEF TakesValue
    <3> QED  BY <3>2, <3>4
  <2>2. CASE ~opt_conf_has_val(Conf)
    <3>1. Given = Key
      BY <2>2 DEF Given
    <3>2. Finds(Key, line.argv, LeftBy(itr, line.argv, positionals.last))
      BY <1>1, KeyFinds
    <3>3. Key.dashes = 1 => Key.eq = FALSE
      BY <3>2 DEF Finds, FindsLetter
    <3> QED  BY <3>1, <3>3
  <2> QED  BY <2>1, <2>2
<1>7. (itr.dashes = 1 => itr.eq = FALSE)'
  BY <1>1, <1>6
<1> QED  BY <1>4, <1>5, <1>7 DEF WordsInv

LEMMA WordsNext == Inv /\ WordsInv /\ [Next]_vars => WordsInv'
<1> SUFFICES ASSUME Inv, WordsInv, [Next]_vars PROVE WordsInv'
  OBVIOUS
<1>1. CASE opt_init_cb_addtobtree
  BY <1>1, WordsAdd
<1>2. CASE opt_conf_parse_val
  BY <1>2, WordsParse
<1>3. CASE main
  <2>1. stage = "init" /\ stage' = "args" /\ UNCHANGED <<todo, btree, positionals, itr>>
    BY <1>3 DEF main
  <2>2. itr'.dashes # 1
    BY <2>1 DEF WordsInv, opt_argviter_init
  <2> QED  BY <2>1, <2>2 DEF WordsInv, NamesInv
<1>4. CASE no_more_args \/ bad_arg \/ group_loop \/ post_parse \/ opt_parse_args_returns
  <2>1. UNCHANGED <<todo, btree, positionals>>
    BY <1>4 DEF no_more_args, bad_arg, group_loop, post_parse, opt_parse_args_returns
  <2>2. stage' \notin {"init", "args"}
    <3>1. CASE bad_arg
      BY <3>1, BadArgEnds
    <3>2. CASE no_more_args \/ group_loop \/ post_parse \/ opt_parse_args_returns
      BY <3>2 DEF no_more_args, group_loop, post_parse, opt_parse_args_returns
    <3> QED  BY <1>4, <3>1, <3>2
  <2> QED  BY <2>1, <2>2 DEF WordsInv, NamesInv
<1>5. CASE UNCHANGED vars
  <2>1. UNCHANGED <<stage, todo, btree, positionals, itr>>
    BY <1>5 DEF vars
  <2> QED  BY <2>1 DEF WordsInv, NamesInv
<1> QED  BY <1>1, <1>2, <1>3, <1>4, <1>5 DEF Next

-----------------------------------------------------------------------------
(* Every option that is parsed is the word that stands there.              *)

(* A search ends at a name that the word begins with.                      *)
LEMMA FindMatches ==
  ASSUME NEW bt, NEW U, NEW Data, Tree(bt, U, Data), NEW name,
         btree_find(bt, name) # NULL
  PROVE  Matches(btree_find(bt, name), name)
<1> DEFINE D == DOMAIN bt.node
<1>1. PICK reach, depth, N : TreeBy(bt, U, Data, reach, depth, N)
  BY DEF Tree
<1>2. name # NULL
  BY DEF btree_find
<1>3. PICK way, below :
        /\ way = [n \in D |-> Turn(bt, n, name)] /\ Chain(D, NULL, way, depth, N)
        /\ below[NULL] = NULL /\ btree_find(bt, name) = below[bt.root]
        /\ \A n \in D : below[n] = Answer(n, name, below[way[n]])
        /\ \A n \in D : below[n] \in D \cup {NULL}
  BY <1>1, <1>2, FindIs
<1>4. N \in Nat /\ bt.root \in D \cup {NULL}
  BY <1>1 DEF TreeBy
<1> HIDE DEF D
<1> DEFINE T == {n \in D \cup {NULL} : below[n] = NULL \/ Matches(below[n], name)}
<1>5. NULL \in T
  BY <1>3
<1>6. ASSUME NEW n \in D, way[n] \in T PROVE n \in T
  BY <1>3, <1>6 DEF Answer
<1> HIDE DEF T
<1>7. D \subseteq T
  BY <1>3, <1>4, <1>5, <1>6, ChainInduction
<1>8. bt.root \in T
  BY <1>4, <1>5, <1>7
<1> QED  BY <1>3, <1>8 DEF T

(* An option is found by a name of its own.                                *)
LEMMA LookupCalls ==
  ASSUME TreeInv, NEW key, opt_lookup(key) # NoConf
  PROVE  /\ key # <<>> /\ opt_lookup(key) \in Confs
         /\ \E name \in ToSet(opt_lookup(key).names) : Matches(name, key)
<1> DEFINE bt == btree
           found == btree_find(bt, key)
           D == DOMAIN bt.node
<1>1. /\ Tree(bt, Names, Confs)
      /\ \A n \in D : n \in ToSet(bt.node[n].data.names)
  BY DEF TreeInv
<1>2. found # NULL /\ opt_lookup(key) = bt.node[found].data
  BY DEF opt_lookup
<1> HIDE DEF bt
<1>3. key # NULL
  BY <1>2 DEF btree_find
<1>4. found \in D
  BY <1>1, <1>2, FindType
<1>5. Matches(found, key)
  BY <1>1, <1>2, FindMatches
<1>6. bt.node[found].data \in Confs
  BY <1>1, <1>4 DEF Tree, TreeBy, Node
<1> HIDE DEF found, D
<1> QED  BY <1>1, <1>2, <1>3, <1>4, <1>5, <1>6 DEF NULL

(* An option with names is not positional.                                 *)
LEMMA NumberedHaveNoName ==
  ASSUME NEW conf \in Confs, conf.positional # 0
  PROVE  \A n : n \notin ToSet(conf.names)
<1>1. conf = First \/ conf = Second
  BY NoOtherPositionals
<1>2. conf.names = <<>>
  BY <1>1 DEF First, Second, Positional
<1> QED  BY <1>2 DEF ToSet

(* One step of the loop takes one word off the command line.               *)
LEMMA ReadsThisWord ==
  ASSUME Inv, WordsInv, opt_conf_parse_val
  PROVE  Spells(ThisWord, Now, Now') /\ CallsLoosely(ThisWord)
<1> DEFINE argv == line.argv
           T == TokensOf(argv)
           p == itr
           q == Key
           conf == Conf
           g == Given
           last == positionals.last
           now == IF q.dashes = 0 THEN conf.positional ELSE last
<1>1. /\ stage = "args" /\ q.status = "ok" /\ g.status = "ok" /\ itr' = g /\ conf \in Confs
      /\ conf # NoConf
  <2>1. Conf # NoConf
    BY DEF opt_conf_parse_val
  <2> QED  BY <2>1, ParserAnswers
<1>2. /\ line' = line
      /\ positionals' = IF q.dashes = 0 THEN [positionals EXCEPT !.last = conf.positional]
                        ELSE positionals
  BY DEF opt_conf_parse_val
<1>3. positionals'.last = now
  BY <1>2 DEF Inv, PositionalsInv
<1>4. /\ argv \in Seq(Seq(T)) /\ p \in Iterator(argv, T) /\ p.status = "ok"
      /\ p.dashes = 1 => p.eq = FALSE
      /\ last \in Nat
  BY <1>1 DEF Inv, IteratorInv, WordsInv, PositionalsInv
<1>5. q \in Iterator(argv, T)
  BY <1>1, KeyIs DEF Inv
<1>6. q = opt_argviter_getkey(p, argv)
      /\ g = IF opt_conf_has_val(conf) THEN opt_argviter_getval(q, argv) ELSE q
  BY DEF Key, Given
<1>7. q.dashes = 0 => conf.positional # 0 /\ conf.positional = last + 1
  <2> SUFFICES ASSUME q.dashes = 0 PROVE conf.positional # 0 /\ conf.positional = last + 1
    OBVIOUS
  <2>1. conf = opt_lookup_next_positional
    BY DEF Conf
  <2>2. conf.positional = last + 1
    BY <1>1, <2>1, NextNumber DEF Inv
  <2> QED  BY <1>4, <2>2
<1>8. q.dashes # 0 => /\ conf.positional = 0 /\ q.name # <<>>
                      /\ \E name \in ToSet(conf.names) : Matches(name, q.name)
  <2> SUFFICES ASSUME q.dashes # 0
               PROVE  /\ conf.positional = 0 /\ q.name # <<>>
                      /\ \E name \in ToSet(conf.names) : Matches(name, q.name)
    OBVIOUS
  <2>1. conf = opt_lookup(q.name)
    BY DEF Conf
  <2>2. q.name # <<>> /\ \E name \in ToSet(conf.names) : Matches(name, q.name)
    BY <1>1, <2>1, LookupCalls DEF Inv
  <2>3. conf.positional = 0
    BY <1>1, <2>2, NumberedHaveNoName
  <2> QED  BY <2>2, <2>3
<1>9. Now = LeftBy(p, argv, last) /\ Now' = LeftBy(g, argv, now) /\ ThisWord = WordOf(conf, q, g)
  BY <1>1, <1>2, <1>3 DEF Now, ThisWord
<1> HIDE DEF argv, T, p, q, conf, g, last
<1>10. Spells(WordOf(conf, q, g), LeftBy(p, argv, last), LeftBy(g, argv, now))
  BY <1>1, <1>4, <1>5, <1>6, <1>7, <1>8, WordRead
<1>11. CallsLoosely(WordOf(conf, q, g))
  <2>1. WordOf(conf, q, g).conf = conf /\ (q.dashes # 0 => WordOf(conf, q, g).key = q.name)
    BY DEF WordOf
  <2> QED  BY <1>7, <1>8, <2>1 DEF CallsLoosely, Matches
<1> QED  BY <1>9, <1>10, <1>11

(* Whatever the command line is and in whatever order the sections are     *)
(* linked: every option that is parsed is the word that stands there, as a *)
(* user spells it, and called by its name; nothing is read twice and       *)
(* nothing is passed over (opt_parse_args(), opt_argviter.c, btree_find()). *)
THEOREM EveryWordIsRead == Spec => ReadsAWord
<1> DEFINE A == stage = "args" /\ stage' \in Stops \cup {"args"}
                  => Spells(ThisWord, Now, Now') /\ CallsLoosely(ThisWord)
<1>1. ASSUME Inv, WordsInv, [Next]_vars PROVE [A]_vars
  <2>1. CASE opt_conf_parse_val
    BY <1>1, <2>1, ReadsThisWord
  <2>2. CASE bad_arg
    <3>1. stage' \notin Stops \cup {"args"}
      BY <1>1, <2>2, BadArgEnds DEF Stops
    <3> QED  BY <3>1
  <2>3. CASE opt_init_cb_addtobtree \/ main \/ no_more_args \/ group_loop \/ post_parse
             \/ opt_parse_args_returns
    <3>1. stage # "args" \/ stage' = "post"
      BY <2>3 DEF opt_init_cb_addtobtree, main, no_more_args, group_loop, post_parse,
                  opt_parse_args_returns
    <3>2. "post" \notin Stops \cup {"args"}
      BY DEF Stops
    <3> QED  BY <3>1, <3>2
  <2> QED  BY <1>1, <2>1, <2>2, <2>3 DEF Next
<1> HIDE DEF A
<1>2. Spec => [][A]_vars
  BY <1>1, WordsInit, WordsNext, OptionsInvariant, PTL DEF Spec
<1> QED  BY <1>2, PTL DEF ReadsAWord, A

-----------------------------------------------------------------------------
(* The tables: no name is given twice, and they are short.                 *)

(* Whose name it is: the mark of the only option that has the name.        *)
OwnerOf(n) ==
  IF Len(n) = 1
  THEN CASE n[1] = "b" -> "baudrate" [] n[1] = "d" -> "databits" [] n[1] = "s" -> "stopbits"
         [] n[1] = "f" -> "flowcontrol" [] n[1] = "p" -> "parity" [] n[1] = "h" -> "show_help"
         [] n[1] = "l" -> "show_list" [] n[1] = "v" -> "verbose" [] n[1] = "C" -> "cooked"
         [] n[1] = "c" -> "opq_oo" [] OTHER -> "none"
  ELSE IF Len(n) = 3
  THEN CASE n[2] = "aud" -> "baudrate" [] n[2] = "low" -> "flowcontrol" [] n[2] = "exf" -> "hexfmt"
         [] n[2] = "ol" -> IF n[3] = "-tx" THEN "eol_tx" ELSE "eol_rx"
         [] n[2] = "og" -> IF n[3] = "level" THEN "level" ELSE "file"
         [] n[2] = "ap-" -> IF n[3] = "txc" THEN "charmap_tx" ELSE "charmap_rx"
         [] OTHER -> "none"
  ELSE IF Len(n) = 4 THEN "eol_rx_timeout"
  ELSE CASE n[2] = "ort" -> "name" [] n[2] = "evice" -> "name" [] n[2] = "aud" -> "baudrate"
         [] n[2] = "atabits" -> "databits" [] n[2] = "topbits" -> "stopbits"
         [] n[2] = "low" -> "flowcontrol" [] n[2] = "arity" -> "parity"
         [] n[2] = "har-delay" -> "chardelay" [] n[2] = "ait" -> "wait" [] n[2] = "tay" -> "stay"
         [] n[2] = "elp" -> "show_help" [] n[2] = "ersion" -> "show_version"
         [] n[2] = "ist" -> "show_list" [] n[2] = "erbose" -> "verbose"
         [] n[2] = "utocomplete" -> "autocomplete" [] n[2] = "ol" -> "eol_txrx"
         [] n[2] = "ooked" -> "cooked" [] n[2] = "anonical" -> "cooked"
         [] n[2] = "cho" -> "local_echo" [] n[2] = "echo" -> "local_echo"
         [] n[2] = "ilent" -> "silent" [] n[2] = "imestamp" -> "timestamp"
         [] n[2] = "olor" -> "color"
         [] n[2] = "md" -> "opq_oo" [] n[2] = "ind" -> "bind" [] n[2] = "imeout" -> "timeout"
         [] n[2] = "ticky" -> "sticky" [] n[2] = "rompt" -> "prompt" [] OTHER -> "none"

Fitting(conf) ==
  /\ \A k \in DOMAIN conf.names : OwnerOf(conf.names[k]) = Mark(conf)
  /\ conf.positional # 0 \/ conf.names # <<>>

NamedAs(t) == \A i \in DOMAIN t : Fitting(t[i])

LEMMA NamesAre == \A s \in DOMAIN Tables : NamedAs(Tables[s])
<1>1. NamedAs(main_opts_conf)
  <2>1. Fitting(Opt(<<<<"h", "elp">>, <<"h">>>>, "flag_true", "show_help"))
    <3>1. OwnerOf(<<"h", "elp">>) = "show_help" /\ OwnerOf(<<"h">>) = "show_help"
      BY DEF OwnerOf
    <3> QED  BY <3>1 DEF Fitting, Mark, Opt
  <2>2. Fitting(Opt(<<<<"v", "ersion">>>>, "flag_true", "show_version"))
    <3>1. OwnerOf(<<"v", "ersion">>) = "show_version"
      BY DEF OwnerOf
    <3> QED  BY <3>1 DEF Fitting, Mark, Opt
  <2>3. Fitting(Opt(<<<<"l", "ist">>, <<"l">>>>, "flag_true", "show_list"))
    <3>1. OwnerOf(<<"l", "ist">>) = "show_list" /\ OwnerOf(<<"l">>) = "show_list"
      BY DEF OwnerOf
    <3> QED  BY <3>1 DEF Fitting, Mark, Opt
  <2>4. Fitting(Opt(<<<<"v", "erbose">>, <<"v">>>>, "flag_count", "verbose"))
    <3>1. OwnerOf(<<"v", "erbose">>) = "verbose" /\ OwnerOf(<<"v">>) = "verbose"
      BY DEF OwnerOf
    <3> QED  BY <3>1 DEF Fitting, Mark, Opt
  <2>5. Fitting(Opt(<<<<"a", "utocomplete">>>>, "autocomplete", "none"))
    <3>1. OwnerOf(<<"a", "utocomplete">>) = "autocomplete"
      BY DEF OwnerOf
    <3> QED  BY <3>1 DEF Fitting, Mark, Opt
  <2> QED  BY <2>1, <2>2, <2>3, <2>4, <2>5 DEF NamedAs, main_opts_conf
<1>2. NamedAs(charmap_opts_conf)
  <2>1. Fitting(Opt(<<<<"m", "ap-", "txc">>>>, "map", "charmap_tx"))
    <3>1. OwnerOf(<<"m", "ap-", "txc">>) = "charmap_tx"
      BY DEF OwnerOf
    <3> QED  BY <3>1 DEF Fitting, Mark, Opt
  <2>2. Fitting(Opt(<<<<"m", "ap-", "rxc">>>>, "map", "charmap_rx"))
    <3>1. OwnerOf(<<"m", "ap-", "rxc">>) = "charmap_rx"
      BY DEF OwnerOf
    <3> QED  BY <3>1 DEF Fitting, Mark, Opt
  <2> QED  BY <2>1, <2>2 DEF NamedAs, charmap_opts_conf
<1>3. NamedAs(cmd_opts_conf)
  <2>1. Fitting(Opt(<<<<"c", "md">>, <<"c">>>>, "cmd", "opq_oo"))
    <3>1. OwnerOf(<<"c", "md">>) = "opq_oo" /\ OwnerOf(<<"c">>) = "opq_oo"
      BY DEF OwnerOf
    <3> QED  BY <3>1 DEF Fitting, Mark, Opt
  <2> QED  BY <2>1 DEF NamedAs, cmd_opts_conf
<1>4. NamedAs(ctohex_opts_conf)
  <2>1. Fitting(Opt(<<<<"h", "exf", "ormat">>, <<"h", "exf", "mt">>>>, "hexfmt", "hexfmt"))
    <3>1. OwnerOf(<<"h", "exf", "ormat">>) = "hexfmt" /\ OwnerOf(<<"h", "exf", "mt">>) = "hexfmt"
      BY DEF OwnerOf
    <3> QED  BY <3>1 DEF Fitting, Mark, Opt
  <2> QED  BY <2>1 DEF NamedAs, ctohex_opts_conf
<1>5. NamedAs(eol_opts_conf)
  <2>1. Fitting(Opt(<<<<"e", "ol">>>>, "eol", "eol_txrx"))
    <3>1. OwnerOf(<<"e", "ol">>) = "eol_txrx"
      BY DEF OwnerOf
    <3> QED  BY <3>1 DEF Fitting, Mark, Opt
  <2>2. Fitting(Opt(<<<<"e", "ol", "-tx">>>>, "eol", "eol_tx"))
    <3>1. OwnerOf(<<"e", "ol", "-tx">>) = "eol_tx"
      BY DEF OwnerOf
    <3> QED  BY <3>1 DEF Fitting, Mark, Opt
  <2>3. Fitting(Opt(<<<<"e", "ol", "-rx">>>>, "eol", "eol_rx"))
    <3>1. OwnerOf(<<"e", "ol", "-rx">>) = "eol_rx"
      BY DEF OwnerOf
    <3> QED  BY <3>1 DEF Fitting, Mark, Opt
  <2> QED  BY <2>1, <2>2, <2>3 DEF NamedAs, eol_opts_conf
<1>6. NamedAs(log_opts_conf)
  <2>1. Fitting(Opt(<<<<"l", "og", "level">>>>, "int", "level"))
    <3>1. OwnerOf(<<"l", "og", "level">>) = "level"
      BY DEF OwnerOf
    <3> QED  BY <3>1 DEF Fitting, Mark, Opt
  <2>2. Fitting(Opt(<<<<"l", "og", "file">>>>, "str", "file"))
    <3>1. OwnerOf(<<"l", "og", "file">>) = "file"
      BY DEF OwnerOf
    <3> QED  BY <3>1 DEF Fitting, Mark, Opt
  <2>3. Fitting(Opt(<<<<"s", "ilent">>>>, "flag_true", "silent"))
    <3>1. OwnerOf(<<"s", "ilent">>) = "silent"
      BY DEF OwnerOf
    <3> QED  BY <3>1 DEF Fitting, Mark, Opt
  <2> QED  BY <2>1, <2>2, <2>3 DEF NamedAs, log_opts_conf
<1>7. NamedAs(outfmt_opts_conf)
  <2>1. Fitting(Opt(<<<<"t", "imestamp">>>>, "flag_true", "timestamp"))
    <3>1. OwnerOf(<<"t", "imestamp">>) = "timestamp"
      BY DEF OwnerOf
    <3> QED  BY <3>1 DEF Fitting, Mark, Opt
  <2>2. Fitting(Opt(<<<<"c", "olor">>>>, "flag_true", "color"))
    <3>1. OwnerOf(<<"c", "olor">>) = "color"
      BY DEF OwnerOf
    <3> QED  BY <3>1 DEF Fitting, Mark, Opt
  <2>3. Fitting(Opt(<<<<"e", "ol", "-rx", "-timeout">>>>, "float", "eol_rx_timeout"))
    <3>1. OwnerOf(<<"e", "ol", "-rx", "-timeout">>) = "eol_rx_timeout"
      BY DEF OwnerOf
    <3> QED  BY <3>1 DEF Fitting, Mark, Opt
  <2> QED  BY <2>1, <2>2, <2>3 DEF NamedAs, outfmt_opts_conf
<1>8. NamedAs(port_opts_conf)
  <2>1. Fitting(Positional(1, "devname"))
    BY DEF Fitting, Positional
  <2>2. Fitting(Positional(2, "baud_dps"))
    BY DEF Fitting, Positional
  <2>3. Fitting(Opt(<<<<"p", "ort">>, <<"d", "evice">>>>, "devname", "name"))
    <3>1. OwnerOf(<<"p", "ort">>) = "name" /\ OwnerOf(<<"d", "evice">>) = "name"
      BY DEF OwnerOf
    <3> QED  BY <3>1 DEF Fitting, Mark, Opt
  <2>4. Fitting(Opt(<<<<"b", "aud", "rate">>, <<"b">>, <<"b", "aud">>>>, "baud", "baudrate"))
    <3>1. OwnerOf(<<"b", "aud", "rate">>) = "baudrate" /\ OwnerOf(<<"b">>) = "baudrate"
          /\ OwnerOf(<<"b", "aud">>) = "baudrate"
      BY DEF OwnerOf
    <3> QED  BY <3>1 DEF Fitting, Mark, Opt
  <2>5. Fitting(Opt(<<<<"d", "atabits">>, <<"d">>>>, "databits", "databits"))
    <3>1. OwnerOf(<<"d", "atabits">>) = "databits" /\ OwnerOf(<<"d">>) = "databits"
      BY DEF OwnerOf
    <3> QED  BY <3>1 DEF Fitting, Mark, Opt
  <2>6. Fitting(Opt(<<<<"s", "topbits">>, <<"s">>>>, "stopbits", "stopbits"))
    <3>1. OwnerOf(<<"s", "topbits">>) = "stopbits" /\ OwnerOf(<<"s">>) = "stopbits"
      BY DEF OwnerOf
    <3> QED  BY <3>1 DEF Fitting, Mark, Opt
  <2>7. Fitting(Opt(<<<<"f", "low">>, <<"f">>, <<"f", "low", "control">>>>, "flowcontrol",
                    "flowcontrol"))
    <3>1. OwnerOf(<<"f", "low">>) = "flowcontrol" /\ OwnerOf(<<"f">>) = "flowcontrol"
          /\ OwnerOf(<<"f", "low", "control">>) = "flowcontrol"
      BY DEF OwnerOf
    <3> QED  BY <3>1 DEF Fitting, Mark, Opt
  <2>8. Fitting(Opt(<<<<"p", "arity">>, <<"p">>>>, "parity", "parity"))
    <3>1. OwnerOf(<<"p", "arity">>) = "parity" /\ OwnerOf(<<"p">>) = "parity"
      BY DEF OwnerOf
    <3> QED  BY <3>1 DEF Fitting, Mark, Opt
  <2>9. Fitting(Opt(<<<<"c", "har-delay">>>>, "int", "chardelay"))
    <3>1. OwnerOf(<<"c", "har-delay">>) = "chardelay"
      BY DEF OwnerOf
    <3> QED  BY <3>1 DEF Fitting, Mark, Opt
  <2>10. Fitting(Opt(<<<<"w", "ait">>>>, "flag_true", "wait"))
    <3>1. OwnerOf(<<"w", "ait">>) = "wait"
      BY DEF OwnerOf
    <3> QED  BY <3>1 DEF Fitting, Mark, Opt
  <2>11. Fitting(Opt(<<<<"s", "tay">>>>, "flag_true", "stay"))
    <3>1. OwnerOf(<<"s", "tay">>) = "stay"
      BY DEF OwnerOf
    <3> QED  BY <3>1 DEF Fitting, Mark, Opt
  <2> QED  BY <2>1, <2>2, <2>3, <2>4, <2>5, <2>6, <2>7, <2>8, <2>9, <2>10, <2>11
           DEF NamedAs, port_opts_conf
<1>9. NamedAs(shell_opts_conf)
  <2>1. Fitting(Opt(<<<<"c", "ooked">>, <<"C">>, <<"c", "anonical">>>>, "flag_true", "cooked"))
    <3>1. OwnerOf(<<"c", "ooked">>) = "cooked" /\ OwnerOf(<<"C">>) = "cooked"
          /\ OwnerOf(<<"c", "anonical">>) = "cooked"
      BY DEF OwnerOf
    <3> QED  BY <3>1 DEF Fitting, Mark, Opt
  <2>2. Fitting(Opt(<<<<"e", "cho">>, <<"l", "echo">>>>, "flag_true", "local_echo"))
    <3>1. OwnerOf(<<"e", "cho">>) = "local_echo" /\ OwnerOf(<<"l", "echo">>) = "local_echo"
      BY DEF OwnerOf
    <3> QED  BY <3>1 DEF Fitting, Mark, Opt
  <2> QED  BY <2>1, <2>2 DEF NamedAs, shell_opts_conf
<1>10. NamedAs(sh_cooked_opts_conf)
  <2>1. Fitting(Opt(<<<<"s", "ticky">>>>, "flag_true", "sticky"))
    <3>1. OwnerOf(<<"s", "ticky">>) = "sticky"
      BY DEF OwnerOf
    <3> QED  BY <3>1 DEF Fitting, Mark, Opt
  <2>2. Fitting(Opt(<<<<"p", "rompt">>>>, "str", "prompt"))
    <3>1. OwnerOf(<<"p", "rompt">>) = "prompt"
      BY DEF OwnerOf
    <3> QED  BY <3>1 DEF Fitting, Mark, Opt
  <2> QED  BY <2>1, <2>2 DEF NamedAs, sh_cooked_opts_conf
<1>11. NamedAs(keybind_opts_conf)
  <2>1. Fitting(Opt(<<<<"b", "ind">>>>, "bind", "none"))
    <3>1. OwnerOf(<<"b", "ind">>) = "bind"
      BY DEF OwnerOf
    <3> QED  BY <3>1 DEF Fitting, Mark, Opt
  <2> QED  BY <2>1 DEF NamedAs, keybind_opts_conf
<1>12. NamedAs(timeout_opts_conf)
  <2>1. Fitting(Opt(<<<<"t", "imeout">>>>, "int", "timeout"))
    <3>1. OwnerOf(<<"t", "imeout">>) = "timeout"
      BY DEF OwnerOf
    <3> QED  BY <3>1 DEF Fitting, Mark, Opt
  <2> QED  BY <2>1 DEF NamedAs, timeout_opts_conf
<1> QED  BY <1>1, <1>2, <1>3, <1>4, <1>5, <1>6, <1>7, <1>8, <1>9, <1>10, <1>11, <1>12 DEF Tables

(* Two options with the same mark are the same. *)
LEMMA SameMark ==
  ASSUME NEW c \in Confs, NEW d \in Confs, Mark(c) = Mark(d)
  PROVE  c = d
<1>1. PICK s \in DOMAIN Tables : c \in ToSet(Tables[s])
  BY DEF Confs
<1>2. PICK u \in DOMAIN Tables : d \in ToSet(Tables[u])
  BY DEF Confs
<1>3. PICK i \in DOMAIN Tables[s] : c = Tables[s][i]
  BY <1>1 DEF ToSet
<1>4. PICK j \in DOMAIN Tables[u] : d = Tables[u][j]
  BY <1>2 DEF ToSet
<1>5. TableOK(Tables[s], s) /\ TableOK(Tables[u], u)
  BY TablesOK
<1>6. Mark(c) \in Marks[s] /\ Mark(d) \in Marks[u]
  BY <1>3, <1>4, <1>5 DEF TableOK
<1>7. s = u
  <2>1. s # u => \A x : ~(x \in Marks[s] /\ x \in Marks[u])
    BY MarksDiffer
  <2> QED  BY <1>6, <2>1
<1> QED  BY <1>3, <1>4, <1>5, <1>7 DEF TableOK

(* No two options have a name in common, and each has one or a number. *)
LEMMA NamesDiffer ==
  /\ \A c, d \in Confs : \A n : n \in ToSet(c.names) /\ n \in ToSet(d.names) => c = d
  /\ \A c \in Confs : opt_init_cb_precheck(c)
<1>1. ASSUME NEW c \in Confs PROVE Fitting(c)
  <2>1. PICK s \in DOMAIN Tables : c \in ToSet(Tables[s])
    BY DEF Confs
  <2>2. PICK i \in DOMAIN Tables[s] : c = Tables[s][i]
    BY <2>1 DEF ToSet
  <2> QED  BY <2>2, NamesAre DEF NamedAs
<1>2. ASSUME NEW c \in Confs, NEW d \in Confs, NEW n, n \in ToSet(c.names), n \in ToSet(d.names)
      PROVE  c = d
  <2>1. OwnerOf(n) = Mark(c) /\ OwnerOf(n) = Mark(d)
    BY <1>1, <1>2 DEF Fitting, ToSet
  <2> QED  BY <2>1, SameMark
<1>3. \A c \in Confs : opt_init_cb_precheck(c)
  BY <1>1 DEF Fitting, opt_init_cb_precheck
<1> QED  BY <1>2, <1>3

(* A row of rows, none longer than k. *)
LEMMA FlattenLength ==
  ASSUME NEW S, NEW k \in Nat, NEW ss \in Seq({t \in Seq(S) : Len(t) <= k})
  PROVE  FlattenSeq(ss) \in Seq(S) /\ Len(FlattenSeq(ss)) <= k * Len(ss)
<1> DEFINE R == {t \in Seq(S) : Len(t) <= k}
           Short(tt) == FlattenSeq(tt) \in Seq(S) /\ Len(FlattenSeq(tt)) <= k * Len(tt)
           G == {tt \in Seq(R) : Short(tt)}
<1>1. <<>> \in G
  <2>1. FlattenSeq(<<>>) = <<>> /\ <<>> \in Seq(R) /\ Len(<<>>) = 0 /\ k * 0 = 0
    BY FlattenEmpty
  <2>2. <<>> \in Seq(S)
    OBVIOUS
  <2>3. k * Len(<<>>) = 0
    BY <2>1, Zenon
  <2>4. Len(FlattenSeq(<<>>)) = 0
    BY <2>1
  <2> DEFINE a == Len(FlattenSeq(<<>>))
             b == k * Len(<<>>)
  <2>5. a <= b
    <3>1. a = 0 /\ b = 0
      BY <2>3, <2>4
    <3> HIDE DEF a, b
    <3> QED  BY <3>1
  <2> QED  BY <2>1, <2>2, <2>5
<1>2. ASSUME NEW tt \in Seq(R), NEW t \in R, tt \in G PROVE Append(tt, t) \in G
  <2> DEFINE F == FlattenSeq(tt)
  <2>1. F \in Seq(S) /\ Len(F) <= k * Len(tt)
    BY <1>2
  <2>2. tt \in Seq(Seq(S)) /\ t \in Seq(S) /\ Len(t) <= k
    OBVIOUS
  <2>3. FlattenSeq(Append(tt, t)) = F \o t
    BY <2>2, FlattenAppend
  <2>4. Append(tt, t) \in Seq(R) /\ Len(Append(tt, t)) = Len(tt) + 1 /\ Len(tt) \in Nat
    BY <1>2
  <2> HIDE DEF F, R
  <2>5. F \o t \in Seq(S) /\ Len(F \o t) = Len(F) + Len(t) /\ Len(F) \in Nat /\ Len(t) \in Nat
    BY <2>1, <2>2, CatProperties
  <2>6. k * (Len(tt) + 1) = k * Len(tt) + k /\ k * Len(tt) \in Nat
    <3> DEFINE l == Len(tt)
    <3>1. l \in Nat
      BY <2>4
    <3> HIDE DEF l
    <3>2. k * (l + 1) = k * l + k /\ k * l \in Nat
      BY <3>1
    <3> QED  BY <3>2 DEF l
  <2>7. Len(F \o t) <= k * Len(Append(tt, t))
    <3> DEFINE a == Len(F)
               b == Len(t)
               c == k * Len(tt)
    <3>1. a \in Nat /\ b \in Nat /\ c \in Nat /\ a <= c /\ b <= k
      BY <2>1, <2>2, <2>5, <2>6
    <3>2. Len(F \o t) = a + b /\ k * Len(Append(tt, t)) = c + k
      BY <2>4, <2>5, <2>6
    <3> HIDE DEF a, b, c
    <3>3. a + b <= c + k
      BY <3>1
    <3> QED  BY <3>2, <3>3
  <2> QED  BY <2>3, <2>4, <2>5, <2>7
<1> HIDE DEF G, R
<1>3. Seq(R) \subseteq G
  BY <1>1, <1>2, SeqInduction
<1>4. ss \in Seq(R)
  BY DEF R
<1> QED  BY <1>3, <1>4 DEF G

(* A row of different numbers up to n has no more than n of them. *)
LEMMA FewDifferent ==
  ASSUME NEW n \in Nat, NEW s \in Seq(1..n), \A i, j \in DOMAIN s : s[i] = s[j] => i = j
  PROVE  Len(s) <= n
<1>1. /\ IsFiniteSet(1..n) /\ Cardinality(1..n) = n
      /\ IsFiniteSet(1..Len(s)) /\ Cardinality(1..Len(s)) = Len(s) /\ Len(s) \in Nat
  <2>1. 1 \in Int /\ n \in Int /\ Len(s) \in Int /\ Len(s) \in Nat
    OBVIOUS
  <2>2. IsFiniteSet(1..n) /\ Cardinality(1..n) = IF 1 > n THEN 0 ELSE n - 1 + 1
    BY <2>1, FS_Interval
  <2>3. IsFiniteSet(1..Len(s)) /\ Cardinality(1..Len(s)) = IF 1 > Len(s) THEN 0 ELSE Len(s) - 1 + 1
    BY <2>1, FS_Interval
  <2> QED  BY <2>1, <2>2, <2>3
<1>2. s \in Injection(1..Len(s), 1..n)
  BY DEF Injection, IsInjective
<1> QED  BY <1>1, <1>2, FS_Injection

(* The number of a section. *)
Rank ==
  [main_opts |-> 1, charmap |-> 2, cmd |-> 3, ctohex |-> 4, eol |-> 5, log |-> 6, outfmt |-> 7,
   port_opts |-> 8, shell |-> 9, shell_mode_cooked |-> 10, keybind |-> 11, timeout |-> 12]

LEMMA RanksDiffer ==
  ASSUME NEW s \in DOMAIN Tables, NEW u \in DOMAIN Tables
  PROVE  Rank[s] \in 1..12 /\ (Rank[s] = Rank[u] => s = u)
<1>1. DOMAIN Tables = {"main_opts", "charmap", "cmd", "ctohex", "eol", "log", "outfmt", "port_opts",
                       "shell", "shell_mode_cooked", "keybind", "timeout"}
  BY DEF Tables
<1>2. \A x \in DOMAIN Tables : Rank[x] \in 1..12
  BY <1>1 DEF Rank
<1>3. Rank[s] = Rank[u] => s = u
  BY <1>1 DEF Rank
<1> QED  BY <1>2, <1>3

Short(t) == Len(t) <= 11

LEMMA TablesAreShort == \A s \in DOMAIN Tables : Short(Tables[s])
<1>1. /\ Short(main_opts_conf) /\ Short(charmap_opts_conf) /\ Short(cmd_opts_conf)
      /\ Short(ctohex_opts_conf) /\ Short(eol_opts_conf) /\ Short(log_opts_conf)
  BY DEF main_opts_conf, charmap_opts_conf, cmd_opts_conf, ctohex_opts_conf, eol_opts_conf,
         log_opts_conf, Short
<1>2. /\ Short(outfmt_opts_conf) /\ Short(port_opts_conf) /\ Short(shell_opts_conf)
      /\ Short(sh_cooked_opts_conf) /\ Short(keybind_opts_conf) /\ Short(timeout_opts_conf)
  BY DEF outfmt_opts_conf, port_opts_conf, shell_opts_conf, sh_cooked_opts_conf,
         keybind_opts_conf, timeout_opts_conf, Short
<1> QED  BY <1>1, <1>2 DEF Tables

(* There are fewer options than opt.c accepts. *)
LEMMA FewOptions == \A order \in Orders : Len(AllConfs(order)) < OPT_MAX_COUNT
<1> SUFFICES ASSUME NEW order \in Orders PROVE Len(AllConfs(order)) < OPT_MAX_COUNT
  OBVIOUS
<1> DEFINE D == DOMAIN Tables
           L == Len(order)
           ranks == [i \in 1..L |-> Rank[order[i]]]
           R == {t \in Seq(Confs) : Len(t) <= 11}
           ss == [i \in DOMAIN order |-> Tables[order[i]]]
<1>1. order \in Seq(D) /\ \A i, j \in DOMAIN order : order[i] = order[j] => i = j
  BY OptionsAssumption
<1>2. \A s \in D : Tables[s] \in R
  <2> SUFFICES ASSUME NEW s \in D PROVE Tables[s] \in R
    OBVIOUS
  <2> DEFINE t == Tables[s]
  <2>1. t \in Seq(ToSet(t)) /\ Len(t) <= 11
    BY TablesOK, TablesAreShort DEF TableOK, Short
  <2>2. ToSet(t) \subseteq Confs
    BY DEF Confs
  <2> HIDE DEF t
  <2>3. t \in Seq(Confs)
    BY <2>1, <2>2
  <2> QED  BY <2>1, <2>3 DEF t
<1>3. \A s, u \in D : Rank[s] \in 1..12 /\ (Rank[s] = Rank[u] => s = u)
  BY RanksDiffer
<1> HIDE DEF D
<1>4. L \in Nat /\ DOMAIN order = 1..L /\ \A i \in 1..L : order[i] \in D
  BY <1>1
<1> HIDE DEF L, R
<1>5. ranks \in Seq(1..12) /\ Len(ranks) = L /\ DOMAIN ranks = 1..L
      /\ \A i \in 1..L : ranks[i] = Rank[order[i]]
  <2>1. \A i \in 1..L : Rank[order[i]] \in 1..12
    BY <1>3, <1>4
  <2> QED  BY <1>4, <2>1
<1> HIDE DEF ranks
<1>6. L <= 12
  <2>1. \A i, j \in DOMAIN ranks : ranks[i] = ranks[j] => i = j
    BY <1>1, <1>3, <1>4, <1>5
  <2> DEFINE n == 12
  <2>2. n \in Nat /\ ranks \in Seq(1..n)
    BY <1>5
  <2> HIDE DEF n
  <2>3. Len(ranks) <= n
    BY <2>1, <2>2, FewDifferent
  <2> QED  BY <1>5, <2>3 DEF n
<1>7. ss \in Seq(R) /\ Len(ss) = L
  <2>1. \A i \in 1..L : Tables[order[i]] \in R
    BY <1>2, <1>4
  <2> QED  BY <1>4, <2>1
<1>8. AllConfs(order) = FlattenSeq(ss)
  BY DEF AllConfs
<1> HIDE DEF ss
<1>9. FlattenSeq(ss) \in Seq(Confs) /\ Len(FlattenSeq(ss)) <= 11 * L
  <2> DEFINE k == 11
  <2>1. k \in Nat /\ ss \in Seq({t \in Seq(Confs) : Len(t) <= k})
    BY <1>7 DEF R
  <2> HIDE DEF k
  <2>2. FlattenSeq(ss) \in Seq(Confs) /\ Len(FlattenSeq(ss)) <= k * Len(ss)
    BY <2>1, FlattenLength
  <2> QED  BY <1>7, <2>2 DEF k
<1>10. Len(FlattenSeq(ss)) \in Nat
  BY <1>9
<1>11. 11 * L <= 132
  BY <1>4, <1>6
<1>12. Len(FlattenSeq(ss)) <= 132
  BY <1>4, <1>9, <1>10, <1>11
<1> QED  BY <1>8, <1>10, <1>12 DEF OPT_MAX_COUNT

(* No option is refused while the tree is filled, and nothing is set. *)
FillsInv ==
  stage = "init" => set = Defaults /\ positionals.last = 0

LEMMA InitFills == Init => stage = "init" /\ FillsInv
<1> SUFFICES ASSUME Init PROVE stage = "init" /\ FillsInv
  OBVIOUS
<1>1. sections \in Orders /\ todo = AllConfs(sections)
      /\ stage = (IF (\A conf \in ToSet(todo) : opt_init_cb_precheck(conf))
                     /\ Len(todo) < OPT_MAX_COUNT THEN "init" ELSE "failed")
      /\ set = Defaults /\ positionals.last = 0
  BY DEF Init
<1>2. todo \in Seq(Confs) /\ Len(todo) < OPT_MAX_COUNT
  BY <1>1, AllConfsAre, FewOptions
<1>3. \A conf \in ToSet(todo) : opt_init_cb_precheck(conf)
  <2>1. \A conf \in ToSet(todo) : conf \in Confs
    BY <1>2 DEF ToSet
  <2> QED  BY <2>1, NamesDiffer
<1> QED  BY <1>1, <1>2, <1>3 DEF FillsInv

(* Names of options that were added before are the names of others. *)
LEMMA NeverTwice ==
  ASSUME Inv, stage = "init", todo # <<>>
  PROVE  ToSet(Head(todo).names) \cap DOMAIN btree.node = {}
<1>1. todo \in Seq(Confs) /\ Distinct(todo) /\ Tree(btree, Names, Confs)
  BY DEF Inv, TreeInv
<1>2. Head(todo) \in Confs /\ Head(todo) \in ToSet(todo)
  <2>1. Head(todo) = todo[1] /\ 1 \in DOMAIN todo
    BY <1>1
  <2> QED  BY <1>1, <2>1 DEF ToSet
<1>3. ASSUME NEW n \in DOMAIN btree.node, n \in ToSet(Head(todo).names) PROVE FALSE
  <2> DEFINE conf == btree.node[n].data
  <2>1. conf \notin ToSet(todo) /\ n \in ToSet(conf.names)
    BY DEF Inv, TreeInv
  <2>2. conf \in Confs
    BY <1>1 DEF Tree, TreeBy, Node
  <2> HIDE DEF conf
  <2>3. conf = Head(todo)
    BY <1>2, <1>3, <2>1, <2>2, NamesDiffer
  <2> QED  BY <1>2, <2>1, <2>3
<1> QED  BY <1>3

-----------------------------------------------------------------------------
(* What a user spells is what the program reads.                           *)

LEMMA FillsNext ==
  ASSUME Inv, FillsInv, [Next]_vars
  PROVE  FillsInv' /\ (stage = "init" => stage' \in {"init", "args"})
<1>1. CASE opt_init_cb_addtobtree
  <2>1. stage = "init" /\ todo # <<>> /\ set' = set
    BY <1>1 DEF opt_init_cb_addtobtree
  <2>2. ToSet(Head(todo).names) \cap DOMAIN btree.node = {}
    BY <2>1, NeverTwice
  <2>3. stage' = stage
    BY <1>1, <2>2 DEF opt_init_cb_addtobtree
  <2>4. positionals'.last = positionals.last
    <3>1. positionals \in [conf : Seq(Confs), last : Nat]
      BY DEF Inv, PositionalsInv
    <3>2. positionals' = positionals
          \/ positionals' = [positionals EXCEPT !.conf = Append(@, Head(todo))]
      BY <1>1 DEF opt_init_cb_addtobtree
    <3> QED  BY <3>1, <3>2
  <2> QED  BY <2>1, <2>3, <2>4 DEF FillsInv
<1>2. CASE main
  BY <1>2 DEF main, FillsInv
<1>3. CASE UNCHANGED vars
  BY <1>3 DEF vars, FillsInv
<1>4. CASE no_more_args \/ bad_arg \/ opt_conf_parse_val \/ group_loop \/ post_parse
           \/ opt_parse_args_returns
  <2>1. stage # "init"
    BY <1>4 DEF no_more_args, bad_arg, opt_conf_parse_val, group_loop, post_parse,
                opt_parse_args_returns
  <2>2. stage' # "init"
    <3>1. CASE bad_arg
      BY <3>1, BadArgEnds
    <3>2. CASE opt_conf_parse_val
      BY <3>2, ParserAnswers DEF Stops
    <3>3. CASE no_more_args \/ group_loop \/ post_parse \/ opt_parse_args_returns
      BY <3>3 DEF no_more_args, group_loop, post_parse, opt_parse_args_returns
    <3> QED  BY <1>4, <3>1, <3>2, <3>3
  <2> QED  BY <2>1, <2>2 DEF FillsInv
<1> QED  BY <1>1, <1>2, <1>3, <1>4 DEF Next

(* While the command line is read, an option is found by its names. *)
LEMMA LookupExactly ==
  ASSUME Inv, WordsInv, stage = "args", NEW c \in Confs, NEW n \in ToSet(c.names)
  PROVE  opt_lookup(n) = c
<1>1. todo = <<>> /\ Tree(btree, Names, Confs)
  BY DEF Inv, PositionalsInv, TreeInv
<1>2. n \in DOMAIN btree.node /\ btree.node[n].data = c
  <2>1. c \notin ToSet(todo)
    BY <1>1 DEF ToSet
  <2> QED  BY <2>1 DEF WordsInv, NamesInv
<1>3. n \in Names
  <2>1. c.names \in Seq(Names)
    BY ConfNames DEF Names
  <2> QED  BY <2>1 DEF ToSet
<1>4. n # NULL
  BY <1>3 DEF Names
<1>5. btree_find(btree, n) = n
  <2> DEFINE bt == btree
  <2>1. Tree(bt, Names, Confs) /\ n \in DOMAIN bt.node
    BY <1>1, <1>2
  <2> HIDE DEF bt
  <2>2. btree_find(bt, n) = n
    BY <1>3, <2>1, FindExact
  <2> QED  BY <2>2 DEF bt
<1> QED  BY <1>2, <1>4, <1>5 DEF opt_lookup

(* The positional that has the next number is the one that comes next. *)
LEMMA PositionalExactly ==
  ASSUME Inv, WordsInv, stage = "args", NEW c \in Confs, c.positional # 0,
         c.positional = positionals.last + 1
  PROVE  opt_lookup_next_positional = c
<1> DEFINE s == positionals.conf
           l == positionals.last
           later == {i \in DOMAIN s : s[i].positional > l}
           next == CHOOSE i \in later : \A j \in later : i <= j
<1>1. /\ s \in Seq(Confs) /\ l \in Nat /\ l <= Len(s) /\ \A i \in 1..Len(s) : s[i].positional = i
      /\ PositionalsInv
  BY DEF Inv, PositionalsInv, WordsInv, Numbered
<1>2. c \in ToSet(s)
  <2>1. todo = <<>>
    BY DEF Inv, PositionalsInv
  <2> QED  BY <2>1 DEF Inv, PositionalsInv, ToSet
<1>3. PICK i \in 1..Len(s) : s[i] = c
  BY <1>1, <1>2 DEF ToSet
<1>4. i = l + 1 /\ DOMAIN s = 1..Len(s)
  BY <1>1, <1>3
<1>5. i \in later /\ \A j \in later : i <= j
  BY <1>1, <1>3, <1>4
<1>6. opt_lookup_next_positional = s[next]
  BY <1>5 DEF opt_lookup_next_positional
<1>7. next \in later /\ \A j \in later : next <= j
  BY <1>5
<1>8. opt_lookup_next_positional \in Confs
  <2>1. next \in 1..Len(s)
    BY <1>4, <1>7
  <2> HIDE DEF s, next
  <2> QED  BY <1>1, <1>6, <2>1
<1>9. opt_lookup_next_positional # NoConf
  <2>1. opt_lookup_next_positional.parse # "none"
    BY <1>8, ConfsSuit DEF Suits
  <2> QED  BY <2>1 DEF NoConf
<1>10. opt_lookup_next_positional = s[l + 1]
  BY <1>1, <1>9, NextNumber
<1> QED  BY <1>3, <1>4, <1>10

(* A flag makes the same of any text. *)
LEMMA FlagsIgnoreText ==
  ASSUME NEW c, c.positional = 0, ~opt_conf_has_val(c), NEW u, NEW v, NEW s
  PROVE  parse(c, u, s) = parse(c, v, s)
<1>1. c.parse = "flag_true" \/ c.parse = "flag_count"
  BY DEF opt_conf_has_val
<1>2. CASE c.parse = "flag_true"
  BY <1>2 DEF parse
<1>3. CASE c.parse = "flag_count"
  BY <1>3 DEF parse
<1> QED  BY <1>1, <1>2, <1>3

(* The program reads the word w, and then has a left. *)
FollowsAs(w, a) ==
  /\ Key.status = "ok" /\ Conf = w.conf /\ Conf # NoConf /\ Given.status = "ok"
  /\ parse(Conf, Sval, set) = parse(w.conf, w.val, set)
  /\ LeftBy(Given, line.argv, a.last) = a
  /\ a.last = IF Key.dashes = 0 THEN Conf.positional ELSE positionals.last

(* What a user spells is what the program reads. *)
LEMMA Follows ==
  ASSUME Inv, WordsInv, stage = "args", NEW w \in WordsOf(TokensOf(line.argv)),
         NEW a \in LeftOvers(TokensOf(line.argv)), Spells(w, Now, a), Calls(w)
  PROVE  FollowsAs(w, a)
<1> DEFINE argv == line.argv
           T == TokensOf(argv)
           p == itr
           last == positionals.last
           q == Key
           g == IF opt_conf_has_val(w.conf) THEN opt_argviter_getval(q, argv) ELSE q
<1>1. /\ argv \in Seq(Seq(T)) /\ p \in Iterator(argv, T) /\ p.status = "ok"
      /\ p.dashes \in 0..2 /\ (p.dashes = 1 => p.eq = FALSE)
      /\ last \in Nat
  BY DEF Inv, IteratorInv, WordsInv, PositionalsInv
<1>2. Spells(w, LeftBy(p, argv, last), a)
  BY DEF Now
<1>3. w.conf \in Confs
  BY DEF WordsOf
<1>4. ReadAs(w, p, argv, a)
  <2> HIDE DEF argv, T, p, last, q
  <2>1. w \in WordsOf(T) /\ a \in LeftOvers(T)
    BY DEF T, argv
  <2> QED  BY <1>1, <1>2, <2>1, WordFound
<1>5. q = opt_argviter_getkey(p, argv)
  BY DEF Key
<1>6. /\ q.status = "ok" /\ g.status = "ok"
      /\ w.conf.positional # 0 => q.dashes = 0 /\ q.name = w.val
      /\ w.conf.positional = 0 => q.dashes # 0 /\ q.name = w.key
      /\ opt_conf_has_val(w.conf) => g.val = w.val
      /\ LeftBy(g, argv, a.last) = a
  BY <1>4, <1>5 DEF ReadAs
<1>7. Conf = w.conf
  <2>1. CASE w.conf.positional # 0
    <3>1. w.conf.positional = last + 1
      BY <1>2, <2>1 DEF Spells, SpellsPositional, LeftBy
    <3>2. opt_lookup_next_positional = w.conf
      BY <1>3, <2>1, <3>1, PositionalExactly
    <3> QED  BY <1>6, <2>1, <3>2 DEF Conf
  <2>2. CASE w.conf.positional = 0
    <3>1. w.key \in ToSet(w.conf.names)
      BY <2>2 DEF Calls
    <3>2. opt_lookup(w.key) = w.conf
      BY <1>3, <3>1, LookupExactly
    <3> QED  BY <1>6, <2>2, <3>2 DEF Conf
  <2> QED  BY <2>1, <2>2
<1>8. Conf # NoConf
  <2>1. Conf.parse # "none"
    BY <1>3, <1>7, ConfsSuit DEF Suits
  <2> QED  BY <2>1 DEF NoConf
<1>9. Given = g
  BY <1>7 DEF Given
<1>10. parse(Conf, Sval, set) = parse(w.conf, w.val, set)
  <2>1. CASE opt_conf_has_val(w.conf)
    <3>1. Sval = w.val
      BY <1>6, <1>7, <1>9, <2>1 DEF Sval
    <3> QED  BY <1>7, <3>1
  <2>2. CASE ~opt_conf_has_val(w.conf) /\ w.conf.positional # 0
    <3>1. Sval = w.val
      BY <1>6, <1>7, <2>2 DEF Sval
    <3> QED  BY <1>7, <3>1
  <2>3. CASE ~opt_conf_has_val(w.conf) /\ w.conf.positional = 0
    <3>1. parse(w.conf, Sval, set) = parse(w.conf, w.val, set)
      BY <2>3, FlagsIgnoreText
    <3> QED  BY <1>7, <3>1
  <2> QED  BY <2>1, <2>2, <2>3
<1>11. a.last = IF q.dashes = 0 THEN Conf.positional ELSE last
  <2>1. CASE w.conf.positional # 0
    <3>1. a.last = w.conf.positional
      BY <1>2, <2>1 DEF Spells
    <3> QED  BY <1>6, <1>7, <2>1, <3>1
  <2>2. CASE w.conf.positional = 0
    <3>1. a.last = last
      BY <1>2, <2>2 DEF Spells, LeftBy
    <3> QED  BY <1>6, <2>2, <3>1
  <2> QED  BY <2>1, <2>2
<1> QED  BY <1>6, <1>7, <1>8, <1>9, <1>10, <1>11 DEF FollowsAs

-----------------------------------------------------------------------------
(* What the sections finish.                                               *)

IsRecord(s) == s = [d \in DOMAIN s |-> s[d]]

(* The section that finishes the setting d, and what it makes of it. *)
Finisher(d) ==
  CASE d = "wait" -> "port_opts"
    [] d \in {"eol_tx_used", "eol_rx_used"} -> "eol"
    [] d = "colors_remapped" -> "outfmt"
    [] d = "ctohex_table" -> "ctohex"
    [] OTHER -> "none"

FinishedBy(x, s) ==
  CASE x = "eol" -> eol_post_parse(s)
    [] x = "port_opts" -> port_post_parse(s)
    [] x = "ctohex" -> ctohex_post_parse(s)
    [] x = "outfmt" -> outfmt_post_parse(s)

(* The settings when the sections F have finished. *)
ByNow(s, F) ==
  [d \in DOMAIN s |-> IF Finisher(d) \in F THEN FinishedBy(Finisher(d), s)[d] ELSE s[d]]

LEMMA FinishersAre ==
  /\ \A d \in {"stay", "eol_txrx", "eol_tx", "eol_rx", "color", "hexfmt"} : Finisher(d) = "none"
  /\ Finisher("wait") = "port_opts" /\ Finisher("ctohex_table") = "ctohex"
  /\ Finisher("eol_tx_used") = "eol" /\ Finisher("eol_rx_used") = "eol"
  /\ Finisher("colors_remapped") = "outfmt"
  /\ \A d : Finisher(d) = "port_opts" => d = "wait"
  /\ \A d : Finisher(d) = "ctohex" => d = "ctohex_table"
  /\ \A d : Finisher(d) = "outfmt" => d = "colors_remapped"
  /\ \A d : Finisher(d) = "eol" => d = "eol_tx_used" \/ d = "eol_rx_used"
BY DEF Finisher

(* A section finishes its own settings, and no other. *)
LEMMA Finishes ==
  ASSUME NEW s, DOMAIN s = DOMAIN Defaults, NEW F, F \subseteq PostParsers,
         NEW x \in PostParsers, x \notin F
  PROVE  FinishedBy(x, ByNow(s, F)) = ByNow(s, F \cup {x})
<1> DEFINE t == ByNow(s, F)
           u == ByNow(s, F \cup {x})
           D == DOMAIN s
<1>1. {"stay", "eol_txrx", "eol_tx", "eol_rx", "color", "hexfmt", "wait", "eol_tx_used",
       "eol_rx_used", "colors_remapped", "ctohex_table"} \subseteq D
  BY DEF Defaults
<1>2. "none" \notin PostParsers
  BY DEF PostParsers
<1>3. /\ t = [d \in D |-> t[d]] /\ DOMAIN t = D
      /\ \A d \in D : t[d] = IF Finisher(d) \in F THEN FinishedBy(Finisher(d), s)[d] ELSE s[d]
  BY DEF ByNow
<1>4. /\ u = [d \in D |-> u[d]] /\ DOMAIN u = D
      /\ \A d \in D : u[d] = IF Finisher(d) \in F \cup {x} THEN FinishedBy(Finisher(d), s)[d]
                             ELSE s[d]
  BY DEF ByNow
<1>5. \A d \in D : Finisher(d) # x => u[d] = t[d]
  BY <1>3, <1>4
<1>6. \A d \in D : Finisher(d) = x => t[d] = s[d] /\ u[d] = FinishedBy(x, s)[d]
  BY <1>3, <1>4
<1>7. \A d \in {"stay", "eol_txrx", "eol_tx", "eol_rx", "color", "hexfmt"} : t[d] = s[d]
  BY <1>1, <1>2, <1>3, FinishersAre
<1> HIDE DEF t, u, D
<1>8. CASE x = "eol"
  <2> DEFINE used(r, own, before) ==
               IF own.match # "none" THEN own
               ELSE IF r.eol_txrx.match # "none" THEN r.eol_txrx ELSE before
             v == [t EXCEPT !["eol_tx_used"] = used(t, t.eol_tx, t.eol_tx_used),
                            !["eol_rx_used"] = used(t, t.eol_rx, t.eol_rx_used)]
  <2>1. FinishedBy(x, t) = v
    BY <1>8 DEF FinishedBy, eol_post_parse
  <2>2. /\ FinishedBy(x, s)["eol_tx_used"] = used(s, s.eol_tx, s.eol_tx_used)
        /\ FinishedBy(x, s)["eol_rx_used"] = used(s, s.eol_rx, s.eol_rx_used)
    BY <1>1, <1>8 DEF FinishedBy, eol_post_parse, D
  <2>3. /\ t.eol_tx = s.eol_tx /\ t.eol_rx = s.eol_rx /\ t.eol_txrx = s.eol_txrx
        /\ t.eol_tx_used = s.eol_tx_used /\ t.eol_rx_used = s.eol_rx_used
    BY <1>1, <1>6, <1>7, <1>8, FinishersAre
  <2>4. /\ u.eol_tx_used = used(s, s.eol_tx, s.eol_tx_used)
        /\ u.eol_rx_used = used(s, s.eol_rx, s.eol_rx_used)
    BY <1>1, <1>6, <1>8, <2>2, FinishersAre
  <2>5. \A d \in D : d # "eol_tx_used" /\ d # "eol_rx_used" => u[d] = t[d]
    BY <1>5, <1>8, FinishersAre
  <2>6. /\ used(t, t.eol_tx, t.eol_tx_used) = used(s, s.eol_tx, s.eol_tx_used)
        /\ used(t, t.eol_rx, t.eol_rx_used) = used(s, s.eol_rx, s.eol_rx_used)
    BY <2>3
  <2>7. v = [d \in D |-> v[d]] /\ \A d \in D : v[d] = u[d]
    <3> HIDE DEF used
    <3> QED  BY <1>1, <1>3, <2>4, <2>5, <2>6
  <2> HIDE DEF v
  <2> QED  BY <1>4, <2>1, <2>7 DEF t, u
<1>9. CASE x = "port_opts"
  <2> DEFINE v == IF t.stay THEN [t EXCEPT !["wait"] = TRUE] ELSE t
  <2>1. FinishedBy(x, t) = v
    BY <1>9 DEF FinishedBy, port_post_parse
  <2>2. FinishedBy(x, s)["wait"] = IF s.stay THEN TRUE ELSE s.wait
    BY <1>1, <1>9 DEF FinishedBy, port_post_parse, D
  <2>3. t.stay = s.stay /\ t.wait = s.wait
    BY <1>1, <1>6, <1>7, <1>9, FinishersAre
  <2>4. u.wait = IF s.stay THEN TRUE ELSE s.wait
    BY <1>1, <1>6, <1>9, <2>2, FinishersAre
  <2>5. \A d \in D : d # "wait" => u[d] = t[d]
    BY <1>5, <1>9, FinishersAre
  <2>6. v = [d \in D |-> v[d]] /\ \A d \in D : v[d] = u[d]
    BY <1>1, <1>3, <2>3, <2>4, <2>5
  <2> HIDE DEF v
  <2> QED  BY <1>4, <2>1, <2>6 DEF t, u
<1>10. CASE x = "ctohex"
  <2> DEFINE v == [t EXCEPT !["ctohex_table"] = t.hexfmt]
  <2>1. FinishedBy(x, t) = v
    BY <1>10 DEF FinishedBy, ctohex_post_parse
  <2>2. FinishedBy(x, s)["ctohex_table"] = s.hexfmt
    BY <1>1, <1>10 DEF FinishedBy, ctohex_post_parse, D
  <2>3. t.hexfmt = s.hexfmt
    BY <1>7
  <2>4. u.ctohex_table = s.hexfmt
    BY <1>1, <1>6, <1>10, <2>2, FinishersAre
  <2>5. \A d \in D : d # "ctohex_table" => u[d] = t[d]
    BY <1>5, <1>10, FinishersAre
  <2>6. v = [d \in D |-> v[d]] /\ \A d \in D : v[d] = u[d]
    BY <1>1, <1>3, <2>3, <2>4, <2>5
  <2> HIDE DEF v
  <2> QED  BY <1>4, <2>1, <2>6 DEF t, u
<1>11. CASE x = "outfmt"
  <2> DEFINE v == IF t.color THEN [t EXCEPT !["colors_remapped"] = TRUE] ELSE t
  <2>1. FinishedBy(x, t) = v
    BY <1>11 DEF FinishedBy, outfmt_post_parse
  <2>2. FinishedBy(x, s)["colors_remapped"] = IF s.color THEN TRUE ELSE s.colors_remapped
    BY <1>1, <1>11 DEF FinishedBy, outfmt_post_parse, D
  <2>3. t.color = s.color /\ t.colors_remapped = s.colors_remapped
    BY <1>1, <1>6, <1>7, <1>11, FinishersAre
  <2>4. u.colors_remapped = IF s.color THEN TRUE ELSE s.colors_remapped
    BY <1>1, <1>6, <1>11, <2>2, FinishersAre
  <2>5. \A d \in D : d # "colors_remapped" => u[d] = t[d]
    BY <1>5, <1>11, FinishersAre
  <2>6. v = [d \in D |-> v[d]] /\ \A d \in D : v[d] = u[d]
    BY <1>1, <1>3, <2>3, <2>4, <2>5
  <2> HIDE DEF v
  <2> QED  BY <1>4, <2>1, <2>6 DEF t, u
<1> QED  BY <1>8, <1>9, <1>10, <1>11 DEF PostParsers

(* All of them, one after the other. *)
LEMMA FinishedIs ==
  ASSUME NEW s, DOMAIN s = DOMAIN Defaults, IsRecord(s)
  PROVE  ByNow(s, {}) = s /\ ByNow(s, PostParsers) = Finished(s)
<1> DEFINE a == ByNow(s, {})
           b == ByNow(s, {} \cup {"eol"})
           c == ByNow(s, {"eol"} \cup {"port_opts"})
           d == ByNow(s, {"eol", "port_opts"} \cup {"ctohex"})
           e == ByNow(s, {"eol", "port_opts", "ctohex"} \cup {"outfmt"})
<1>1. a = s
  <2>1. ByNow(s, {}) = [x \in DOMAIN s |-> s[x]]
    BY DEF ByNow
  <2> QED  BY <2>1 DEF IsRecord
<1>2. /\ "eol" \in PostParsers /\ "port_opts" \in PostParsers /\ "ctohex" \in PostParsers
      /\ "outfmt" \in PostParsers
      /\ {} \cup {"eol"} = {"eol"} /\ {"eol"} \cup {"port_opts"} = {"eol", "port_opts"}
      /\ {"eol", "port_opts"} \cup {"ctohex"} = {"eol", "port_opts", "ctohex"}
      /\ {"eol", "port_opts", "ctohex"} \cup {"outfmt"} = PostParsers
      /\ {} \subseteq PostParsers /\ {"eol"} \subseteq PostParsers
      /\ {"eol", "port_opts"} \subseteq PostParsers
      /\ {"eol", "port_opts", "ctohex"} \subseteq PostParsers
  BY DEF PostParsers
<1>3. b = FinishedBy("eol", a)
  BY <1>2, Finishes
<1>4. c = FinishedBy("port_opts", ByNow(s, {"eol"}))
  BY <1>2, Finishes
<1>5. d = FinishedBy("ctohex", ByNow(s, {"eol", "port_opts"}))
  BY <1>2, Finishes
<1>6. e = FinishedBy("outfmt", ByNow(s, {"eol", "port_opts", "ctohex"}))
  BY <1>2, Finishes
<1>7. e = ByNow(s, PostParsers)
  BY <1>2
<1>8. b = ByNow(s, {"eol"}) /\ c = ByNow(s, {"eol", "port_opts"})
      /\ d = ByNow(s, {"eol", "port_opts", "ctohex"})
  BY <1>2
<1> HIDE DEF a, b, c, d, e
<1>9. /\ b = eol_post_parse(a) /\ c = port_post_parse(b) /\ d = ctohex_post_parse(c)
      /\ e = outfmt_post_parse(d)
  BY <1>3, <1>4, <1>5, <1>6, <1>8 DEF FinishedBy
<1> QED  BY <1>1, <1>7, <1>9 DEF Finished, a

Changed(s, d, v) == [s EXCEPT ![d] = v]

LEMMA ChangedRecord == \A s, d, v : IsRecord(Changed(s, d, v))
BY DEF IsRecord, Changed

(* A parser makes settings of settings. *)
LEMMA ParseKeepsRecord ==
  ASSUME NEW s, IsRecord(s), NEW conf, NEW sval
  PROVE  IsRecord(parse(conf, sval, s).set)
<1> DEFINE p == conf.parse
           to == conf.dest
           X == parse(conf, sval, s)
<1> SUFFICES IsRecord(X.set)
  OBVIOUS
<1>1. \A st, x : Parsed(st, x).set = x
  BY DEF Parsed
<1>2. \A r, d : IsRecord(Store(r, s, d).set)
  <2> SUFFICES ASSUME NEW r, NEW d PROVE IsRecord(Store(r, s, d).set)
    OBVIOUS
  <2>1. Store(r, s, d).set = s \/ Store(r, s, d).set = Changed(s, d, r.val)
    BY <1>1 DEF Store, Changed
  <2> QED  BY <2>1, ChangedRecord
<1>3. CASE p \in {"int", "float", "baud", "databits", "stopbits", "flowcontrol"}
  <2>1. \E r : X = Store(r, s, to)
    BY <1>3 DEF parse
  <2> QED  BY <1>2, <2>1
<1>4. CASE p \in {"flag_true", "flag_count", "str", "devname"}
  <2>1. \E st, d, v : X = Parsed(st, Changed(s, d, v))
    BY <1>4 DEF parse, Changed
  <2> HIDE DEF X
  <2> QED  BY <1>1, <2>1, ChangedRecord
<1>5. CASE p = "baud_dps"
  <2> DEFINE b == port_opts_parse_baud(sval)
             d == port_opts_parse_databits(Tail(b.ep))
             y == port_opts_parse_parity(d.ep)
             t == port_opts_parse_stopbits(y.ep)
             u == [s EXCEPT !["baudrate"] = b.val]
             v == [[[u EXCEPT !["databits"] = d.val] EXCEPT !["parity"] = y.val]
                     EXCEPT !["stopbits"] = t.val]
  <2>1. X = parse_baud_dps(sval, s)
    BY <1>5 DEF parse
  <2>2. \/ X = Parsed("failed", s) \/ X = Parsed("ok", u) \/ X = Parsed("ok", v)
    BY <2>1 DEF parse_baud_dps
  <2>3. IsRecord(u) /\ IsRecord(v)
    BY DEF IsRecord
  <2> HIDE DEF u, v, X
  <2> QED  BY <1>1, <2>2, <2>3 DEF X
<1>6. CASE p = "parity"
  <2>1. X = parse_parity(sval, s)
    BY <1>6 DEF parse
  <2>2. \/ X = Parsed("failed", s)
        \/ \E st, d, v : X = Parsed(st, Changed(s, d, v))
    BY <2>1 DEF parse_parity, Changed
  <2> HIDE DEF X
  <2> QED  BY <1>1, <2>2, ChangedRecord
<1>7. CASE p = "hexfmt"
  <2>1. X = parse_hexfmt(sval, s)
    BY <1>7 DEF parse
  <2>2. X = Parsed("failed", s) \/ X = Parsed("ok", Changed(s, "hexfmt", sval))
    BY <2>1 DEF parse_hexfmt, Changed
  <2> HIDE DEF X
  <2> QED  BY <1>1, <2>2, ChangedRecord
<1>8. CASE p = "cmd"
  <2>1. X = parse_cmd(sval, s)
    BY <1>8 DEF parse
  <2>2. \E st, v : X = Parsed(st, Changed(s, "opq_oo", v))
    BY <2>1 DEF parse_cmd, Changed
  <2> HIDE DEF X
  <2> QED  BY <1>1, <2>2, ChangedRecord
<1>9. CASE p = "eol"
  <2>1. X = parse_eol(sval, s, to)
    BY <1>9 DEF parse
  <2>2. \E st, v : X = Parsed(st, Changed(s, to, v))
    BY <2>1 DEF parse_eol, Changed
  <2> HIDE DEF X
  <2> QED  BY <1>1, <2>2, ChangedRecord
<1>10. CASE p = "map"
  <2> DEFINE r == charmap_parse_opts(s[to].map, sval)
             kept == Changed(s, to, [on |-> s[to].on \/ r.st = "ok", map |-> r.cm])
  <2>1. X = parse_map(sval, s, to)
    BY <1>10 DEF parse
  <2>2. X = [Parsed(r.st, kept) EXCEPT !.loop = r.loop]
    BY <2>1 DEF parse_map, Changed
  <2> HIDE DEF kept
  <2>3. X.set = kept
    BY <2>2 DEF Parsed
  <2> HIDE DEF X
  <2> QED  BY <2>3, ChangedRecord DEF kept
<1>11. CASE p \notin {"int", "float", "baud", "databits", "stopbits", "flowcontrol", "flag_true",
                      "flag_count", "str", "devname", "baud_dps", "parity", "hexfmt", "cmd", "eol",
                      "map"}
  <2>1. X = Parsed("failed", s) \/ X = Parsed("exit", s)
    BY <1>11 DEF parse
  <2> QED  BY <1>1, <2>1
<1> HIDE DEF p
<1> QED  BY <1>3, <1>4, <1>5, <1>6, <1>7, <1>8, <1>9, <1>10, <1>11

(* The sections that have finished. *)
Through == PostParsers \ ToSet(sections)

(* The sections finish once, and none has before the line has been read. *)
OrderInv ==
  /\ IsRecord(set) /\ Distinct(sections)
  /\ stage \in {"init", "args"} => PostParsers \subseteq ToSet(sections)

LEMMA OrderInit == Init => OrderInv
<1> SUFFICES ASSUME Init PROVE OrderInv
  OBVIOUS
<1>1. sections \in Orders /\ set = Defaults
  BY DEF Init
<1>2. Distinct(sections) /\ DOMAIN Tables \subseteq ToSet(sections)
  BY <1>1, OptionsAssumption DEF Distinct
<1>3. PostParsers \subseteq DOMAIN Tables
  BY DEF PostParsers, Tables
<1>4. IsRecord(Defaults)
  BY DEF IsRecord, Defaults
<1> QED  BY <1>1, <1>2, <1>3, <1>4 DEF OrderInv

(* The first section that has something to finish is the next. *)
LEMMA SectionFinishes ==
  ASSUME Inv, OrderInv, post_parse
  PROVE  \E x \in PostParsers :
           /\ x \notin Through /\ Through' = Through \cup {x}
           /\ set' = FinishedBy(x, set) /\ Distinct(sections')
<1>1. PICK i \in DOMAIN sections :
        /\ sections[i] \in PostParsers /\ \A j \in 1..i - 1 : sections[j] \notin PostParsers
        /\ set' = CASE sections[i] = "eol" -> eol_post_parse(set)
                    [] sections[i] = "port_opts" -> port_post_parse(set)
                    [] sections[i] = "ctohex" -> ctohex_post_parse(set)
                    [] sections[i] = "outfmt" -> outfmt_post_parse(set)
        /\ sections' = SubSeq(sections, i + 1, Len(sections))
  BY DEF post_parse
<1> DEFINE x == sections[i]
           s == sections
           t == sections'
           n == Len(s)
<1>2. set' = FinishedBy(x, set)
  BY <1>1 DEF FinishedBy
<1>3. /\ n \in Nat /\ DOMAIN s = 1..n /\ i \in 1..n
      /\ \A j, k \in 1..n : s[j] = s[k] => j = k
  BY <1>1 DEF Inv, FinishInv, OrderInv, Distinct
<1>4. DOMAIN t = 1..(n - i) /\ \A j \in 1..(n - i) : t[j] = s[i + j]
  <2>1. t = SubSeq(s, i + 1, n)
    BY <1>1
  <2> HIDE DEF t, s, n
  <2> QED  BY <1>3, <2>1
<1>5. ToSet(s) = {s[j] : j \in 1..n} /\ ToSet(t) = {t[j] : j \in 1..(n - i)}
  BY <1>3, <1>4 DEF ToSet
<1>6. \A j \in 1..(i - 1) : s[j] \notin PostParsers
  BY <1>1
<1>7. x \in PostParsers /\ x = s[i]
  BY <1>1
<1> HIDE DEF s, t, n, x
<1>8. x \in ToSet(s)
  BY <1>3, <1>5, <1>7
<1>9. x \notin ToSet(t)
  <2> SUFFICES ASSUME NEW j \in 1..(n - i), t[j] = x PROVE FALSE
    BY <1>5
  <2>1. s[i + j] = s[i] /\ i + j \in 1..n
    BY <1>3, <1>4, <1>7
  <2>2. i + j = i
    BY <1>3, <2>1
  <2> QED  BY <1>3, <2>2
<1>10. ASSUME NEW y \in PostParsers, y # x PROVE y \in ToSet(s) <=> y \in ToSet(t)
  <2>1. ASSUME y \in ToSet(s) PROVE y \in ToSet(t)
    <3>1. PICK j \in 1..n : s[j] = y
      BY <1>5, <2>1
    <3>2. j > i
      BY <1>3, <1>6, <1>7, <1>10, <3>1
    <3>3. j - i \in 1..(n - i) /\ i + (j - i) = j
      BY <1>3, <3>2
    <3>4. t[j - i] = y
      BY <1>4, <3>1, <3>3
    <3> QED  BY <1>5, <3>3, <3>4
  <2>2. ASSUME y \in ToSet(t) PROVE y \in ToSet(s)
    <3>1. PICK j \in 1..(n - i) : t[j] = y
      BY <1>5, <2>2
    <3>2. s[i + j] = y /\ i + j \in 1..n
      BY <1>3, <1>4, <3>1
    <3> QED  BY <1>5, <3>2
  <2> QED  BY <2>1, <2>2
<1>11. x \notin PostParsers \ ToSet(s)
       /\ PostParsers \ ToSet(t) = (PostParsers \ ToSet(s)) \cup {x}
  <2> HIDE DEF PostParsers
  <2> QED  BY <1>7, <1>8, <1>9, <1>10
<1>12. \A j, k \in 1..(n - i) : t[j] = t[k] => j = k
  <2> SUFFICES ASSUME NEW j \in 1..(n - i), NEW k \in 1..(n - i), t[j] = t[k] PROVE j = k
    OBVIOUS
  <2>1. s[i + j] = s[i + k] /\ i + j \in 1..n /\ i + k \in 1..n
    BY <1>3, <1>4
  <2>2. i + j = i + k
    BY <1>3, <2>1
  <2> QED  BY <1>3, <2>2
<1>13. Distinct(t)
  BY <1>4, <1>12 DEF Distinct
<1> QED  BY <1>2, <1>7, <1>11, <1>13 DEF Through, s, t

LEMMA OrderNext == Inv /\ OrderInv /\ [Next]_vars => OrderInv'
<1> SUFFICES ASSUME Inv, OrderInv, [Next]_vars PROVE OrderInv'
  OBVIOUS
<1>1. CASE opt_init_cb_addtobtree \/ main \/ no_more_args \/ opt_parse_args_returns
           \/ UNCHANGED vars
  <2>1. UNCHANGED <<set, sections>> /\ (stage' \in {"init", "args"} => stage \in {"init", "args"})
    BY <1>1 DEF opt_init_cb_addtobtree, main, no_more_args, opt_parse_args_returns, vars
  <2> QED  BY <2>1 DEF OrderInv
<1>2. CASE bad_arg
  <2>1. UNCHANGED <<set, sections>> /\ stage = "args"
    BY <1>2 DEF bad_arg
  <2> QED  BY <2>1 DEF OrderInv
<1>3. CASE opt_conf_parse_val
  <2>1. set' = parse(Conf, Sval, set).set /\ sections' = sections /\ stage = "args"
    BY <1>3 DEF opt_conf_parse_val, Answered
  <2>2. IsRecord(set)'
    BY <2>1, ParseKeepsRecord DEF OrderInv
  <2> QED  BY <2>1, <2>2 DEF OrderInv
<1>4. CASE group_loop
  <2>1. stage' = stage /\ sections' = sections /\ stage = "looping"
        /\ (set' = set \/ \E v : set' = Changed(set, loop.dest, v))
    BY <1>4 DEF group_loop, Changed
  <2>2. IsRecord(set')
    BY <2>1, ChangedRecord DEF OrderInv
  <2> QED  BY <2>1, <2>2 DEF OrderInv
<1>5. CASE post_parse
  <2>1. stage = "post" /\ stage' = stage
    BY <1>5 DEF post_parse
  <2>2. PICK x \in PostParsers : set' = FinishedBy(x, set) /\ Distinct(sections')
    BY <1>5, SectionFinishes
  <2>3. IsRecord(FinishedBy(x, set))
    <3>1. IsRecord(set)
      BY DEF OrderInv
    <3> DEFINE s == set
    <3>2. IsRecord(s)
      BY <3>1
    <3> HIDE DEF s
    <3>3. CASE x = "eol"
      <4>1. \E u, v : FinishedBy(x, s) = Changed(Changed(s, "eol_tx_used", u), "eol_rx_used", v)
        BY <3>3 DEF FinishedBy, eol_post_parse, Changed
      <4> QED  BY <4>1, ChangedRecord DEF s
    <3>4. CASE x \in {"port_opts", "ctohex", "outfmt"}
      <4>1. FinishedBy(x, s) = s \/ \E d, v : FinishedBy(x, s) = Changed(s, d, v)
        BY <3>4 DEF FinishedBy, port_post_parse, ctohex_post_parse, outfmt_post_parse, Changed
      <4> QED  BY <3>2, <4>1, ChangedRecord DEF s
    <3> QED  BY <3>3, <3>4 DEF PostParsers, s
  <2> QED  BY <2>1, <2>2, <2>3 DEF OrderInv
<1> QED  BY <1>1, <1>2, <1>3, <1>4, <1>5 DEF Next

(* The settings s, as far as the sections have finished them. *)
Settled(s) ==
  /\ DOMAIN s = DOMAIN Defaults /\ IsRecord(s)
  /\ set = IF stage = "done" THEN Finished(s) ELSE ByNow(s, Through)

(* All of the command line has been read. *)
LEMMA EntersPost ==
  ASSUME Inv, OrderInv, no_more_args, NEW s, s = set
  PROVE  stage' = "post" /\ Settled(s)'
<1>1. stage = "args" /\ stage' = "post" /\ set' = set /\ sections' = sections
  BY DEF no_more_args
<1>2. DOMAIN s = DOMAIN Defaults /\ IsRecord(s)
  BY DEF Inv, SettingsInv, SettingsOK, OrderInv
<1>3. Through' = {}
  BY <1>1 DEF OrderInv, Through
<1>4. ByNow(s, Through)' = s
  <2>1. ByNow(s, {}) = s
    BY <1>2, FinishedIs
  <2> QED  BY <1>3, <2>1 DEF ByNow, FinishedBy, Finisher
<1> QED  BY <1>1, <1>2, <1>4 DEF Settled

(* What is settled stays so. *)
LEMMA StaysSettled ==
  ASSUME Inv, OrderInv, [Next]_vars, stage \in {"post", "done"}, NEW s, Settled(s)
  PROVE  stage' \in {"post", "done"} /\ Settled(s)'
<1>1. CASE post_parse
  <2>1. stage = "post" /\ stage' = "post"
    BY <1>1 DEF post_parse
  <2>2. PICK x \in PostParsers :
          x \notin Through /\ Through' = Through \cup {x} /\ set' = FinishedBy(x, set)
    BY <1>1, SectionFinishes
  <2>3. DOMAIN s = DOMAIN Defaults /\ IsRecord(s) /\ set = ByNow(s, Through)
    BY <2>1 DEF Settled
  <2>4. Through \subseteq PostParsers
    BY DEF Through
  <2>5. FinishedBy(x, ByNow(s, Through)) = ByNow(s, Through \cup {x})
    BY <2>2, <2>3, <2>4, Finishes
  <2>6. set' = ByNow(s, Through')
    BY <2>2, <2>3, <2>5
  <2> QED  BY <2>1, <2>3, <2>6 DEF Settled
<1>2. CASE opt_parse_args_returns
  <2>1. stage = "post" /\ stage' = "done" /\ set' = set
    BY <1>2 DEF opt_parse_args_returns
  <2>2. Through = PostParsers
    BY <1>2 DEF opt_parse_args_returns, Through, ToSet
  <2>3. DOMAIN s = DOMAIN Defaults /\ IsRecord(s) /\ set = ByNow(s, Through)
    BY <2>1 DEF Settled
  <2>4. set = Finished(s)
    BY <2>2, <2>3, FinishedIs
  <2> QED  BY <2>1, <2>3, <2>4 DEF Settled
<1>3. CASE UNCHANGED vars
  BY <1>3 DEF vars, Settled, Through
<1>4. CASE opt_init_cb_addtobtree \/ main \/ no_more_args \/ bad_arg \/ opt_conf_parse_val
           \/ group_loop
  BY <1>4 DEF opt_init_cb_addtobtree, main, no_more_args, bad_arg, opt_conf_parse_val, group_loop
<1> QED  BY <1>1, <1>2, <1>3, <1>4 DEF Next

(* What is left when a word has been read. *)
LEMMA LeavesIt ==
  ASSUME Inv, WordsInv, opt_conf_parse_val, NEW w, NEW a, FollowsAs(w, a)
  PROVE  Now' = a
<1>1. /\ itr' = Given /\ line' = line
      /\ positionals' = IF Key.dashes = 0 THEN [positionals EXCEPT !.last = Conf.positional]
                        ELSE positionals
  BY DEF opt_conf_parse_val
<1>2. positionals \in [conf : Seq(Confs), last : Nat]
  BY DEF Inv, PositionalsInv
<1>3. positionals'.last = a.last
  BY <1>1, <1>2 DEF FollowsAs
<1>4. Now' = LeftBy(itr', line'.argv, positionals'.last)
  BY DEF Now
<1> QED  BY <1>1, <1>3, <1>4 DEF FollowsAs

(* The first element of a command line is passed over. *)
LEMMA StartsAt ==
  ASSUME Inv, WordsInv, FillsInv, main
  PROVE  Now' = Start(line'.argv) /\ set' = Defaults /\ stage' = "args" /\ stage = "init"
<1>1. /\ stage = "init" /\ stage' = "args" /\ UNCHANGED <<itr, positionals, set>>
  BY DEF main
<1>2. itr = opt_argviter_init /\ positionals.last = 0 /\ set = Defaults
  BY <1>1 DEF WordsInv, FillsInv
<1>3. Now' = LeftBy(opt_argviter_init, line'.argv, 0)
  BY <1>1, <1>2 DEF Now
<1> QED  BY <1>1, <1>2, <1>3 DEF LeftBy, opt_argviter_init, Start

-----------------------------------------------------------------------------
(* A command line in words is read.                                        *)

(* Where in the reading r the program is. *)
StandsAt(r, k) ==
  /\ k \in 0..Len(r.words) /\ Now = r.left[k] /\ set = r.set[k]
  /\ k = Len(r.words) => Ending(r) = "done"

Along(r) ==
  /\ stage \notin Errors
  /\ stage = "args" => \E k : StandsAt(r, k)
  /\ stage \in Leaves => stage = Ending(r)
  /\ stage \in {"post", "done"} => Ending(r) = "done" /\ Settled(SetBy(r))

Readable(r) == WholeReading(r, line.argv) /\ CalledByName(r)

AlongInv == \A r : Readable(r) => Along(r)

(* The word that comes next, or the end of the reading.                    *)
LEMMA ComesNext ==
  ASSUME Inv, WordsInv, stage = "args", NEW r, Readable(r), NEW k, StandsAt(r, k)
  PROVE  \/ k = Len(r.words) /\ Key.status = "DONE"
         \/ k < Len(r.words) /\ FollowsAs(r.words[k + 1], r.left[k + 1])
<1> DEFINE n == Len(r.words)
           T == TokensOf(line.argv)
           w == r.words[k + 1]
           a == r.left[k + 1]
<1>1. /\ r.words \in Seq(WordsOf(T)) /\ r.left \in [0..n -> LeftOvers(T)]
      /\ \A i \in 1..n : Spells(r.words[i], r.left[i - 1], r.left[i]) /\ Calls(r.words[i])
      /\ Ending(r) = "done" => NothingLeft(Remains(r))
  BY DEF Readable, WholeReading, Reading, CalledByName
<1>2. n \in Nat /\ k \in 0..n /\ Now = r.left[k] /\ (k = n => Ending(r) = "done")
  BY <1>1 DEF StandsAt
<1>3. CASE k = n
  <2>1. NothingLeft(Now)
    BY <1>1, <1>2, <1>3 DEF Remains
  <2>2. Key.status = "DONE"
    BY <2>1, KeyFinds DEF Now
  <2> QED  BY <1>3, <2>2
<1>4. CASE k # n
  <2>1. k < n /\ k + 1 \in 1..n /\ (k + 1) - 1 = k /\ k + 1 \in 0..n
    BY <1>2, <1>4
  <2>2. Spells(w, r.left[(k + 1) - 1], a) /\ Calls(w)
    BY <1>1, <2>1
  <2>3. Spells(w, Now, a)
    BY <1>2, <2>1, <2>2
  <2>4. w \in WordsOf(T) /\ a \in LeftOvers(T)
    BY <1>1, <2>1
  <2> HIDE DEF w, a
  <2>5. FollowsAs(w, a)
    BY <2>2, <2>3, <2>4, Follows
  <2> QED  BY <2>1, <2>5 DEF w, a
<1> QED  BY <1>3, <1>4

LEMMA AlongRead ==
  ASSUME Inv, WordsInv, opt_conf_parse_val, NEW r, Readable(r), Along(r)
  PROVE  Along(r)'
<1> DEFINE n == Len(r.words)
<1>1. /\ stage = "args" /\ Key.status = "ok"
      /\ set' = parse(Conf, Sval, set).set
      /\ stage' = IF parse(Conf, Sval, set).st \in Stops THEN parse(Conf, Sval, set).st ELSE "args"
  BY DEF opt_conf_parse_val, Answered
<1>2. PICK k : StandsAt(r, k)
  BY <1>1 DEF Along
<1>3. k \in 0..n /\ set = r.set[k]
  BY <1>2 DEF StandsAt
<1>4. k < n /\ FollowsAs(r.words[k + 1], r.left[k + 1])
  BY <1>1, <1>2, ComesNext
<1>5. n \in Nat
  BY DEF Readable, WholeReading, Reading
<1> DEFINE i == k + 1
<1>6. i \in 1..n /\ i - 1 = k /\ i \in 0..n
  BY <1>3, <1>4, <1>5
<1>7. parse(Conf, Sval, set) = AnswerTo(r, i)
  <2>1. parse(Conf, Sval, set) = parse(r.words[i].conf, r.words[i].val, set)
    BY <1>4 DEF FollowsAs
  <2>2. AnswerTo(r, i) = parse(r.words[i].conf, r.words[i].val, r.set[k])
    BY <1>6 DEF AnswerTo
  <2> QED  BY <1>3, <2>1, <2>2
<1>8. Now' = r.left[i]
  BY <1>4, LeavesIt
<1> HIDE DEF i
<1>9. r.set[i] = AnswerTo(r, i).set
      /\ (AnswerTo(r, i).st \notin Stops \/ (i = n /\ AnswerTo(r, i).st \in Leaves))
  BY <1>6 DEF Readable, WholeReading, Reading
<1>10. Leaves \subseteq Stops /\ "args" \notin Errors /\ "args" \notin Leaves
       /\ Leaves \cap Errors = {} /\ Leaves \cap {"args", "post", "done"} = {}
  BY DEF Leaves, Stops, Errors
<1>11. CASE AnswerTo(r, i).st \notin Stops
  <2>1. stage' = "args" /\ set' = r.set[i]
    BY <1>1, <1>7, <1>9, <1>11
  <2>2. i = n => Ending(r) = "done"
    BY <1>10, <1>11 DEF Ending
  <2>3. StandsAt(r, i)'
    BY <1>6, <1>8, <2>1, <2>2 DEF StandsAt, Ending, AnswerTo
  <2> QED  BY <1>10, <2>1, <2>3 DEF Along
<1>12. CASE AnswerTo(r, i).st \in Stops
  <2>1. i = n /\ AnswerTo(r, n).st \in Leaves /\ stage' = AnswerTo(r, n).st /\ n # 0
    BY <1>1, <1>6, <1>7, <1>9, <1>12
  <2>2. Ending(r) = stage'
    BY <2>1 DEF Ending
  <2>3. (Ending(r))' = Ending(r)
    BY DEF Ending, AnswerTo
  <2>4. stage' \in Leaves /\ stage' \notin Errors /\ stage' \notin {"args", "post", "done"}
    BY <1>10, <2>1
  <2> QED  BY <2>2, <2>3, <2>4 DEF Along
<1> QED  BY <1>11, <1>12

LEMMA AlongInit == Init => AlongInv
<1> SUFFICES ASSUME Init PROVE AlongInv
  OBVIOUS
<1>1. stage = "init"
  BY InitFills
<1> QED  BY <1>1 DEF AlongInv, Along, Errors, Leaves

LEMMA AlongNext ==
  ASSUME Inv, WordsInv, FillsInv, OrderInv, AlongInv, [Next]_vars
  PROVE  AlongInv'
<1> SUFFICES ASSUME NEW r, Readable(r)' PROVE Along(r)'
  BY DEF AlongInv
<1>1. ASSUME line' = line PROVE Readable(r) /\ Along(r)
  <2>1. Readable(r)
    BY <1>1 DEF Readable
  <2> QED  BY <2>1 DEF AlongInv
<1>2. \A x : /\ (Ending(x))' = Ending(x)
             /\ Now' = Now /\ set' = set => \A k : StandsAt(x, k) => StandsAt(x, k)'
  BY DEF Ending, AnswerTo, StandsAt
<1>3. CASE opt_init_cb_addtobtree
  <2>1. stage = "init" /\ stage' \in {"init", "failed"}
    BY <1>3 DEF opt_init_cb_addtobtree
  <2>2. stage' \in {"init", "args"}
    BY <2>1, FillsNext
  <2>3. stage' = "init"
    BY <2>1, <2>2
  <2> QED  BY <2>3 DEF Along, Errors, Leaves
<1>4. CASE main
  <2>1. Now' = Start(line'.argv) /\ set' = Defaults /\ stage' = "args"
    BY <1>4, StartsAt
  <2>2. Len(r.words) \in Nat /\ r.left[0] = Start(line'.argv) /\ r.set[0] = Defaults
    BY DEF Readable, WholeReading, Reading
  <2>3. 0 = Len(r.words) => Ending(r) = "done"
    BY DEF Ending
  <2>4. StandsAt(r, 0)'
    BY <1>2, <2>1, <2>2, <2>3 DEF StandsAt
  <2> QED  BY <2>1, <2>4 DEF Along, Errors, Leaves
<1>5. CASE no_more_args
  <2>1. line' = line /\ stage = "args" /\ Key.status = "DONE"
    BY <1>5 DEF no_more_args
  <2>2. Readable(r) /\ Along(r)
    BY <1>1, <2>1
  <2>3. PICK k : StandsAt(r, k)
    BY <2>1, <2>2 DEF Along
  <2>4. k = Len(r.words)
    <3>1. ~FollowsAs(r.words[k + 1], r.left[k + 1])
      BY <2>1 DEF FollowsAs
    <3> QED  BY <2>1, <2>2, <2>3, <3>1, ComesNext
  <2>5. Ending(r) = "done" /\ SetBy(r) = set
    BY <2>3, <2>4 DEF StandsAt, SetBy
  <2>6. stage' = "post" /\ Settled(SetBy(r))'
    <3> DEFINE s == SetBy(r)
    <3>1. s = set
      BY <2>5
    <3>2. (SetBy(r))' = s
      BY DEF SetBy
    <3> HIDE DEF s
    <3>3. stage' = "post" /\ Settled(s)'
      BY <1>5, <3>1, EntersPost
    <3> QED  BY <3>2, <3>3 DEF Settled, ByNow, FinishedBy, Finisher, Finished
  <2> QED  BY <1>2, <2>5, <2>6 DEF Along, Errors, Leaves
<1>6. CASE bad_arg
  <2>1. line' = line /\ stage = "args" /\ Key.status # "DONE"
    BY <1>6 DEF bad_arg
  <2>2. Readable(r) /\ Along(r)
    BY <1>1, <2>1
  <2>3. PICK k : StandsAt(r, k)
    BY <2>1, <2>2 DEF Along
  <2>4. FollowsAs(r.words[k + 1], r.left[k + 1])
    BY <2>1, <2>2, <2>3, ComesNext
  <2>5. Key.status = "ok" /\ Conf # NoConf /\ Given.status = "ok"
    BY <2>4 DEF FollowsAs
  <2> QED  BY <1>6, <2>5 DEF bad_arg
<1>7. CASE opt_conf_parse_val
  <2>1. line' = line
    BY <1>7 DEF opt_conf_parse_val
  <2> QED  BY <1>1, <1>7, <2>1, AlongRead
<1>8. CASE group_loop
  <2>1. line' = line /\ stage' = stage /\ stage = "looping"
    BY <1>8 DEF group_loop
  <2>2. Along(r)
    BY <1>1, <2>1
  <2> QED  BY <1>2, <2>1, <2>2 DEF Along
<1>9. CASE stage \in {"post", "done"}
  <2>1. line' = line
    <3>1. CASE UNCHANGED vars
      BY <3>1 DEF vars
    <3>2. CASE Next
      BY <1>9, <3>2 DEF Next, opt_init_cb_addtobtree, main, no_more_args, bad_arg,
                        opt_conf_parse_val, group_loop, post_parse, opt_parse_args_returns
    <3> QED  BY <3>1, <3>2
  <2>2. Along(r)
    BY <1>1, <2>1
  <2>3. Ending(r) = "done" /\ Settled(SetBy(r))
    BY <1>9, <2>2 DEF Along
  <2> DEFINE s == SetBy(r)
  <2>4. Settled(s)
    BY <2>3
  <2>5. (SetBy(r))' = s
    BY DEF SetBy
  <2> HIDE DEF s
  <2>6. stage' \in {"post", "done"} /\ Settled(s)'
    BY <1>9, <2>4, StaysSettled
  <2>7. (Settled(SetBy(r)))'
    BY <2>5, <2>6 DEF Settled, ByNow, FinishedBy, Finisher, Finished
  <2> QED  BY <1>2, <2>3, <2>6, <2>7 DEF Along, Errors, Leaves
<1>10. CASE UNCHANGED vars
  <2>1. line' = line /\ stage' = stage /\ set' = set /\ Now' = Now /\ Through' = Through
    BY <1>10 DEF vars, Now, Through
  <2>2. Along(r)
    BY <1>1, <2>1
  <2>3. stage = "args" => \E k : StandsAt(r, k)'
    BY <1>2, <2>1, <2>2 DEF Along
  <2>4. ASSUME stage \in {"post", "done"} PROVE Settled(SetBy(r))'
    <3> DEFINE s == SetBy(r)
    <3>1. (SetBy(r))' = s /\ Settled(s)
      BY <2>2, <2>4 DEF SetBy, Along
    <3> HIDE DEF s
    <3>2. (ByNow(s, Through))' = ByNow(s, Through)
      BY <2>1 DEF ByNow, FinishedBy, Finisher
    <3>3. Settled(s)'
      BY <2>1, <3>1, <3>2 DEF Settled, Finished
    <3> QED  BY <3>1, <3>3 DEF Settled, ByNow, FinishedBy, Finisher, Finished
  <2> QED  BY <1>2, <2>1, <2>2, <2>3, <2>4 DEF Along
<1>11. CASE post_parse \/ opt_parse_args_returns
  <2>1. stage \in {"post", "done"}
    BY <1>11 DEF post_parse, opt_parse_args_returns
  <2> QED  BY <1>9, <2>1
<1> QED  BY <1>3, <1>4, <1>5, <1>6, <1>7, <1>8, <1>10, <1>11 DEF Next

LEMMA FillsAndOrder == Spec => [](Inv /\ WordsInv /\ FillsInv /\ OrderInv)
<1>1. Inv /\ FillsInv /\ [Next]_vars => FillsInv'
  BY FillsNext
<1>2. Init => FillsInv
  BY InitFills
<1> QED
  BY <1>1, <1>2, WordsInit, WordsNext, OrderInit, OrderNext, OptionsInvariant, PTL DEF Spec

(* Whatever the command line is and in whatever order the sections are     *)
(* linked: words called by their names are never refused, in whatever      *)
(* spelling, and the settings are what their parsers make of them, one     *)
(* after the other, and then the sections, in any order                    *)
(* (opt_init(), opt_parse_args()).                                         *)
THEOREM WordsAreAlwaysRead == Spec => []WordsAreRead
<1>1. Inv /\ WordsInv /\ FillsInv /\ OrderInv /\ AlongInv /\ [Next]_vars => AlongInv'
  BY AlongNext
<1>2. AlongInv => WordsAreRead
  <2> SUFFICES ASSUME AlongInv, NEW r, WholeReading(r, line.argv), CalledByName(r)
               PROVE  /\ stage \notin Errors
                      /\ stage \in Leaves \cup {"done"} => stage = Ending(r)
                      /\ stage = "done" => set = Finished(SetBy(r))
    BY DEF WordsAreRead
  <2>1. Along(r)
    BY DEF AlongInv, Readable
  <2> QED  BY <2>1 DEF Along, Settled
<1> QED  BY <1>1, <1>2, AlongInit, FillsAndOrder, PTL DEF Spec

-----------------------------------------------------------------------------
(* Nothing but words is read.                                              *)

(* What the word that has been found stands for. *)
LEMMA FoundWord ==
  ASSUME Inv, WordsInv, opt_conf_parse_val
  PROVE  /\ ThisWord \in WordsOf(TokensOf(line.argv)) /\ ThisWord.conf = Conf
         /\ parse(Conf, ThisWord.val, set) = parse(Conf, Sval, set)
         /\ Now' \in LeftOvers(TokensOf(line.argv))
<1> DEFINE argv == line.argv
           T == TokensOf(argv)
           q == Key
           g == Given
           conf == Conf
<1>1. /\ stage = "args" /\ q.status = "ok" /\ g.status = "ok" /\ conf \in Confs /\ itr' = g
      /\ conf # NoConf /\ line' = line
  <2>1. Conf # NoConf /\ line' = line
    BY DEF opt_conf_parse_val
  <2> QED  BY <2>1, ParserAnswers
<1>2. q \in Iterator(argv, T) /\ g \in Iterator(argv, T) /\ argv \in Seq(Seq(T))
  <2>1. q \in Iterator(argv, T)
    BY <1>1, KeyIs DEF Inv
  <2>2. g \in Iterator(argv, T)
    BY <1>1, GivenIs DEF Inv
  <2> QED  BY <2>1, <2>2 DEF Inv, IteratorInv
<1>3. /\ q.name \in Seq(T) /\ q.sp \in Seq(T) /\ g.val \in Seq(T) /\ g.sp \in Seq(T)
      /\ g.argi \in Nat
  BY <1>2 DEF Iterator
<1>4. q.dashes = 0 <=> conf.positional # 0
  <2>1. ASSUME q.dashes = 0 PROVE conf.positional # 0
    <3>1. conf = opt_lookup_next_positional
      BY <2>1 DEF Conf
    <3>2. conf.positional = positionals.last + 1 /\ positionals.last \in Nat
      BY <1>1, <3>1, NextNumber DEF Inv, PositionalsInv
    <3> QED  BY <3>2
  <2>2. ASSUME q.dashes # 0 PROVE conf.positional = 0
    <3>1. conf = opt_lookup(q.name)
      BY <2>2 DEF Conf
    <3>2. \E name \in ToSet(conf.names) : Matches(name, q.name)
      BY <1>1, <3>1, LookupCalls DEF Inv
    <3> QED  BY <1>1, <3>2, NumberedHaveNoName
  <2> QED  BY <2>1, <2>2
<1>5. positionals'.last \in Nat
  <2>1. positionals' = IF q.dashes = 0 THEN [positionals EXCEPT !.last = conf.positional]
                       ELSE positionals
    BY DEF opt_conf_parse_val
  <2>2. conf.positional \in Nat
    BY <1>1, ConfsSuit DEF Suits
  <2>3. positionals \in [conf : Seq(Confs), last : Nat]
    BY DEF Inv, PositionalsInv
  <2> QED  BY <2>1, <2>2, <2>3
<1>6. ThisWord = WordOf(conf, q, g)
  BY DEF ThisWord
<1>7. Now' = LeftBy(g, argv, positionals'.last)
  BY <1>1 DEF Now
<1>8. Sval = IF opt_conf_has_val(conf) THEN g.val ELSE q.name
  BY DEF Sval
<1>9. <<>> \in Seq(T)
  OBVIOUS
<1>10. Ahead(argv, g.argi) \in Seq(Seq(T))
  BY <1>2, <1>3 DEF Ahead
<1> HIDE DEF argv, T, q, g, conf
<1>11. ThisWord \in WordsOf(T) /\ ThisWord.conf = conf
  BY <1>1, <1>3, <1>6, <1>9 DEF WordOf, WordsOf
<1>12. parse(conf, ThisWord.val, set) = parse(conf, Sval, set)
  <2>1. CASE conf.positional # 0
    <3>1. ThisWord.val = Sval
      BY <1>4, <1>6, <1>8, <2>1 DEF WordOf, opt_conf_has_val
    <3> QED  BY <3>1
  <2>2. CASE conf.positional = 0 /\ opt_conf_has_val(conf)
    <3>1. ThisWord.val = Sval
      BY <1>4, <1>6, <1>8, <2>2 DEF WordOf
    <3> QED  BY <3>1
  <2>3. CASE conf.positional = 0 /\ ~opt_conf_has_val(conf)
    BY <2>3, FlagsIgnoreText
  <2> QED  BY <2>1, <2>2, <2>3
<1>13. Now' \in LeftOvers(T)
  BY <1>3, <1>5, <1>7, <1>9, <1>10 DEF LeftBy, LeftOvers
<1> QED  BY <1>11, <1>12, <1>13 DEF conf, T, argv

(* The words up to now are a reading. *)
ReadSoFar(r) ==
  /\ Reading(r, line.argv) /\ CalledSomehow(r) /\ Ending(r) = "done"
  /\ Remains(r) = Now /\ SetBy(r) = set

(* All words have been read. *)
AllRead(r) ==
  /\ WholeReading(r, line.argv) /\ CalledSomehow(r) /\ Ending(r) = "done" /\ Settled(SetBy(r))

WordsOnly ==
  /\ stage = "args" => \E r : ReadSoFar(r)
  /\ stage \in {"post", "done"} => \E r : AllRead(r)

(* A reading, and one word more. *)
OneMore(r, w, a, s) ==
  LET n == Len(r.words)
  IN  [words |-> Append(r.words, w),
       left |-> [i \in 0..(n + 1) |-> IF i = n + 1 THEN a ELSE r.left[i]],
       set |-> [i \in 0..(n + 1) |-> IF i = n + 1 THEN s ELSE r.set[i]]]

LEMMA ReadsOneMore ==
  ASSUME NEW argv, NEW r, Reading(r, argv), CalledSomehow(r), Ending(r) = "done",
         NEW w \in WordsOf(TokensOf(argv)), NEW a \in LeftOvers(TokensOf(argv)), NEW s,
         Spells(w, Remains(r), a), CallsLoosely(w), s = parse(w.conf, w.val, SetBy(r)).set,
         parse(w.conf, w.val, SetBy(r)).st \notin Stops
  PROVE  LET u == OneMore(r, w, a, s)
         IN  /\ Reading(u, argv) /\ CalledSomehow(u) /\ Ending(u) = "done"
             /\ Remains(u) = a /\ SetBy(u) = s
<1> DEFINE n == Len(r.words)
           T == TokensOf(argv)
           u == OneMore(r, w, a, s)
<1>1. /\ r.words \in Seq(WordsOf(T)) /\ r.left \in [0..n -> LeftOvers(T)]
      /\ r.left[0] = Start(argv) /\ r.set[0] = Defaults
      /\ \A i \in 1..n : /\ Spells(r.words[i], r.left[i - 1], r.left[i])
                         /\ r.set[i] = AnswerTo(r, i).set
                         /\ \/ AnswerTo(r, i).st \notin Stops
                            \/ i = n /\ AnswerTo(r, i).st \in Leaves
  BY DEF Reading
<1>2. n \in Nat
  BY <1>1
<1>3. Leaves \subseteq Stops /\ "done" \notin Leaves
  BY DEF Leaves, Stops
<1>4. \A i \in 1..n : AnswerTo(r, i).st \notin Stops
  <2> SUFFICES ASSUME NEW i \in 1..n, AnswerTo(r, i).st \in Stops PROVE FALSE
    OBVIOUS
  <2>1. i = n /\ n # 0 /\ AnswerTo(r, n).st \in Leaves
    BY <1>1, <1>2
  <2>2. Ending(r) \in Leaves
    BY <2>1 DEF Ending
  <2> QED  BY <1>3, <2>2
<1>5. /\ u.words = Append(r.words, w)
      /\ u.left = [i \in 0..(n + 1) |-> IF i = n + 1 THEN a ELSE r.left[i]]
      /\ u.set = [i \in 0..(n + 1) |-> IF i = n + 1 THEN s ELSE r.set[i]]
  BY DEF OneMore
<1> HIDE DEF T, u
<1>6. /\ u.words \in Seq(WordsOf(T)) /\ Len(u.words) = n + 1 /\ u.words[n + 1] = w
      /\ \A i \in 1..n : u.words[i] = r.words[i]
  <2> DEFINE W == WordsOf(T)
             x == r.words
  <2>1. w \in W /\ x \in Seq(W) /\ u.words = Append(x, w)
    BY <1>1, <1>5 DEF T
  <2> HIDE DEF W
  <2>2. u.words \in Seq(W) /\ Len(u.words) = Len(x) + 1 /\ u.words[Len(x) + 1] = w
        /\ \A i \in 1..Len(x) : u.words[i] = x[i]
    <3> HIDE DEF x
    <3> QED  BY <2>1
  <2> QED  BY <2>2 DEF W
<1> HIDE DEF n
<1>7. /\ u.left[n + 1] = a /\ u.set[n + 1] = s
      /\ \A i \in 0..n : u.left[i] = r.left[i] /\ u.set[i] = r.set[i]
  <2>1. n + 1 \in 0..(n + 1) /\ \A i \in 0..n : i \in 0..(n + 1) /\ i # n + 1
    BY <1>2
  <2> QED  BY <1>5, <2>1
<1>8. u.left \in [0..(n + 1) -> LeftOvers(T)]
  <2>1. a \in LeftOvers(T)
    BY DEF T
  <2>2. \A i \in 0..(n + 1) : i = n + 1 \/ i \in 0..n
    BY <1>2
  <2>3. \A i \in 0..n : r.left[i] \in LeftOvers(T)
    BY <1>1 DEF n
  <2> QED  BY <1>5, <2>1, <2>2, <2>3
<1>9. u.left[0] = Start(argv) /\ u.set[0] = Defaults
  <2>1. 0 \in 0..n
    BY <1>2
  <2> QED  BY <1>1, <1>7, <2>1
<1>10. AnswerTo(u, n + 1) = parse(w.conf, w.val, SetBy(r))
  <2>1. (n + 1) - 1 = n /\ n \in 0..n
    BY <1>2
  <2>2. u.set[(n + 1) - 1] = SetBy(r)
    BY <1>7, <2>1 DEF SetBy, n
  <2> QED  BY <1>6, <2>2 DEF AnswerTo
<1>11. ASSUME NEW i \in 1..n
       PROVE  /\ AnswerTo(u, i) = AnswerTo(r, i) /\ u.left[i - 1] = r.left[i - 1]
              /\ u.left[i] = r.left[i] /\ u.set[i] = r.set[i] /\ u.words[i] = r.words[i]
  <2>1. i - 1 \in 0..n /\ i \in 0..n
    BY <1>2
  <2>2. u.words[i] = r.words[i] /\ u.set[i - 1] = r.set[i - 1]
    BY <1>6, <1>7, <2>1
  <2> QED  BY <1>7, <2>1, <2>2 DEF AnswerTo
<1>12. ASSUME NEW i \in 1..(n + 1)
       PROVE  /\ Spells(u.words[i], u.left[i - 1], u.left[i]) /\ u.set[i] = AnswerTo(u, i).set
              /\ AnswerTo(u, i).st \notin Stops /\ CallsLoosely(u.words[i])
  <2>1. CASE i \in 1..n
    <3>1. CallsLoosely(r.words[i])
      BY <2>1 DEF CalledSomehow, n
    <3>2. Spells(r.words[i], r.left[i - 1], r.left[i]) /\ r.set[i] = AnswerTo(r, i).set
      BY <1>1, <2>1 DEF n
    <3> QED  BY <1>4, <1>11, <2>1, <3>1, <3>2 DEF n
  <2>2. CASE i = n + 1
    <3>1. i - 1 = n /\ n \in 0..n
      BY <1>2, <2>2
    <3>2. u.left[i - 1] = Remains(r)
      BY <1>7, <3>1 DEF Remains, n
    <3> QED  BY <1>6, <1>7, <1>10, <2>2, <3>2
  <2> QED  BY <1>2, <2>1, <2>2
<1>13. Reading(u, argv)
  BY <1>6, <1>8, <1>9, <1>12 DEF Reading, T
<1>14. CalledSomehow(u)
  BY <1>6, <1>12 DEF CalledSomehow
<1>15. Ending(u) = "done"
  <2>1. n + 1 \in 1..(n + 1)
    BY <1>2
  <2>2. AnswerTo(u, n + 1).st \notin Leaves
    BY <1>3, <1>12, <2>1
  <2> QED  BY <1>6, <2>2 DEF Ending
<1>16. Remains(u) = a /\ SetBy(u) = s
  BY <1>6, <1>7 DEF Remains, SetBy
<1> QED  BY <1>13, <1>14, <1>15, <1>16 DEF u

LEMMA OnlyInit == Init => WordsOnly
BY InitFills DEF WordsOnly

LEMMA SettledBy ==
  ASSUME NEW r, NEW s, s = SetBy(r), Settled(s)'
  PROVE  Settled(SetBy(r))'
<1> DEFINE u == SetBy(r)
<1>1. (SetBy(r))' = u /\ s = u
  BY DEF SetBy
<1> HIDE DEF u
<1> QED  BY <1>1 DEF Settled, ByNow, FinishedBy, Finisher, Finished

LEMMA OnlyNext ==
  ASSUME Inv, WordsInv, FillsInv, OrderInv, WordsOnly, [Next]_vars
  PROVE  WordsOnly'
<1>1. CASE opt_init_cb_addtobtree
  <2>1. stage' \in {"init", "failed"}
    BY <1>1 DEF opt_init_cb_addtobtree
  <2> QED  BY <2>1 DEF WordsOnly
<1>2. CASE main
  <2> DEFINE start == Start(line'.argv)
             r == [words |-> <<>>, left |-> [i \in 0..0 |-> start],
                   set |-> [i \in 0..0 |-> Defaults]]
             T == TokensOf(line'.argv)
  <2>1. Now' = start /\ set' = Defaults /\ stage' = "args"
    BY <1>2, StartsAt
  <2>2. start \in LeftOvers(T)
    <3> DEFINE argv == line'.argv
    <3>1. argv \in Seq(Seq(T))
      BY <1>2, LinesAssumption DEF main
    <3> HIDE DEF argv, T
    <3>2. Ahead(argv, 1) \in Seq(Seq(T))
      BY <3>1 DEF Ahead
    <3>3. <<>> \in Seq(T)
      OBVIOUS
    <3> QED  BY <3>2, <3>3 DEF Start, LeftOvers, argv
  <2>3. Len(r.words) = 0 /\ r.left[0] = start /\ r.set[0] = Defaults /\ r.words \in Seq(WordsOf(T))
        /\ r.left = [i \in 0..0 |-> start]
    OBVIOUS
  <2> HIDE DEF r, start, T
  <2>4. r.left \in [0..0 -> LeftOvers(T)]
    BY <2>2, <2>3
  <2>5. Reading(r, line'.argv)
    <3>1. \A i : i \notin 1..0
      OBVIOUS
    <3> QED  BY <2>3, <2>4, <3>1 DEF Reading, T, start
  <2>6. CalledSomehow(r) /\ Ending(r) = "done" /\ Remains(r) = Now' /\ SetBy(r) = set'
    <3>1. \A i : i \notin 1..0
      OBVIOUS
    <3> QED  BY <2>1, <2>3, <3>1 DEF CalledSomehow, Ending, Remains, SetBy
  <2>7. PICK x : /\ Reading(x, line'.argv) /\ CalledSomehow(x) /\ Ending(x) = "done"
                 /\ Remains(x) = Now' /\ SetBy(x) = set'
    BY <2>5, <2>6
  <2>8. ReadSoFar(x)'
    BY <2>7 DEF ReadSoFar, Reading, CalledSomehow, Ending, Remains, SetBy, AnswerTo
  <2> QED  BY <2>1, <2>8 DEF WordsOnly
<1>3. CASE no_more_args
  <2>1. line' = line /\ stage = "args" /\ Key.status = "DONE"
    BY <1>3 DEF no_more_args
  <2>2. PICK r : ReadSoFar(r)
    BY <2>1 DEF WordsOnly
  <2>3. NothingLeft(Remains(r))
    BY <2>1, <2>2, KeyFinds DEF ReadSoFar, Now
  <2> DEFINE s == SetBy(r)
  <2>4. s = set
    BY <2>2 DEF ReadSoFar
  <2> HIDE DEF s
  <2>5. stage' = "post" /\ Settled(s)'
    BY <1>3, <2>4, EntersPost
  <2>6. Settled(SetBy(r))'
    <3>1. s = SetBy(r)
      BY DEF s
    <3> QED  BY <2>5, <3>1, SettledBy
  <2>7. WholeReading(r, line.argv) /\ CalledSomehow(r) /\ Ending(r) = "done"
    BY <2>2, <2>3 DEF ReadSoFar, WholeReading
  <2>8. AllRead(r)'
    BY <2>1, <2>6, <2>7
       DEF AllRead, WholeReading, Reading, CalledSomehow, Ending, Remains, AnswerTo
  <2> QED  BY <2>5, <2>8 DEF WordsOnly
<1>4. CASE opt_conf_parse_val
  <2>1. /\ stage = "args" /\ line' = line /\ set' = parse(Conf, Sval, set).set
        /\ stage' = IF parse(Conf, Sval, set).st \in Stops THEN parse(Conf, Sval, set).st
                    ELSE "args"
    BY <1>4 DEF opt_conf_parse_val, Answered
  <2>2. CASE parse(Conf, Sval, set).st \in Stops
    <3>1. stage' \in Stops
      BY <2>1, <2>2
    <3> QED  BY <3>1 DEF WordsOnly, Stops
  <2>3. CASE parse(Conf, Sval, set).st \notin Stops
    <3>1. stage' = "args"
      BY <2>1, <2>3
    <3>2. PICK r : ReadSoFar(r)
      BY <2>1 DEF WordsOnly
    <3> DEFINE argv == line.argv
               w == ThisWord
               a == Now'
               s == set'
               u == OneMore(r, w, a, s)
    <3>3. /\ Reading(r, argv) /\ CalledSomehow(r) /\ Ending(r) = "done"
          /\ Remains(r) = Now /\ SetBy(r) = set
      BY <3>2 DEF ReadSoFar
    <3>4. Spells(w, Remains(r), a) /\ CallsLoosely(w)
      BY <1>4, <3>3, ReadsThisWord
    <3>5. /\ w \in WordsOf(TokensOf(argv)) /\ w.conf = Conf /\ a \in LeftOvers(TokensOf(argv))
          /\ parse(Conf, w.val, set) = parse(Conf, Sval, set)
      BY <1>4, FoundWord
    <3>6. s = parse(w.conf, w.val, SetBy(r)).set /\ parse(w.conf, w.val, SetBy(r)).st \notin Stops
      BY <2>1, <2>3, <3>3, <3>5
    <3>7. argv = line'.argv
      BY <2>1
    <3> HIDE DEF w, a, s, argv
    <3>8. /\ Reading(u, argv) /\ CalledSomehow(u) /\ Ending(u) = "done"
          /\ Remains(u) = a /\ SetBy(u) = s
      BY <3>3, <3>4, <3>5, <3>6, ReadsOneMore
    <3> HIDE DEF u
    <3>9. \E x : /\ Reading(x, line'.argv) /\ CalledSomehow(x) /\ Ending(x) = "done"
                 /\ Remains(x) = Now' /\ SetBy(x) = set'
      BY <3>7, <3>8 DEF a, s
    <3>10. PICK x : /\ Reading(x, line'.argv) /\ CalledSomehow(x) /\ Ending(x) = "done"
                    /\ Remains(x) = Now' /\ SetBy(x) = set'
      BY <3>9
    <3>11. ReadSoFar(x)'
      BY <3>10 DEF ReadSoFar, Reading, CalledSomehow, Ending, Remains, SetBy, AnswerTo
    <3> QED  BY <3>1, <3>11 DEF WordsOnly
  <2> QED  BY <2>2, <2>3
<1>5. CASE bad_arg
  <2>1. stage' \in {"EINVAL", "assert", "ENOENT"}
    BY <1>5, BadArgEnds
  <2> QED  BY <2>1 DEF WordsOnly
<1>6. CASE group_loop
  BY <1>6 DEF group_loop, WordsOnly
<1>7. CASE stage \in {"post", "done"}
  <2>1. line' = line
    <3>1. CASE UNCHANGED vars
      BY <3>1 DEF vars
    <3>2. CASE Next
      BY <1>7, <3>2 DEF Next, opt_init_cb_addtobtree, main, no_more_args, bad_arg,
                        opt_conf_parse_val, group_loop, post_parse, opt_parse_args_returns
    <3> QED  BY <3>1, <3>2
  <2>2. PICK r : AllRead(r)
    BY <1>7 DEF WordsOnly
  <2> DEFINE s == SetBy(r)
  <2>3. Settled(s) /\ s = SetBy(r)
    BY <2>2 DEF AllRead
  <2> HIDE DEF s
  <2>4. stage' \in {"post", "done"} /\ Settled(s)'
    BY <1>7, <2>3, StaysSettled
  <2>5. Settled(SetBy(r))'
    BY <2>3, <2>4, SettledBy
  <2>6. AllRead(r)'
    BY <2>1, <2>2, <2>5
       DEF AllRead, WholeReading, Reading, CalledSomehow, Ending, Remains, AnswerTo
  <2> QED  BY <2>4, <2>6 DEF WordsOnly
<1>8. CASE UNCHANGED vars /\ stage \notin {"post", "done"}
  <2>1. line' = line /\ stage' = stage /\ set' = set /\ Now' = Now
    BY <1>8 DEF vars, Now
  <2>2. ASSUME stage = "args" PROVE \E r : ReadSoFar(r)'
    <3>1. PICK r : ReadSoFar(r)
      BY <2>2 DEF WordsOnly
    <3>2. ReadSoFar(r)'
      BY <2>1, <3>1 DEF ReadSoFar, Reading, CalledSomehow, Ending, Remains, SetBy, AnswerTo
    <3> QED  BY <3>2
  <2> QED  BY <1>8, <2>1, <2>2 DEF WordsOnly
<1>9. CASE post_parse \/ opt_parse_args_returns
  <2>1. stage \in {"post", "done"}
    BY <1>9 DEF post_parse, opt_parse_args_returns
  <2> QED  BY <1>7, <2>1
<1> QED  BY <1>1, <1>2, <1>3, <1>4, <1>5, <1>6, <1>7, <1>8, <1>9 DEF Next

(* Whatever the command line is and in whatever order the sections are     *)
(* linked: when opt_parse_args() returns, the command line was made of     *)
(* words and nothing else, and the settings are those of the words.        *)
THEOREM NothingButWordsIsRead == Spec => []OnlyWordsAreRead
<1>1. Inv /\ WordsInv /\ FillsInv /\ OrderInv /\ WordsOnly /\ [Next]_vars => WordsOnly'
  BY OnlyNext
<1>2. WordsOnly => OnlyWordsAreRead
  <2> SUFFICES ASSUME WordsOnly, stage = "done"
               PROVE  \E r : /\ WholeReading(r, line.argv) /\ CalledSomehow(r)
                             /\ Ending(r) = "done" /\ set = Finished(SetBy(r))
    BY DEF OnlyWordsAreRead
  <2>1. PICK r : AllRead(r)
    BY DEF WordsOnly
  <2> QED  BY <2>1 DEF AllRead, Settled
<1> QED  BY <1>1, <1>2, OnlyInit, FillsAndOrder, PTL DEF Spec

-----------------------------------------------------------------------------
(* What a command line is meant to set.                                    *)

(* A command line whose words set what it is meant to set is parsed as it  *)
(* is meant, and one with something wrong in it is refused                 *)
(* (opt_parse_args()).                                                     *)
THEOREM MeantIsParsed == Spec => [](LineIsMeant => ParsedAsMeant)
<1>1. WordsAreRead /\ OnlyWordsAreRead => (LineIsMeant => ParsedAsMeant)
  <2> SUFFICES ASSUME WordsAreRead, OnlyWordsAreRead, LineIsMeant PROVE ParsedAsMeant
    OBVIOUS
  <2>1. CASE line.bad
    <3>1. stage # "done"
      BY <2>1 DEF OnlyWordsAreRead, LineIsMeant
    <3> QED  BY <2>1, <3>1 DEF ParsedAsMeant
  <2>2. CASE ~line.bad
    <3>1. PICK r : /\ WholeReading(r, line.argv) /\ CalledByName(r)
                   /\ Ending(r) = "done" => Fits(Finished(SetBy(r)))
      BY <2>2 DEF LineIsMeant
    <3>2. /\ stage \notin Errors
          /\ stage = "done" => Ending(r) = "done" /\ set = Finished(SetBy(r))
      BY <3>1 DEF WordsAreRead
    <3>3. stage = "done" => Fits(set)
      BY <3>1, <3>2
    <3> QED  BY <2>2, <3>2, <3>3 DEF ParsedAsMeant, Fits
  <2> QED  BY <2>1, <2>2
<1> QED  BY <1>1, WordsAreAlwaysRead, NothingButWordsIsRead, PTL

(* The ends of line are those the words of the command line are meant to   *)
(* set, wherever they stand (eol_opt_post_parse()).                        *)
THEOREM MeantEolIsUsed == Spec => [](LineIsMeant => SpecificEolWins)
<1>1. WordsAreRead /\ OnlyWordsAreRead => (LineIsMeant => SpecificEolWins)
  <2> SUFFICES ASSUME WordsAreRead, OnlyWordsAreRead, LineIsMeant, stage = "done"
               PROVE  /\ SameEol(set.eol_tx_used, MeantEol("eol_tx"))
                      /\ SameEol(set.eol_rx_used, MeantEol("eol_rx"))
    BY DEF SpecificEolWins
  <2>1. ~line.bad
    BY DEF OnlyWordsAreRead, LineIsMeant
  <2>2. PICK r : /\ WholeReading(r, line.argv) /\ CalledByName(r)
                 /\ Ending(r) = "done" => Fits(Finished(SetBy(r)))
    BY <2>1 DEF LineIsMeant
  <2>3. Ending(r) = "done" /\ set = Finished(SetBy(r))
    BY <2>2 DEF WordsAreRead
  <2>4. Fits(set)
    BY <2>2, <2>3
  <2> QED  BY <2>4 DEF Fits
<1> QED  BY <1>1, WordsAreAlwaysRead, NothingButWordsIsRead, PTL
=============================================================================
