-------------------------- MODULE EnergyTreeProofs --------------------------
(***************************************************************************)
(* Theorems about TreeEditor: only a handler that was overtaken between    *)
(* its check and its write loses the tree.  Then about EnergyReport, for   *)
(* any tree of nodes, any number of meters, polls and faults.              *)
(***************************************************************************)
EXTENDS TreeEditor, EnergyReport, FiniteSums

-----------------------------------------------------------------------------
(* The nodes above a node.                                                 *)

\* Above(t, a) holds the parent of a and, with a node, its parent; and nothing else.
LEMMA AboveIsClosed ==
  ASSUME NEW t \in Tree, NEW a \in Asset
  PROVE  /\ Above(t, a) \in SUBSET Asset
         /\ t[a] \in Asset => t[a] \in Above(t, a)
         /\ \A b \in Above(t, a) : t[b] \in Asset => t[b] \in Above(t, a)
         /\ \A C \in SUBSET Asset :
              (t[a] \in Asset => t[a] \in C) /\ (\A b \in C : t[b] \in Asset => t[b] \in C)
                => Above(t, a) \subseteq C
<1> DEFINE n == Cardinality(Asset)
           parents == [S \in SUBSET Asset |-> {t[b] : b \in S} \cap Asset]
           step == [S \in SUBSET Asset |-> S \cup parents[S]]
           start == {t[a]} \cap Asset
           IsUp(up) == up = [k \in 0 .. n |-> IF k = 0 THEN start
                                              ELSE up[k - 1] \cup ({t[b] : b \in up[k - 1]} \cap Asset)]
           f == CHOOSE up : IsUp(up)
<1>1. n \in Nat /\ IsFiniteSet(Asset)
  BY TreeAssumption, FS_CardinalityType
<1>2. \E up : IsUp(up)
  <2> DEFINE D == SUBSET Asset
  <2>1. start \in D /\ \A S \in D : step[S] \in D
    OBVIOUS
  <2>2. PICK up : Iterates(up, n, D, start, step)
    <3> HIDE DEF step, start, n, D
    <3> QED BY <1>1, <2>1, IteratesExist
  <2>3. \A k \in 1 .. n : up[k - 1] \in SUBSET Asset
    BY <1>1, <2>2 DEF Iterates
  <2>4. \A k \in 1 .. n : up[k] = up[k - 1] \cup ({t[b] : b \in up[k - 1]} \cap Asset)
    BY <2>2, <2>3 DEF Iterates
  <2> DEFINE g == [k \in 0 .. n |-> up[k]]
  <2>5. IsUp(g)
    <3>1. \A k \in 0 .. n : k = 0 \/ (k \in 1 .. n /\ k - 1 \in 0 .. n)
      BY <1>1
    <3>2. up[0] = start
      BY <2>2 DEF Iterates
    <3>3. \A k \in 0 .. n : g[k] = (IF k = 0 THEN start ELSE g[k - 1] \cup ({t[b] : b \in g[k - 1]} \cap Asset))
      <4> HIDE DEF step, start, n
      <4> QED BY <2>4, <3>1, <3>2
    <3> HIDE DEF step, start, n
    <3> QED BY <3>3
  <2> QED BY <2>5
<1>3. IsUp(f)
  <2> HIDE DEF IsUp
  <2> QED BY <1>2
<1>4. Above(t, a) = f[n]
  BY DEF Above
<1>5. f[0] = start
  <2>1. 0 \in 0 .. n
    BY <1>1
  <2> HIDE DEF f, n
  <2> QED BY <1>3, <2>1
<1>6. \A k \in 1 .. n : f[k - 1] \in SUBSET Asset => f[k] = f[k - 1] \cup parents[f[k - 1]]
  <2>1. \A k \in 1 .. n : k \in 0 .. n /\ k # 0
    BY <1>1
  <2> HIDE DEF n, f
  <2> QED BY <1>3, <2>1
<1>7. parents \in [SUBSET Asset -> SUBSET Asset]
  OBVIOUS
<1>8. /\ f[n] \in SUBSET Asset /\ f[0] \subseteq f[n] /\ parents[f[n]] \subseteq f[n]
      /\ \A C \in SUBSET Asset :
           f[0] \subseteq C /\ (\A S \in SUBSET C : parents[S] \subseteq C) => f[n] \subseteq C
  <2>1. f[0] \in SUBSET Asset
    BY <1>5
  <2> HIDE DEF f, parents, start
  <2> QED BY <1>1, <1>6, <1>7, <2>1, ClosedAfterAll
<1> HIDE DEF f
<1>9. \A b \in f[n] : t[b] \in Asset => t[b] \in f[n]
  BY <1>8
<1>10. ASSUME NEW C \in SUBSET Asset, t[a] \in Asset => t[a] \in C,
              \A b \in C : t[b] \in Asset => t[b] \in C
       PROVE  f[n] \subseteq C
  <2>1. \A S \in SUBSET C : parents[S] \subseteq C
    BY <1>10
  <2> QED BY <1>5, <1>8, <1>10, <2>1
<1> QED BY <1>4, <1>5, <1>8, <1>9, <1>10

-----------------------------------------------------------------------------
(* Ranks.                                                                  *)

Ranks(t, rank) ==
  \A a \in Existing(t) : t[a] # Root => t[a] \in Existing(t) /\ rank[t[a]] < rank[a]

IsATree(t) == \E rank \in [Asset -> 0 .. Cardinality(Asset)] : Ranks(t, rank)

LEMMA TreeIsATree_IsATree == TreeIsATree <=> IsATree(tree)
BY DEF TreeIsATree, IsATree, Ranks

\* Ranks however large can be replaced by the numbers of nodes of a lower rank.
LEMMA RanksAreSmall ==
  ASSUME NEW t \in Tree, NEW rank \in [Asset -> Nat], Ranks(t, rank)
  PROVE  IsATree(t)
<1> DEFINE Lower(a) == {b \in Asset : rank[b] < rank[a]}
           small == [a \in Asset |-> Cardinality(Lower(a))]
<1>1. \A S \in SUBSET Asset : /\ IsFiniteSet(S) /\ Cardinality(S) \in 0 .. Cardinality(Asset)
  BY TreeAssumption, FS_Subset, FS_CardinalityType
<1>2. small \in [Asset -> 0 .. Cardinality(Asset)]
  BY <1>1
<1>3. ASSUME NEW a \in Existing(t), t[a] # Root
      PROVE  t[a] \in Existing(t) /\ small[t[a]] < small[a]
  <2>1. a \in Asset /\ t[a] \in Asset /\ t[a] \in Existing(t) /\ rank[t[a]] < rank[a]
    BY <1>3 DEF Ranks, Existing
  <2>2. Lower(t[a]) \subseteq Lower(a) /\ Lower(t[a]) # Lower(a)
    <3>1. t[a] \in Lower(a) /\ t[a] \notin Lower(t[a])
      BY <2>1
    <3> QED BY <2>1, <3>1
  <2>3. IsFiniteSet(Lower(a)) /\ Cardinality(Lower(a)) \in Nat /\ Cardinality(Lower(t[a])) \in Nat
    BY <1>1
  <2>4. Cardinality(Lower(t[a])) < Cardinality(Lower(a))
    <3> HIDE DEF Lower
    <3> QED BY <2>2, <2>3, FS_Subset
  <2> QED BY <2>1, <2>4
<1> QED BY <1>2, <1>3 DEF IsATree, Ranks

\* A node put under one that is neither the node nor below it leaves a tree.
LEMMA MoveKeepsATree ==
  ASSUME NEW t \in Tree, IsATree(t), NEW a \in Existing(t), NEW p \in Existing(t) \cup {Root},
         p # Root => a \notin Above(t, p) \cup {p}
  PROVE  IsATree([t EXCEPT ![a] = p])
<1> DEFINE moved == [t EXCEPT ![a] = p]
<1>0. a \in Asset /\ p \in Asset \cup {Root} /\ Root # Gone /\ Root \notin Asset /\ Gone \notin Asset
  BY TreeAssumption DEF Existing
<1>1. moved \in Tree /\ Existing(moved) = Existing(t)
  BY <1>0, TreeAssumption DEF Tree, Existing
<1>2. PICK rank \in [Asset -> 0 .. Cardinality(Asset)] : Ranks(t, rank)
  BY DEF IsATree
<1>3. Cardinality(Asset) \in Nat
  BY TreeAssumption, FS_CardinalityType
<1>4. CASE p = Root
  <2>1. Ranks(moved, rank)
    BY <1>0, <1>1, <1>2, <1>4 DEF Ranks, Existing, Tree
  <2> QED BY <1>1, <1>2, <2>1 DEF IsATree
<1>5. CASE p # Root
  <2> DEFINE U == Above(t, p) \cup {p}
             high == [b \in Asset |-> IF b \in U THEN rank[b] ELSE rank[b] + rank[p] + 1]
  <2>1. p \in Asset /\ p \in Existing(t) /\ a \notin U
    BY <1>0, <1>5
  <2>2. \A b \in U : t[b] \in Asset => t[b] \in U
    BY <2>1, AboveIsClosed
  <2>3. \A b \in Asset : rank[b] \in Nat
    BY <1>3
  <2>4. high \in [Asset -> Nat]
    BY <2>1, <2>3
  <2>5. ASSUME NEW b \in Existing(moved), moved[b] # Root
        PROVE  moved[b] \in Existing(moved) /\ high[moved[b]] < high[b]
    <3> HIDE DEF U
    <3>1. b \in Asset
      BY <2>5 DEF Existing
    <3>2. CASE b = a
      <4>1. moved[b] = p
        BY <1>0, <3>2 DEF Tree
      <4>2. p \in U
        BY DEF U
      <4>3. high[p] = rank[p] /\ high[a] = rank[a] + rank[p] + 1
        BY <1>0, <2>1, <4>2
      <4> QED BY <1>0, <1>1, <2>1, <2>3, <3>2, <4>1, <4>3
    <3>3. CASE b # a
      <4>1. moved[b] = t[b] /\ b \in Existing(t)
        BY <1>1, <2>5, <3>1, <3>3 DEF Tree
      <4>2. t[b] \in Existing(t) /\ t[b] \in Asset /\ rank[t[b]] < rank[b]
        BY <1>2, <2>5, <4>1 DEF Ranks, Existing
      <4>3. b \in U => t[b] \in U
        BY <2>2, <4>2
      <4>4. high[t[b]] < high[b]
        BY <2>1, <2>3, <3>1, <4>2, <4>3
      <4> QED BY <1>1, <4>1, <4>2, <4>4
    <3> QED BY <3>2, <3>3
  <2>6. Ranks(moved, high)
    BY <2>5 DEF Ranks
  <2>7. IsATree(moved)
    <3> HIDE DEF moved, high
    <3> QED BY <1>1, <2>4, <2>6, RanksAreSmall
  <2> QED BY <2>7
<1> QED BY <1>4, <1>5

\* A new node has none below it.
LEMMA NewNodeKeepsATree ==
  ASSUME NEW t \in Tree, IsATree(t), NEW a \in Asset \ Existing(t), NEW p \in Existing(t) \cup {Root}
  PROVE  IsATree([t EXCEPT ![a] = p])
<1> DEFINE grown == [t EXCEPT ![a] = p]
<1>0. a \in Asset /\ p \in Asset \cup {Root} /\ p # Gone /\ Root \notin Asset
  BY TreeAssumption DEF Existing
<1>1. grown \in Tree /\ Existing(grown) = Existing(t) \cup {a}
  BY <1>0 DEF Tree, Existing
<1>2. PICK rank \in [Asset -> 0 .. Cardinality(Asset)] : Ranks(t, rank)
  BY DEF IsATree
<1>3. \A b \in Asset : rank[b] \in Nat
  BY TreeAssumption, FS_CardinalityType
<1> DEFINE high == [rank EXCEPT ![a] = IF p = Root THEN 0 ELSE rank[p] + 1]
<1>4. high \in [Asset -> Nat]
  BY <1>0, <1>3
<1>5. ASSUME NEW b \in Existing(grown), grown[b] # Root
      PROVE  grown[b] \in Existing(grown) /\ high[grown[b]] < high[b]
  <2>1. CASE b = a
    <3>1. grown[b] = p /\ p \in Existing(t) /\ p # a /\ p \in Asset
      BY <1>0, <1>5, <2>1 DEF Tree
    <3>2. high[p] = rank[p] /\ high[a] = rank[p] + 1
      BY <1>0, <1>5, <3>1
    <3>3. rank[p] \in Nat /\ rank[p] < rank[p] + 1
      BY <1>3, <3>1
    <3> HIDE DEF grown, high
    <3> QED BY <1>1, <2>1, <3>1, <3>2, <3>3
  <2>2. CASE b # a
    <3>1. b \in Existing(t) /\ grown[b] = t[b] /\ b \in Asset
      BY <1>1, <1>5, <2>2 DEF Tree, Existing
    <3>2. t[b] \in Existing(t) /\ t[b] # a /\ t[b] \in Asset /\ rank[t[b]] < rank[b]
      BY <1>2, <1>5, <3>1 DEF Ranks, Existing
    <3>3. high[t[b]] = rank[t[b]] /\ high[b] = rank[b]
      BY <2>2, <3>1, <3>2
    <3> QED BY <1>1, <3>1, <3>2, <3>3
  <2> QED BY <2>1, <2>2
<1>6. Ranks(grown, high)
  BY <1>5 DEF Ranks
<1>7. IsATree(grown)
  <2> HIDE DEF grown, high
  <2> QED BY <1>1, <1>4, <1>6, RanksAreSmall
<1> QED BY <1>7

\* A node without nodes below it can be taken away.
LEMMA LeafGoneKeepsATree ==
  ASSUME NEW t \in Tree, IsATree(t), NEW a \in Asset, \A b \in Asset : t[b] # a
  PROVE  IsATree([t EXCEPT ![a] = Gone])
<1> DEFINE left == [t EXCEPT ![a] = Gone]
<1>1. PICK rank \in [Asset -> 0 .. Cardinality(Asset)] : Ranks(t, rank)
  BY DEF IsATree
<1>2. Existing(left) = Existing(t) \ {a} /\ \A b \in Existing(left) : left[b] = t[b] /\ t[b] # a
  BY DEF Tree, Existing
<1>3. Ranks(left, rank)
  <2> HIDE DEF left
  <2> QED BY <1>1, <1>2 DEF Ranks
<1> QED BY <1>1, <1>3 DEF IsATree

-----------------------------------------------------------------------------
(* The editors and the handlers.                                           *)

LEMMA PutIsRequest ==
  ASSUME NEW c \in Client, NEW a \in Asset, NEW p \in Asset \cup {Root}, NEW clears \in BOOLEAN
  PROVE  LET put == Put(c, a, p, clears)
         IN  /\ put \in Request /\ ~put.checked
             /\ \A op \in {"post", "delete"} : [put EXCEPT !.op = op] \in Request
                                              /\ ~[put EXCEPT !.op = op].checked
BY DEF Put, Request

\* What is written under the others marks the handlers that have checked.
LEMMA OvertakenAreMarked ==
  ASSUME NEW others, others \subseteq Request
  PROVE  /\ Overtake(others) \subseteq Request
         /\ \A q \in Overtake(others) : q.checked => q.overtaken
<1> SUFFICES ASSUME NEW r \in others, NEW q, q = IF r.checked THEN [r EXCEPT !.overtaken = TRUE] ELSE r
             PROVE  q \in Request /\ (q.checked => q.overtaken)
  BY DEF Overtake
<1>1. r \in Request
  OBVIOUS
<1> QED BY <1>1 DEF Request

\* What an editor sends is typed, and no handler has checked it yet.
LEMMA SentAreUnchecked ==
  ASSUME TreeTypeOK, NEW c \in Client,
         \/ SaveNode(c)
         \/ \E a \in Asset : \/ RemoveNode(c, a)
                             \/ \E p \in Asset \cup {Root} : Drop(c, a, p)
                             \/ \E b \in Asset : Reorder(c, a, b)
  PROVE  \E new \in SUBSET Request : Send(new) /\ \A r \in new : ~r.checked
<1>0. /\ tree \in Tree /\ drawn \in [Client -> Tree] /\ requests \subseteq Request
      /\ editing \in [Client -> Asset \cup {Gone}] /\ formParent \in [Client -> Asset \cup {Root}]
  BY DEF TreeTypeOK
<1>1. ASSUME NEW r \in Request, ~r.checked, Send({r})
      PROVE  \E new \in SUBSET Request : Send(new) /\ \A q \in new : ~q.checked
  BY <1>1
<1>2. CASE SaveNode(c)
  <2>1. CASE editing[c] # Gone /\ Send({Put(c, editing[c], formParent[c], TRUE)})
    <3>1. Put(c, editing[c], formParent[c], TRUE) \in Request /\ ~Put(c, editing[c], formParent[c], TRUE).checked
      BY <1>0, <2>1, PutIsRequest
    <3> QED BY <1>1, <2>1, <3>1
  <2>2. ASSUME NEW a \in Asset, Send({[Put(c, a, formParent[c], TRUE) EXCEPT !.op = "post"]})
        PROVE  \E new \in SUBSET Request : Send(new) /\ \A q \in new : ~q.checked
    <3> DEFINE post == [Put(c, a, formParent[c], TRUE) EXCEPT !.op = "post"]
    <3>1. post \in Request /\ ~post.checked
      BY <1>0, PutIsRequest
    <3> HIDE DEF post
    <3> QED BY <1>1, <2>2, <3>1 DEF post
  <2> QED BY <1>2, <2>1, <2>2 DEF SaveNode
<1>3. ASSUME NEW a \in Asset, RemoveNode(c, a)
      PROVE  \E new \in SUBSET Request : Send(new) /\ \A q \in new : ~q.checked
  <2> DEFINE delete == [Put(c, a, Root, TRUE) EXCEPT !.op = "delete"]
  <2>1. Send({delete})
    BY <1>3 DEF RemoveNode
  <2>2. delete \in Request /\ ~delete.checked
    BY PutIsRequest
  <2> HIDE DEF delete
  <2> QED BY <1>1, <2>1, <2>2
<1>4. ASSUME NEW a \in Asset, NEW p \in Asset \cup {Root}, Drop(c, a, p)
      PROVE  \E new \in SUBSET Request : Send(new) /\ \A q \in new : ~q.checked
  <2>1. Send({Put(c, a, p, FALSE)})
    BY <1>4 DEF Drop
  <2>2. Put(c, a, p, FALSE) \in Request /\ ~Put(c, a, p, FALSE).checked
    BY PutIsRequest
  <2> QED BY <1>1, <2>1, <2>2
<1>5. ASSUME NEW a \in Asset, NEW b \in Asset, Reorder(c, a, b)
      PROVE  \E new \in SUBSET Request : Send(new) /\ \A q \in new : ~q.checked
  <2> DEFINE one == Put(c, a, drawn[c][a], FALSE)
             two == Put(c, b, drawn[c][b], FALSE)
  <2>1. /\ Send({one, two})
        /\ drawn[c][a] \in Asset \cup {Root} /\ drawn[c][b] \in Asset \cup {Root}
    BY <1>0, <1>5 DEF Reorder, Existing, Tree
  <2>2. one \in Request /\ two \in Request /\ ~one.checked /\ ~two.checked
    BY <2>1, PutIsRequest
  <2> HIDE DEF one, two
  <2> QED BY <2>1, <2>2
<1> QED BY <1>2, <1>3, <1>4, <1>5

\* The types of the editors, for any number of handlers at the same time.
LEMMA TreeTypeStep ==
  ASSUME TreeTypeOK, [TreeNext]_treeVars
  PROVE  TreeTypeOK'
<1>0. /\ tree \in Tree /\ drawn \in [Client -> Tree] /\ late \in [Client -> SUBSET Tree]
      /\ requests \subseteq Request
      /\ editing \in [Client -> Asset \cup {Gone}] /\ formParent \in [Client -> Asset \cup {Root}]
  BY DEF TreeTypeOK
<1>1. ASSUME NEW new \in SUBSET Request, Send(new) PROVE TreeTypeOK'
  BY <1>0, <1>1 DEF Send, TreeTypeOK
<1>2. ASSUME NEW c \in Client, NEW t \in late[c] \cup {tree}, LoadTree(c, t) PROVE TreeTypeOK'
  <2>1. t \in Tree
    BY <1>0
  <2>2. drawn' \in [Client -> Tree] /\ late' \in [Client -> SUBSET Tree]
    BY <1>0, <1>2, <2>1 DEF LoadTree
  <2> QED BY <1>0, <1>2, <2>2 DEF LoadTree, TreeTypeOK
<1>3. ASSUME NEW c \in Client, DelayLoad(c) PROVE TreeTypeOK'
  BY <1>0, <1>3 DEF DelayLoad, TreeTypeOK
<1>4. ASSUME NEW c \in Client, NEW a \in Asset \cup {Gone}, EditNode(c, a) PROVE TreeTypeOK'
  <2>1. a # Gone => drawn[c][a] \in Asset \cup {Root}
    BY <1>0, <1>4, TreeAssumption DEF EditNode, Existing, Tree
  <2> QED BY <1>0, <1>4, <2>1 DEF EditNode, TreeTypeOK
<1>5. ASSUME NEW c \in Client, NEW p \in Asset \cup {Root}, ChooseParent(c, p) PROVE TreeTypeOK'
  BY <1>0, <1>5 DEF ChooseParent, TreeTypeOK
<1>6. ASSUME NEW c \in Client,
             \/ SaveNode(c)
             \/ \E a \in Asset : \/ RemoveNode(c, a)
                                 \/ \E p \in Asset \cup {Root} : Drop(c, a, p)
                                 \/ \E b \in Asset : Reorder(c, a, b)
      PROVE  TreeTypeOK'
  BY <1>1, <1>6, SentAreUnchecked
<1>7. ASSUME NEW r \in requests, Check(r) PROVE TreeTypeOK'
  <2>1. [r EXCEPT !.checked = TRUE] \in Request
    BY <1>0 DEF Request
  <2> QED BY <1>0, <1>7, <2>1 DEF Check, TreeTypeOK
<1>8. ASSUME NEW r \in requests, Refuse(r) PROVE TreeTypeOK'
  BY <1>0, <1>8 DEF Refuse, TreeTypeOK
<1>9. ASSUME NEW r \in requests, Write(r) PROVE TreeTypeOK'
  <2>1. r.asset \in Asset /\ r.parent \in Asset \cup {Root} /\ r.client \in Client
    BY <1>0 DEF Request
  <2>2. tree' \in Tree
    BY <1>0, <1>9, <2>1 DEF Write, Tree
  <2>3. requests' \subseteq Request
    BY <1>0, <1>9, OvertakenAreMarked DEF Write
  <2> QED BY <1>0, <1>9, <2>1, <2>2, <2>3 DEF Write, TreeTypeOK
<1>10. CASE UNCHANGED treeVars
  BY <1>0, <1>10 DEF treeVars, TreeTypeOK
<1> QED BY <1>2, <1>3, <1>4, <1>5, <1>6, <1>7, <1>8, <1>9, <1>10 DEF TreeNext

\* What a handler has checked is so until another one writes.
LEMMA ChecksLastStep ==
  ASSUME TreeInv, [TreeNext]_treeVars
  PROVE  ChecksLast'
<1>0. TreeTypeOK /\ requests \subseteq Request
  BY DEF TreeInv, TreeTypeOK
<1>1. ASSUME UNCHANGED tree, Running' \subseteq Running PROVE ChecksLast'
  BY <1>1 DEF TreeInv, ChecksLast, Valid
<1>2. ASSUME NEW c \in Client,
             \/ SaveNode(c)
             \/ \E a \in Asset : \/ RemoveNode(c, a)
                                 \/ \E p \in Asset \cup {Root} : Drop(c, a, p)
                                 \/ \E b \in Asset : Reorder(c, a, b)
      PROVE  ChecksLast'
  <2>1. PICK new \in SUBSET Request : Send(new) /\ \A r \in new : ~r.checked
    BY <1>0, <1>2, SentAreUnchecked
  <2>2. Running' \subseteq Running
    BY <2>1 DEF Send, Running
  <2> QED BY <1>1, <2>1, <2>2 DEF Send
<1>3. ASSUME NEW r \in requests, Check(r) PROVE ChecksLast'
  <2> DEFINE done == [r EXCEPT !.checked = TRUE]
  <2>1. done.op = r.op /\ done.asset = r.asset /\ done.parent = r.parent
    BY <1>0 DEF Request
  <2>2. tree' = tree /\ Valid(r) /\ requests' = (requests \ {r}) \cup {done}
    BY <1>3 DEF Check
  <2> HIDE DEF done
  <2>3. Valid(done)'
    BY <2>1, <2>2 DEF Valid
  <2>4. \A q \in Running' : q \in Running \/ q = done
    BY <2>2 DEF Running
  <2> QED BY <2>2, <2>3, <2>4 DEF TreeInv, ChecksLast, Valid
<1>4. ASSUME NEW r \in requests, Write(r) PROVE ChecksLast'
  <2>1. \A q \in requests' : q.checked => q.overtaken
    <3>1. requests \ {r} \subseteq Request
      BY <1>0
    <3> QED BY <1>4, <3>1, OvertakenAreMarked DEF Write
  <2> QED BY <2>1 DEF ChecksLast, Running
<1>5. ASSUME NEW r \in requests, Refuse(r) PROVE ChecksLast'
  BY <1>1, <1>5 DEF Refuse, Running
<1>6. ASSUME UNCHANGED <<tree, requests>> PROVE ChecksLast'
  BY <1>1, <1>6 DEF Running
<1> QED BY <1>2, <1>3, <1>4, <1>5, <1>6
        DEF TreeNext, DelayLoad, LoadTree, EditNode, ChooseParent, treeVars

LEMMA TreeInvStart == TreeInit => TreeInv
BY DEF TreeInit, TreeInv, TreeTypeOK, Tree, ChecksLast, Running

LEMMA TreeInvStep == TreeInv /\ [TreeNext]_treeVars => TreeInv'
BY TreeTypeStep, ChecksLastStep DEF TreeInv

\* A write of what is valid now keeps the tree, however many handlers run.
LEMMA ValidWriteKeepsATree ==
  ASSUME TreeTypeOK, TreeIsATree, NEW r \in requests, Write(r), Valid(r)
  PROVE  TreeIsATree'
<1>1. r \in Request /\ tree \in Tree /\ IsATree(tree)
  BY TreeIsATree_IsATree DEF TreeTypeOK
<1>2. r.asset \in Asset /\ r.parent \in Asset \cup {Root} /\ r.op \in {"put", "post", "delete"}
  BY <1>1 DEF Request
<1>3. tree' = [tree EXCEPT ![r.asset] = IF r.op = "delete" THEN Gone ELSE r.parent]
  BY DEF Write
<1>4. IsATree(tree')
  <2>1. CASE r.op = "delete"
    BY <1>1, <1>2, <1>3, <2>1, LeafGoneKeepsATree DEF Valid
  <2>2. CASE r.op = "post"
    <3>1. r.parent \in Existing(tree) \cup {Root} /\ r.asset \notin Existing(tree)
      BY <1>1, <1>2, <2>2 DEF Valid, Write
    <3> QED BY <1>1, <1>2, <1>3, <2>2, <3>1, NewNodeKeepsATree
  <2>3. CASE r.op = "put"
    <3>1. /\ r.parent \in Existing(tree) \cup {Root} /\ r.asset \in Existing(tree)
          /\ r.parent # Root => r.asset \notin Above(tree, r.parent) \cup {r.parent}
      BY <1>1, <1>2, <2>3 DEF Valid
    <3>2. IsATree([tree EXCEPT ![r.asset] = r.parent])
      BY <1>1, <3>1, MoveKeepsATree
    <3> QED BY <1>3, <2>3, <3>2
  <2> QED BY <1>2, <2>1, <2>2, <2>3
<1> QED BY <1>4 DEF TreeIsATree, IsATree, Ranks

\* A step loses the tree only by a write of a handler that was overtaken.
LEMMA RacesOnlyStep ==
  ASSUME TreeInv, [TreeNext]_treeVars, TreeIsATree, \A r \in requests : Write(r) => ~r.overtaken
  PROVE  TreeIsATree'
<1>1. ASSUME NEW r \in requests, Write(r) PROVE TreeIsATree'
  <2>1. Valid(r)
    BY <1>1 DEF Write, TreeInv, ChecksLast
  <2> QED BY <1>1, <2>1, ValidWriteKeepsATree DEF TreeInv
<1>2. CASE tree' = tree
  BY <1>2 DEF TreeIsATree, Existing
<1> QED BY <1>1, <1>2 DEF TreeNext, DelayLoad, LoadTree, EditNode, ChooseParent, SaveNode, RemoveNode,
                          Drop, Reorder, Send, Check, Refuse, treeVars

\* For any number of editors, however old the trees they show, and any number of
\* handlers at the same time: the tree is only ever lost by a write that another
\* one overtook after its check (the handlers of assets in main.py).
THEOREM OnlyRacesLoseTheTree == TreeSpec => TreeLostToRacesOnly
<1>1. TreeInv /\ [TreeNext]_treeVars
        => [TreeIsATree /\ (\A r \in requests : Write(r) => ~r.overtaken) => TreeIsATree']_treeVars
  BY RacesOnlyStep
<1> QED BY <1>1, TreeInvStart, TreeInvStep, PTL DEF TreeSpec, TreeLostToRacesOnly

-----------------------------------------------------------------------------
(* The tree of the report: which nodes are above which.                    *)

\* What is met from the nodes of a start, going up until a stop.
Climb(parent, start, stop, up) ==
  up = [k \in 0 .. Cardinality(Node) |->
          IF k = 0 THEN start ELSE up[k - 1] \cup ({parent[a] : a \in up[k - 1]} \ stop)]

Climbed(parent, start, stop) == (CHOOSE up : Climb(parent, start, stop, up))[Cardinality(Node)]

LEMMA ClimbIsClosed ==
  ASSUME NEW parent \in [Node -> Node \cup {Above0}], NEW start \in SUBSET Node,
         NEW stop, Above0 \in stop
  PROVE  LET all == Climbed(parent, start, stop)
         IN  /\ all \in SUBSET Node /\ start \subseteq all
             /\ \A b \in all : parent[b] \notin stop => parent[b] \in all
             /\ \A C \in SUBSET Node :
                  start \subseteq C /\ (\A b \in C : parent[b] \notin stop => parent[b] \in C)
                    => all \subseteq C
<1> DEFINE n == Cardinality(Node)
           next == [S \in SUBSET Node |-> {parent[a] : a \in S} \ stop]
           step == [S \in SUBSET Node |-> S \cup next[S]]
           f == CHOOSE up : Climb(parent, start, stop, up)
<1>1. n \in Nat /\ IsFiniteSet(Node)
  BY ReportAssumption, FS_CardinalityType
<1>2. \A S \in SUBSET Node : next[S] = {parent[a] : a \in S} \ stop /\ next[S] \in SUBSET Node
  OBVIOUS
<1>3. \E up : Climb(parent, start, stop, up)
  <2> DEFINE D == SUBSET Node
  <2>1. start \in D /\ \A S \in D : step[S] \in D
    BY <1>2
  <2>2. PICK up : Iterates(up, n, D, start, step)
    <3> HIDE DEF step, n, D
    <3> QED BY <1>1, <2>1, IteratesExist
  <2>3. \A k \in 1 .. n : up[k - 1] \in SUBSET Node
    BY <1>1, <2>2 DEF Iterates
  <2>4. \A k \in 1 .. n : up[k] = up[k - 1] \cup ({parent[a] : a \in up[k - 1]} \ stop)
    BY <2>2, <2>3 DEF Iterates
  <2> DEFINE g == [k \in 0 .. n |-> up[k]]
  <2>5. Climb(parent, start, stop, g)
    <3>1. \A k \in 0 .. n : k = 0 \/ (k \in 1 .. n /\ k - 1 \in 0 .. n)
      BY <1>1
    <3>2. up[0] = start
      BY <2>2 DEF Iterates
    <3>3. \A k \in 0 .. n : g[k] = (IF k = 0 THEN start
                                    ELSE g[k - 1] \cup ({parent[a] : a \in g[k - 1]} \ stop))
      <4> HIDE DEF n
      <4> QED BY <2>4, <3>1, <3>2
    <3>4. g = [k \in 0 .. n |-> IF k = 0 THEN start
                                ELSE g[k - 1] \cup ({parent[a] : a \in g[k - 1]} \ stop)]
      <4> HIDE DEF n
      <4> QED BY <3>3
    <3> HIDE DEF g
    <3> QED BY <3>4 DEF Climb
  <2> QED BY <2>5
<1>4. Climb(parent, start, stop, f)
  BY <1>3
<1>5. f[0] = start
  <2>1. 0 \in 0 .. n
    BY <1>1
  <2> HIDE DEF f
  <2> QED BY <1>4, <2>1 DEF Climb
<1>6. \A k \in 1 .. n : f[k - 1] \in SUBSET Node => f[k] = f[k - 1] \cup next[f[k - 1]]
  <2>1. \A k \in 1 .. n : k \in 0 .. n /\ k # 0
    BY <1>1
  <2> HIDE DEF f
  <2> QED BY <1>2, <1>4, <2>1 DEF Climb
<1>7. next \in [SUBSET Node -> SUBSET Node]
  OBVIOUS
<1>8. /\ f[n] \in SUBSET Node /\ f[0] \subseteq f[n] /\ next[f[n]] \subseteq f[n]
      /\ \A C \in SUBSET Node :
           f[0] \subseteq C /\ (\A S \in SUBSET C : next[S] \subseteq C) => f[n] \subseteq C
  <2>1. f[0] \in SUBSET Node
    BY <1>5
  <2> HIDE DEF f, next
  <2> QED BY <1>1, <1>6, <1>7, <2>1, ClosedAfterAll
<1>9. Climbed(parent, start, stop) = f[n]
  BY DEF Climbed
<1> HIDE DEF f
<1>10. \A b \in f[n] : parent[b] \notin stop => parent[b] \in f[n]
  <2>1. f[n] \in SUBSET Node /\ next[f[n]] \subseteq f[n]
    BY <1>8
  <2> HIDE DEF next
  <2>2. next[f[n]] = {parent[a] : a \in f[n]} \ stop
    BY <1>2, <2>1
  <2> QED BY <2>1, <2>2
<1>11. ASSUME NEW C \in SUBSET Node, start \subseteq C, \A b \in C : parent[b] \notin stop => parent[b] \in C
       PROVE  f[n] \subseteq C
  <2>1. \A S \in SUBSET C : next[S] \subseteq C
    BY <1>11
  <2> QED BY <1>5, <1>8, <1>11, <2>1
<1> QED BY <1>5, <1>8, <1>9, <1>10, <1>11

LEMMA UpwardsIsClosed ==
  ASSUME NEW parent \in [Node -> Node \cup {Above0}], NEW n \in Node
  PROVE  LET all == Upwards(parent, n)
         IN  /\ all \in SUBSET Node /\ n \in all
             /\ \A b \in all : parent[b] # Above0 => parent[b] \in all
             /\ \A C \in SUBSET Node :
                  n \in C /\ (\A b \in C : parent[b] # Above0 => parent[b] \in C) => all \subseteq C
<1> DEFINE start == {n}
           stop == {Above0}
<1>1. Upwards(parent, n) = Climbed(parent, start, stop)
  BY DEF Upwards, Climbed, Climb
<1>2. start \in SUBSET Node /\ Above0 \in stop
  OBVIOUS
<1> HIDE DEF start, stop
<1>3. LET all == Climbed(parent, start, stop)
      IN  /\ all \in SUBSET Node /\ start \subseteq all
          /\ \A b \in all : parent[b] \notin stop => parent[b] \in all
          /\ \A C \in SUBSET Node :
               start \subseteq C /\ (\A b \in C : parent[b] \notin stop => parent[b] \in C)
                 => all \subseteq C
  BY <1>2, ClimbIsClosed
<1> QED BY <1>1, <1>3 DEF start, stop

\* The parts of the plan.
LEMMA PlanParts ==
  ASSUME ReportTypeOK
  PROVE  /\ plan.parent \in [Node -> Node \cup {Above0}] /\ plan.above \in [Node -> SUBSET Node]
         /\ plan.at \in [Meter -> Node] /\ plan.main \in Meter
BY DEF ReportTypeOK

LEMMA AboveInPlan ==
  ASSUME ReportTypeOK, PlanIsATree, NEW n \in Node
  PROVE  /\ plan.above[n] \in SUBSET Node /\ n \in plan.above[n]
         /\ \A b \in plan.above[n] : plan.parent[b] # Above0 => plan.parent[b] \in plan.above[n]
         /\ \A C \in SUBSET Node :
              n \in C /\ (\A b \in C : plan.parent[b] # Above0 => plan.parent[b] \in C)
                => plan.above[n] \subseteq C
BY PlanParts, UpwardsIsClosed DEF PlanIsATree

LEMMA AboveIsTransitive ==
  ASSUME ReportTypeOK, PlanIsATree, NEW n \in Node, NEW b \in plan.above[n]
  PROVE  b \in Node /\ plan.above[b] \subseteq plan.above[n]
<1>1. plan.above[n] \in SUBSET Node
  BY AboveInPlan
<1> QED BY <1>1, AboveInPlan

\* What is above a node and not the node is above its parent.
LEMMA AboveTheParent ==
  ASSUME ReportTypeOK, PlanIsATree, NEW n \in Node, NEW b \in plan.above[n], b # n
  PROVE  plan.parent[n] \in Node /\ b \in plan.above[plan.parent[n]]
<1>1. plan.parent[n] \in Node \cup {Above0}
  BY PlanParts
<1>2. CASE plan.parent[n] = Above0
  <2> DEFINE C == {n}
  <2>1. C \in SUBSET Node /\ n \in C /\ \A c \in C : plan.parent[c] # Above0 => plan.parent[c] \in C
    BY <1>2
  <2>2. plan.above[n] \subseteq C
    <3> HIDE DEF C
    <3> QED BY <2>1, AboveInPlan
  <2> QED BY <2>2
<1>3. CASE plan.parent[n] # Above0
  <2> DEFINE C == {n} \cup plan.above[plan.parent[n]]
  <2>1. plan.parent[n] \in Node
    BY <1>1, <1>3
  <2>2. /\ plan.above[plan.parent[n]] \in SUBSET Node /\ plan.parent[n] \in plan.above[plan.parent[n]]
        /\ \A c \in plan.above[plan.parent[n]] :
             plan.parent[c] # Above0 => plan.parent[c] \in plan.above[plan.parent[n]]
    BY <2>1, AboveInPlan
  <2>3. C \in SUBSET Node /\ n \in C /\ \A c \in C : plan.parent[c] # Above0 => plan.parent[c] \in C
    BY <2>2
  <2>4. plan.above[n] \subseteq C
    <3> HIDE DEF C
    <3> QED BY <2>3, AboveInPlan
  <2> QED BY <2>1, <2>4
<1> QED BY <1>1, <1>2, <1>3

LEMMA AboveIsAntisymmetric ==
  ASSUME ReportTypeOK, PlanIsATree, NEW n \in Node, NEW b \in plan.above[n], n \in plan.above[b]
  PROVE  b = n
<1> SUFFICES ASSUME b # n PROVE FALSE
  OBVIOUS
<1>1. plan.parent[n] \in Node /\ b \in plan.above[plan.parent[n]]
  BY AboveTheParent
<1>2. n \in plan.above[plan.parent[n]]
  BY <1>1, AboveIsTransitive
<1> QED BY <1>1, <1>2, ReportAssumption DEF PlanIsATree

\* Of two nodes above a third one is above the other.
LEMMA AboveIsAChain ==
  ASSUME ReportTypeOK, PlanIsATree, NEW n \in Node, NEW a \in plan.above[n], NEW b \in plan.above[n]
  PROVE  a \in plan.above[b] \/ b \in plan.above[a]
<1> DEFINE C == {c \in plan.above[n] : a \in plan.above[c] \/ c \in plan.above[a]}
<1>1. plan.above[n] \in SUBSET Node /\ n \in C /\ C \in SUBSET Node
  BY AboveInPlan
<1>2. ASSUME NEW c \in C, plan.parent[c] # Above0 PROVE plan.parent[c] \in C
  <2>1. c \in Node /\ a \in Node /\ plan.parent[c] \in plan.above[n]
    BY <1>1, <1>2, AboveInPlan
  <2>2. CASE c \in plan.above[a]
    <3>1. plan.parent[c] \in plan.above[a]
      BY <1>2, <2>1, <2>2, AboveInPlan
    <3> QED BY <2>1, <3>1
  <2>3. CASE a \in plan.above[c] /\ a # c
    <3>1. a \in plan.above[plan.parent[c]]
      BY <2>1, <2>3, AboveTheParent
    <3> QED BY <2>1, <3>1
  <2>4. CASE a = c
    BY <2>1, <2>2, <2>4, AboveInPlan
  <2> QED BY <2>2, <2>3, <2>4
<1>3. plan.above[n] \subseteq C
  <2> HIDE DEF C
  <2> QED BY <1>1, <1>2, AboveInPlan
<1> QED BY <1>3

\* A row's walk towards the authoritative meter ends there, and meets what is on
\* the way.
LEMMA WalkMeets ==
  ASSUME ReportTypeOK, PlanIsATree, NEW n \in Node, NEW x \in plan.above[n], x # n,
         plan.at[plan.main] \in plan.above[x], plan.at[plan.main] # x, x \in Submetered
  PROVE  Shadowed(n)
<1> DEFINE s == plan.at[plan.main]
           stop == {Above0, s}
           start == {plan.parent[n]} \ stop
           met == Climbed(plan.parent, start, stop)
<1>1. Shadowed(n) <=> met \cap Submetered # {}
  BY DEF Shadowed, Climbed, Climb
<1>2. plan.parent \in [Node -> Node \cup {Above0}] /\ s \in Node /\ x \in Node
  BY PlanParts, AboveIsTransitive
<1>3. start \in SUBSET Node /\ Above0 \in stop
  BY <1>2
<1>4. /\ met \in SUBSET Node /\ start \subseteq met
      /\ \A b \in met : plan.parent[b] \notin stop => plan.parent[b] \in met
  <2> HIDE DEF start, stop
  <2> QED BY <1>2, <1>3, ClimbIsClosed
<1> DEFINE C == {c \in plan.above[n] : c = n \/ c \in met \/ c \in plan.above[s]}
<1>5. plan.above[n] \in SUBSET Node /\ C \in SUBSET Node /\ n \in C
  BY AboveInPlan
<1>6. ASSUME NEW c \in C, plan.parent[c] # Above0 PROVE plan.parent[c] \in C
  <2>1. c \in Node /\ plan.parent[c] \in plan.above[n]
    BY <1>5, <1>6, AboveInPlan
  <2>2. CASE plan.parent[c] = s
    BY <1>2, <2>1, <2>2, AboveInPlan
  <2>3. CASE plan.parent[c] # s
    <3>1. plan.parent[c] \notin stop
      BY <1>6, <2>3
    <3>2. CASE c = n
      <4>1. plan.parent[c] \in start
        BY <3>1, <3>2
      <4> HIDE DEF start, stop, met
      <4> QED BY <1>4, <2>1, <4>1
    <3>3. CASE c \in met
      <4> HIDE DEF start, stop, met
      <4> QED BY <1>4, <2>1, <3>1, <3>3
    <3>4. CASE c \in plan.above[s]
      <4>1. plan.parent[c] \in plan.above[s]
        BY <1>2, <1>6, <3>4, AboveInPlan
      <4> QED BY <2>1, <4>1
    <3> QED BY <3>2, <3>3, <3>4
  <2> QED BY <2>2, <2>3
<1>7. plan.above[n] \subseteq C
  <2> HIDE DEF C
  <2> QED BY <1>5, <1>6, AboveInPlan
<1>8. x \notin plan.above[s]
  BY <1>2, AboveIsAntisymmetric
<1>9. x \in met
  <2> HIDE DEF met, s
  <2> QED BY <1>7, <1>8
<1> HIDE DEF met
<1> QED BY <1>1, <1>9

\* What a walk meets is above the node.
LEMMA WalkIsAbove ==
  ASSUME ReportTypeOK, PlanIsATree, NEW n \in Node, Shadowed(n)
  PROVE  \E x \in Submetered : x \in plan.above[n] /\ x # n
<1> DEFINE stop == {Above0, plan.at[plan.main]}
           start == {plan.parent[n]} \ stop
           met == Climbed(plan.parent, start, stop)
<1>1. met \cap Submetered # {}
  BY DEF Shadowed, Climbed, Climb
<1>2. plan.parent \in [Node -> Node \cup {Above0}]
  BY PlanParts
<1>3. start \in SUBSET Node /\ Above0 \in stop
  BY <1>2
<1>4. /\ met \in SUBSET Node
      /\ \A C \in SUBSET Node :
           start \subseteq C /\ (\A b \in C : plan.parent[b] \notin stop => plan.parent[b] \in C)
             => met \subseteq C
  <2> HIDE DEF start, stop
  <2> QED BY <1>2, <1>3, ClimbIsClosed
<1> DEFINE p == plan.parent[n]
<1>5. CASE p = Above0
  <2> DEFINE none == {}
  <2>1. start \subseteq none /\ none \in SUBSET Node
    BY <1>5
  <2>2. \A b \in none : plan.parent[b] \notin stop => plan.parent[b] \in none
    OBVIOUS
  <2>3. met \subseteq none
    <3> HIDE DEF none, start, stop, met
    <3> QED BY <1>4, <2>1, <2>2
  <2> HIDE DEF met
  <2> QED BY <1>1, <2>3
<1>6. CASE p # Above0
  <2>1. p \in Node
    BY <1>2, <1>6
  <2>2. /\ plan.above[p] \in SUBSET Node /\ p \in plan.above[p]
        /\ \A b \in plan.above[p] : plan.parent[b] # Above0 => plan.parent[b] \in plan.above[p]
    BY <2>1, AboveInPlan
  <2>3. start \subseteq plan.above[p]
    BY <2>2
  <2>4. \A b \in plan.above[p] : plan.parent[b] \notin stop => plan.parent[b] \in plan.above[p]
    BY <2>2
  <2>5. met \subseteq plan.above[p]
    <3> HIDE DEF start, stop, met, p
    <3> QED BY <1>4, <2>2, <2>3, <2>4
  <2>6. p \in plan.above[n] /\ n \notin plan.above[p]
    BY <1>6, AboveInPlan DEF PlanIsATree
  <2>7. plan.above[p] \subseteq plan.above[n]
    BY <2>6, AboveIsTransitive
  <2> HIDE DEF met
  <2> QED BY <1>1, <2>5, <2>6, <2>7
<1> QED BY <1>5, <1>6

-----------------------------------------------------------------------------
(* What flows.                                                             *)

LEMMA FlowedIsNat ==
  ASSUME NEW m \in Meter, NEW low \in Int, NEW till \in Int
  PROVE  Flowed(m, low, till) \in Nat
<1> DEFINE all == low + 1 .. till
           S == {t \in all : Counts(m, flow[t])}
<1>1. IsFiniteSet(all)
  BY FS_Interval
<1>2. S \in SUBSET all
  OBVIOUS
<1>3. Cardinality(S) \in Nat
  <2> HIDE DEF S, all
  <2> QED BY <1>1, <1>2, FS_Subset, FS_CardinalityType
<1> QED BY <1>3 DEF Flowed

LEMMA FlowedSplits ==
  ASSUME NEW m \in Meter, NEW low \in Int, NEW mid \in Int, NEW till \in Int, low <= mid, mid <= till
  PROVE  Flowed(m, low, till) = Flowed(m, low, mid) + Flowed(m, mid, till)
<1> DEFINE S == {t \in low + 1 .. mid : Counts(m, flow[t])}
           T == {t \in mid + 1 .. till : Counts(m, flow[t])}
           all == low + 1 .. till
<1>1. IsFiniteSet(all) /\ S \in SUBSET all /\ T \in SUBSET all
  BY FS_Interval
<1>2. S \cup T = {t \in low + 1 .. till : Counts(m, flow[t])} /\ S \cap T = {}
  OBVIOUS
<1>3. IsFiniteSet(S) /\ IsFiniteSet(T)
  <2> HIDE DEF S, T, all
  <2> QED BY <1>1, FS_Subset
<1>4. Cardinality(S \cup T) = Cardinality(S) + Cardinality(T)
  <2> HIDE DEF S, T, all
  <2> QED BY <1>2, <1>3, SizeOfUnion
<1> HIDE DEF S, T
<1>5. Flowed(m, low, till) = Cardinality(S \cup T)
  BY <1>2 DEF Flowed
<1> QED BY <1>4, <1>5 DEF Flowed, S, T

\* A poll, read as a change of what flowed.
LEMMA PollFlows ==
  ASSUME ReportTypeOK, NEW n \in Node, NEW missed \in SUBSET Meter, NEW reset \in SUBSET Meter,
         NextPoll(n, missed, reset), NEW m \in Meter
  PROVE  /\ poll \in Nat /\ poll' = poll + 1
         /\ \A low \in Nat, till \in 0 .. poll : Flowed(m, low, till)' = Flowed(m, low, till)
         /\ \A low \in 0 .. poll :
              Flowed(m, low, poll)' = Flowed(m, low, poll) + (IF Counts(m, n) THEN 1 ELSE 0)
<1>1. /\ flow \in Seq(Node) /\ flow' = Append(flow, n) /\ plan' = plan
      /\ poll \in Nat /\ poll' = poll + 1
      /\ \A t \in 1 .. poll : flow'[t] = flow[t]
      /\ flow'[poll + 1] = n
  BY DEF ReportTypeOK, NextPoll, poll
<1>2. \A x : Counts(m, x)' = Counts(m, x)
  BY <1>1 DEF Counts
<1>3. ASSUME NEW low \in Nat, NEW till \in 0 .. poll
      PROVE  Flowed(m, low, till)' = Flowed(m, low, till)
  <2>1. \A t \in low + 1 .. till : t \in 1 .. poll
    BY <1>1
  <2>2. {t \in low + 1 .. till : Counts(m, flow[t])}' = {t \in low + 1 .. till : Counts(m, flow[t])}
    BY <1>1, <2>1 DEF Counts
  <2> QED BY <2>2 DEF Flowed
<1>4. ASSUME NEW low \in 0 .. poll
      PROVE  Flowed(m, low, poll)' = Flowed(m, low, poll) + (IF Counts(m, n) THEN 1 ELSE 0)
  <2> DEFINE S == {t \in low + 1 .. poll : Counts(m, flow[t])}
             all == low + 1 .. poll
  <2>1. IsFiniteSet(all) /\ S \in SUBSET all
    <3>1. low + 1 \in Int /\ poll \in Int
      BY <1>1
    <3> QED BY <3>1, FS_Interval
  <2>2. IsFiniteSet(S) /\ Cardinality(S) \in Nat
    <3> HIDE DEF S, all
    <3> QED BY <2>1, FS_Subset, FS_CardinalityType
  <2>3. poll + 1 \notin S
    <3>1. poll + 1 \notin all
      BY <1>1
    <3> HIDE DEF S, all
    <3> QED BY <2>1, <3>1
  <2>4. \A t : t \in S' <=> t \in S \/ (t = poll + 1 /\ Counts(m, n))
    <3>1. low + 1 .. poll' = all \cup {poll + 1} /\ \A t \in all : t \in 1 .. poll
      BY <1>1
    <3> QED BY <1>1, <3>1 DEF Counts
  <2>5. Flowed(m, low, poll)' = Cardinality(S') /\ Flowed(m, low, poll) = Cardinality(S)
    BY DEF Flowed
  <2> HIDE DEF S
  <2>6. CASE Counts(m, n)
    <3>1. S' = S \cup {poll + 1}
      BY <2>4, <2>6
    <3>2. Cardinality(S') = Cardinality(S) + 1
      BY <2>2, <2>3, <3>1, FS_AddElement, Zenon
    <3> QED BY <2>5, <2>6, <3>2
  <2>7. CASE ~Counts(m, n)
    <3>1. S' = S
      BY <2>4, <2>7
    <3> QED BY <2>2, <2>5, <2>7, <3>1
  <2> QED BY <2>6, <2>7
<1> QED BY <1>1, <1>3, <1>4

-----------------------------------------------------------------------------
(* The inductive invariant of the report.                                  *)

LEMMA NothingFlows ==
  ASSUME NEW m \in Meter, NEW t \in Int
  PROVE  Flowed(m, t, t) = 0
<1>1. {k \in t + 1 .. t : Counts(m, flow[k])} = {}
  OBVIOUS
<1> QED BY <1>1, FS_EmptySet DEF Flowed

LEMMA ReportTypeStart == ReportInit => ReportTypeOK /\ PlanIsATree
<1> SUFFICES ASSUME ReportInit PROVE ReportTypeOK /\ PlanIsATree
  OBVIOUS
<1>1. PICK parent \in [Node -> Node \cup {Above0}], at \in [Meter -> Node] :
        /\ \A n \in Node : parent[n] # Above0 => n \notin Upwards(parent, parent[n])
        /\ plan = [parent |-> parent, above |-> [n \in Node |-> Upwards(parent, n)],
                   at |-> at, main |-> Primary(at)]
  BY DEF ReportInit
<1>2. Primary(at) \in Meter
  <2> DEFINE preferred == {m \in Meter : at[m] \in Mains}
  <2>1. CASE preferred = {}
    BY <2>1, ReportAssumption DEF Primary, Meter
  <2>2. CASE preferred # {}
    <3>1. Meters \in Int /\ 1 \in Int
      BY ReportAssumption
    <3>2. IsFiniteSet(Meter) /\ Meter \in SUBSET Int
      BY <3>1, FS_Interval DEF Meter
    <3>3. preferred \in SUBSET Int /\ IsFiniteSet(preferred) /\ preferred \subseteq Meter
      BY <3>2, FS_Subset
    <3>4. Min(preferred) \in preferred
      <4> HIDE DEF preferred
      <4> QED BY <2>2, <3>3, MinAndMax
    <3>5. Primary(at) = Min(preferred)
      BY <2>2 DEF Primary
    <3> QED BY <3>3, <3>4, <3>5
  <2> QED BY <2>1, <2>2
<1>3. \A n \in Node : Upwards(parent, n) \in SUBSET Node
  BY UpwardsIsClosed
<1>4. /\ plan.parent = parent /\ plan.at = at /\ plan.main = Primary(at)
      /\ plan.above = [n \in Node |-> Upwards(parent, n)]
  BY <1>1
<1>5. plan \in [parent: [Node -> Node \cup {Above0}], above: [Node -> SUBSET Node],
                at: [Meter -> Node], main: Meter]
  <2>1. [n \in Node |-> Upwards(parent, n)] \in [Node -> SUBSET Node]
    BY <1>3
  <2> QED BY <1>1, <1>2, <2>1
<1>6. flow \in Seq(Node) /\ poll = 0
  BY DEF ReportInit, poll
<1>7. ReportTypeOK
  BY <1>5, <1>6, ReportAssumption DEF ReportInit, ReportTypeOK, MeterReading
<1>8. PlanIsATree
  <2> SUFFICES ASSUME NEW n \in Node
               PROVE  /\ plan.above[n] = Upwards(plan.parent, n)
                      /\ plan.parent[n] # Above0 => n \notin plan.above[plan.parent[n]]
    BY DEF PlanIsATree
  <2>1. \A k \in Node : plan.above[k] = Upwards(parent, k)
    BY <1>4
  <2>2. parent[n] # Above0 => parent[n] \in Node /\ n \notin Upwards(parent, parent[n])
    BY <1>1
  <2> QED BY <1>4, <2>1, <2>2
<1> QED BY <1>7, <1>8

LEMMA ReportTypeNext ==
  ASSUME ReportTypeOK, PlanIsATree, NEW n \in Node, NEW missed \in SUBSET Meter,
         NEW reset \in SUBSET Meter, NextPoll(n, missed, reset)
  PROVE  ReportTypeOK' /\ PlanIsATree'
<1>1. /\ flow \in Seq(Node) /\ flow' = Append(flow, n) /\ plan' = plan
      /\ poll \in Nat /\ poll' = poll + 1 /\ poll < LastPoll /\ LastPoll \in Nat
  BY ReportAssumption DEF ReportTypeOK, NextPoll, poll
<1>2. flow' \in Seq(Node) /\ poll' <= LastPoll
  BY <1>1
<1>3. counter' \in [Meter -> Nat]
  BY DEF ReportTypeOK, NextPoll
<1>4. resets' \subseteq Meter \X (1 .. LastPoll)
  <2>1. poll + 1 \in 1 .. LastPoll
    BY <1>1
  <2> QED BY <2>1 DEF ReportTypeOK, NextPoll
<1>5. ASSUME NEW m \in Meter PROVE readings'[m] \subseteq [poll: 0 .. poll', value: Nat]
  <2>1. 0 .. poll \subseteq 0 .. poll' /\ poll + 1 \in 0 .. poll'
    BY <1>1
  <2>2. readings[m] \subseteq [poll: 0 .. poll', value: Nat]
    BY <2>1 DEF ReportTypeOK
  <2>3. MeterReading(poll + 1, counter'[m]) \in [poll: 0 .. poll', value: Nat]
    BY <1>3, <2>1 DEF MeterReading
  <2>4. readings'[m] \subseteq readings[m] \cup {MeterReading(poll + 1, counter'[m])}
    BY DEF NextPoll
  <2> QED BY <2>2, <2>3, <2>4
<1>6. ReportTypeOK'
  BY <1>1, <1>2, <1>3, <1>4, <1>5 DEF ReportTypeOK
<1>7. PlanIsATree'
  BY <1>1 DEF PlanIsATree
<1> QED BY <1>6, <1>7

\* A poll adds one reading, or none.
LEMMA PollReads ==
  ASSUME ReportTypeOK, NEW n \in Node, NEW missed \in SUBSET Meter,
         NEW reset \in SUBSET Meter, NextPoll(n, missed, reset), NEW m \in Meter
  PROVE  /\ counter'[m] = (IF m \in reset THEN 0 ELSE counter[m]) + (IF Counts(m, n) THEN 1 ELSE 0)
         /\ \/ readings'[m] = readings[m]
            \/ readings'[m] = readings[m] \cup {MeterReading(poll + 1, counter'[m])}
         /\ WasReset(m) => WasReset(m)'
         /\ m \in reset => WasReset(m)'
<1>1. poll \in Nat /\ poll' = poll + 1
  BY PollFlows
<1>2. 1 .. poll \subseteq 1 .. poll' /\ poll + 1 \in 1 .. poll'
  BY <1>1
<1>3. resets \subseteq resets' /\ (m \in reset => <<m, poll + 1>> \in resets')
  BY DEF NextPoll
<1>4. counter'[m] = (IF m \in reset THEN 0 ELSE counter[m]) + (IF Counts(m, n) THEN 1 ELSE 0)
  BY DEF NextPoll
<1>5. \/ readings'[m] = readings[m]
      \/ readings'[m] = readings[m] \cup {MeterReading(poll + 1, counter'[m])}
  BY DEF NextPoll
<1>6. WasReset(m) => WasReset(m)'
  BY <1>2, <1>3 DEF WasReset
<1>7. m \in reset => WasReset(m)'
  BY <1>2, <1>3 DEF WasReset
<1> QED BY <1>4, <1>5, <1>6, <1>7

\* What one meter shows stays explained by what flows.
LEMMA PollIsExplained ==
  ASSUME ReportTypeOK, NEW n \in Node, NEW missed \in SUBSET Meter,
         NEW reset \in SUBSET Meter, NextPoll(n, missed, reset), NEW m \in Meter,
         ReadingsAreExplained(m)
  PROVE  ReadingsAreExplained(m)'
<1>1. /\ poll \in Nat /\ poll' = poll + 1 /\ counter[m] \in Nat /\ counter'[m] \in Nat
      /\ \A q \in readings[m] : q.poll \in 0 .. poll /\ q.value \in Nat
  <2>1. poll \in Nat /\ poll' = poll + 1
    BY PollFlows
  <2>2. counter[m] \in Nat /\ counter'[m] \in Nat
    BY DEF ReportTypeOK, NextPoll
  <2>3. readings[m] \subseteq [poll: 0 .. poll, value: Nat]
    BY DEF ReportTypeOK
  <2> QED BY <2>1, <2>2, <2>3
<1>2. PICK new : new = MeterReading(poll + 1, counter'[m])
  OBVIOUS
<1>3. new.poll = poll' /\ new.value = counter'[m]
  BY <1>1, <1>2 DEF MeterReading
<1>4. readings'[m] \subseteq readings[m] \cup {new} /\ IsFiniteSet(readings'[m])
  <2>1. IsFiniteSet(readings[m] \cup {new})
    BY FS_AddElement DEF ReadingsAreExplained
  <2> QED BY <1>2, <2>1, PollReads DEF ReadingsAreExplained
<1>5. \A q, r \in readings'[m] : q.poll = r.poll => q = r
  <2>1. \A q \in readings[m] : q.poll # new.poll
    BY <1>1, <1>3
  <2> QED BY <1>4, <2>1 DEF ReadingsAreExplained
<1>6. ASSUME NEW q \in readings[m] PROVE Explains(m, q, poll, counter[m])'
  <2> DEFINE unit == IF Counts(m, n) THEN 1 ELSE 0
  <2>1. q.poll \in Nat /\ q.poll \in 0 .. poll /\ q.poll \in Int /\ q.value \in Nat
    BY <1>1
  <2>2. Flowed(m, q.poll, poll) \in Nat /\ unit \in 0 .. 1
    BY <1>1, <2>1, FlowedIsNat
  <2>3. Flowed(m, q.poll, poll)' = Flowed(m, q.poll, poll) + unit
    BY <2>1, PollFlows
  <2>4. \/ counter[m] = q.value + Flowed(m, q.poll, poll)
        \/ WasReset(m) /\ counter[m] <= Flowed(m, q.poll, poll)
    BY DEF ReadingsAreExplained, Explains
  <2>5. /\ counter'[m] = (IF m \in reset THEN 0 ELSE counter[m]) + unit
        /\ WasReset(m) => WasReset(m)'
        /\ m \in reset => WasReset(m)'
    BY PollReads
  <2> HIDE DEF unit
  <2>6. \/ counter'[m] = q.value + Flowed(m, q.poll, poll)'
        \/ WasReset(m)' /\ counter'[m] <= Flowed(m, q.poll, poll)'
    <3>1. CASE m \in reset
      BY <2>2, <2>3, <2>5, <3>1
    <3>2. CASE m \notin reset
      BY <1>1, <2>1, <2>2, <2>3, <2>4, <2>5, <3>2
    <3> QED BY <3>1, <3>2
  <2> QED BY <2>6 DEF Explains
<1>7. Flowed(m, new.poll, poll)' = 0
  <2>1. {k \in new.poll + 1 .. poll' : Counts(m, flow[k])'} = {}
    BY <1>1, <1>3
  <2> QED BY <2>1, FS_EmptySet DEF Flowed
<1>8. Explains(m, new, poll, counter[m])'
  BY <1>1, <1>3, <1>7 DEF Explains
<1>9. ASSUME NEW q \in readings[m], NEW r \in readings[m], q.poll <= r.poll
      PROVE  Explains(m, q, r.poll, r.value)'
  <2>1. q.poll \in Nat /\ r.poll \in 0 .. poll
    BY <1>1
  <2>2. Flowed(m, q.poll, r.poll)' = Flowed(m, q.poll, r.poll)
    BY <2>1, PollFlows
  <2>3. Explains(m, q, r.poll, r.value)
    BY <1>9 DEF ReadingsAreExplained
  <2> QED BY <2>2, <2>3, PollReads DEF Explains
<1>10. ASSUME NEW q \in readings'[m], NEW r \in readings'[m], q.poll <= r.poll
       PROVE  Explains(m, q, r.poll, r.value)'
  <2>1. CASE r = new
    <3>1. Explains(m, q, poll, counter[m])'
      BY <1>4, <1>6, <1>8
    <3> QED BY <1>3, <2>1, <3>1 DEF Explains
  <2>2. CASE r # new
    <3>1. r \in readings[m] /\ q # new
      BY <1>1, <1>3, <1>4, <1>10, <2>2
    <3> QED BY <1>4, <1>9, <1>10, <3>1
  <2> QED BY <2>1, <2>2
<1>11. \A q \in readings'[m] : Explains(m, q, poll, counter[m])'
  BY <1>4, <1>6, <1>8
<1> QED BY <1>4, <1>5, <1>10, <1>11 DEF ReadingsAreExplained

LEMMA ReportInvStart == ReportInit => ReportInv
<1> SUFFICES ASSUME ReportInit PROVE ReportInv
  OBVIOUS
<1>1. ASSUME NEW m \in Meter PROVE ReadingsAreExplained(m)
  <2> DEFINE first == MeterReading(0, 1)
  <2>1. readings[m] = {first} /\ counter[m] = 1 /\ poll = 0
    BY DEF ReportInit, poll
  <2>2. first.poll = 0 /\ first.value = 1
    BY DEF MeterReading
  <2>3. Flowed(m, 0, 0) = 0
    BY NothingFlows
  <2>4. Explains(m, first, 0, 1)
    BY <2>2, <2>3 DEF Explains
  <2>5. IsFiniteSet({first})
    BY FS_Singleton
  <2> HIDE DEF first
  <2> QED BY <2>1, <2>2, <2>4, <2>5 DEF ReadingsAreExplained
<1> QED BY <1>1, ReportTypeStart DEF ReportInv

LEMMA ReportInvStep == ReportInv /\ [ReportNext]_reportVars => ReportInv'
<1> SUFFICES ASSUME ReportInv, [ReportNext]_reportVars PROVE ReportInv'
  OBVIOUS
<1>1. \A m \in Meter : ReadingsAreExplained(m)
  BY DEF ReportInv
<1>2. ASSUME NEW n \in Node, NEW missed \in SUBSET Meter, NEW reset \in SUBSET Meter,
             NextPoll(n, missed, reset)
      PROVE  ReportInv'
  <2>1. ReportTypeOK' /\ PlanIsATree'
    BY <1>2, ReportTypeNext DEF ReportInv
  <2>2. \A m \in Meter : ReadingsAreExplained(m)'
    BY <1>1, <1>2, PollIsExplained DEF ReportInv
  <2> QED BY <2>1, <2>2 DEF ReportInv
<1>3. CASE UNCHANGED reportVars
  <2> USE <1>3 DEF reportVars
  <2>1. ReportTypeOK' /\ PlanIsATree' /\ poll' = poll
    BY DEF ReportInv, ReportTypeOK, PlanIsATree, poll
  <2>2. \A m, low, till : Flowed(m, low, till)' = Flowed(m, low, till)
    BY DEF Flowed, Counts
  <2>3. \A m : WasReset(m)' = WasReset(m)
    BY <2>1 DEF WasReset
  <2>4. ASSUME NEW m \in Meter PROVE ReadingsAreExplained(m)'
    BY <1>1, <2>1, <2>2, <2>3 DEF ReadingsAreExplained, Explains
  <2> QED BY <2>1, <2>4 DEF ReportInv
<1> QED BY <1>2, <1>3 DEF ReportNext

LEMMA ReportIsExplained == ReportSpec => []ReportInv
BY ReportInvStart, ReportInvStep, PTL DEF ReportSpec

-----------------------------------------------------------------------------
(* The report.                                                             *)

\* Readings in the order of their polls.
LEMMA ReadingsHaveEnds ==
  ASSUME NEW S, IsFiniteSet(S), S # {}, \A q \in S : q.poll \in Int
  PROVE  /\ \E r \in S : \A q \in S : q.poll >= r.poll
         /\ Latest(S) \in S /\ \A q \in S : q.poll <= Latest(S).poll
<1> DEFINE G == {U \in SUBSET S : U # {} => /\ \E r \in U : \A q \in U : q.poll >= r.poll
                                          /\ \E r \in U : \A q \in U : q.poll <= r.poll}
<1>1. {} \in G
  OBVIOUS
<1>2. ASSUME NEW U \in G, NEW z \in S \ U PROVE U \cup {z} \in G
  <2>1. CASE U = {}
    BY <2>1
  <2>2. CASE U # {}
    <3>1. PICK low \in U, high \in U : \A q \in U : q.poll >= low.poll /\ q.poll <= high.poll
      BY <2>2
    <3>2. \E r \in U \cup {z} : \A q \in U \cup {z} : q.poll >= r.poll
      <4>1. CASE low.poll <= z.poll
        BY <3>1, <4>1
      <4>2. CASE ~(low.poll <= z.poll)
        BY <3>1, <4>2
      <4> QED BY <4>1, <4>2
    <3>3. \E r \in U \cup {z} : \A q \in U \cup {z} : q.poll <= r.poll
      <4>1. CASE high.poll >= z.poll
        BY <3>1, <4>1
      <4>2. CASE ~(high.poll >= z.poll)
        BY <3>1, <4>2
      <4> QED BY <4>1, <4>2
    <3> QED BY <3>2, <3>3
  <2> QED BY <2>1, <2>2
<1>3. S \in G
  <2>1. G \in SUBSET (SUBSET S)
    OBVIOUS
  <2> HIDE DEF G
  <2> QED BY <1>1, <1>2, <2>1, GrowByElements
<1> QED BY <1>3 DEF Latest

LEMMA ReadingTypes ==
  ASSUME ReportInv, NEW m \in Meter
  PROVE  /\ IsFiniteSet(readings[m]) /\ poll \in Nat
         /\ \A q \in readings[m] : q.poll \in 0 .. poll /\ q.poll \in Int /\ q.value \in Nat
         /\ \A q, r \in readings[m] : q.poll = r.poll => q = r
<1>1. readings[m] \subseteq [poll: 0 .. poll, value: Nat] /\ poll \in Nat
  BY DEF ReportInv, ReportTypeOK, poll
<1>2. \A q \in readings[m] : q.poll \in 0 .. poll /\ q.poll \in Int /\ q.value \in Nat
  BY <1>1
<1> QED BY <1>1, <1>2 DEF ReportInv, ReadingsAreExplained

\* The reading before.
LEMMA BeforeIsLatest ==
  ASSUME ReportInv, NEW m \in Meter, NEW r \in readings[m], Earlier(m, r) # {}
  PROVE  /\ Before(m, r) \in readings[m] /\ Before(m, r).poll < r.poll
         /\ \A q \in readings[m] : q.poll < r.poll => q.poll <= Before(m, r).poll
<1>1. Earlier(m, r) \in SUBSET readings[m] /\ IsFiniteSet(Earlier(m, r))
  BY ReadingTypes, FS_Subset DEF Earlier
<1>2. \A q \in Earlier(m, r) : q.poll \in Int
  BY <1>1, ReadingTypes
<1>3. Before(m, r) \in Earlier(m, r) /\ \A q \in Earlier(m, r) : q.poll <= Before(m, r).poll
  BY <1>1, <1>2, ReadingsHaveEnds DEF Before
<1> QED BY <1>3 DEF Earlier

\* What is added for a reading.
Delta(m, r) == CounterDelta(Before(m, r).value, r.value)

LEMMA DeltaIsFlow ==
  ASSUME ReportInv, NEW m \in Meter, NEW r \in readings[m], Earlier(m, r) # {}
  PROVE  /\ Delta(m, r) \in Nat /\ Delta(m, r) <= Flowed(m, Before(m, r).poll, r.poll)
         /\ ~WasReset(m) => Delta(m, r) = Flowed(m, Before(m, r).poll, r.poll)
<1>1. PICK p \in readings[m] : p = Before(m, r) /\ p.poll < r.poll
  BY BeforeIsLatest
<1>2. p.value \in Nat /\ r.value \in Nat /\ p.poll \in Int /\ r.poll \in Int /\ p.poll <= r.poll
  BY <1>1, ReadingTypes
<1>3. Flowed(m, p.poll, r.poll) \in Nat
  BY <1>2, FlowedIsNat
<1>4. \/ r.value = p.value + Flowed(m, p.poll, r.poll)
      \/ WasReset(m) /\ r.value <= Flowed(m, p.poll, r.poll)
  BY <1>2 DEF ReportInv, ReadingsAreExplained, Explains
<1> QED BY <1>1, <1>2, <1>3, <1>4 DEF Delta, CounterDelta

LEMMA IncrementsAreReadings ==
  ASSUME ReportInv, NEW m \in Meter, NEW start
  PROVE  /\ Increments(m, start) \in SUBSET readings[m]
         /\ \A S \in SUBSET Increments(m, start) : IsFiniteSet(S)
         /\ \A r \in Increments(m, start) : Earlier(m, r) # {} /\ Delta(m, r) \in Nat
BY ReadingTypes, FS_Subset, DeltaIsFlow DEF Increments

LEMMA UsageIsSum ==
  ASSUME ReportInv, NEW m \in Meter, NEW start
  PROVE  Usage(m, start) = SumOf([r \in Increments(m, start) |-> Delta(m, r)], Increments(m, start))
<1> DEFINE S == Increments(m, start)
           f == [r \in S |-> Delta(m, r)]
           IsFold(g) == g = [s \in SUBSET S |-> IF s = {} THEN 0 ELSE Delta(m, First(s)) + g[s \ {First(s)}]]
<1>1. IsFiniteSet(S)
  BY IncrementsAreReadings
<1>2. \A s \in SUBSET S : s # {} => f[First(s)] = Delta(m, First(s))
  BY FirstIsMember
<1>3. \A g : IsFold(g) => Sums(g, f, S)
  <2> HIDE DEF S, f
  <2> QED BY <1>2 DEF Sums
<1>4. \A g : Sums(g, f, S) => IsFold(g)
  <2> HIDE DEF S, f
  <2> QED BY <1>2 DEF Sums
<1>5. PICK g : Sums(g, f, S)
  <2> HIDE DEF S, f
  <2> QED BY <1>1, SumsExist
<1> DEFINE h == CHOOSE k : IsFold(k)
<1>6. IsFold(h)
  <2> HIDE DEF IsFold
  <2> QED BY <1>4, <1>5
<1>7. h[S] = SumOf(f, S)
  <2>1. Sums(h, f, S)
    <3> HIDE DEF IsFold, h
    <3> QED BY <1>3, <1>6
  <2> HIDE DEF S, f, h
  <2> QED BY <1>1, <2>1, SumsOfSubsets
<1>8. Usage(m, start) = h[S]
  BY DEF Usage, MapThenSumSet, MapThenFoldSet, First, Delta
<1> QED BY <1>7, <1>8

(***************************************************************************)
(* Added up to a reading, the increments are what flowed since the reading *)
(* before the first of them; or less, if the counter was reset.            *)
(***************************************************************************)
UpTo(m, start, r) == {s \in Increments(m, start) : s.poll <= r.poll}

LEMMA IncrementsAddUp ==
  ASSUME ReportInv, NEW m \in Meter, NEW start \in Int, NEW r \in Increments(m, start)
  PROVE  LET sum == SumOf([s \in Increments(m, start) |-> Delta(m, s)], UpTo(m, start, r))
         IN  /\ sum \in Int /\ sum <= Flowed(m, From(m, start), r.poll)
             /\ ~WasReset(m) => sum = Flowed(m, From(m, start), r.poll)
<1> DEFINE I == Increments(m, start)
           f == [s \in I |-> Delta(m, s)]
           from == From(m, start)
           Sum(s) == SumOf(f, UpTo(m, start, s))
           Fits(s) == /\ Sum(s) <= Flowed(m, from, s.poll)
                      /\ ~WasReset(m) => Sum(s) = Flowed(m, from, s.poll)
<1>1. /\ I \in SUBSET readings[m] /\ \A S \in SUBSET I : IsFiniteSet(S)
      /\ \A s \in I : Earlier(m, s) # {} /\ Delta(m, s) \in Nat /\ s.poll >= start
  BY IncrementsAreReadings DEF Increments
<1>2. /\ \A q \in readings[m] : q.poll \in 0 .. poll /\ q.poll \in Int
      /\ \A q, s \in readings[m] : q.poll = s.poll => q = s
  BY ReadingTypes
<1>3. \A s \in I : /\ Before(m, s) \in readings[m] /\ Before(m, s).poll < s.poll
                   /\ \A q \in readings[m] : q.poll < s.poll => q.poll <= Before(m, s).poll
  BY <1>1, BeforeIsLatest
<1>4. \A S \in SUBSET I : IsFiniteSet(S) /\ (\A x \in S : f[x] \in Int) /\ SumOf(f, S) \in Int
  <2>1. \A x \in I : f[x] \in Int
    BY <1>1
  <2> HIDE DEF f, I
  <2> QED BY <1>1, <2>1, SumIsInt
<1>5. \A s \in I : UpTo(m, start, s) \in SUBSET I /\ s \in UpTo(m, start, s)
  BY <1>1, <1>2 DEF UpTo
<1>6. from \in {Before(m, s).poll : s \in I} /\ \A s \in I : from <= Before(m, s).poll
  <2> DEFINE polls == {Before(m, s).poll : s \in I}
             all == 0 .. poll
  <2>1. polls \in SUBSET all /\ polls # {}
    BY <1>2, <1>3
  <2>2. IsFiniteSet(all) /\ all \in SUBSET Int
    BY ReadingTypes, FS_Interval
  <2>3. IsFiniteSet(polls) /\ polls \in SUBSET Int
    <3> HIDE DEF polls, all
    <3> QED BY <2>1, <2>2, FS_Subset
  <2>4. Min(polls) \in polls /\ \A y \in polls : Min(polls) <= y
    <3> HIDE DEF polls
    <3> QED BY <2>1, <2>3, MinAndMax
  <2>5. from = Min(polls)
    BY DEF From
  <2> HIDE DEF from
  <2> QED BY <2>4, <2>5
<1>7. from \in Int /\ \A s \in I : from <= s.poll
  <2>1. \A s \in I : Before(m, s).poll \in Int /\ s.poll \in Int
    BY <1>1, <1>2, <1>3
  <2> HIDE DEF from, I
  <2> QED BY <1>3, <1>6, <2>1
<1> HIDE DEF from, f
<1>8. ASSUME NEW s \in I PROVE Sum(s) = Delta(m, s) + SumOf(f, UpTo(m, start, s) \ {s})
  <2>1. f[s] = Delta(m, s)
    BY DEF f
  <2> HIDE DEF I
  <2> QED BY <1>4, <1>5, <2>1, SumFromElement
\* The first increment.
<1>9. ASSUME NEW s \in I, Before(m, s) \notin I PROVE Fits(s)
  <2> DEFINE p == Before(m, s)
  <2>1. p \in readings[m] /\ p.poll < s.poll /\ p.poll \in Int /\ s.poll \in Int
    BY <1>1, <1>2, <1>3
  <2>2. ASSUME NEW q \in I PROVE q.poll >= s.poll
    <3> SUFFICES ASSUME q.poll < s.poll PROVE FALSE
      BY <1>1, <1>2
    <3>1. q \in readings[m] /\ q.poll <= p.poll /\ q.poll >= start
      BY <1>1, <1>3
    <3>2. q # p
      BY <1>9
    <3>3. q.poll < p.poll /\ p.poll >= start
      BY <1>2, <2>1, <3>1, <3>2
    <3>4. p \in I
      BY <2>1, <3>1, <3>3 DEF Increments, Earlier
    <3> QED BY <1>9, <3>4
  <2>3. UpTo(m, start, s) = {s}
    BY <1>1, <1>2, <2>2 DEF UpTo
  <2>4. Sum(s) = Delta(m, s)
    <3>1. UpTo(m, start, s) \ {s} = {}
      BY <2>3
    <3>2. Sum(s) = Delta(m, s) + 0
      BY <1>8, <3>1, SumOfNothing
    <3> QED BY <1>1, <3>2
  <2>5. from = p.poll
    <3>1. \A q \in I : p.poll <= Before(m, q).poll
      BY <1>1, <1>2, <1>3, <2>1, <2>2
    <3>2. from <= p.poll
      BY <1>6
    <3>3. from >= p.poll
      BY <1>6, <3>1
    <3> QED BY <1>7, <2>1, <3>2, <3>3
  <2>6. /\ Delta(m, s) <= Flowed(m, p.poll, s.poll)
        /\ ~WasReset(m) => Delta(m, s) = Flowed(m, p.poll, s.poll)
    BY <1>1, DeltaIsFlow
  <2> QED BY <2>4, <2>5, <2>6
\* The next one.
<1>10. ASSUME NEW s \in I, Before(m, s) \in I, Fits(Before(m, s)) PROVE Fits(s)
  <2> DEFINE p == Before(m, s)
  <2>1. p \in readings[m] /\ p.poll < s.poll /\ p.poll \in Int /\ s.poll \in Int
    BY <1>1, <1>2, <1>3
  <2>2. UpTo(m, start, s) \ {s} = UpTo(m, start, p)
    <3>1. \A q \in I : q.poll \in Int /\ (q.poll < s.poll <=> q.poll <= p.poll)
      BY <1>1, <1>2, <1>3, <2>1
    <3>2. \A q \in I : q.poll <= s.poll /\ q # s <=> q.poll < s.poll
      BY <1>1, <1>2, <2>1
    <3> QED BY <3>1, <3>2 DEF UpTo
  <2>3. Sum(s) = Delta(m, s) + Sum(p)
    BY <1>8, <2>2
  <2>4. /\ Delta(m, s) \in Nat /\ Delta(m, s) <= Flowed(m, p.poll, s.poll)
        /\ ~WasReset(m) => Delta(m, s) = Flowed(m, p.poll, s.poll)
    BY <1>1, DeltaIsFlow
  <2>5. Flowed(m, from, s.poll) = Flowed(m, from, p.poll) + Flowed(m, p.poll, s.poll)
    <3>1. from <= p.poll /\ p.poll <= s.poll
      BY <1>6, <2>1
    <3> QED BY <1>7, <2>1, <3>1, FlowedSplits
  <2>6. Flowed(m, from, p.poll) \in Nat /\ Flowed(m, p.poll, s.poll) \in Nat
    BY <1>7, <2>1, FlowedIsNat
  <2>7. Sum(p) \in Int
    BY <1>4, <1>5, <1>10
  <2>8. Sum(p) <= Flowed(m, from, p.poll) /\ (~WasReset(m) => Sum(p) = Flowed(m, from, p.poll))
    BY <1>10
  <2> HIDE DEF Sum, p
  <2>9. Sum(s) <= Flowed(m, from, s.poll) /\ (~WasReset(m) => Sum(s) = Flowed(m, from, s.poll))
    BY <2>3, <2>4, <2>5, <2>6, <2>7, <2>8
  <2> QED BY <2>9
<1>11. \A s \in I : Fits(s)
  <2> DEFINE bad == {s \in I : ~Fits(s)}
  <2> SUFFICES ASSUME bad # {} PROVE FALSE
    OBVIOUS
  <2>1. PICK s \in bad : \A q \in bad : q.poll >= s.poll
    <3>1. bad \in SUBSET I
      OBVIOUS
    <3>2. IsFiniteSet(bad) /\ \A q \in bad : q.poll \in Int
      BY <1>1, <1>2, <3>1
    <3> HIDE DEF bad
    <3> QED BY <3>2, ReadingsHaveEnds
  <2>2. s \in I /\ ~Fits(s)
    OBVIOUS
  <2>3. Before(m, s) \in I => Before(m, s) \notin bad
    BY <1>1, <1>2, <1>3, <2>1, <2>2
  <2> HIDE DEF Fits
  <2> QED BY <1>9, <1>10, <2>2, <2>3
<1> QED BY <1>4, <1>5, <1>11 DEF f, from

\* The increments of a period are those up to the last reading.
LEMMA UsageIsFlow ==
  ASSUME ReportInv, NEW m \in Meter, NEW start \in Int, Measured(m, start)
  PROVE  /\ Usage(m, start) <= Flowed(m, From(m, start), Till(m))
         /\ ~WasReset(m) => Usage(m, start) = Flowed(m, From(m, start), Till(m))
<1> DEFINE I == Increments(m, start)
           last == Latest(readings[m])
<1>1. /\ I \in SUBSET readings[m] /\ I # {}
      /\ IsFiniteSet(readings[m]) /\ \A q \in readings[m] : q.poll \in Int
      /\ \A q, s \in readings[m] : q.poll = s.poll => q = s
  BY IncrementsAreReadings, ReadingTypes DEF Measured
<1>2. last \in readings[m] /\ \A q \in readings[m] : q.poll <= last.poll
  BY <1>1, ReadingsHaveEnds
<1> HIDE DEF last
<1>3. last \in I
  <2>1. PICK r \in I : r \in readings[m] /\ r.poll >= start /\ Earlier(m, r) # {}
    BY <1>1 DEF Increments
  <2>2. CASE r = last
    BY <2>1, <2>2
  <2>3. CASE r # last
    <3>1. r.poll < last.poll /\ last.poll >= start
      BY <1>1, <1>2, <2>1, <2>3
    <3> QED BY <1>2, <2>1, <3>1 DEF Increments, Earlier
  <2> QED BY <2>2, <2>3
<1>4. UpTo(m, start, last) = I
  BY <1>1, <1>2 DEF UpTo
<1> DEFINE sum == SumOf([r \in Increments(m, start) |-> Delta(m, r)], UpTo(m, start, last))
<1>5. /\ sum <= Flowed(m, From(m, start), last.poll)
      /\ ~WasReset(m) => sum = Flowed(m, From(m, start), last.poll)
  BY <1>3, IncrementsAddUp
<1>6. Usage(m, start) = sum
  BY <1>4, UsageIsSum
<1>7. Till(m) = last.poll
  BY DEF Till, last
<1> HIDE DEF sum
<1> QED BY <1>5, <1>6, <1>7

LEMMA ReadingsGiveUsage == ReportInv => ReportedWasConsumed
<1> SUFFICES ASSUME ReportInv, NEW m \in Meter, NEW start \in 0 .. poll, Measured(m, start)
             PROVE  /\ Usage(m, start) <= Flowed(m, From(m, start), Till(m))
                    /\ ~WasReset(m) => Usage(m, start) = Flowed(m, From(m, start), Till(m))
  BY DEF ReportedWasConsumed
<1> QED BY UsageIsFlow

\* A report never claims more energy than flowed to the meter's node and to those
\* below, whatever readings are missing and whenever counters are reset, and exactly
\* that without a reset (counter_usage in energy_reporting.py, counter_delta in kpi.py).
THEOREM ReportsAreConsumed == ReportSpec => []ReportedWasConsumed
BY ReadingsGiveUsage, ReportIsExplained, PTL

-----------------------------------------------------------------------------
(* The breakdown.                                                          *)

\* A row whose meter is below another meter is not shown.
LEMMA RowBelowIsShadowed ==
  ASSUME ReportInv, Right, NEW start, NEW a \in Rows(start), NEW b \in Rows(start), a # b,
         plan.at[a] \in plan.above[plan.at[b]]
  PROVE  FALSE
<1>1. /\ a \in Meter /\ b \in Meter /\ a # plan.main /\ ~Shadowed(plan.at[b])
      /\ plan.main \in Meter /\ \A m \in Meter : plan.at[m] \in Node
  BY PlanParts DEF Rows, ReportInv
<1>2. /\ plan.at[a] # plan.at[b] /\ plan.at[plan.main] # plan.at[a]
      /\ plan.at[plan.main] \in plan.above[plan.at[a]]
  BY <1>1 DEF Right, Counts
<1>3. plan.at[a] \in Submetered
  BY <1>1 DEF Submetered
<1> QED BY <1>1, <1>2, <1>3, WalkMeets DEF ReportInv

\* No energy is counted in two rows.
LEMMA RowsCountOnce ==
  ASSUME ReportInv, Right, NEW start, NEW a \in Rows(start), NEW b \in Rows(start),
         NEW n \in Node, Counts(a, n), Counts(b, n)
  PROVE  a = b
<1>1. plan.at[a] \in plan.above[n] /\ plan.at[b] \in plan.above[n]
  BY DEF Counts
<1>2. plan.at[a] \in plan.above[plan.at[b]] \/ plan.at[b] \in plan.above[plan.at[a]]
  BY <1>1, AboveIsAChain DEF ReportInv
<1> QED BY <1>2, RowBelowIsShadowed

\* What a row counts, the authoritative meter counts.
LEMMA MainCountsAll ==
  ASSUME ReportInv, Right, NEW m \in Meter, NEW n \in Node, Counts(m, n)
  PROVE  Counts(plan.main, n)
<1>1. plan.at[m] \in plan.above[n] /\ plan.at[plan.main] \in plan.above[plan.at[m]]
  BY DEF Counts, Right
<1> QED BY <1>1, AboveIsTransitive DEF Counts, ReportInv

\* The topmost meter on the way up from a meter is a row.
LEMMA RowAbove ==
  ASSUME ReportInv, NEW start, \A k \in Meter : Measured(k, start), NEW m \in Meter, m # plan.main
  PROVE  \E row \in Rows(start) : Counts(row, plan.at[m])
<1>0. ReportTypeOK /\ PlanIsATree /\ \A k \in Meter : plan.at[k] \in Node
  BY PlanParts DEF ReportInv
<1> DEFINE K == {k \in Meter \ {plan.main} : plan.at[k] \in plan.above[plan.at[m]]}
           G == {plan.above[plan.at[k]] : k \in K}
<1>1. m \in K
  BY <1>0, AboveInPlan
<1>2. G \in SUBSET (SUBSET Node) /\ G # {}
  BY <1>0, <1>1, AboveInPlan
<1>3. PICK g \in G : \A t \in G : t \subseteq g => t = g
  <2> HIDE DEF G
  <2> QED BY <1>2, ReportAssumption, SmallestMember
<1>4. PICK k \in K : g = plan.above[plan.at[k]]
  OBVIOUS
<1>5. k \in Meter /\ k # plan.main /\ plan.at[k] \in plan.above[plan.at[m]] /\ plan.at[k] \in Node
  BY <1>0
<1>6. ~Shadowed(plan.at[k])
  <2> SUFFICES ASSUME Shadowed(plan.at[k]) PROVE FALSE
    OBVIOUS
  <2>1. PICK x \in Submetered : x \in plan.above[plan.at[k]] /\ x # plan.at[k]
    BY <1>0, <1>5, WalkIsAbove
  <2>2. PICK j \in Meter \ {plan.main} : x = plan.at[j]
    BY DEF Submetered
  <2>3. x \in Node /\ plan.above[x] \subseteq plan.above[plan.at[k]]
    BY <1>0, <1>5, <2>1, AboveIsTransitive
  <2>4. plan.above[plan.at[k]] \subseteq plan.above[plan.at[m]]
    BY <1>0, <1>5, AboveIsTransitive
  <2>5. j \in K
    BY <2>1, <2>2, <2>4
  <2>6. plan.above[x] = plan.above[plan.at[k]]
    BY <1>3, <1>4, <2>2, <2>3, <2>5
  <2>7. plan.at[k] \in plan.above[x]
    BY <1>0, <1>5, <2>6, AboveInPlan
  <2> QED BY <1>0, <1>5, <2>1, <2>7, AboveIsAntisymmetric
<1>7. k \in Rows(start)
  BY <1>5, <1>6 DEF Rows
<1> QED BY <1>5, <1>7 DEF Counts

LEMMA RowsAreFinite ==
  ASSUME ReportInv, NEW start, NEW R \in SUBSET Rows(start)
  PROVE  IsFiniteSet(R) /\ R \in SUBSET Meter
<1>1. IsFiniteSet(Meter)
  <2>1. Meters \in Int /\ 1 \in Int
    BY ReportAssumption
  <2> QED BY <2>1, FS_Interval DEF Meter
<1>2. R \in SUBSET Meter
  BY DEF Rows
<1> QED BY <1>1, <1>2, FS_Subset

LEMMA RowsAreSummed ==
  ASSUME ReportInv, NEW start
  PROVE  MapThenSumSet(LAMBDA m : Usage(m, start), Rows(start))
           = SumOf([m \in Rows(start) |-> Usage(m, start)], Rows(start))
<1> DEFINE S == Rows(start)
           f == [m \in S |-> Usage(m, start)]
           IsFold(g) == g = [s \in SUBSET S |-> IF s = {} THEN 0 ELSE Usage(First(s), start) + g[s \ {First(s)}]]
<1>1. IsFiniteSet(S)
  BY RowsAreFinite
<1>2. \A s \in SUBSET S : s # {} => f[First(s)] = Usage(First(s), start)
  BY FirstIsMember
<1>3. \A g : IsFold(g) => Sums(g, f, S)
  <2> HIDE DEF S, f
  <2> QED BY <1>2 DEF Sums
<1>4. \A g : Sums(g, f, S) => IsFold(g)
  <2> HIDE DEF S, f
  <2> QED BY <1>2 DEF Sums
<1>5. PICK g : Sums(g, f, S)
  <2> HIDE DEF S, f
  <2> QED BY <1>1, SumsExist
<1> DEFINE h == CHOOSE k : IsFold(k)
<1>6. IsFold(h)
  <2> HIDE DEF IsFold
  <2> QED BY <1>4, <1>5
<1>7. h[S] = SumOf(f, S)
  <2>1. Sums(h, f, S)
    <3> HIDE DEF IsFold, h
    <3> QED BY <1>3, <1>6
  <2> HIDE DEF S, f, h
  <2> QED BY <1>1, <2>1, SumsOfSubsets
<1>8. MapThenSumSet(LAMBDA m : Usage(m, start), Rows(start)) = h[S]
  BY DEF MapThenSumSet, MapThenFoldSet, First
<1> QED BY <1>7, <1>8

\* The polls of a report lie within the polls there were.
LEMMA WindowIsPast ==
  ASSUME ReportInv, NEW m \in Meter, NEW start \in Int, Measured(m, start)
  PROVE  /\ Window(m, start) \in SUBSET (1 .. poll) /\ IsFiniteSet(Window(m, start))
         /\ \A t \in Window(m, start) : flow[t] \in Node
<1> DEFINE I == Increments(m, start)
           polls == {Before(m, s).poll : s \in I}
           all == 0 .. poll
<1>1. I \in SUBSET readings[m] /\ I # {} /\ \A s \in I : Before(m, s) \in readings[m]
  BY IncrementsAreReadings, BeforeIsLatest DEF Measured
<1>2. polls \in SUBSET all /\ polls # {}
  BY <1>1, ReadingTypes
<1>3. IsFiniteSet(all) /\ all \in SUBSET Int /\ poll \in Nat
  BY ReadingTypes, FS_Interval
<1>4. From(m, start) \in all
  <2>1. Min(polls) \in polls
    <3>1. IsFiniteSet(polls) /\ polls \in SUBSET Int
      <4> HIDE DEF polls, all
      <4> QED BY <1>2, <1>3, FS_Subset
    <3> HIDE DEF polls
    <3> QED BY <1>2, <3>1, MinAndMax
  <2>2. From(m, start) = Min(polls)
    BY DEF From
  <2> HIDE DEF polls
  <2> QED BY <1>2, <2>1, <2>2
<1>5. Till(m) \in all
  <2>1. Latest(readings[m]) \in readings[m]
    BY <1>1, ReadingTypes, ReadingsHaveEnds
  <2> QED BY <2>1, ReadingTypes DEF Till
<1>6. Window(m, start) \in SUBSET (1 .. poll)
  BY <1>3, <1>4, <1>5 DEF Window
<1>7. IsFiniteSet(Window(m, start))
  BY <1>3, <1>4, <1>5, FS_Interval DEF Window
<1>8. \A t \in 1 .. poll : flow[t] \in Node
  BY DEF ReportInv, ReportTypeOK, poll
<1> QED BY <1>6, <1>7, <1>8

\* The rows together claim what flowed to the nodes below some row.
LEMMA RowsAddUp ==
  ASSUME ReportInv, Right, NEW start \in Int, Aligned(start), NEW W, W = Window(plan.main, start)
  PROVE  SumOf([m \in Rows(start) |-> Usage(m, start)], Rows(start))
           = Cardinality({t \in W : \E m \in Rows(start) : Counts(m, flow[t])})
<1> DEFINE all == Rows(start)
           u == [m \in all |-> Usage(m, start)]
           Of(R) == {t \in W : \E m \in R : Counts(m, flow[t])}
           One(m) == {t \in W : Counts(m, flow[t])}
           G == {R \in SUBSET all : SumOf(u, R) = Cardinality(Of(R))}
<1>1. plan.main \in Meter
  BY PlanParts DEF ReportInv
<1>2. IsFiniteSet(W) /\ \A t \in W : flow[t] \in Node
  BY <1>1, WindowIsPast DEF Aligned
<1>3. \A S \in SUBSET W : IsFiniteSet(S) /\ Cardinality(S) \in Nat
  BY <1>2, FS_Subset, FS_CardinalityType
<1>4. ASSUME NEW m \in all PROVE u[m] = Cardinality(One(m)) /\ u[m] \in Int
  <2>1. m \in Meter
    BY DEF Rows
  <2>2. Usage(m, start) = Flowed(m, From(m, start), Till(m))
    BY <2>1, UsageIsFlow DEF Aligned
  <2>3. W = From(m, start) + 1 .. Till(m)
    BY <2>1 DEF Aligned, Window
  <2>4. Usage(m, start) = Cardinality(One(m))
    BY <2>2, <2>3 DEF Flowed
  <2>5. One(m) \in SUBSET W
    OBVIOUS
  <2> HIDE DEF One
  <2> QED BY <1>3, <2>4, <2>5
<1>5. {} \in G
  <2>1. Of({}) = {}
    OBVIOUS
  <2> HIDE DEF Of, u
  <2> QED BY <2>1, SumOfNothing, FS_EmptySet
<1>6. ASSUME NEW R \in G, NEW x \in all \ R PROVE R \cup {x} \in G
  <2> DEFINE more == R \cup {x}
  <2>1. more \in SUBSET all /\ R \in SUBSET all /\ more \ {x} = R /\ x \in more
    OBVIOUS
  <2>2. IsFiniteSet(more) /\ \A z \in more : u[z] \in Int
    <3> HIDE DEF more, u, all, G
    <3> QED BY <1>4, <2>1, RowsAreFinite DEF all
  <2>3. SumOf(u, more) = u[x] + SumOf(u, R)
    <3> HIDE DEF more, u, G, all
    <3> QED BY <2>1, <2>2, SumFromElement
  <2>4. Of(more) = Of(R) \cup One(x)
    OBVIOUS
  <2>5. Of(R) \cap One(x) = {}
    <3> SUFFICES ASSUME NEW t \in W, NEW m \in R, Counts(m, flow[t]), Counts(x, flow[t]) PROVE FALSE
      OBVIOUS
    <3>1. m \in Rows(start) /\ x \in Rows(start) /\ m # x /\ flow[t] \in Node
      BY <1>2
    <3> QED BY <3>1, RowsCountOnce
  <2>6. Of(R) \in SUBSET W /\ One(x) \in SUBSET W
    OBVIOUS
  <2>7. Cardinality(Of(R) \cup One(x)) = Cardinality(Of(R)) + Cardinality(One(x))
    <3> HIDE DEF Of, One
    <3> QED BY <1>3, <2>5, <2>6, SizeOfUnion
  <2>8. SumOf(u, R) = Cardinality(Of(R)) /\ u[x] = Cardinality(One(x))
    BY <1>4
  <2>9. SumOf(u, more) = Cardinality(Of(more))
    <3> HIDE DEF Of, One, u, more
    <3> QED BY <1>3, <2>3, <2>4, <2>6, <2>7, <2>8
  <2> HIDE DEF Of, u, all
  <2> QED BY <2>1, <2>9
<1>7. all \in G
  <2>1. IsFiniteSet(all) /\ G \in SUBSET (SUBSET all)
    BY RowsAreFinite
  <2> HIDE DEF G, all
  <2> QED BY <1>5, <1>6, <2>1, GrowByElements
<1> QED BY <1>7

LEMMA RestIsReal ==
  ASSUME ReportInv, Right, NEW start \in Int, Aligned(start)
  PROVE  Unattributed(start) =
           Cardinality({t \in Window(plan.main, start) :
                          /\ Counts(plan.main, flow[t])
                          /\ \A m \in Rows(start) : ~Counts(m, flow[t])})
<1> DEFINE W == Window(plan.main, start)
           total == {t \in W : Counts(plan.main, flow[t])}
           rows == {t \in W : \E m \in Rows(start) : Counts(m, flow[t])}
           rest == {t \in W : Counts(plan.main, flow[t]) /\ \A m \in Rows(start) : ~Counts(m, flow[t])}
<1>1. plan.main \in Meter
  BY PlanParts DEF ReportInv
<1>2. IsFiniteSet(W) /\ \A t \in W : flow[t] \in Node
  BY <1>1, WindowIsPast DEF Aligned
<1>3. Usage(plan.main, start) = Cardinality(total)
  BY <1>1, UsageIsFlow DEF Aligned, Flowed, Window
<1>4. MapThenSumSet(LAMBDA m : Usage(m, start), Rows(start)) = Cardinality(rows)
  BY RowsAreSummed, RowsAddUp
<1>5. total = rows \cup rest /\ rows \cap rest = {}
  <2>1. \A t \in rows : Counts(plan.main, flow[t])
    BY <1>2, MainCountsAll DEF Rows
  <2> QED BY <2>1
<1>6. IsFiniteSet(rows) /\ IsFiniteSet(rest) /\ Cardinality(rows) \in Nat /\ Cardinality(rest) \in Nat
  <2>1. rows \in SUBSET W /\ rest \in SUBSET W
    OBVIOUS
  <2> HIDE DEF rows, rest, W
  <2> QED BY <1>2, <2>1, FS_Subset, FS_CardinalityType
<1>7. Cardinality(total) = Cardinality(rows) + Cardinality(rest)
  <2> HIDE DEF total, rows, rest
  <2> QED BY <1>5, <1>6, SizeOfUnion
<1>8. Unattributed(start) = Cardinality(total) - Cardinality(rows)
  BY <1>3, <1>4 DEF Unattributed
<1>9. Unattributed(start) = Cardinality(rest)
  <2> HIDE DEF total, rows, rest
  <2> QED BY <1>6, <1>7, <1>8
<1> QED BY <1>9

LEMMA ReadingsGiveRest == ReportInv => UnattributedIsReal
<1> SUFFICES ASSUME ReportInv, Right, NEW start \in 0 .. poll, Aligned(start)
             PROVE  /\ Unattributed(start) =
                         Cardinality({t \in Window(plan.main, start) :
                                        /\ Counts(plan.main, flow[t])
                                        /\ \A m \in Rows(start) : ~Counts(m, flow[t])})
                    /\ \A m \in Meter \ {plan.main} : \E row \in Rows(start) : Counts(row, plan.at[m])
  BY DEF UnattributedIsReal
<1>1. \A m \in Meter : Measured(m, start)
  BY DEF Aligned
<1> QED BY <1>1, RestIsReal, RowAbove

\* The rest of the breakdown is energy of the plant that no row counts, and every
\* meter below the authoritative one is a row or below one, wherever the hierarchy
\* is right and the readings are aligned (breakdown in energy_reporting.py).
THEOREM RestsAreReal == ReportSpec => []UnattributedIsReal
BY ReadingsGiveRest, ReportIsExplained, PTL

=============================================================================
