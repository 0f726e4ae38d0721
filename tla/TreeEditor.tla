----------------------------- MODULE TreeEditor -----------------------------
(***************************************************************************)
(* The energy tree and its editors: clients that show the tree they loaded *)
(* last, or an older one whose answer came late (plant-tree-editor.tsx),   *)
(* and the handlers that check a change and then write it (assets in       *)
(* main.py), which run in parallel threads.  Names, categories and the     *)
(* order of siblings are left out.                                         *)
(***************************************************************************)
EXTENDS Naturals, FiniteSets

CONSTANTS
    Asset,     \* nodes that may exist
    Client,    \* open tree editors
    Root, Gone,\* no parent; a node that does not exist
    MaxRequests, \* an editor sends while fewer are in flight (bound)
    MaxHandlers, \* handlers that run at the same time
    MaxLate    \* loads of an editor whose answers are delayed (bound)

ASSUME TreeAssumption ==
    /\ {Root, Gone} \cap Asset = {} /\ Root # Gone
    /\ IsFiniteSet(Asset) /\ MaxHandlers \in Nat /\ MaxLate \in Nat

VARIABLES
    tree,     \* the table: the parent of each node
    drawn,    \* drawn[c]: the tree the client shows
    late,     \* late[c]: trees the server has answered and the client has not got yet
    editing,  \* editing[c]: the node in the form, or none for a new one
    formParent, \* the parent chosen in the form
    requests  \* requests in flight, checked or not yet

treeVars == <<tree, drawn, late, editing, formParent, requests>>

Tree == [Asset -> Asset \cup {Root, Gone}]
Request == [client: Client, op: {"put", "post", "delete"}, asset: Asset, parent: Asset \cup {Root},
            resets: BOOLEAN, checked: BOOLEAN, overtaken: BOOLEAN]

Existing(t) == {a \in Asset : t[a] # Gone}

\* The nodes above a node, as far as they can be followed.
Above(t, a) ==
    LET up[n \in 0 .. Cardinality(Asset)] ==
            IF n = 0 THEN {t[a]} \cap Asset ELSE up[n - 1] \cup ({t[b] : b \in up[n - 1]} \cap Asset)
    IN up[Cardinality(Asset)]

\* isDescendant follows the parents in a loop: a cycle never ends it.
Hangs(c) == \E a \in Asset : a \in Above(drawn[c], a)

TreeInit ==
    /\ tree = [a \in Asset |-> Root]
    /\ drawn = [c \in Client |-> tree] /\ late = [c \in Client |-> {}]
    /\ editing = [c \in Client |-> Gone] /\ formParent = [c \in Client |-> Root]
    /\ requests = {}
-----------------------------------------------------------------------------
\* A load of the plant page is answered; the answer is under way for a while.
DelayLoad(c) ==
    /\ Cardinality(late[c]) < MaxLate
    /\ late' = [late EXCEPT ![c] = @ \cup {tree}]
    /\ UNCHANGED <<tree, drawn, editing, formParent, requests>>

\* The plant page has loaded, now or with an answer that is older than what it
\* shows; the effect drops a form whose node is gone.
LoadTree(c, t) ==
    /\ t \in late[c] \cup {tree}
    /\ drawn' = [drawn EXCEPT ![c] = t] /\ late' = [late EXCEPT ![c] = @ \ {t}]
    /\ IF editing[c] # Gone /\ t[editing[c]] = Gone
       THEN /\ editing' = [editing EXCEPT ![c] = Gone] /\ formParent' = [formParent EXCEPT ![c] = Root]
       ELSE UNCHANGED <<editing, formParent>>
    /\ UNCHANGED <<tree, requests>>

\* edit(item), or edit() for a new node.
EditNode(c, a) ==
    /\ ~Hangs(c) /\ a \in Existing(drawn[c]) \cup {Gone}
    /\ editing' = [editing EXCEPT ![c] = a]
    /\ formParent' = [formParent EXCEPT ![c] = IF a = Gone THEN Root ELSE drawn[c][a]]
    /\ UNCHANGED <<tree, drawn, late, requests>>

\* The list offers neither the node itself nor what is below it.
ChooseParent(c, p) ==
    /\ ~Hangs(c) /\ p \in Existing(drawn[c]) \cup {Root} /\ p # editing[c]
    /\ p # Root => editing[c] \notin Above(drawn[c], p)
    /\ formParent' = [formParent EXCEPT ![c] = p]
    /\ UNCHANGED <<tree, drawn, late, editing, requests>>

Put(c, a, p, resets) ==
    [client |-> c, op |-> "put", asset |-> a, parent |-> p, resets |-> resets, checked |-> FALSE,
     overtaken |-> FALSE]

Send(new) == requests' = requests \cup new /\ UNCHANGED <<tree, drawn, late, editing, formParent>>

\* save(): PUT of the node in the form, or POST of a new one.
SaveNode(c) ==
    /\ ~Hangs(c)
    /\ \/ editing[c] # Gone /\ Send({Put(c, editing[c], formParent[c], TRUE)})
       \/ /\ editing[c] = Gone
          /\ \E a \in Asset \ Existing(tree) :
               Send({[Put(c, a, formParent[c], TRUE) EXCEPT !.op = "post"]})

\* move(): dropped on a node that is not below it, as the client sees it.
Drop(c, a, p) ==
    /\ ~Hangs(c) /\ a \in Existing(drawn[c]) /\ p \in Existing(drawn[c]) \cup {Root} /\ a # p
    /\ p # Root => a \notin Above(drawn[c], p)
    /\ Send({Put(c, a, p, FALSE)})

\* reorder(): both siblings are written whole, with the parent drawn.
Reorder(c, a, b) ==
    /\ ~Hangs(c) /\ {a, b} \subseteq Existing(drawn[c]) /\ a # b /\ drawn[c][a] = drawn[c][b]
    /\ Send({Put(c, a, drawn[c][a], FALSE), Put(c, b, drawn[c][b], FALSE)})

\* remove(), once confirmed.
RemoveNode(c, a) ==
    /\ ~Hangs(c) /\ a \in Existing(drawn[c])
    /\ Send({[Put(c, a, Root, TRUE) EXCEPT !.op = "delete"]})

\* Mutant: a node may be moved anywhere.
ValidAnywhere(r) ==
    /\ r.op # "post" => r.asset \in Existing(tree)
    /\ r.op # "delete" /\ r.parent # Root => r.parent \in Existing(tree)
    /\ r.op = "delete" => \A b \in Asset : tree[b] # r.asset

\* What a handler asks of the table before it writes.
Valid(r) ==
    /\ r.op # "post" => r.asset \in Existing(tree)
    /\ r.op # "delete" /\ r.parent # Root =>
         r.parent \in Existing(tree) /\ (r.op = "put" => r.asset \notin Above(tree, r.parent) \cup {r.parent})
    /\ r.op = "delete" => \A b \in Asset : tree[b] # r.asset

Running == {r \in requests : r.checked}

Check(r) ==
    /\ r \in requests \ Running /\ Cardinality(Running) < MaxHandlers /\ Valid(r)
    /\ requests' = (requests \ {r}) \cup {[r EXCEPT !.checked = TRUE]}
    /\ UNCHANGED <<tree, drawn, late, editing, formParent>>

\* Refused, lost, or a row that is gone when it is written.
Refuse(r) ==
    /\ r \in requests
    /\ requests' = requests \ {r} /\ UNCHANGED <<tree, drawn, late, editing, formParent>>

\* What a write does to the handlers that have checked before it.  "overtaken"
\* exists only in the model: a write was made since the check.
Overtake(others) == {IF r.checked THEN [r EXCEPT !.overtaken = TRUE] ELSE r : r \in others}

\* Written and answered: save and remove reset the form, whatever it holds now.
Write(r) ==
    /\ r \in Running /\ (r.op = "post") # (r.asset \in Existing(tree))
    /\ tree' = [tree EXCEPT ![r.asset] = IF r.op = "delete" THEN Gone ELSE r.parent]
    /\ requests' = Overtake(requests \ {r})
    /\ IF r.resets
       THEN /\ editing' = [editing EXCEPT ![r.client] = Gone]
            /\ formParent' = [formParent EXCEPT ![r.client] = Root]
       ELSE UNCHANGED <<editing, formParent>>
    /\ UNCHANGED <<drawn, late>>

TreeNext ==
    \/ \E c \in Client :
        \/ DelayLoad(c)
        \/ \E t \in late[c] \cup {tree} : LoadTree(c, t)
        \/ \E a \in Asset \cup {Gone} : EditNode(c, a)
        \/ \E p \in Asset \cup {Root} : ChooseParent(c, p)
        \/ /\ Cardinality(requests) < MaxRequests
           /\ \/ SaveNode(c)
              \/ \E a \in Asset : \/ RemoveNode(c, a)
                                  \/ \E p \in Asset \cup {Root} : Drop(c, a, p)
                                  \/ \E b \in Asset : Reorder(c, a, b)
    \/ \E r \in requests : Check(r) \/ Refuse(r) \/ Write(r)

TreeSpec == TreeInit /\ [][TreeNext]_treeVars
-----------------------------------------------------------------------------
TreeTypeOK ==
    /\ tree \in Tree /\ drawn \in [Client -> Tree] /\ late \in [Client -> SUBSET Tree]
    /\ editing \in [Client -> Asset \cup {Gone}] /\ formParent \in [Client -> Asset \cup {Root}]
    /\ requests \subseteq Request

\* "Asset hierarchy cannot contain cycles" (main.py): the nodes form a tree - each
\* parent exists and has a smaller rank.
TreeIsATree ==
    \E rank \in [Asset -> 0 .. Cardinality(Asset)] :
        \A a \in Existing(tree) : tree[a] # Root => tree[a] \in Existing(tree) /\ rank[tree[a]] < rank[a]

\* The tree is lost only by a handler that another one overtook between its check
\* and its write (update_asset, create_asset and delete_asset).  However old the
\* trees are on which the changes were decided, and whatever is refused or lost:
\* everything else keeps it.
TreeLostToRacesOnly ==
    [][TreeIsATree /\ (\A r \in requests : Write(r) => ~r.overtaken) => TreeIsATree']_treeVars
-----------------------------------------------------------------------------
(* Why: what a handler has checked is still so when it writes, unless      *)
(* another one wrote in between.                                           *)
ChecksLast == \A r \in Running : ~r.overtaken => Valid(r)

TreeInv == TreeTypeOK /\ ChecksLast
=============================================================================
