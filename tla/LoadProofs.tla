----------------------------- MODULE LoadProofs -----------------------------
(***************************************************************************)
(* Proofs about what main of dynamod-svmgr does before it starts anything, *)
(* for any set of services and any contents of the directories: the        *)
(* depth-first search of dependency/cycle.rs answers right on every graph, *)
(* and the supervisor tree is a tree with a place for every service.       *)
(***************************************************************************)
EXTENDS Load, FiniteSetTheorems, TLAPS

(***************************************************************************)
(* The invariant of the tree under construction.  A name is taken only by  *)
(* a supervisor as long as supervisors are being added, which is why the   *)
(* listing alone decides who gets in.                                      *)
(***************************************************************************)
TreeTyped ==
  /\ tree = [n \in Nodes |-> [kind |-> tree[n].kind, parent |-> tree[n].parent,
                              children |-> tree[n].children]]
  /\ root \in Nodes /\ tree[root].kind = "Supervisor"
  /\ \A n \in Nodes : tree[n].children \subseteq Nodes

SupervisorsFirst ==
  /\ boot \in {"load", "supervisors", "nothing"} => listed = <<>> /\ Nodes = {root}
  /\ ~(supervisor_defs \subseteq Range(listed)) => Nodes = NodesOf("Supervisor")

ListingTyped ==
  /\ listed \in Seq(File) /\ conf \in Cases
  /\ supervisor_defs \subseteq {f \in File : f.kind = "Supervisor"}

SupervisorsAreListed ==
  \E A \in SUBSET DOMAIN listed :
    Adds(A) /\ NodesOf("Supervisor") = {root} \cup {listed[j].name : j \in A}

TInv ==
  /\ TreeTyped /\ SupervisorsFirst /\ ListingTyped
  /\ \A n \in Nodes \ {root} : HasOneParent(n)
  /\ NoLoop /\ SupervisorsAreListed

(* A new node leaves a tree a tree. *)
LEMMA AddNodeKeepsTree ==
  ASSUME TreeTyped, \A n \in Nodes \ {root} : HasOneParent(n), NoLoop,
         NEW f \in File, NEW up, tree' = AddNode(f, up), tree' # tree
  PROVE  /\ f.name \notin Nodes /\ up \in NodesOf("Supervisor")
         /\ Nodes' = Nodes \cup {f.name}
         /\ \A n \in Nodes : tree'[n].kind = tree[n].kind /\ tree'[n].parent = tree[n].parent
         /\ tree'[f.name].kind = f.kind /\ tree'[f.name].parent = up
         /\ TreeTyped' /\ (\A n \in Nodes \ {root} : HasOneParent(n))' /\ NoLoop'
<1>1. f.name \notin Nodes /\ up \in NodesOf("Supervisor")
  BY Zenon DEF AddNode
<1>2. tree' = [n \in Nodes \cup {f.name} |->
                 CASE n = f.name -> [kind |-> f.kind, parent |-> up, children |-> {}]
                   [] n = up -> [tree[up] EXCEPT !.children = @ \cup {f.name}]
                   [] OTHER -> tree[n]]
  BY <1>1, Zenon DEF AddNode
<1>3. Nodes' = Nodes \cup {f.name}
  BY <1>2, Zenon DEF Nodes
<1>4. up \in Nodes /\ up # f.name
  BY <1>1, Zenon DEF NodesOf
<1>5. tree'[f.name] = [kind |-> f.kind, parent |-> up, children |-> {}]
  BY <1>2, <1>4, Zenon
<1>6. tree'[up] = [kind |-> tree[up].kind, parent |-> tree[up].parent,
                   children |-> tree[up].children \cup {f.name}]
  <2>1. tree'[up] = [tree[up] EXCEPT !.children = @ \cup {f.name}]
    BY <1>2, <1>4, Zenon
  <2>2. tree[up] = [kind |-> tree[up].kind, parent |-> tree[up].parent,
                    children |-> tree[up].children]
    BY <1>4, Zenon DEF TreeTyped
  <2> QED
    BY <2>1, <2>2, Zenon
<1>7. ASSUME NEW n \in Nodes, n # up PROVE tree'[n] = tree[n]
  BY <1>1, <1>2, <1>7, Zenon
<1>8. \A n \in Nodes : tree'[n].kind = tree[n].kind /\ tree'[n].parent = tree[n].parent
  BY <1>6, <1>7
<1>9. TreeTyped'
  <2>1. \A n \in Nodes' : tree'[n] = [kind |-> tree'[n].kind, parent |-> tree'[n].parent,
                                      children |-> tree'[n].children]
    BY <1>3, <1>5, <1>6, <1>7, Zenon DEF TreeTyped
  <2>2. tree' = [n \in Nodes' |-> tree'[n]]
    BY <1>2, <1>3, Zenon
  <2>3. \A n \in Nodes' : tree'[n].children \subseteq Nodes'
    BY <1>3, <1>5, <1>6, <1>7, <1>4, SMTT(30) DEF TreeTyped
  <2>4. root \in Nodes' /\ tree'[root].kind = "Supervisor"
    BY <1>3, <1>8, Zenon DEF TreeTyped
  <2>5. tree' = [n \in Nodes' |-> [kind |-> tree'[n].kind, parent |-> tree'[n].parent,
                                   children |-> tree'[n].children]]
    BY <2>1, <2>2, Zenon
  <2> QED
    BY <2>3, <2>4, <2>5, Zenon DEF TreeTyped
<1>10. \A n \in Nodes' : NodesOf("Supervisor") \subseteq NodesOf("Supervisor")'
  BY <1>3, <1>8, Zenon DEF NodesOf
<1>11. ASSUME NEW n \in Nodes' \ {root} PROVE HasOneParent(n)'
  <2>1. CASE n = f.name
    <3>1. \A s \in Nodes : n \notin tree[s].children
      BY <1>1, <2>1, Zenon DEF TreeTyped
    <3>2. \A s \in Nodes' : n \in tree'[s].children <=> s = up
      BY <3>1, <2>1, <1>3, <1>4, <1>5, <1>6, <1>7, SMTT(30)
    <3> QED
      BY <3>2, <2>1, <1>1, <1>3, <1>4, <1>5, <1>10, SMTT(30) DEF HasOneParent
  <2>2. CASE n # f.name
    <3>1. n \in Nodes \ {root} /\ HasOneParent(n)
      BY <2>2, <1>3, Zenon
    <3>2. \A s \in Nodes : n \in tree'[s].children <=> n \in tree[s].children
      BY <2>2, <1>6, <1>7, <1>4, SMTT(30)
    <3>3. n \notin tree'[f.name].children
      BY <1>5
    <3> QED
      BY <3>1, <3>2, <3>3, <1>3, <1>8, <1>10, Zenon DEF HasOneParent
  <2> QED
    BY <2>1, <2>2, Zenon
<1>12. NoLoop'
  <2> SUFFICES ASSUME NEW S \in SUBSET (Nodes' \ {root}), S # {}
               PROVE  \E n \in S : tree'[n].parent \notin S
    BY Zenon DEF NoLoop
  <2>1. CASE S \subseteq {f.name}
    BY <2>1, <1>4, <1>5
  <2>2. CASE ~(S \subseteq {f.name})
    <3>1. S \ {f.name} \in SUBSET (Nodes \ {root}) /\ S \ {f.name} # {}
      BY <2>2, <1>3, Zenon
    <3>2. PICK n \in S \ {f.name} : tree[n].parent \notin S \ {f.name}
      BY <3>1, Zenon DEF NoLoop
    <3>3. tree[n].parent \in Nodes
      BY <3>1, <3>2, Zenon DEF HasOneParent, NodesOf
    <3> QED
      BY <3>1, <3>2, <3>3, <1>1, <1>8, Zenon
  <2> QED
    BY <2>1, <2>2, Zenon
<1> QED
  BY <1>1, <1>3, <1>5, <1>8, <1>9, <1>11, <1>12, SMTT(30)

(* add_supervisor and add_worker fail only for their three reasons. *)
LEMMA AddNodeChanges ==
  ASSUME NEW f \in File, NEW up, AddNode(f, up) = tree
  PROVE  f.name \in Nodes \/ up \notin NodesOf("Supervisor")
BY DEF AddNode, Nodes

LEMMA LoadInitTInv == LoadInit => TInv
<1> SUFFICES ASSUME LoadInit PROVE TInv
  BY Zenon
<1>1. tree = [n \in {root} |-> [kind |-> "Supervisor", parent |-> root, children |-> {}]]
  BY DEF LoadInit, SupervisorTree
<1>2. Nodes = {root} /\ NodesOf("Supervisor") = {root}
  BY <1>1, Zenon DEF Nodes, NodesOf
<1>3. TreeTyped
  BY <1>1, <1>2, Zenon DEF TreeTyped
<1>4. SupervisorsFirst /\ ListingTyped
  BY <1>2 DEF LoadInit, SupervisorsFirst, ListingTyped
<1>5. SupervisorsAreListed
  <2>1. DOMAIN listed = {} /\ {} \in SUBSET DOMAIN listed
    BY DEF LoadInit
  <2>2. Adds({})
    BY <2>1, Zenon DEF Adds
  <2> QED
    BY <1>2, <2>1, <2>2, Zenon DEF SupervisorsAreListed
<1> QED
  BY <1>2, <1>3, <1>4, <1>5, Zenon DEF TInv, NoLoop

(* The loop over the supervisor files, one file on. *)
LEMMA AddSupervisorTInv == ASSUME TInv, add_supervisor PROVE TInv'
<1>1. PICK f \in supervisor_defs \ Range(listed) :
        listed' = Append(listed, f)
        /\ tree' = IF f.name = root THEN tree ELSE AddNode(f, f.parent)
  BY DEF add_supervisor
<1>k. PICK k : k = Len(listed) + 1
  BY Zenon
<1>2. f \in File /\ listed \in Seq(File) /\ Len(listed) \in Nat /\ k = Len(listed) + 1
  BY <1>1, <1>k DEF TInv, ListingTyped
<1>3. /\ DOMAIN listed = 1..Len(listed) /\ DOMAIN listed' = 1..k
      /\ listed' \in Seq(File) /\ listed'[k] = f
      /\ \A j \in 1..Len(listed) : listed'[j] = listed[j]
  BY <1>1, <1>2
<1>4. Nodes = NodesOf("Supervisor") /\ boot = "tree" /\ boot' = boot
      /\ supervisor_defs' = supervisor_defs /\ conf' = conf
  BY <1>1, Zenon DEF TInv, SupervisorsFirst, add_supervisor
<1>5. f.kind = "Supervisor"
  BY <1>1, Zenon DEF TInv, ListingTyped
<1>6. PICK A \in SUBSET DOMAIN listed :
        Adds(A) /\ NodesOf("Supervisor") = {root} \cup {listed[j].name : j \in A}
  BY Zenon DEF TInv, SupervisorsAreListed
<1>7. Range(listed) \subseteq Range(listed')
  BY <1>2, <1>3 DEF Range
<1>8. ListingTyped'
  BY <1>3, <1>4, Zenon DEF TInv, ListingTyped
<1>9. CASE tree' = tree
  <2>1. Nodes' = Nodes /\ NodesOf("Supervisor")' = NodesOf("Supervisor")
    BY <1>9, Zenon DEF Nodes, NodesOf
  <2>2. f.name = root \/ f.name \in Nodes \/ f.parent \notin Nodes
    BY <1>1, <1>4, <1>9, <1>2, AddNodeChanges, Zenon DEF TInv
  <2>3. A \in SUBSET DOMAIN listed' /\ Adds(A)'
    BY <2>2, <1>2, <1>3, <1>4, <1>6, SMTT(30) DEF Adds
  <2>4. SupervisorsAreListed'
    BY <2>1, <2>3, <1>3, <1>6, SMTT(30) DEF SupervisorsAreListed
  <2>5. TreeTyped' /\ SupervisorsFirst'
    BY <2>1, <1>4, <1>7, <1>9, Zenon DEF TInv, TreeTyped, SupervisorsFirst
  <2>6. NoLoop' /\ (\A n \in Nodes \ {root} : HasOneParent(n))'
    BY <2>1, <1>9 DEF TInv, NoLoop, HasOneParent
  <2> QED
    BY <2>4, <2>5, <2>6, <1>8, Zenon DEF TInv
<1>10. CASE tree' # tree
  <2>1. tree' = AddNode(f, f.parent) /\ f.name # root
    BY <1>1, <1>10, Zenon
  <2>2. /\ f.name \notin Nodes /\ f.parent \in Nodes
        /\ Nodes' = Nodes \cup {f.name}
        /\ \A n \in Nodes : tree'[n].kind = tree[n].kind
        /\ tree'[f.name].kind = "Supervisor"
        /\ TreeTyped' /\ (\A n \in Nodes \ {root} : HasOneParent(n))' /\ NoLoop'
    BY <2>1, <1>2, <1>4, <1>5, <1>10, AddNodeKeepsTree, Zenon DEF TInv
  <2>3. NodesOf("Supervisor")' = Nodes' /\ Nodes' = NodesOf("Supervisor") \cup {f.name}
    BY <2>2, <1>4, Zenon DEF NodesOf
  <2>0. PICK B : B = A \cup {k}
    BY Zenon
  <2>a. A \subseteq 1..Len(listed) /\ k \notin A /\ B \in SUBSET DOMAIN listed'
    BY <2>0, <1>2, <1>3, <1>6, SMTT(30)
  <2>b. \A i \in A : i < k /\ listed'[i] = listed[i]
    BY <2>a, <1>2, <1>3, SMTT(30)
  <2>c. ASSUME NEW j \in 1..Len(listed)
        PROVE  j \in B <=>
                 /\ listed'[j].name # root
                 /\ \A i \in B : i < j => listed'[i].name # listed'[j].name
                 /\ \/ listed'[j].parent = root
                    \/ \E i \in B : i < j /\ listed'[i].name = listed'[j].parent
    <3>1. j \in B <=> j \in A
      BY <2>0, <1>2
    <3>2. ~(k < j)
      BY <1>2
    <3> QED
      BY <3>1, <3>2, <2>0, <2>b, <1>3, <1>6, SMTT(30) DEF Adds
  <2>d. /\ f.name # root
        /\ \A i \in B : i < k => listed'[i].name # f.name
        /\ f.parent = root \/ \E i \in B : i < k /\ listed'[i].name = f.parent
    <3>1. \A i \in A : listed[i].name # f.name
      BY <2>2, <1>4, <1>6, Zenon
    <3>2. f.parent = root \/ \E i \in A : listed[i].name = f.parent
      BY <2>2, <1>4, <1>6, ZenonT(30)
    <3> QED
      BY <3>1, <3>2, <2>0, <2>1, <2>b, <1>2, SMTT(30)
  <2>e. \A j \in DOMAIN listed' : j = k \/ j \in 1..Len(listed)
    BY <1>2, <1>3
  <2>4. Adds(B)'
    <3>1. \A j \in DOMAIN listed' :
            j \in B <=>
              /\ listed'[j].name # root
              /\ \A i \in B : i < j => listed'[i].name # listed'[j].name
              /\ \/ listed'[j].parent = root
                 \/ \E i \in B : i < j /\ listed'[i].name = listed'[j].parent
      BY <2>0, <2>c, <2>d, <2>e, <1>3, SMTT(30)
    <3> QED
      BY <3>1, Zenon DEF Adds
  <2>5. NodesOf("Supervisor")' = {root} \cup {listed'[j].name : j \in B}
    BY <2>0, <2>3, <2>b, <1>3, <1>6, SMTT(30)
  <2>6. SupervisorsAreListed'
    BY <2>a, <2>4, <2>5, Zenon DEF SupervisorsAreListed
  <2>7. SupervisorsFirst'
    BY <2>3, <1>4, Zenon DEF SupervisorsFirst
  <2> QED
    BY <2>2, <2>6, <2>7, <1>8, Zenon DEF TInv
<1> QED
  BY <1>9, <1>10, Zenon

(* The loop over the service files, one file on: no supervisor comes of it. *)
LEMMA AddWorkerTInv == ASSUME TInv, add_worker PROVE TInv'
<1>1. PICK f \in services : tree' = AddNode(f, parent_id(f))
  BY Zenon DEF add_worker
<1>2. /\ boot = "tree" /\ supervisor_defs \subseteq Range(listed)
      /\ boot' = boot /\ listed' = listed /\ conf' = conf
      /\ supervisor_defs' = supervisor_defs
  BY Zenon DEF add_worker
<1>3. f \in File /\ f.kind = "Worker"
  BY LoadAssumption, Zenon DEF TInv, ListingTyped, services
<1>4. ListingTyped' /\ SupervisorsFirst'
  BY <1>2, Zenon DEF TInv, ListingTyped, SupervisorsFirst
<1>5. /\ NodesOf("Supervisor")' = NodesOf("Supervisor")
      /\ TreeTyped' /\ (\A n \in Nodes \ {root} : HasOneParent(n))' /\ NoLoop'
  <2>1. CASE tree' = tree
    BY <2>1 DEF TInv, Nodes, NodesOf, TreeTyped, NoLoop, HasOneParent
  <2>2. CASE tree' # tree
    <3>1. /\ f.name \notin Nodes
          /\ Nodes' = Nodes \cup {f.name}
          /\ \A n \in Nodes : tree'[n].kind = tree[n].kind
          /\ tree'[f.name].kind = "Worker"
          /\ TreeTyped' /\ (\A n \in Nodes \ {root} : HasOneParent(n))' /\ NoLoop'
      BY <2>2, <1>1, <1>3, AddNodeKeepsTree, ZenonT(30) DEF TInv
    <3> QED
      BY <3>1, Zenon DEF NodesOf
  <2> QED
    BY <2>1, <2>2, Zenon
<1>6. SupervisorsAreListed'
  BY <1>2, <1>5 DEF TInv, SupervisorsAreListed, Adds
<1> QED
  BY <1>4, <1>5, <1>6, Zenon DEF TInv

(* A step that leaves the tree and the listing alone. *)
LEMMA TreeUntouched ==
  ASSUME TInv, tree' = tree, listed' = listed
  PROVE  /\ TreeTyped' /\ NoLoop' /\ SupervisorsAreListed'
         /\ (\A n \in Nodes \ {root} : HasOneParent(n))'
<1>1. Nodes' = Nodes /\ \A kind : NodesOf(kind)' = NodesOf(kind)
  BY DEF Nodes, NodesOf
<1>2. TreeTyped' /\ NoLoop'
  BY <1>1, Zenon DEF TInv, TreeTyped, NoLoop
<1>3. (\A n \in Nodes \ {root} : HasOneParent(n))'
  BY <1>1, Zenon DEF TInv, HasOneParent
<1>4. SupervisorsAreListed'
  BY <1>1 DEF TInv, SupervisorsAreListed, Adds
<1> QED
  BY <1>2, <1>3, <1>4, Zenon

LEMMA LoadNextTInv == TInv /\ [LoadNext]_load_vars => TInv'
<1> SUFFICES ASSUME TInv, [LoadNext]_load_vars PROVE TInv'
  OBVIOUS
<1>1. CASE add_supervisor
  BY <1>1, AddSupervisorTInv, Zenon
<1>2. CASE add_worker
  BY <1>2, AddWorkerTInv, Zenon
<1>3. CASE load_supervisors_dir
  <2>1. /\ listed' = listed /\ conf' = conf /\ tree' = tree
        /\ boot' = "tree" /\ boot = "supervisors"
        /\ supervisor_defs' \in {conf.supervisors, {}}
    BY <1>3, Zenon DEF load_supervisors_dir
  <2>2. Nodes = {root} /\ NodesOf("Supervisor") = {root}
    BY <2>1, Zenon DEF TInv, SupervisorsFirst, TreeTyped, NodesOf
  <2>3. SupervisorsFirst'
    BY <2>1, <2>2, Zenon DEF SupervisorsFirst, Nodes, NodesOf
  <2>4. ListingTyped'
    BY <2>1, LoadAssumption, Zenon DEF TInv, ListingTyped
  <2> QED
    BY <2>1, <2>3, <2>4, TreeUntouched, Zenon DEF TInv
<1>4. ASSUME UNCHANGED tree_vars,
             boot' \in {"load", "supervisors", "nothing"}
               => boot \in {"load", "supervisors", "nothing"}
      PROVE  TInv'
  <2>1. tree' = tree /\ listed' = listed /\ conf' = conf /\ supervisor_defs' = supervisor_defs
    BY <1>4, Zenon DEF tree_vars
  <2>2. SupervisorsFirst' /\ ListingTyped'
    BY <2>1, <1>4, Zenon DEF TInv, SupervisorsFirst, ListingTyped, Nodes, NodesOf
  <2> QED
    BY <2>1, <2>2, TreeUntouched, Zenon DEF TInv
<1>5. CASE load_services_dir \/ StartSearch \/ Search \/ Decide \/ StartupLoop \/ Break
           \/ UNCHANGED load_vars
  BY <1>4, <1>5, Zenon DEF load_services_dir, StartSearch, Search, Decide, StartupLoop, Break, load_vars
<1> QED
  BY <1>1, <1>2, <1>3, <1>5, Zenon DEF LoadNext

(***************************************************************************)
(* Whatever the files say and however they are listed, main builds a tree, *)
(* and its supervisors are those listed after their parents.               *)
(***************************************************************************)
THEOREM BuildsATree == LoadSpec => []TreeIsWhole
<1>1. TInv => TreeIsWhole
  BY DEF TInv, TreeIsWhole, SupervisorsAreListed
<1> QED
  BY <1>1, LoadInitTInv, LoadNextTInv, PTL DEF LoadSpec

-----------------------------------------------------------------------------
(***************************************************************************)
(* The invariant of the loop over the service files.  Names that are apart *)
(* stay apart in the tree: its supervisors have names of supervisor files, *)
(* its workers those of the services placed so far, and so the next        *)
(* service finds its name free, and its `supervisor` taken by a supervisor *)
(* or by nobody.                                                           *)
(***************************************************************************)
NamesApart ==
  /\ \A f, g \in services : f.name = g.name => f = g
  /\ \A f \in services : f.parent \in SupervisorNames \cup {root}
  /\ ServiceNames \cap (SupervisorNames \cup {root}) = {}

IsPlaced(f) ==
  /\ f.name \in NodesOf("Worker")
  /\ tree[f.name].parent = IF f.parent \in NodesOf("Supervisor") THEN f.parent ELSE root

PlacedInOrder ==
  /\ placed \subseteq services /\ Range(listed) \subseteq supervisor_defs
  /\ boot \in {"load", "supervisors", "nothing"} => placed = {}
  /\ ~(supervisor_defs \subseteq Range(listed)) => placed = {}
  /\ boot \in {"search", "startup", "complete"} => placed = services

OthersAreWorkers ==
  \A n \in Nodes \ NodesOf("Supervisor") :
    tree[n].kind = "Worker" /\ \E f \in placed : f.name = n

PInv ==
  /\ PlacedInOrder /\ OthersAreWorkers
  /\ NamesApart => \A f \in placed : IsPlaced(f)

(* validate_all finds two files with one name. *)
LEMMA TwoAreMany ==
  ASSUME NEW S, IsFiniteSet(S), NEW f \in S, NEW g \in S, f # g
  PROVE  Cardinality(S) > 1
<1>1. IsFiniteSet({f}) /\ Cardinality({f}) = 1
  BY FS_Singleton, Zenon
<1>2. {f, g} = {f} \cup {g} /\ g \notin {f} /\ {f, g} \subseteq S
  BY Zenon
<1>3. Cardinality({f, g}) = 2
  BY <1>1, <1>2, FS_AddElement, SMTT(30)
<1>4. Cardinality({f, g}) <= Cardinality(S) /\ Cardinality(S) \in Nat
  BY <1>2, FS_Subset, FS_CardinalityType, Zenon
<1> QED
  BY <1>3, <1>4

(* A configuration without complaints has its names apart. *)
LEMMA ValidIsApart ==
  ASSUME ListingTyped, validate_all = {},
         ServiceNames \cap (SupervisorNames \cup {root}) = {}
  PROVE  NamesApart
<1>1. services \subseteq File /\ IsFiniteSet(services)
  BY LoadAssumption, Zenon DEF ListingTyped, services
<1>2. ASSUME NEW f \in services, NEW g \in services, f.name = g.name, f # g
      PROVE  FALSE
  <2>1. f.name \in Names \cup {root}
    BY <1>1, Zenon DEF File
  <2>2. IsFiniteSet({h \in services : h.name = f.name})
    BY <1>1, FS_Subset, Zenon
  <2>3. Cardinality({h \in services : h.name = f.name}) > 1
    BY <1>2, <2>2, TwoAreMany, Zenon
  <2>4. <<"Duplicate", f.name>> \in validate_all
    BY <2>1, <2>3, Zenon DEF validate_all
  <2> QED
    BY <2>4, Zenon
<1>3. ASSUME NEW f \in services, f.parent \notin SupervisorNames \cup {root}
      PROVE  FALSE
  <2>1. <<"UnknownSupervisor", f.name>> \in validate_all
    BY <1>3, Zenon DEF validate_all
  <2> QED
    BY <2>1, Zenon
<1> QED
  BY <1>2, <1>3, Zenon DEF NamesApart

(* The supervisors of the tree come from their files. *)
LEMMA SupervisorsHaveFiles ==
  ASSUME TInv, Range(listed) \subseteq supervisor_defs
  PROVE  NodesOf("Supervisor") \subseteq SupervisorNames \cup {root}
<1>1. PICK A \in SUBSET DOMAIN listed :
        NodesOf("Supervisor") = {root} \cup {listed[j].name : j \in A}
  BY Zenon DEF TInv, SupervisorsAreListed
<1>2. \A j \in A : listed[j] \in supervisor_defs
  BY <1>1, Zenon DEF Range
<1> QED
  BY <1>1, <1>2, Zenon DEF SupervisorNames

LEMMA LoadInitPInv == LoadInit => PInv
<1> SUFFICES ASSUME LoadInit PROVE PInv
  OBVIOUS
<1>1. Nodes = {root} /\ NodesOf("Supervisor") = {root}
  BY Zenon DEF LoadInit, SupervisorTree, Nodes, NodesOf
<1>2. Range(listed) = {}
  BY DEF LoadInit, Range
<1> QED
  BY <1>1, <1>2, Zenon DEF LoadInit, PInv, PlacedInOrder, OthersAreWorkers

(* The loop over the supervisor files adds no worker. *)
LEMMA AddSupervisorPInv == ASSUME TInv, PInv, add_supervisor PROVE PInv'
<1>1. PICK f \in supervisor_defs \ Range(listed) :
        listed' = Append(listed, f)
        /\ tree' = IF f.name = root THEN tree ELSE AddNode(f, f.parent)
  BY Zenon DEF add_supervisor
<1>2. /\ f \in File /\ f.kind = "Supervisor" /\ listed \in Seq(File)
      /\ placed' = placed /\ boot' = boot /\ boot = "tree" /\ conf' = conf
      /\ supervisor_defs' = supervisor_defs
  BY <1>1, Zenon DEF TInv, ListingTyped, add_supervisor
<1>3. placed = {} /\ Nodes = NodesOf("Supervisor")
  BY <1>1, Zenon DEF PInv, PlacedInOrder, TInv, SupervisorsFirst
<1>4. Range(listed') = Range(listed) \cup {f}
  <2>1. Len(listed) \in Nat /\ DOMAIN listed = 1..Len(listed)
    BY <1>2
  <2>2. DOMAIN listed' = 1..(Len(listed) + 1) /\ listed'[Len(listed) + 1] = f
        /\ \A j \in 1..Len(listed) : listed'[j] = listed[j]
    BY <1>1, <1>2
  <2> QED
    BY <2>1, <2>2 DEF Range
<1>5. PlacedInOrder'
  BY <1>1, <1>2, <1>3, <1>4, Zenon DEF PInv, PlacedInOrder, services
<1>6. Nodes' = NodesOf("Supervisor")'
  <2>1. CASE tree' = tree
    BY <2>1, <1>3, Zenon DEF Nodes, NodesOf
  <2>2. CASE tree' # tree
    <3>1. tree' = AddNode(f, f.parent)
      BY <1>1, <2>2, Zenon
    <3>2. /\ Nodes' = Nodes \cup {f.name}
          /\ \A n \in Nodes : tree'[n].kind = tree[n].kind
          /\ tree'[f.name].kind = "Supervisor"
      BY <2>2, <3>1, <1>2, AddNodeKeepsTree, Zenon DEF TInv
    <3> QED
      BY <3>2, <1>3, Zenon DEF NodesOf
  <2> QED
    BY <2>1, <2>2, Zenon
<1> QED
  BY <1>2, <1>3, <1>5, <1>6, Zenon DEF PInv, OthersAreWorkers

(* The loop over the service files, one file on. *)
LEMMA AddWorkerPInv == ASSUME TInv, PInv, add_worker PROVE PInv'
<1>1. PICK f \in services \ placed :
        placed' = placed \cup {f} /\ tree' = AddNode(f, parent_id(f))
  BY Zenon DEF add_worker
<1>2. /\ boot = "tree" /\ supervisor_defs \subseteq Range(listed)
      /\ boot' = boot /\ listed' = listed /\ conf' = conf
      /\ supervisor_defs' = supervisor_defs
  BY Zenon DEF add_worker
<1>3. f \in File /\ f.kind = "Worker"
  BY <1>1, LoadAssumption, Zenon DEF TInv, ListingTyped, services
<1>4. PlacedInOrder'
  BY <1>1, <1>2, Zenon DEF PInv, PlacedInOrder, services
<1>5. CASE tree' = tree
  <2>1. Nodes' = Nodes /\ \A kind : NodesOf(kind)' = NodesOf(kind)
    BY <1>5, Zenon DEF Nodes, NodesOf
  <2>2. OthersAreWorkers'
    BY <2>1, <1>1, <1>5, Zenon DEF PInv, OthersAreWorkers
  <2>3. f.name \in Nodes \/ parent_id(f) \notin NodesOf("Supervisor")
    BY <1>1, <1>3, <1>5, AddNodeChanges, Zenon
  <2>4. ~NamesApart
    <3> SUFFICES ASSUME NamesApart PROVE FALSE
      BY Zenon
    <3>1. \A n \in NodesOf("Supervisor") : n \in SupervisorNames \cup {root}
      BY SupervisorsHaveFiles, Zenon DEF PInv, PlacedInOrder
    <3>2. \A g \in services : g.name \notin SupervisorNames \cup {root}
      BY Zenon DEF NamesApart, ServiceNames
    <3>3. f.name \notin Nodes
      <4>1. f.name \notin NodesOf("Supervisor")
        BY <1>1, <3>1, <3>2, Zenon
      <4>2. \A g \in placed : g.name # f.name
        BY <1>1, Zenon DEF NamesApart, PInv, PlacedInOrder
      <4> QED
        BY <4>1, <4>2, Zenon DEF PInv, OthersAreWorkers
    <3>4. f.parent \in Nodes => f.parent \in NodesOf("Supervisor")
      <4>1. \A g \in placed : g.name # f.parent
        BY <1>1, <3>2, Zenon DEF NamesApart, PInv, PlacedInOrder
      <4> QED
        BY <4>1, Zenon DEF PInv, OthersAreWorkers
    <3>5. root \in NodesOf("Supervisor")
      BY Zenon DEF TInv, TreeTyped, NodesOf
    <3> QED
      BY <2>3, <3>3, <3>4, <3>5, Zenon DEF parent_id
  <2>5. ~NamesApart'
    BY <2>4, <1>2, Zenon DEF NamesApart, services, ServiceNames, SupervisorNames
  <2> QED
    BY <2>2, <2>5, <1>4, Zenon DEF PInv
<1>6. CASE tree' # tree
  <2>1. /\ f.name \notin Nodes /\ parent_id(f) \in NodesOf("Supervisor")
        /\ Nodes' = Nodes \cup {f.name}
        /\ \A n \in Nodes : tree'[n].kind = tree[n].kind /\ tree'[n].parent = tree[n].parent
        /\ tree'[f.name].kind = "Worker" /\ tree'[f.name].parent = parent_id(f)
    BY <1>1, <1>3, <1>6, AddNodeKeepsTree, Zenon DEF TInv
  <2>2. /\ NodesOf("Supervisor")' = NodesOf("Supervisor")
        /\ NodesOf("Worker")' = NodesOf("Worker") \cup {f.name}
    BY <2>1, Zenon DEF NodesOf
  <2>3. OthersAreWorkers'
    BY <2>1, <2>2, <1>1, ZenonT(30) DEF PInv, OthersAreWorkers
  <2>4. NamesApart' => NamesApart
    BY <1>2, Zenon DEF NamesApart, services, ServiceNames, SupervisorNames
  <2>5. ASSUME NamesApart, NEW g \in placed PROVE IsPlaced(g)'
    <3>1. IsPlaced(g)
      BY <2>5, Zenon DEF PInv
    <3> QED
      BY <3>1, <2>1, <2>2, Zenon DEF IsPlaced, NodesOf
  <2>6. IsPlaced(f)'
    <3>1. NodesOf("Supervisor") \subseteq Nodes
      BY Zenon DEF NodesOf
    <3>2. f.parent \in Nodes => parent_id(f) = f.parent
      BY Zenon DEF parent_id
    <3>3. f.parent \notin Nodes => parent_id(f) = root
      BY DEF parent_id
    <3> QED
      BY <3>1, <3>2, <3>3, <2>1, <2>2, Zenon DEF IsPlaced
  <2> QED
    BY <2>3, <2>4, <2>5, <2>6, <1>1, <1>4, Zenon DEF PInv
<1> QED
  BY <1>5, <1>6, Zenon

LEMMA LoadNextPInv == TInv /\ PInv /\ [LoadNext]_load_vars => PInv'
<1> SUFFICES ASSUME TInv, PInv, [LoadNext]_load_vars PROVE PInv'
  OBVIOUS
<1>1. CASE add_supervisor
  BY <1>1, AddSupervisorPInv, Zenon
<1>2. CASE add_worker
  BY <1>2, AddWorkerPInv, Zenon
<1>3. ASSUME tree' = tree, placed' = placed, PlacedInOrder',
             NamesApart' => NamesApart \/ placed = {}
      PROVE  PInv'
  <2>1. Nodes' = Nodes /\ \A kind : NodesOf(kind)' = NodesOf(kind)
    BY <1>3, Zenon DEF Nodes, NodesOf
  <2>2. OthersAreWorkers'
    BY <2>1, <1>3, Zenon DEF PInv, OthersAreWorkers
  <2>3. ASSUME NEW f \in placed, NamesApart PROVE IsPlaced(f)'
    BY <2>1, <2>3, <1>3, Zenon DEF PInv, IsPlaced
  <2> QED
    BY <2>2, <2>3, <1>3, Zenon DEF PInv
<1>4. CASE load_supervisors_dir
  <2>1. /\ listed' = listed /\ conf' = conf /\ tree' = tree /\ placed' = placed
        /\ boot' = "tree" /\ boot = "supervisors"
    BY <1>4, Zenon DEF load_supervisors_dir
  <2>2. placed = {} /\ Range(listed) = {}
    BY <2>1 DEF PInv, PlacedInOrder, TInv, SupervisorsFirst, Range
  <2>3. PlacedInOrder'
    BY <2>1, <2>2, Zenon DEF PlacedInOrder
  <2> QED
    BY <2>1, <2>2, <2>3, <1>3, Zenon
<1>5. ASSUME UNCHANGED tree_vars,
             boot' \in {"load", "supervisors", "nothing"}
               => boot \in {"load", "supervisors", "nothing"},
             boot' \in {"search", "startup", "complete"}
               => placed = services \/ boot \in {"search", "startup", "complete"}
      PROVE  PInv'
  <2>1. /\ tree' = tree /\ listed' = listed /\ conf' = conf /\ placed' = placed
        /\ supervisor_defs' = supervisor_defs
    BY <1>5, Zenon DEF tree_vars
  <2>2. services' = services
    BY <2>1, Zenon DEF services
  <2>3. PlacedInOrder'
    BY <2>1, <2>2, <1>5, Zenon DEF PInv, PlacedInOrder
  <2>4. NamesApart' => NamesApart
    BY <2>1, <2>2, Zenon DEF NamesApart, ServiceNames, SupervisorNames
  <2> QED
    BY <2>1, <2>3, <2>4, <1>3, Zenon
<1>6. CASE load_services_dir \/ StartSearch \/ Search \/ Decide \/ StartupLoop \/ Break
           \/ UNCHANGED load_vars
  BY <1>5, <1>6, Zenon DEF load_services_dir, StartSearch, Search, Decide, StartupLoop, Break, load_vars
<1> QED
  BY <1>1, <1>2, <1>4, <1>6, Zenon DEF LoadNext

(***************************************************************************)
(* For every configuration about which validate_all is silent and in which *)
(* no service has the name of a supervisor, main finds a place in the tree *)
(* for every service, however the directories are listed.                  *)
(***************************************************************************)
THEOREM ValidServicesArePlaced == LoadSpec => []ValidIsPlaced
<1>1. TInv /\ PInv => ValidIsPlaced
  BY ValidIsApart, Zenon DEF TInv, PInv, PlacedInOrder, ValidIsPlaced, IsPlaced
<1>2. LoadInit => TInv /\ PInv
  BY LoadInitTInv, LoadInitPInv, Zenon
<1>3. TInv /\ PInv /\ [LoadNext]_load_vars => (TInv /\ PInv)'
  BY LoadNextTInv, LoadNextPInv, Zenon
<1> QED
  BY <1>1, <1>2, <1>3, PTL DEF LoadSpec

-----------------------------------------------------------------------------
(***************************************************************************)
(* The graph that build returns is well-formed and consistent, whatever    *)
(* the definitions say.                                                    *)
(***************************************************************************)
LEMMA BuildConsistent ==
  ASSUME NEW defs \in [Services -> ServiceDef]
  PROVE  build(defs) \in Graph /\ Consistent(build(defs))
BY Zenon DEF build, Graph, Consistent, DeclaredDeps, ServiceDef

-----------------------------------------------------------------------------
(***************************************************************************)
(* The inductive invariant.  The path holds the gray services, each once,  *)
(* and each waits for the next.  Of a gray service, the dependencies the   *)
(* loop has passed are black, except the next on the path; of a white one, *)
(* nothing has been looked at.  The last three conjuncts are what makes    *)
(* the answer right: reported cycles are cycles, and while none has been   *)
(* reported the black services are closed under waiting and acyclic.       *)
(***************************************************************************)
PathIsGray ==
  /\ \A s \in Services : colors[s] = "Gray" <=> \E i \in 1..Len(path) : path[i] = s
  /\ \A i, j \in 1..Len(path) : path[i] = path[j] => i = j

PathIsChain ==
  \A i \in 1..(Len(path) - 1) : path[i + 1] \in graph.hard_deps[path[i]]

TodoWithin == \A s \in Services : todo[s] \subseteq graph.hard_deps[s]

PassedIsBlack ==
  cycles = {} =>
    \A i \in 1..Len(path) : \A d \in graph.hard_deps[path[i]] \ todo[path[i]] :
       colors[d] = "Black" \/ (i < Len(path) /\ d = path[i + 1])

BlackIsAcyclic ==
  cycles = {} =>
    \A S \in SUBSET Colored("Black") :
       S # {} => \E s \in S : graph.hard_deps[s] \cap S = {}

IInv ==
  /\ TypeOK /\ BuiltConsistent
  /\ PathIsGray /\ PathIsChain /\ TodoWithin
  /\ PassedIsBlack /\ BlackIsClosed /\ BlackIsAcyclic /\ CyclesAreReal

LEMMA InitIInv == Init => IInv
<1> SUFFICES ASSUME Init PROVE IInv
  OBVIOUS
<1>1. PICK defs \in Defs : graph = build(defs)
  BY Zenon DEF Init, NewSearch
<1>2. graph \in Graph /\ BuiltConsistent
  BY <1>1, BuildConsistent, DefsAssumption, Zenon DEF BuiltConsistent
<1>3. TypeOK
  BY <1>2 DEF Init, NewSearch, TypeOK
<1>4. Colored("Black") = {}
  BY Zenon DEF Init, NewSearch, Colored
<1>5. PathIsGray /\ PathIsChain /\ TodoWithin /\ PassedIsBlack /\ CyclesAreReal
  BY DEF Init, NewSearch, PathIsGray, PathIsChain, TodoWithin, PassedIsBlack, CyclesAreReal
<1>6. BlackIsClosed /\ BlackIsAcyclic
  BY <1>4, Zenon DEF BlackIsClosed, BlackIsAcyclic
<1> QED
  BY <1>2, <1>3, <1>5, <1>6, Zenon DEF IInv

-----------------------------------------------------------------------------
(***************************************************************************)
(* dfs enters a white service n: the first of a search, or a dependency of *)
(* the service on top of the path.                                         *)
(***************************************************************************)
LEMMA EnterIInv ==
  ASSUME IInv, NEW n \in Services, NEW STATE rest, colors[n] = "White",
         \/ path = <<>> /\ rest = todo
         \/ /\ path # <<>> /\ n \in todo[Top]
            /\ rest = [todo EXCEPT ![Top] = @ \ {n}],
         Enter(n, rest), UNCHANGED <<graph, cycles>>
  PROVE  IInv'
<1> USE DEF IInv
<1>1. /\ path' \in Seq(Services) /\ Len(path') = Len(path) + 1
      /\ Len(path) \in Nat
      /\ \A i \in 1..Len(path) : path'[i] = path[i]
      /\ path'[Len(path) + 1] = n
  BY DEF Enter, TypeOK
<1>2. path # <<>> => Len(path) \in 1..Len(path) /\ Top \in Services
  BY DEF TypeOK, Top
<1>3. TypeOK'
  <2>1. rest \in [Services -> SUBSET Services]
    BY <1>2, Zenon DEF TypeOK
  <2>2. todo' \in [Services -> SUBSET Services]
    BY <2>1, Zenon DEF Enter, TypeOK, Graph
  <2>3. colors' \in [Services -> {"White", "Gray", "Black"}]
    BY Zenon DEF Enter, TypeOK
  <2> QED
    BY <1>1, <2>2, <2>3, Zenon DEF TypeOK
<1>4. \A i \in 1..Len(path) : path[i] \in Services /\ path[i] # n
  BY DEF PathIsGray, TypeOK
<1>5. PathIsGray'
  BY <1>1, <1>4, SMTT(30) DEF PathIsGray, Enter, TypeOK
<1>6. PathIsChain'
  <2> SUFFICES ASSUME NEW i \in 1..(Len(path') - 1)
               PROVE  path'[i + 1] \in graph.hard_deps[path'[i]]
    BY Zenon DEF PathIsChain
  <2>1. CASE i < Len(path)
    <3>1. i \in 1..(Len(path) - 1) /\ i \in 1..Len(path) /\ i + 1 \in 1..Len(path)
      BY <2>1, <1>1
    <3>2. path'[i] = path[i] /\ path'[i + 1] = path[i + 1]
      BY <3>1, <1>1, Zenon
    <3>3. path[i + 1] \in graph.hard_deps[path[i]]
      BY <3>1, Zenon DEF PathIsChain
    <3> QED
      BY <3>2, <3>3, Zenon
  <2>2. CASE i = Len(path)
    BY <2>2, <1>1, <1>2, SMTT(30) DEF TodoWithin, Top
  <2> QED
    BY <1>1, <2>1, <2>2, SMTT(30)
<1>7. TodoWithin'
  BY <1>2 DEF TodoWithin, Enter, TypeOK, Graph
<1>8. Colored("Black")' = Colored("Black")
  BY Zenon DEF Colored, Enter, TypeOK
<1>9. PassedIsBlack'
  <2> SUFFICES ASSUME cycles = {}, NEW i \in 1..Len(path'),
                      NEW d \in graph.hard_deps[path'[i]] \ todo'[path'[i]]
               PROVE  colors'[d] = "Black" \/ (i < Len(path') /\ d = path'[i + 1])
    BY Zenon DEF PassedIsBlack
  <2>1. CASE i = Len(path) + 1
    BY <2>1, <1>1, <1>2 DEF Enter, TypeOK
  <2>2. CASE i \in 1..Len(path)
    <3>1. todo'[path[i]] = rest[path[i]] /\ path'[i] = path[i] /\ path # <<>>
      BY <2>2, <1>1, <1>4, <1>2, SMTT(30) DEF Enter, TypeOK
    <3>2. d \in Services
      BY <1>4, <2>2, <3>1, Zenon DEF TypeOK, Graph
    <3>3. CASE d \notin todo[path[i]]
      <4>1. colors[d] = "Black" \/ (i < Len(path) /\ d = path[i + 1])
        BY <3>3, <3>1, <2>2, Zenon DEF PassedIsBlack
      <4>2. colors[d] = "Black" => colors'[d] = "Black"
        BY <3>2, Zenon DEF Enter, TypeOK
      <4>3. i < Len(path) => path'[i + 1] = path[i + 1] /\ i < Len(path')
        BY <1>1, <2>2, SMTT(30)
      <4> QED
        BY <4>1, <4>2, <4>3, Zenon
    <3>4. CASE d \in todo[path[i]]
      <4>1. path[i] = Top /\ d = n
        BY <3>1, <3>4, <1>2, <1>4, <2>2, SMTT(20) DEF TypeOK
      <4>2. i = Len(path)
        BY <4>1, <2>2, <3>1, <1>2, Zenon DEF PathIsGray, Top
      <4> QED
        BY <4>1, <4>2, <1>1, SMTT(30)
    <3> QED
      BY <3>3, <3>4, ZenonT(30)
  <2> QED
    BY <1>1, <2>1, <2>2, SMTT(30)
<1>10. BlackIsClosed' /\ BlackIsAcyclic' /\ BuiltConsistent'
  BY <1>8 DEF BlackIsClosed, BlackIsAcyclic, BuiltConsistent, Consistent
<1>11. CyclesAreReal'
  BY Zenon DEF CyclesAreReal, IsCycle
<1> QED
  BY <1>3, <1>5, <1>6, <1>7, <1>9, <1>10, <1>11, Zenon

(***************************************************************************)
(* The part of the path from a gray dependency of its top on is a cycle.   *)
(***************************************************************************)
LEMMA CycleAtIsCycle ==
  ASSUME IInv, path # <<>>, NEW dep \in todo[Top], colors[dep] = "Gray"
  PROVE  CycleAt(dep) \in Seq(Services) /\ IsCycle(CycleAt(dep))
<1> USE DEF IInv
<1>0. Len(path) \in Nat /\ Len(path) \in 1..Len(path) /\ Top \in Services
      /\ dep \in Services
  BY DEF TypeOK, Top
<1> DEFINE start == CHOOSE i \in 1..Len(path) : path[i] = dep
           c == SubSeq(path, start, Len(path))
<1>1. start \in 1..Len(path) /\ path[start] = dep
  BY <1>0, Zenon DEF PathIsGray
<1> HIDE DEF start
<1>2. /\ c \in Seq(Services) /\ Len(c) = Len(path) - start + 1
      /\ \A i \in 1..Len(c) : c[i] = path[start + i - 1]
  BY <1>0, <1>1 DEF TypeOK
<1> HIDE DEF c
<1>3. \A i, j \in 1..Len(c) : c[i] = c[j] => i = j
  <2> SUFFICES ASSUME NEW i \in 1..Len(c), NEW j \in 1..Len(c), c[i] = c[j]
               PROVE  i = j
    BY Zenon
  <2>1. start + i - 1 \in 1..Len(path) /\ start + j - 1 \in 1..Len(path)
    BY <1>0, <1>1, <1>2, SMTT(30)
  <2>2. path[start + i - 1] = path[start + j - 1]
    BY <1>2, Zenon
  <2>3. start + i - 1 = start + j - 1
    BY <2>1, <2>2 DEF PathIsGray
  <2> QED
    BY <2>3, <1>1
<1>4. \A i \in 1..(Len(c) - 1) : c[i + 1] \in graph.hard_deps[c[i]]
  <2> SUFFICES ASSUME NEW i \in 1..(Len(c) - 1)
               PROVE  c[i + 1] \in graph.hard_deps[c[i]]
    BY Zenon
  <2>1. c[i] = path[start + i - 1] /\ c[i + 1] = path[start + i]
    BY <1>0, <1>1, <1>2, SMTT(30)
  <2>2. start + i - 1 \in 1..(Len(path) - 1) /\ (start + i - 1) + 1 = start + i
    BY <1>0, <1>1, <1>2, SMTT(30)
  <2> QED
    BY <2>1, <2>2, Zenon DEF PathIsChain
<1>5. c[1] \in graph.hard_deps[c[Len(c)]] /\ Len(c) > 0
  BY <1>0, <1>1, <1>2, SMTT(30) DEF TodoWithin, Top
<1>6. CycleAt(dep) = c
  BY DEF CycleAt, c, start
<1> QED
  BY <1>2, <1>3, <1>4, <1>5, <1>6, Zenon DEF IsCycle

-----------------------------------------------------------------------------
(* dfs returns from the service on top of the path, which becomes black. *)
LEMMA ReturnIInv ==
  ASSUME IInv, Return
  PROVE  IInv'
<1> USE DEF IInv
<1>1. /\ Len(path) \in Nat /\ Len(path) \in 1..Len(path)
      /\ Top \in Services /\ Top = path[Len(path)] /\ colors[Top] = "Gray"
  BY DEF Return, TypeOK, Top, PathIsGray
<1>2. /\ path' \in Seq(Services) /\ Len(path') = Len(path) - 1
      /\ \A i \in 1..Len(path') : path'[i] = path[i]
  <2> DEFINE n == Len(path) - 1
  <2>1. n \in Nat /\ n = Len(path) - 1 /\ \A i \in 1..n : path[i] \in Services
    BY <1>1 DEF TypeOK
  <2>2. path' = SubSeq(path, 1, n)
    BY Zenon DEF Return
  <2> HIDE DEF n
  <2>3. /\ SubSeq(path, 1, n) \in Seq(Services)
        /\ Len(SubSeq(path, 1, n)) = IF 1 <= n THEN n - 1 + 1 ELSE 0
        /\ \A i \in 1..(n - 1 + 1) : SubSeq(path, 1, n)[i] = path[1 + i - 1]
    BY <2>1
  <2>4. Len(SubSeq(path, 1, n)) = n
    <3> DEFINE len == Len(SubSeq(path, 1, n))
    <3>1. len = IF 1 <= n THEN n - 1 + 1 ELSE 0
      BY <2>3, Zenon
    <3> HIDE DEF len
    <3>2. len = n
      BY <3>1, <2>1
    <3> QED
      BY <3>2, Zenon DEF len
  <2> QED
    BY <2>1, <2>2, <2>3, <2>4, SMTT(30)
<1>3. TypeOK' /\ BuiltConsistent'
  BY <1>1, <1>2, Zenon DEF Return, TypeOK, BuiltConsistent, Consistent
<1>4. \A i \in 1..Len(path') : path[i] # Top
  BY <1>1, <1>2 DEF PathIsGray
<1>5. PathIsGray'
  <2>1. ASSUME NEW s \in Services
        PROVE  colors'[s] = "Gray" <=> \E i \in 1..Len(path') : path'[i] = s
    <3>1. CASE s = Top
      BY <3>1, <1>1, <1>2, <1>4, ZenonT(30) DEF Return, TypeOK
    <3>2. CASE s # Top
      <4>1. colors'[s] = colors[s]
        BY <3>2, <1>1, Zenon DEF Return, TypeOK
      <4>2. \A i \in 1..Len(path) : path[i] = s => i \in 1..Len(path')
        BY <3>2, <1>1, <1>2, SMTT(30)
      <4>3. \A i \in 1..Len(path') : i \in 1..Len(path)
        BY <1>1, <1>2, SMTT(30)
      <4> QED
        BY <4>1, <4>2, <4>3, <1>2, SMTT(30) DEF PathIsGray
    <3> QED
      BY <3>1, <3>2, Zenon
  <2>2. \A i, j \in 1..Len(path') : path'[i] = path'[j] => i = j
    BY <1>1, <1>2, SMTT(30) DEF PathIsGray
  <2> QED
    BY <2>1, <2>2, Zenon DEF PathIsGray
<1>6. PathIsChain' /\ TodoWithin'
  BY <1>1, <1>2 DEF PathIsChain, TodoWithin, Return
<1>7. \A s \in Services : colors[s] = "Black" => colors'[s] = "Black"
  BY <1>1, Zenon DEF Return, TypeOK
<1>8. Colored("Black")' = Colored("Black") \cup {Top}
  BY <1>1, Zenon DEF Return, TypeOK, Colored
<1>9. cycles = {} => graph.hard_deps[Top] \subseteq Colored("Black")
  <2> SUFFICES ASSUME cycles = {}, NEW d \in graph.hard_deps[Top]
               PROVE  d \in Services /\ colors[d] = "Black"
    BY Zenon DEF Colored
  <2>1. d \in Services
    BY <1>1, Zenon DEF TypeOK, Graph
  <2>2. d \in graph.hard_deps[path[Len(path)]] \ todo[path[Len(path)]]
    BY <1>1, Zenon DEF Return
  <2> QED
    BY <2>1, <2>2, <1>1 DEF PassedIsBlack
<1>10. PassedIsBlack'
  <2> SUFFICES ASSUME cycles = {}, NEW i \in 1..Len(path'),
                      NEW d \in graph.hard_deps[path[i]] \ todo[path[i]]
               PROVE  colors'[d] = "Black" \/ (i < Len(path') /\ d = path'[i + 1])
    BY <1>2, ZenonT(30) DEF PassedIsBlack, Return
  <2>1. i \in 1..Len(path) /\ d \in Services
    BY <1>1, <1>2 DEF TypeOK, Graph
  <2>2. colors[d] = "Black" \/ (i < Len(path) /\ d = path[i + 1])
    BY <2>1, Zenon DEF PassedIsBlack, Return
  <2>3. CASE colors[d] = "Black"
    BY <2>3, <2>1, <1>7, ZenonT(30)
  <2>4. CASE i < Len(path') /\ d = path[i + 1]
    BY <2>4, <1>1, <1>2, SMTT(30)
  <2>5. CASE i = Len(path') /\ d = path[i + 1]
    BY <2>5, <1>1, <1>2, <1>8, SMTT(30) DEF Colored
  <2> QED
    BY <2>1, <2>2, <2>3, <2>4, <2>5, <1>1, <1>2, SMTT(30)
<1>11. BlackIsClosed'
  BY <1>8, <1>9, Zenon DEF BlackIsClosed, Return
<1>12. BlackIsAcyclic'
  <2> SUFFICES ASSUME cycles = {}, NEW S \in SUBSET (Colored("Black") \cup {Top}),
                      S # {}
               PROVE  \E s \in S : graph.hard_deps[s] \cap S = {}
    BY <1>8, Zenon DEF BlackIsAcyclic, Return
  <2>1. Top \notin Colored("Black")
    BY <1>1, Zenon DEF Colored
  <2> DEFINE B == S \ {Top}
  <2>2. CASE B = {}
    BY <2>1, <2>2, <1>9, ZenonT(30)
  <2>3. CASE B # {}
    <3>1. B \in SUBSET Colored("Black")
      OBVIOUS
    <3>2. PICK s \in B : graph.hard_deps[s] \cap B = {}
      BY <2>3, <3>1, Zenon DEF BlackIsAcyclic
    <3>3. graph.hard_deps[s] \subseteq Colored("Black")
      BY <3>1, Zenon DEF BlackIsClosed
    <3> QED
      BY <3>2, <3>3, <2>1, ZenonT(30)
  <2> QED
    BY <2>2, <2>3, Zenon
<1>13. CyclesAreReal'
  BY Zenon DEF CyclesAreReal, IsCycle, Return
<1> QED
  BY <1>3, <1>5, <1>6, <1>10, <1>11, <1>12, <1>13, Zenon

(* The loop of dfs looks at one more dependency of the top of the path. *)
LEMMA DfsIInv ==
  ASSUME IInv, dfs
  PROVE  IInv'
<1>1. PICK dep \in todo[Top] : SeeGray(dep) \/ SeeWhite(dep) \/ SeeBlack(dep)
  BY Zenon DEF dfs
<1>2. /\ path # <<>> /\ Len(path) \in Nat /\ Len(path) \in 1..Len(path)
      /\ Top \in Services /\ Top = path[Len(path)] /\ dep \in Services
  BY DEF dfs, IInv, TypeOK, Top
<1>3. CASE SeeWhite(dep)
  BY <1>2, <1>3, EnterIInv, Zenon DEF SeeWhite
<1>4. ASSUME todo' = [todo EXCEPT ![Top] = @ \ {dep}],
             UNCHANGED <<graph, colors, path>>
      PROVE  todo' \in [Services -> SUBSET Services] /\ BuiltConsistent'
             /\ PathIsGray' /\ PathIsChain' /\ TodoWithin'
  BY <1>2, <1>4, ZenonT(30) DEF IInv, TypeOK, BuiltConsistent, Consistent, PathIsGray,
                              PathIsChain, TodoWithin
<1>5. CASE SeeGray(dep)
  <2>1. CycleAt(dep) \in Seq(Services) /\ IsCycle(CycleAt(dep))
    BY <1>2, <1>5, CycleAtIsCycle, Zenon DEF SeeGray
  <2>2. TypeOK'
    BY <1>4, <1>5, <2>1, Zenon DEF SeeGray, IInv, TypeOK
  <2>3. cycles' # {}
    BY <1>5, Zenon DEF SeeGray
  <2>4. PassedIsBlack' /\ BlackIsClosed' /\ BlackIsAcyclic'
    BY <2>3, Zenon DEF PassedIsBlack, BlackIsClosed, BlackIsAcyclic
  <2>5. CyclesAreReal'
    BY <2>1, <1>5, Zenon DEF SeeGray, IInv, CyclesAreReal, IsCycle
  <2> QED
    BY <1>4, <1>5, <2>2, <2>4, <2>5, Zenon DEF SeeGray, IInv
<1>6. CASE SeeBlack(dep)
  <2>1. TypeOK'
    BY <1>4, <1>6, Zenon DEF SeeBlack, IInv, TypeOK
  <2>2. PassedIsBlack'
    <3> SUFFICES ASSUME cycles = {}, NEW i \in 1..Len(path),
                        NEW d \in graph.hard_deps[path[i]] \ todo'[path[i]]
                 PROVE  colors[d] = "Black" \/ (i < Len(path) /\ d = path[i + 1])
      BY <1>6, Zenon DEF SeeBlack, PassedIsBlack
    <3>1. path[i] \in Services
      BY <1>2 DEF IInv, TypeOK
    <3>2. CASE d \notin todo[path[i]]
      BY <3>2, Zenon DEF IInv, PassedIsBlack
    <3>3. CASE d \in todo[path[i]]
      BY <3>1, <3>3, <1>2, <1>6, Zenon DEF SeeBlack, IInv, TypeOK
    <3> QED
      BY <3>2, <3>3, Zenon
  <2>3. BlackIsClosed' /\ BlackIsAcyclic' /\ CyclesAreReal'
    BY <1>6, Zenon DEF SeeBlack, IInv, BlackIsClosed, BlackIsAcyclic, Colored,
                CyclesAreReal, IsCycle
  <2> QED
    BY <1>4, <1>6, <2>1, <2>2, <2>3, Zenon DEF SeeBlack, IInv
<1> QED
  BY <1>1, <1>3, <1>5, <1>6, Zenon

LEMMA NextIInv == IInv /\ [Next]_vars => IInv'
<1> SUFFICES ASSUME IInv, [Next]_vars PROVE IInv'
  OBVIOUS
<1>1. CASE detect_cycles
  BY <1>1, EnterIInv, Zenon DEF detect_cycles, Colored
<1>2. CASE dfs
  BY <1>2, DfsIInv, Zenon
<1>3. CASE Return
  BY <1>3, ReturnIInv, Zenon
<1>4. CASE UNCHANGED vars
  <2>1. /\ graph' = graph /\ colors' = colors /\ path' = path /\ todo' = todo
        /\ cycles' = cycles
    BY <1>4, Zenon DEF vars
  <2>2. TypeOK' /\ BuiltConsistent'
    BY <2>1, Zenon DEF IInv, TypeOK, BuiltConsistent, Consistent
  <2>3. PathIsGray' /\ PathIsChain' /\ TodoWithin'
    BY <2>1, Zenon DEF IInv, PathIsGray, PathIsChain, TodoWithin
  <2>4. PassedIsBlack' /\ BlackIsClosed' /\ BlackIsAcyclic'
    BY <2>1, Zenon DEF IInv, PassedIsBlack, BlackIsClosed, BlackIsAcyclic, Colored
  <2>5. CyclesAreReal'
    BY <2>1, Zenon DEF IInv, CyclesAreReal, IsCycle
  <2> QED
    BY <2>2, <2>3, <2>4, <2>5, Zenon DEF IInv
<1> QED
  BY <1>1, <1>2, <1>3, <1>4, Zenon DEF Next

(* The inductive invariant holds throughout the search. *)
THEOREM Invariance == Spec => []IInv
BY InitIInv, NextIInv, PTL DEF Spec

-----------------------------------------------------------------------------
(***************************************************************************)
(* A cycle leaves no acyclic graph: none of its members waits for nobody   *)
(* in the cycle.                                                           *)
(***************************************************************************)
LEMMA CycleRefutes ==
  ASSUME NEW c \in Seq(Services), graph \in Graph, IsCycle(c)
  PROVE  ~Acyclic(graph)
<1> DEFINE S == {c[i] : i \in 1..Len(c)}
<1>0. Len(c) \in Nat /\ Len(c) > 0
  BY DEF IsCycle
<1>1. S \in SUBSET Services /\ S # {}
  BY <1>0
<1>2. \A s \in S : graph.hard_deps[s] \cap S # {}
  <2> SUFFICES ASSUME NEW i \in 1..Len(c)
               PROVE  graph.hard_deps[c[i]] \cap S # {}
    BY Zenon
  <2>1. CASE i = Len(c)
    BY <2>1, <1>0, SMTT(30) DEF IsCycle
  <2>2. CASE i < Len(c)
    <3>1. i \in 1..(Len(c) - 1) /\ i + 1 \in 1..Len(c)
      BY <2>2, <1>0
    <3> QED
      BY <3>1, SMTT(30) DEF IsCycle
  <2> QED
    BY <2>1, <2>2, <1>0
<1> QED
  BY <1>1, <1>2, Zenon DEF Acyclic

(* The invariant makes the answer of a search that is over exact. *)
LEMMA VerdictOfIInv == IInv => VerdictExact
<1> SUFFICES ASSUME IInv, Done PROVE validate_no_cycles <=> Acyclic(graph)
  BY Zenon DEF VerdictExact
<1>1. ASSUME cycles = {} PROVE Acyclic(graph)
  <2>1. Len(path) = 0
    BY Zenon DEF Done
  <2>2. \A s \in Services : colors[s] # "White" /\ colors[s] # "Gray"
    BY <2>1 DEF Done, Colored, IInv, PathIsGray
  <2>3. Colored("Black") = Services
    BY <2>2, Zenon DEF Colored, IInv, TypeOK
  <2> QED
    BY <1>1, <2>3, Zenon DEF IInv, BlackIsAcyclic, Acyclic
<1>2. ASSUME NEW c \in cycles PROVE ~Acyclic(graph)
  BY <1>2, CycleRefutes, Zenon DEF IInv, TypeOK, CyclesAreReal
<1> QED
  BY <1>1, <1>2, Zenon DEF validate_no_cycles

(***************************************************************************)
(* validate_no_cycles is right on every dependency graph: it accepts the   *)
(* acyclic ones and no other.                                              *)
(***************************************************************************)
THEOREM VerdictIsExact == Spec => []VerdictExact
BY VerdictOfIInv, Invariance, PTL

(* Every cycle the error message shows is a cycle of the graph. *)
THEOREM ReportedCyclesAreReal == Spec => []CyclesAreReal
<1>1. IInv => CyclesAreReal
  BY Zenon DEF IInv
<1> QED
  BY <1>1, Invariance, PTL
-----------------------------------------------------------------------------
(***************************************************************************)
(* From the search to the end of the startup loop: what is shown above of  *)
(* the search, and in StartupFrontierProofs of the frontier, each alone,   *)
(* holds for them inside main.                                             *)
(***************************************************************************)
FP == INSTANCE StartupFrontierProofs WITH
  graph <- graph, unmet <- unmet, ready_to_start <- ready_to_start, ready <- ready,
  pending <- pending, blocked <- blocked, completed <- completed, taken <- taken

(***************************************************************************)
(* The inductive invariant: those of the two parts, and what main has      *)
(* learnt by the time it gets to a phase.                                  *)
(***************************************************************************)
PhaseIsEarned ==
  /\ boot \in {"startup", "complete"} => Done /\ validate_no_cycles
  /\ boot = "exit" => Done /\ ~validate_no_cycles
  /\ boot = "complete" => ~F!has_ready /\ Tracked = {}

LInv == IInv /\ FP!IInv /\ PhaseIsEarned

-----------------------------------------------------------------------------
(* FP has its own copies of the library's and the graph's operators, equal  *)
(* to those of this module and to those of F.                               *)
LEMMA SameCardinality ==
  ASSUME NEW S
  PROVE  FP!Cardinality(S) = Cardinality(S) /\ F!Cardinality(S) = Cardinality(S)
BY ZenonT(30) DEF FP!Cardinality, F!Cardinality, Cardinality

(* What StartupFrontierProofs assumes of the constants. *)
LEMMA FrontierAssumptions ==
  /\ Defs \subseteq [Services -> FP!ServiceDef]
  /\ FP!IsFiniteSet(Services) /\ Services \subseteq Names
BY GraphAssumption, DefsAssumption, ZenonT(30) DEF FP!IsFiniteSet, IsFiniteSet, FP!ServiceDef, ServiceDef

LEMMA NewFrontier == ASSUME LoadInit PROVE FP!IInv
<1>1. conf.defs \in Defs /\ graph = FP!build(conf.defs)
  BY LoadAssumption, Zenon DEF LoadInit, build, FP!build, DeclaredDeps, FP!DeclaredDeps
<1>2. FP!New
  BY SameCardinality, ZenonT(30) DEF LoadInit, F!New, FP!New
<1> QED
  BY <1>1, <1>2, FP!NewIInv, FrontierAssumptions, ZenonT(30)

LEMMA FrontierStep == ASSUME FP!IInv, [FP!Next]_FP!vars PROVE FP!IInv'
BY FP!NextIInv, FrontierAssumptions, Zenon

LEMMA LoadInitLInv == LoadInit => LInv
<1> SUFFICES ASSUME LoadInit PROVE LInv
  OBVIOUS
<1>1. conf.defs \in Defs /\ graph = build(conf.defs)
  BY LoadAssumption, Zenon DEF LoadInit
<1>2. Init
  BY <1>1, ZenonT(30) DEF LoadInit, Init
<1>3. FP!IInv
  BY NewFrontier, ZenonT(30)
<1>4. PhaseIsEarned
  BY Zenon DEF LoadInit, PhaseIsEarned
<1> QED
  BY <1>2, <1>3, <1>4, InitIInv, Zenon DEF LInv

(* Everything but a step of the search leaves the search as it is, and     *)
(* everything but a step of the startup loop the frontier.                 *)
LEMMA StepsOfTheParts ==
  ASSUME [LoadNext]_load_vars
  PROVE  [Next]_vars /\ [FP!Next]_FP!vars
<1>1. CASE StartupLoop
  <2>1. UNCHANGED vars
    BY <1>1, Zenon DEF StartupLoop, vars, F!take_ready, F!mark_ready, F!mark_failed
  <2>2. F!take_ready => FP!take_ready
    BY Zenon DEF F!take_ready, FP!take_ready, F!has_ready, FP!has_ready
  <2>3. ASSUME NEW s PROVE F!mark_ready(s) => FP!mark_ready(s)
    BY ZenonT(30) DEF F!mark_ready, FP!mark_ready, F!Release, FP!Release, F!Dec, FP!Dec
  <2>4. ASSUME NEW s PROVE F!mark_failed(s) => FP!mark_failed(s)
    BY Zenon DEF F!mark_failed, FP!mark_failed, F!to_block, FP!to_block, F!ClosedFrom,
                 FP!ClosedFrom, F!requirers, FP!requirers, F!Release, FP!Release, F!Dec, FP!Dec
  <2>5. FP!Next
    BY <1>1, <2>2, <2>3, <2>4, Zenon DEF StartupLoop, Tracked, FP!Next
  <2> QED
    BY <2>1, <2>5, ZenonT(30)
<1>2. CASE Search
  <2>1. UNCHANGED frontier /\ graph' = graph
    BY <1>2, Zenon DEF Search, Next, detect_cycles, dfs, Return, Enter, SeeGray, SeeWhite, SeeBlack
  <2> QED
    BY <1>2, <2>1, ZenonT(30) DEF Search, frontier, FP!vars
<1>3. CASE LoadNext /\ ~StartupLoop /\ ~Search
  <2>1. UNCHANGED <<vars, frontier>>
    BY <1>3, ZenonT(30) DEF LoadNext, load_services_dir, load_supervisors_dir, add_supervisor,
                add_worker, StartSearch, Decide, Break
  <2> QED
    BY <2>1, ZenonT(30) DEF vars, frontier, FP!vars
<1>4. CASE UNCHANGED load_vars
  BY <1>4, ZenonT(30) DEF load_vars, vars, frontier, FP!vars
<1> QED
  BY <1>1, <1>2, <1>3, <1>4, Zenon

LEMMA LoadNextLInv == LInv /\ [LoadNext]_load_vars => LInv'
<1> SUFFICES ASSUME LInv, [LoadNext]_load_vars PROVE LInv'
  OBVIOUS
<1>1. IInv' /\ FP!IInv'
  BY StepsOfTheParts, NextIInv, FrontierStep, ZenonT(30) DEF LInv
<1>2. PhaseIsEarned'
  <2> USE DEF PhaseIsEarned, LInv
  <2>1. CASE load_services_dir \/ load_supervisors_dir \/ add_supervisor \/ add_worker
             \/ StartSearch
    BY <2>1, Zenon DEF load_services_dir, load_supervisors_dir, add_supervisor, add_worker,
                StartSearch
  <2>2. CASE Search
    BY <2>2, ZenonT(30) DEF Search
  <2>3. CASE Decide
    BY <2>3, ZenonT(30) DEF Decide, vars, Done, Colored, validate_no_cycles
  <2>4. CASE StartupLoop
    BY <2>4, ZenonT(30) DEF StartupLoop, Done, Colored, validate_no_cycles
  <2>5. CASE Break
    BY <2>5, ZenonT(30) DEF Break, vars, frontier, tree_vars, Done, Colored, validate_no_cycles,
                F!has_ready, Tracked, NodesOf, Nodes
  <2>6. CASE UNCHANGED load_vars
    BY <2>6, ZenonT(30) DEF load_vars, vars, frontier, tree_vars, Done, Colored, validate_no_cycles,
                F!has_ready, Tracked, NodesOf, Nodes
  <2> QED
    BY <2>1, <2>2, <2>3, <2>4, <2>5, <2>6, ZenonT(30) DEF LoadNext
<1> QED
  BY <1>1, <1>2, ZenonT(30) DEF LInv

(* The invariants of the search and of the frontier hold throughout main. *)
THEOREM LoadInvariance == LoadSpec => []LInv
BY LoadInitLInv, LoadNextLInv, PTL DEF LoadSpec

-----------------------------------------------------------------------------
(***************************************************************************)
(* main enters the startup loop with an acyclic graph only, and refuses to *)
(* boot on cyclic graphs only, whatever the definitions are; the cycles it *)
(* names are cycles of the graph.                                          *)
(***************************************************************************)
THEOREM BootsExactlyAcyclic == LoadSpec => []EntersAcyclic
<1>1. LInv => EntersAcyclic
  BY VerdictOfIInv, Zenon DEF LInv, IInv, PhaseIsEarned, EntersAcyclic, VerdictExact
<1> QED
  BY <1>1, LoadInvariance, PTL

(***************************************************************************)
(* In the startup loop of main a service is handed out only after all it   *)
(* is ordered after is resolved and all it requires is ready.              *)
(***************************************************************************)
THEOREM BootOrder == LoadSpec => []StartsAfterDependencies
<1>1. LInv => StartsAfterDependencies
  BY Zenon DEF LInv, FP!IInv, StartsAfterDependencies, F!StartsAfterItsDependencies,
         FP!StartsAfterItsDependencies, F!Released, FP!Released,
         F!resolved, FP!resolved, F!failed, FP!failed
<1> QED
  BY <1>1, LoadInvariance, PTL

(* The services it blocks are those that require a failed or blocked one. *)
THEOREM BootBlocking == LoadSpec => []BlocksExactly
<1>1. LInv => BlocksExactly
  BY ZenonT(30) DEF LInv, FP!IInv, BlocksExactly, F!BlockedExactly, FP!BlockedExactly,
         F!failed, FP!failed
<1> QED
  BY <1>1, LoadInvariance, PTL

(***************************************************************************)
(* A service the startup loop leaves out is blocked, or waits for one that *)
(* is left out itself or has no worker in the tree.                        *)
(***************************************************************************)
THEOREM LeftOutIsExplained == LoadSpec => []LeftOutHasCause
<1>1. LInv => LeftOutHasCause
  <2> SUFFICES ASSUME LInv, boot = "complete", NEW s \in LeftOut \ blocked
               PROVE  graph.hard_deps[s] \cap (LeftOut \cup (Services \ NodesOf("Worker"))) # {}
    BY Zenon DEF LeftOutHasCause
  <2>1. s \in Services /\ taken[s] = 0 /\ ready_to_start \in [Services -> Nat]
        /\ \A t \in Services : taken[t] \in Nat
    BY Zenon DEF LeftOut, LInv, FP!IInv, FP!TypeOK
  <2>2. ~FP!Released(s)
    BY <2>1 DEF LInv, PhaseIsEarned, F!has_ready, FP!Released
  <2>3. graph.hard_deps[s] \subseteq Services
    BY <2>1, ZenonT(30) DEF LInv, FP!IInv, FP!TypeOK, FP!Graph
  <2>4. FP!Cardinality(graph.hard_deps[s] \ FP!resolved) # 0
    BY <2>1, <2>2, ZenonT(30) DEF LInv, FP!IInv, FP!NobodyIsForgotten, FP!UnmetExact, FP!unmet_count
  <2>5. PICK d \in graph.hard_deps[s] : d \notin FP!resolved
    BY <2>3, <2>4, FP!CountZero, FrontierAssumptions, SMTT(20)
  <2>6. d \in Services /\ d \notin completed \ blocked
    BY <2>3, <2>5, ZenonT(30) DEF FP!resolved, FP!failed
  <2>7. d \in pending \/ taken[d] = 0
    BY <2>1, <2>6, SMTT(30) DEF LInv, FP!IInv, FP!Bookkeeping
  <2>8. pending \cap NodesOf("Worker") = {}
    BY DEF LInv, PhaseIsEarned, Tracked
  <2> QED
    BY <2>5, <2>6, <2>7, <2>8, Zenon DEF LeftOut
<1> QED
  BY <1>1, LoadInvariance, PTL

=============================================================================
