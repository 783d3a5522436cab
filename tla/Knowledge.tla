------------------------------- MODULE Knowledge -------------------------------
(***************************************************************************)
(* What the agent keeps of what it learns: memories (repositories/memory)  *)
(* and the knowledge graph (repositories/graph, and their integrations).   *)
(* Runs of several conversations, the importer and the extraction after a  *)
(* turn write at the same time, and a save is several statements.          *)
(*                                                                         *)
(* Memories are kept by key and relations by their ends, so one key and    *)
(* one relation between two nodes are enough; a memory's content is the    *)
(* number of its save.                                                     *)
(***************************************************************************)
EXTENDS Integers, Sequences, FiniteSets, SequencesExt, FiniteSetsExt

CONSTANTS
  Savers,     \* tasks that save the memory
  Adders,     \* tasks that add the relation
  Extraction, \* the one of them that extracts knowledge from a turn
  MaxSaves,   \* bound: saves and additions
  MaxForgets, \* bound: deletions
  MaxFaults   \* bound: statements that fail

VARIABLES
  memory,   \* the rows with the key
  scope,    \* prompt_scope of its metadata, "absent" without
  saver,    \* what each save does
  latest,   \* the last content that was inserted and not forgotten
  node,     \* the nodes that exist
  edge,     \* the edges between them
  adder,    \* what each addition does
  extract,  \* statements left of the extraction after a turn
  spent     \* saves, deletions of either, faults

knowledgeVars == <<memory, scope, saver, latest, node, edge, adder, extract, spent>>

Ends == {"source", "target"}
NoSave == [at |-> "idle", scope |-> "none", content |-> 0]
NoEdge == [at |-> "idle", found |-> 0, seen |-> 0]

Init ==
  /\ memory = {} /\ scope = "absent" /\ saver = [s \in Savers |-> NoSave] /\ latest = 0
  /\ node = {} /\ edge = {} /\ adder = [a \in Adders |-> NoEdge] /\ extract = <<>>
  /\ spent = [saves |-> 0, forgets |-> 0, faults |-> 0]

Spends(what, bound) == spent[what] < bound /\ spent' = [spent EXCEPT ![what] = @ + 1]
Memories == UNCHANGED <<node, edge, adder, extract>>
Graph == UNCHANGED <<memory, scope, saver, latest>>

-------------------------------------------------------------------------------
(* Memories *)

\* memory_save_with_prompt_metadata; a save that names no scope keeps the one it reads.
Save(s) ==
  /\ saver[s].at = "idle" /\ Spends("saves", MaxSaves)
  /\ \E wanted \in {"chat", "kept"} :
       saver' = [saver EXCEPT ![s] = [at |-> "delete", content |-> spent'.saves,
                                     scope |-> IF wanted = "chat" THEN "chat"
                                              ELSE IF scope = "absent" THEN "none" ELSE scope]]
  /\ Memories /\ UNCHANGED <<memory, scope, latest>>

\* A failure of this statement is ignored.
DeleteRow(s) ==
  /\ saver[s].at = "delete"
  /\ \/ memory' = {} /\ UNCHANGED spent
     \/ Spends("faults", MaxFaults) /\ UNCHANGED memory
  /\ saver' = [saver EXCEPT ![s].at = "insert"]
  /\ Memories /\ UNCHANGED <<scope, latest>>

\* Mutant of InsertRow: the row is written before the old ones are deleted.
InsertThenDelete(s) ==
  /\ saver[s].at = "insert"
  /\ memory' = {} /\ latest' = saver[s].content
  /\ saver' = [saver EXCEPT ![s].at = "metadata"]
  /\ Memories /\ UNCHANGED <<scope, spent>>

InsertRow(s) ==
  /\ saver[s].at = "insert"
  /\ memory' = memory \union {saver[s].content} /\ latest' = saver[s].content
  /\ saver' = [saver EXCEPT ![s].at = "metadata"]
  /\ Memories /\ UNCHANGED <<scope, spent>>

WriteMetadata(s) ==
  /\ saver[s].at = "metadata"
  /\ scope' = saver[s].scope
  /\ saver' = [saver EXCEPT ![s] = NoSave]
  /\ Memories /\ UNCHANGED <<memory, latest, spent>>

SaveFails(s) ==
  /\ saver[s].at \in {"delete", "insert", "metadata"} /\ Spends("faults", MaxFaults)
  /\ saver' = [saver EXCEPT ![s] = NoSave]
  /\ Memories /\ UNCHANGED <<memory, scope, latest>>

\* memory_delete, a transaction
Forget ==
  /\ memory # {} /\ Spends("forgets", MaxForgets)
  /\ memory' = {} /\ scope' = "absent" /\ latest' = 0
  /\ Memories /\ UNCHANGED saver

-------------------------------------------------------------------------------
(* The graph *)

\* graph_upsert_node
AddNode ==
  /\ \E n \in Ends \ node : node' = node \union {n}
  /\ Graph /\ UNCHANGED <<edge, adder, extract, spent>>

\* graph_upsert_edge looks for the edge, and then updates or inserts it.
FindEdge(a) ==
  /\ adder[a].at = "idle" /\ Spends("saves", MaxSaves)
  /\ a = Extraction => extract = <<"relation">>
  /\ adder' = [adder EXCEPT ![a] = [at |-> IF edge = {} THEN "insert" ELSE "update",
                                   found |-> IF edge = {} THEN spent'.saves ELSE Min(edge), seen |-> spent.forgets]]
  /\ Graph /\ UNCHANGED <<node, edge, extract>>

\* The foreign keys refuse an edge without its nodes; an update that finds no row is a success.
PutEdge(a) ==
  /\ adder[a].at \in {"insert", "update"}
  /\ IF adder[a].at = "insert" /\ node = Ends
     THEN edge' = edge \union {adder[a].found}
     ELSE UNCHANGED edge
  /\ adder' = [adder EXCEPT ![a].at = IF adder[a].at = "insert" /\ node # Ends THEN "refused" ELSE "created"]
  /\ Graph /\ UNCHANGED <<node, extract, spent>>

\* The caller has its answer.
Answered(a) ==
  /\ adder[a].at \in {"refused", "created"}
  /\ adder' = [adder EXCEPT ![a] = NoEdge]
  /\ extract' = IF a = Extraction THEN <<>> ELSE extract
  /\ Graph /\ UNCHANGED <<node, edge, spent>>

\* Mutant of ForgetNode: its relations stay.
ForgetNodeOnly ==
  /\ node # {} /\ Spends("forgets", MaxForgets)
  /\ \E n \in node : node' = node \ {n}
  /\ Graph /\ UNCHANGED <<edge, adder, extract>>

\* graph_delete_node: the edges go with it.
ForgetNode ==
  /\ node # {} /\ Spends("forgets", MaxForgets)
  /\ \E n \in node : node' = node \ {n}
  /\ edge' = {}
  /\ Graph /\ UNCHANGED <<adder, extract>>

\* graph_delete_edge, and all of its kind
ForgetEdge ==
  /\ edge # {} /\ Spends("forgets", MaxForgets)
  /\ edge' = {}
  /\ Graph /\ UNCHANGED <<node, adder, extract>>

\* spawn_knowledge_extraction: the nodes of an answer and then its relation, each for itself and
\* whether or not the others fail; it may name nodes that the answer does not list.
Extract ==
  /\ extract = <<>> /\ Spends("saves", MaxSaves)
  /\ extract' \in {<<"source", "target", "relation">>, <<"target", "relation">>}
  /\ Graph /\ UNCHANGED <<node, edge, adder>>

ExtractNode ==
  /\ extract # <<>> /\ Head(extract) \in Ends /\ extract' = Tail(extract)
  /\ \/ node' = node \union {Head(extract)} /\ UNCHANGED spent
     \/ Spends("faults", MaxFaults) /\ UNCHANGED node
  /\ Graph /\ UNCHANGED <<edge, adder>>

Saves == \E s \in Savers : Save(s) \/ DeleteRow(s) \/ InsertRow(s) \/ WriteMetadata(s) \/ SaveFails(s)
Adds == AddNode \/ \E a \in Adders : FindEdge(a) \/ PutEdge(a) \/ Answered(a)
Next == Saves \/ Forget \/ Adds \/ ForgetNode \/ ForgetEdge \/ Extract \/ ExtractNode
Spec == Init /\ [][Next]_knowledgeVars

-------------------------------------------------------------------------------
(* Functions: pages of the graph, paths, one-time codes *)

\* graph_neighborhood_page: the first of the edges after the cursor, and a cursor if there are
\* more; 0 for none.
Page(edges, after, limit) ==
  LET later == {e \in edges : e > after}
      page == {e \in later : Cardinality({x \in later : x < e}) < limit}
  IN [edges |-> page, cursor |-> IF page = later THEN 0 ELSE Max(page)]

\* explore_connections: breadth first from the first entity; a later path to a target replaces
\* an earlier one.
Visit(search, links, targets) ==
  LET here == Head(search.queue)
      path == here.path
      near == SelectSeq([n \in 1 .. Max(UNION links \union {0}) |-> n], LAMBDA n : {Last(path), n} \in links /\ n # Last(path))
      Reach(s, n) ==
        [queue |-> IF n \in s.visited THEN s.queue ELSE Append(s.queue, [depth |-> here.depth + 1, path |-> Append(path, n)]),
         visited |-> s.visited \union {n},
         paths |-> IF n \in targets THEN {p \in s.paths : Last(p) # n} \union {Append(path, n)} ELSE s.paths]
  IN FoldLeft(Reach, [search EXCEPT !.queue = Tail(@)], near)

Explored(links, start, targets, depth) ==
  LET Step(search, i) ==
        IF search.queue = <<>> THEN search
        ELSE IF Head(search.queue).depth >= depth THEN [search EXCEPT !.queue = Tail(@)]
        ELSE Visit(search, links, targets)
      start0 == [queue |-> <<[depth |-> 0, path |-> <<start>>]>>, visited |-> {start}, paths |-> {}]
  IN FoldLeft(Step, start0, [i \in 1 .. Cardinality(UNION links \union {start}) |-> i]).paths

\* memory_generate_totp: the code is that of the period, and the answer says how long it holds.
Code(time, period) == time \div period
ValidFor(time, period) == IF time % period = 0 THEN period ELSE period - (time % period)

-------------------------------------------------------------------------------
(* Properties *)

TypeOK ==
  /\ scope \in {"absent", "none", "chat"}
  /\ \A s \in Savers : saver[s].at \in {"idle", "delete", "insert", "metadata"}
  /\ \A a \in Adders : adder[a].at \in {"idle", "insert", "update", "refused", "created"}
  /\ node \subseteq Ends

\* A memory that was saved and not forgotten can be recalled, unless another save is between its
\* delete and its insert or failed there (memory.rs 30-39).
SavedIsRecalled ==
  (latest # 0 /\ spent.faults = 0 /\ \A s \in Savers : saver[s].at # "insert") => latest \in memory

\* An edge has its two nodes, and a task that was told that its relation is there can rely on it
\* as long as nothing was forgotten since it looked (graph.rs 228-283).
RelationsHold ==
  /\ edge # {} => node = Ends
  /\ \A a \in Adders : (adder[a].at = "created" /\ spent.forgets = adder[a].seen) => edge # {}

KnowledgeKept == SavedIsRecalled /\ RelationsHold

\* Paging shows every edge that stays exactly once, whatever is added meanwhile.
PagesWhole(edges, added, limit) ==
  LET first == Page(edges, 0, limit)
      second == IF first.cursor = 0 THEN [edges |-> {}, cursor |-> 0] ELSE Page(edges \union added, first.cursor, limit)
      third == IF second.cursor = 0 THEN [edges |-> {}, cursor |-> 0] ELSE Page(edges \union added, second.cursor, limit)
  IN /\ first.edges \intersect second.edges = {} /\ second.edges \intersect third.edges = {}
     /\ third.cursor = 0 => edges \subseteq first.edges \union second.edges \union third.edges

\* A path is shown to exactly the targets within reach; it is one, and not longer than allowed.
PathsTrue(links, start, targets, depth) ==
  LET Near(S) == S \union {n \in UNION links : \E m \in S : {m, n} \in links}
      Reach == FoldLeft(LAMBDA S, i : Near(S), {start}, [i \in 1 .. depth |-> i])
      found == Explored(links, start, targets, depth)
  IN /\ {Last(p) : p \in found} = targets \intersect Reach
     /\ \A p \in found : /\ Head(p) = start /\ Len(p) <= depth + 1
                         /\ \A i \in 1 .. Len(p) - 1 : {p[i], p[i + 1]} \in links
     /\ \A p, q \in found : Last(p) = Last(q) => p = q

\* The code changes when the answer says, not before.
CodeHolds(time, period) ==
  LET until == time + ValidFor(time, period)
  IN Code(until, period) # Code(time, period) /\ Code(until - 1, period) = Code(time, period)
===============================================================================
