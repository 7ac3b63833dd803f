------------------------------ MODULE MemoryGraph -----------------------------
(* MemoryGraph on a GraphStore: nodes are numbered as they are added, an edge   *)
(* leads from an agent to its tasks and from a task to its outcome.             *)
EXTENDS Naturals, Sequences, FiniteSets, Functions, Sublists

Node(type, name) == [type |-> type, name |-> name]
NoGraph == [nodes |-> <<>>, edges |-> <<>>]

\* The numbers of the nodes of a type.
query_by_type(graph, type) == {n \in DOMAIN graph.nodes : graph.nodes[n].type = type}

Named(graph, type, name) ==
    {n \in query_by_type(graph, type) : graph.nodes[n].name = name}

\* The oldest of some nodes.
Oldest(numbers) == CHOOSE n \in numbers : \A m \in numbers : n <= m

query_related(graph, n) ==
    LET out == Kept(graph.edges, {i \in DOMAIN graph.edges : graph.edges[i][1] = n})
    IN  [i \in DOMAIN out |-> out[i][2]]

predecessors(graph, n) == {u \in DOMAIN graph.nodes : <<u, n>> \in Range(graph.edges)}

\* Mutant: the agent's node is not looked up.
record_task_NewAgent(graph, name, agent, outcome) ==
    LET task == Len(graph.nodes) + 1
    IN  [nodes |-> graph.nodes \o <<Node("task", name), Node("agent", agent),
                                    Node("outcome", outcome)>>,
         edges |-> graph.edges \o <<<<task + 1, task>>, <<task, task + 2>>>>]

record_task(graph, name, agent, outcome) ==
    LET task == Len(graph.nodes) + 1
        known == Named(graph, "agent", agent)
        nodes == Append(graph.nodes, Node("task", name))
                   \o (IF known = {} THEN <<Node("agent", agent)>> ELSE <<>>)
        by == IF known = {} THEN Len(nodes) ELSE Oldest(known)
    IN  [nodes |-> Append(nodes, Node("outcome", outcome)),
         edges |-> graph.edges \o <<<<by, task>>, <<task, Len(nodes) + 1>>>>]

\* What the first node of that name did: tasks with their outcomes, oldest first:
\* the edges are walked as they were added.
get_agent_history(graph, agent) ==
    LET known == Named(graph, "agent", agent)
        Told(task) == [task |-> graph.nodes[task].name,
                       outcome |-> graph.nodes[Head(query_related(graph, task))].name]
        tasks == IF known = {} THEN <<>> ELSE query_related(graph, Oldest(known))
    IN  [i \in DOMAIN tasks |-> Told(tasks[i])]

\* At most count tasks that share a word with the query (the order is left out).
find_similar(graph, words, WordsOf, count) ==
    LET alike == {n \in DOMAIN graph.nodes :
                    graph.nodes[n].type = "task"
                    /\ WordsOf[graph.nodes[n].name] \cap words # {}}
        Score(n) == Cardinality(WordsOf[graph.nodes[n].name] \cap words)
        Better(n) == {m \in alike : Score(m) > Score(n) \/ (Score(m) = Score(n) /\ m < n)}
    IN  {n \in alike : Cardinality(Better(n)) < count}
===============================================================================
