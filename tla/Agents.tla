------------------------------- MODULE Agents -------------------------------
(***************************************************************************)
(* common/agent.h: AgentManager and AgentManagerPerf, which every server   *)
(* uses to find the connection of a peer by its key (an account, a server  *)
(* id) and the key by the connection id.  The two templates differ only in *)
(* how they store the agents, not in what they do.                         *)
(*                                                                         *)
(*   agent    key2agents_ / agents_: the connection the agent of a key     *)
(*            sends on, None without an agent                              *)
(*   ofConn   id2keys_ / conn2agent_ids_                                   *)
(*   connOf   key2ids_ / agent2conn_ids_                                   *)
(*                                                                         *)
(* Bug... : see TcpServer.                                                 *)
(***************************************************************************)
CONSTANT None

AgentTable(Key, Conn) ==
    [agent : [Key -> Conn \cup {None}], ofConn : [Conn -> Key \cup {None}],
     connOf : [Key -> Conn \cup {None}]]

NoAgents(Key, Conn) ==
    [agent |-> [k \in Key |-> None], ofConn |-> [c \in Conn |-> None],
     connOf |-> [k \in Key |-> None]]

\* std::unordered_map::insert: an entry that exists is kept.
Insert(f, k, v) == [f EXCEPT ![k] = IF @ = None THEN v ELSE @]

\* newAgent, when the key has no agent (it fails otherwise).
NewAgent(x, k, c) ==
    [agent |-> [x.agent EXCEPT ![k] = c], ofConn |-> Insert(x.ofConn, c, k),
     connOf |-> Insert(x.connOf, k, c)]

BugDeleteAgent(x, k) ==
    IF x.agent[k] = None THEN x
    ELSE [x EXCEPT !.agent[k] = None, !.connOf[k] = None]

BugDeleteKeepsId(x, k) ==
    IF x.agent[k] = None THEN x
    ELSE [x EXCEPT !.agent[k] = None, !.ofConn[x.connOf[k]] = None]

\* deleteAgent: the connection's entry goes with the key's, whichever key it
\* names.
DeleteAgent(x, k) ==
    IF x.agent[k] = None THEN x
    ELSE IF x.connOf[k] = None THEN [x EXCEPT !.agent[k] = None]
    ELSE [x EXCEPT !.agent[k] = None, !.ofConn[x.connOf[k]] = None, !.connOf[k] = None]

DeleteAgentByConn(x, c) == IF x.ofConn[c] = None THEN x ELSE DeleteAgent(x, x.ofConn[c])
=============================================================================
