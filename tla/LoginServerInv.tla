--------------------------- MODULE LoginServerInv ---------------------------
(* LoginServer: the properties that the run checks and the proofs use. *)
EXTENDS LoginServer

\* Types of the login server's state; key2ids_ (agent.h) has an entry for
\* exactly the accounts with an agent.
TypeOK ==
    /\ ag \in AgentTable(Account, Conn)
    /\ \A a \in Account : (ag.agent[a] = None) = (ag.connOf[a] = None)
    /\ selGate \in [Account -> Gate \cup {None}]
    /\ link \in [Conn -> {"new", "open", "ended"}]
    /\ gateUp \subseteq Gate /\ listed \subseteq Gate
    /\ toGate \in [Gate -> Seq(Sel)] /\ fromGate \in [Gate -> Seq(Sel)]
    /\ session \in [Gate -> [Account -> 0..MaxSel]]
    /\ logins \in [Conn -> Seq(Account)]
    /\ nsel \in 0..MaxSel /\ latest \in [Account -> 0..MaxSel]

\* agent.h: when a connection id is mapped to an account, that account's agent
\* sends on this connection, through kicks, second logins and disconnects, so
\* onDisconnect never deletes the agent of an account that is connected
\* elsewhere.
IndexSound ==
    \A c \in Conn, a \in Account :
        ag.ofConn[c] = a => ag.agent[a] = c /\ ag.connOf[a] = c

\* ClientHandler: while a connection with an agent is open it is mapped to an
\* account whose agent it is, also after it logged in as several accounts of
\* which some were kicked.
OpenIndexed ==
    \A a \in Account :
        LET c == ag.agent[a]
        IN  c # None /\ link[c] = "open" => ag.ofConn[c] # None /\ ag.agent[ag.ofConn[c]] = c

\* client_handler.cpp, isFull: an agent outlives its connection, and counts
\* against max_conn for ever, only when that connection logged in more than
\* once.
GhostsOnlyByRelogin ==
    \A a \in Account :
        LET c == ag.agent[a]
        IN  c # None /\ link[c] # "open" => Len(logins[c]) >= 2

AnswerStep ==
    answer' # answer /\ answer'.n = latest[answer'.account] =>
        /\ answer'.gate = answer'.from
        /\ session[answer'.gate][answer'.account] = answer'.n

\* gate_handler.cpp, processSelectedServerResponse: the answer to the account's
\* latest selection names the gate that made the code, and that gate holds this
\* code for the account, whatever earlier answers are still under way and
\* whichever links were lost in between.
AnswerMatches ==
    [][AnswerStep]_vars

\* Why the first three hold: the two halves of the table agree, an agent's
\* connection was accepted and logged in as the agent's account, and if it
\* did that once only, no other account has an agent on it.
TableOK(x) ==
    /\ x \in AgentTable(Account, Conn)
    /\ \A a \in Account : x.connOf[a] = x.agent[a]
    /\ \A c \in Conn, a \in Account : x.ofConn[c] = a => x.agent[a] = c

AgentOK(x, l, lg, a) ==
    LET c == x.agent[a]
    IN  c # None =>
        /\ l[c] # "new" /\ (l[c] = "open" => x.ofConn[c] # None)
        /\ Len(lg[c]) >= 1 /\ (Len(lg[c]) = 1 => lg[c][1] = a)
        /\ l[c] # "open" => Len(lg[c]) >= 2

ClientsInv == TableOK(ag) /\ \A a \in Account : AgentOK(ag, link, logins, a)

\* Why AnswerMatches holds: what a gate has handled is older than what it has
\* not, nothing is newer than the account's latest selection, and of that one
\* the account's agent still knows the gate, which holds its code once it has
\* answered.
Ordered(g) ==
    /\ \A i, j \in 1..Len(toGate[g]) : i < j => toGate[g][i].n < toGate[g][j].n
    /\ \A i \in 1..Len(fromGate[g]), j \in 1..Len(toGate[g]) : fromGate[g][i].n < toGate[g][j].n

Underway(q, g) ==
    /\ q.n <= latest[q.account]
    /\ q.n = latest[q.account] => selGate[q.account] \in {g, None}

SelectInv ==
    /\ \A a \in Account : latest[a] <= nsel
    /\ \A g \in Gate :
        /\ Ordered(g)
        /\ \A i \in 1..Len(toGate[g]) : Underway(toGate[g][i], g)
        /\ \A i \in 1..Len(fromGate[g]) :
            LET q == fromGate[g][i]
            IN  Underway(q, g) /\ (q.n = latest[q.account] => session[g][q.account] = q.n)
=============================================================================
