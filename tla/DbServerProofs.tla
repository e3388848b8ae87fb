--------------------------- MODULE DbServerProofs ---------------------------
(***************************************************************************)
(* Proofs about DbServer, for any finite set of accounts and any bounds.   *)
(* What needs distinct role ids is proved of behaviours that never make an *)
(* id that is in use, and Bounds is proved to be enough for that.          *)
(***************************************************************************)
EXTENDS DbServerInv, TLAPS, FiniteSetTheorems, SequenceTheorems, WellFoundedInduction

-----------------------------------------------------------------------------
(* Induction, for properties that are given as a set of numbers.           *)

\* Lemma: a nonempty set of numbers has a least one.
LEMMA Least ==
    ASSUME NEW T \in SUBSET Nat, T # {}
    PROVE  \E n \in T : \A m \in T : n <= m
<1> DEFINE R == {ss \in Nat \X Nat : ss[1] < ss[2]}
<1>1. IsWellFoundedOn(R, Nat)
  BY NatLessThanWellFounded, Zenon DEF OpToRel
<1> HIDE DEF R
<1>2. PICK n \in T : \A m \in T : ~(<<m, n>> \in R)
  BY <1>1, WFMin
<1>3. \A m \in T : <<m, n>> \in R <=> m < n
  BY DEF R
<1>4. ASSUME NEW m \in T PROVE n <= m
  <2>1. ~(m < n)
    BY <1>2, <1>3
  <2>2. m \in Nat /\ n \in Nat
    OBVIOUS
  <2> QED BY <2>1, <2>2
<1> QED BY <1>4

\* Lemma: induction up to N.
LEMMA UpTo ==
    ASSUME NEW N \in Nat, NEW P, 0 \in P, \A n \in 0 .. N : n + 1 <= N /\ n \in P => n + 1 \in P
    PROVE  \A n \in 0 .. N : n \in P
<1> SUFFICES ASSUME NEW z \in 0 .. N, z \notin P PROVE FALSE
  OBVIOUS
<1> DEFINE T == {n \in Nat : n <= N /\ n \notin P}
<1>1. T \in SUBSET Nat /\ z \in T
  OBVIOUS
<1>2. PICK n \in T : \A m \in T : n <= m
  BY <1>1, Least
<1>3. n \in Nat /\ n <= N /\ n \notin P /\ n # 0
  BY <1>2
<1>4. n - 1 \in 0 .. N /\ (n - 1) + 1 = n /\ ~(n <= n - 1) /\ n - 1 \in Nat /\ n - 1 <= N
  BY <1>3
<1>5. n - 1 \in P
  BY <1>2, <1>4
<1> QED BY <1>3, <1>4, <1>5

-----------------------------------------------------------------------------
(* After, which is a fold of Apply over the queue.                         *)

\* f[n] is the table t after the first n commands of q.
IsAfter(f, t, q) == f = [n \in 0 .. Len(q) |-> IF n = 0 THEN t ELSE Apply(f[n - 1], q[n])]

\* Lemma: there are such tables.
LEMMA AfterExists ==
    ASSUME NEW t, NEW q \in Seq(Cmd)
    PROVE  \E f : IsAfter(f, t, q)
<1> DEFINE N == Len(q)
           Good(f, n) == f = [m \in 0 .. n |-> IF m = 0 THEN t ELSE Apply(f[m - 1], q[m])]
           P == {n \in 0 .. N : \E f : Good(f, n)}
<1>1. N \in Nat
  OBVIOUS
<1>2. 0 \in P
  <2> DEFINE f == [m \in 0 .. 0 |-> t]
  <2>1. Good(f, 0)
    OBVIOUS
  <2>2. 0 \in 0 .. N
    BY <1>1
  <2> HIDE DEF f, Good, N
  <2> QED BY <2>1, <2>2
<1>3. ASSUME NEW n \in 0 .. N, n + 1 <= N, n \in P PROVE n + 1 \in P
  <2>1. PICK f : Good(f, n)
    BY <1>3
  <2>2. n \in Nat /\ n + 1 \in 0 .. N
    BY <1>1, <1>3
  <2> DEFINE g == [m \in 0 .. n + 1 |-> IF m = n + 1 THEN Apply(f[n], q[n + 1]) ELSE f[m]]
  <2>3. ASSUME NEW m \in 0 .. n + 1 PROVE g[m] = IF m = 0 THEN t ELSE Apply(g[m - 1], q[m])
    <3>1. CASE m = n + 1
      <4>1. m # 0 /\ m - 1 = n /\ n \in 0 .. n + 1 /\ n # n + 1
        BY <2>2, <3>1
      <4>2. g[m - 1] = f[n]
        BY <4>1
      <4> QED BY <3>1, <4>1, <4>2
    <3>2. CASE m # n + 1
      <4>1. m \in 0 .. n /\ g[m] = f[m]
        BY <2>2, <3>2
      <4>2. CASE m = 0
        BY <2>1, <4>1, <4>2
      <4>3. CASE m # 0
        <5>1. m - 1 \in 0 .. n + 1 /\ m - 1 # n + 1
          BY <2>2, <4>1, <4>3
        <5>2. g[m - 1] = f[m - 1]
          BY <5>1
        <5>3. f[m] = Apply(f[m - 1], q[m])
          BY <2>1, <4>1, <4>3
        <5> QED BY <4>1, <4>3, <5>2, <5>3
      <4> QED BY <4>2, <4>3
    <3> QED BY <3>1, <3>2
  <2>4. g = [m \in 0 .. n + 1 |-> g[m]]
    OBVIOUS
  <2> HIDE DEF g
  <2>5. Good(g, n + 1)
    BY <2>3, <2>4
  <2> HIDE DEF Good
  <2> QED BY <2>2, <2>5
<1> HIDE DEF P
<1>4. N \in P
  <2>1. \A n \in 0 .. N : n \in P
    BY <1>1, <1>2, <1>3, UpTo
  <2> QED BY <1>1, <2>1
<1>5. PICK f : Good(f, N)
  BY <1>4 DEF P
<1>6. IsAfter(f, t, q)
  BY <1>5 DEF IsAfter
<1> QED BY <1>6

\* Lemma: what the elements of such an f are.
LEMMA AfterStep ==
    ASSUME NEW t, NEW q \in Seq(Cmd), NEW f, IsAfter(f, t, q)
    PROVE  /\ f[0] = t
           /\ \A n \in 0 .. Len(q) : n + 1 <= Len(q) => f[n + 1] = Apply(f[n], q[n + 1])
<1>1. Len(q) \in Nat
  OBVIOUS
<1>2. f = [n \in 0 .. Len(q) |-> IF n = 0 THEN t ELSE Apply(f[n - 1], q[n])]
  BY DEF IsAfter
<1>3. f[0] = t
  <2>1. 0 \in 0 .. Len(q)
    BY <1>1
  <2> QED BY <1>2, <2>1
<1>4. ASSUME NEW n \in 0 .. Len(q), n + 1 <= Len(q) PROVE f[n + 1] = Apply(f[n], q[n + 1])
  <2>1. n + 1 \in 0 .. Len(q) /\ n + 1 # 0 /\ (n + 1) - 1 = n
    BY <1>1, <1>4
  <2>2. f[n + 1] = Apply(f[(n + 1) - 1], q[n + 1])
    BY <1>2, <2>1
  <2> QED BY <2>1, <2>2
<1> QED BY <1>3, <1>4

\* Lemma: a chain of tables that starts with t and takes a command of q at a
\* time ends in After(t, q).
LEMMA AfterIs ==
    ASSUME NEW t, NEW q \in Seq(Cmd), NEW g, g[0] = t,
           \A n \in 0 .. Len(q) : n + 1 <= Len(q) => g[n + 1] = Apply(g[n], q[n + 1])
    PROVE  After(t, q) = g[Len(q)]
<1> DEFINE f == CHOOSE h : h = [n \in 0 .. Len(q) |-> IF n = 0 THEN t ELSE Apply(h[n - 1], q[n])]
<1>1. IsAfter(f, t, q)
  BY AfterExists, SMTT(30) DEF IsAfter
<1>2. After(t, q) = f[Len(q)]
  BY DEF After
<1> HIDE DEF f
<1>3. /\ f[0] = t
      /\ \A n \in 0 .. Len(q) : n + 1 <= Len(q) => f[n + 1] = Apply(f[n], q[n + 1])
  <2>1. \A h : IsAfter(h, t, q) =>
            /\ h[0] = t
            /\ \A n \in 0 .. Len(q) : n + 1 <= Len(q) => h[n + 1] = Apply(h[n], q[n + 1])
    BY AfterStep
  <2> QED BY <1>1, <2>1, Zenon
<1> DEFINE P == {n \in 0 .. Len(q) : f[n] = g[n]}
<1>4. Len(q) \in Nat
  OBVIOUS
<1>5. 0 \in P
  BY <1>3, <1>4
<1>6. ASSUME NEW n \in 0 .. Len(q), n + 1 <= Len(q), n \in P PROVE n + 1 \in P
  <2>1. n + 1 \in 0 .. Len(q)
    BY <1>4, <1>6
  <2>2. f[n + 1] = g[n + 1]
    BY <1>3, <1>6
  <2> QED BY <2>1, <2>2
<1> HIDE DEF P
<1>7. \A n \in 0 .. Len(q) : n \in P
  BY <1>4, <1>5, <1>6, UpTo
<1>8. Len(q) \in P
  BY <1>4, <1>7
<1> QED BY <1>2, <1>8 DEF P

\* Lemma: the tables on the way from t to After(t, q).
LEMMA AfterChain ==
    ASSUME NEW t, NEW q \in Seq(Cmd)
    PROVE  \E f : /\ f[0] = t /\ f[Len(q)] = After(t, q)
                  /\ \A n \in 0 .. Len(q) : n + 1 <= Len(q) => f[n + 1] = Apply(f[n], q[n + 1])
<1>1. PICK f : IsAfter(f, t, q)
  BY AfterExists
<1>2. /\ f[0] = t
      /\ \A n \in 0 .. Len(q) : n + 1 <= Len(q) => f[n + 1] = Apply(f[n], q[n + 1])
  BY <1>1, AfterStep
<1>3. f[Len(q)] = After(t, q)
  BY <1>2, AfterIs
<1> QED BY <1>2, <1>3

\* Lemma: an empty queue leaves the table as it is.
LEMMA AfterEmpty ==
    ASSUME NEW t PROVE After(t, <<>>) = t
<1>1. <<>> \in Seq(Cmd) /\ Len(<<>>) = 0
  OBVIOUS
<1>2. PICK f : f[0] = t /\ f[Len(<<>>)] = After(t, <<>>)
  BY <1>1, AfterChain
<1> QED BY <1>1, <1>2

\* Lemma: the write thread takes the first command of the queue.
LEMMA AfterHead ==
    ASSUME NEW t, NEW q \in Seq(Cmd), q # <<>>
    PROVE  After(t, q) = After(Apply(t, Head(q)), Tail(q))
<1>1. PICK f : /\ f[0] = t /\ f[Len(q)] = After(t, q)
               /\ \A n \in 0 .. Len(q) : n + 1 <= Len(q) => f[n + 1] = Apply(f[n], q[n + 1])
  BY AfterChain
<1>2. /\ Len(q) \in Nat /\ Len(q) >= 1 /\ Tail(q) \in Seq(Cmd) /\ Len(Tail(q)) = Len(q) - 1
      /\ Head(q) = q[1] /\ \A i \in 1 .. Len(q) - 1 : Tail(q)[i] = q[i + 1]
  OBVIOUS
<1> DEFINE g == [n \in 0 .. Len(q) |-> f[n + 1]]
<1>3. g[0] = Apply(t, Head(q))
  <2>1. 0 \in 0 .. Len(q) /\ 0 + 1 = 1 /\ 0 + 1 <= Len(q)
    BY <1>2
  <2>2. f[1] = Apply(f[0], q[1])
    BY <1>1, <2>1
  <2> QED BY <1>1, <1>2, <2>1, <2>2
<1>4. ASSUME NEW n \in 0 .. Len(Tail(q)), n + 1 <= Len(Tail(q))
      PROVE  g[n + 1] = Apply(g[n], Tail(q)[n + 1])
  <2>1. /\ n \in 0 .. Len(q) /\ n + 1 \in 0 .. Len(q) /\ n + 1 \in 1 .. Len(q) - 1
        /\ (n + 1) + 1 <= Len(q)
    BY <1>2, <1>4
  <2>2. f[(n + 1) + 1] = Apply(f[n + 1], q[(n + 1) + 1])
    BY <1>1, <2>1
  <2> QED BY <1>2, <2>1, <2>2
<1>5. g[Len(Tail(q))] = f[Len(q)]
  <2>1. Len(Tail(q)) \in 0 .. Len(q) /\ Len(Tail(q)) + 1 = Len(q)
    BY <1>2
  <2> QED BY <2>1
<1> HIDE DEF g
<1>6. After(Apply(t, Head(q)), Tail(q)) = g[Len(Tail(q))]
  BY <1>2, <1>3, <1>4, AfterIs
<1> QED BY <1>1, <1>5, <1>6

\* Lemma: commands queued behind others take effect after them.
LEMMA AfterConcat ==
    ASSUME NEW t, NEW q \in Seq(Cmd), NEW p \in Seq(Cmd)
    PROVE  After(t, q \o p) = After(After(t, q), p)
<1> DEFINE w == q \o p
<1>1. /\ w \in Seq(Cmd) /\ Len(w) = Len(q) + Len(p) /\ Len(q) \in Nat /\ Len(p) \in Nat
      /\ \A i \in 1 .. Len(q) + Len(p) : w[i] = IF i <= Len(q) THEN q[i] ELSE p[i - Len(q)]
  OBVIOUS
<1> HIDE DEF w
<1>1a. w \in Seq(Cmd)
  BY <1>1
<1>2. PICK f : /\ f[0] = t /\ f[Len(w)] = After(t, w)
               /\ \A n \in 0 .. Len(w) : n + 1 <= Len(w) => f[n + 1] = Apply(f[n], w[n + 1])
  BY <1>1a, AfterChain
<1>3. After(t, q) = f[Len(q)]
  <2>1. ASSUME NEW n \in 0 .. Len(q), n + 1 <= Len(q) PROVE f[n + 1] = Apply(f[n], q[n + 1])
    <3>1. /\ n \in 0 .. Len(w) /\ n + 1 <= Len(w) /\ n + 1 \in 1 .. Len(q) + Len(p)
      BY <1>1, <2>1
    <3> QED BY <1>1, <1>2, <2>1, <3>1
  <2> QED BY <1>2, <2>1, AfterIs
<1> DEFINE g == [n \in 0 .. Len(p) |-> f[Len(q) + n]]
<1>4. g[0] = After(t, q)
  <2>1. 0 \in 0 .. Len(p) /\ Len(q) + 0 = Len(q)
    BY <1>1
  <2> QED BY <1>3, <2>1
<1>5. ASSUME NEW n \in 0 .. Len(p), n + 1 <= Len(p) PROVE g[n + 1] = Apply(g[n], p[n + 1])
  <2>1. /\ n + 1 \in 0 .. Len(p) /\ Len(q) + n \in 0 .. Len(w) /\ (Len(q) + n) + 1 <= Len(w)
        /\ (Len(q) + n) + 1 \in 1 .. Len(q) + Len(p) /\ ~((Len(q) + n) + 1 <= Len(q))
        /\ ((Len(q) + n) + 1) - Len(q) = n + 1 /\ Len(q) + (n + 1) = (Len(q) + n) + 1
    BY <1>1, <1>5
  <2>2. f[(Len(q) + n) + 1] = Apply(f[Len(q) + n], w[(Len(q) + n) + 1])
    BY <1>2, <2>1
  <2>3. w[(Len(q) + n) + 1] = p[n + 1]
    BY <1>1, <2>1
  <2>4. g[n + 1] = f[(Len(q) + n) + 1] /\ g[n] = f[Len(q) + n]
    BY <2>1
  <2> QED BY <2>2, <2>3, <2>4
<1>6. g[Len(p)] = f[Len(w)]
  <2>1. Len(p) \in 0 .. Len(p)
    BY <1>1
  <2> QED BY <1>1, <2>1
<1> HIDE DEF g
<1>7. After(After(t, q), p) = g[Len(p)]
  BY <1>4, <1>5, AfterIs
<1> QED BY <1>2, <1>6, <1>7 DEF w

-----------------------------------------------------------------------------
(* What commands do to the row of one account.                             *)

Table == [Account -> Row \cup {None}]

\* Command c leaves the row x of account a alone.
Spares(c, a, x) == c.account # a /\ (x # None => x.role # c.role)

\* Lemma: the parts of a command.
LEMMA CmdIs ==
    ASSUME NEW c \in Cmd
    PROVE  /\ c.account \in Account /\ c.role \in Role /\ c.op \in {"INSERT", "UPDATE"}
           /\ c.base \in Val \cup {None} /\ c.items \in Val \cup {None}
           /\ c.op = "INSERT" => c.base \in Val /\ c.items \in Val
BY DEF Cmd

\* Lemma: a command makes a table of a table; the row of an account depends
\* on its row before only, and stays when the command spares it.
LEMMA ApplyRow ==
    ASSUME NEW t \in Table, NEW c \in Cmd
    PROVE  /\ Apply(t, c) \in Table
           /\ \A u \in Table, a \in Account : t[a] = u[a] => Apply(t, c)[a] = Apply(u, c)[a]
           /\ \A a \in Account : Spares(c, a, t[a]) => Apply(t, c)[a] = t[a]
<1>1. /\ c.account \in Account /\ c.role \in Role /\ c.op \in {"INSERT", "UPDATE"}
      /\ c.base \in Val \cup {None} /\ c.items \in Val \cup {None}
      /\ c.op = "INSERT" => c.base \in Val /\ c.items \in Val
  BY CmdIs
<1>2. \A v \in Table, a \in Account : v[a] # None => v[a] \in Row
  BY DEF Table
<1>3. \A row \in Row : Updated(row, c) \in Row /\ Updated(row, c).role = row.role
  BY <1>1 DEF Updated, Else, Row
<1>4. CASE c.op = "INSERT"
  <2>1. Inserted(c) \in Row
    BY <1>1, <1>4 DEF Inserted, Row
  <2>2. \A v \in Table : Apply(v, c) = IF v[c.account] = None THEN [v EXCEPT ![c.account] = Inserted(c)] ELSE v
    BY <1>4 DEF Apply
  <2>3. \A v \in Table : Apply(v, c) \in Table
    BY <1>1, <2>1, <2>2 DEF Table
  <2>4. \A v \in Table, a \in Account :
            Apply(v, c)[a] = IF a = c.account /\ v[a] = None THEN Inserted(c) ELSE v[a]
    BY <1>1, <2>2 DEF Table
  <2> QED BY <2>3, <2>4 DEF Spares
<1>5. CASE c.op # "INSERT"
  <2>1. \A v \in Table : Apply(v, c) = [a \in Account |->
              IF v[a] # None /\ v[a].role = c.role THEN Updated(v[a], c) ELSE v[a]]
    BY <1>5 DEF Apply
  <2>2. \A v \in Table : Apply(v, c) \in Table
    BY <1>2, <1>3, <2>1 DEF Table
  <2>3. \A v \in Table, a \in Account : Apply(v, c)[a] =
              IF v[a] # None /\ v[a].role = c.role THEN Updated(v[a], c) ELSE v[a]
    BY <2>1
  <2>4. ASSUME NEW u \in Table, NEW a \in Account, t[a] = u[a]
        PROVE  Apply(t, c)[a] = Apply(u, c)[a]
    <3>1. Apply(t, c)[a] = IF t[a] # None /\ t[a].role = c.role THEN Updated(t[a], c) ELSE t[a]
      BY <2>3
    <3>2. Apply(u, c)[a] = IF u[a] # None /\ u[a].role = c.role THEN Updated(u[a], c) ELSE u[a]
      BY <2>3
    <3> QED BY <2>4, <3>1, <3>2, Zenon
  <2>5. \A a \in Account : Spares(c, a, t[a]) => Apply(t, c)[a] = t[a]
    BY <2>3 DEF Spares
  <2> QED BY <2>2, <2>4, <2>5
<1> QED BY <1>4, <1>5

\* Lemma: so it is with all commands of a queue.
LEMMA AfterRow ==
    ASSUME NEW t \in Table, NEW q \in Seq(Cmd)
    PROVE  /\ After(t, q) \in Table
           /\ \A u \in Table, a \in Account : t[a] = u[a] => After(t, q)[a] = After(u, q)[a]
           /\ \A a \in Account : (\A i \in DOMAIN q : Spares(q[i], a, t[a])) => After(t, q)[a] = t[a]
<1>1. Len(q) \in Nat /\ DOMAIN q = 1 .. Len(q)
  OBVIOUS
<1>2. \A n \in 0 .. Len(q) : n + 1 <= Len(q) => n + 1 \in DOMAIN q /\ n + 1 \in 0 .. Len(q) /\ q[n + 1] \in Cmd
  BY <1>1
<1>3. PICK f : /\ f[0] = t /\ f[Len(q)] = After(t, q)
               /\ \A n \in 0 .. Len(q) : n + 1 <= Len(q) => f[n + 1] = Apply(f[n], q[n + 1])
  BY AfterChain
<1>4. \A n \in 0 .. Len(q) : f[n] \in Table
  <2> DEFINE P == {n \in 0 .. Len(q) : f[n] \in Table}
  <2>1. 0 \in P
    BY <1>1, <1>3
  <2>2. ASSUME NEW n \in 0 .. Len(q), n + 1 <= Len(q), n \in P PROVE n + 1 \in P
    BY <1>2, <1>3, <2>2, ApplyRow
  <2> HIDE DEF P
  <2>3. \A n \in 0 .. Len(q) : n \in P
    BY <1>1, <2>1, <2>2, UpTo
  <2> QED BY <2>3 DEF P
<1>5. ASSUME NEW u \in Table, NEW a \in Account, t[a] = u[a]
      PROVE  After(t, q)[a] = After(u, q)[a]
  <2>1. PICK g : /\ g[0] = u /\ g[Len(q)] = After(u, q)
                 /\ \A n \in 0 .. Len(q) : n + 1 <= Len(q) => g[n + 1] = Apply(g[n], q[n + 1])
    BY AfterChain
  <2> DEFINE P == {n \in 0 .. Len(q) : g[n] \in Table /\ f[n][a] = g[n][a]}
  <2>2. 0 \in P
    BY <1>1, <1>3, <1>5, <2>1
  <2>3. ASSUME NEW n \in 0 .. Len(q), n + 1 <= Len(q), n \in P PROVE n + 1 \in P
    <3>1. /\ q[n + 1] \in Cmd /\ f[n] \in Table /\ g[n] \in Table /\ f[n][a] = g[n][a]
          /\ f[n + 1] = Apply(f[n], q[n + 1]) /\ g[n + 1] = Apply(g[n], q[n + 1])
          /\ n + 1 \in 0 .. Len(q)
      BY <1>2, <1>3, <1>4, <2>1, <2>3
    <3>2. Apply(f[n], q[n + 1])[a] = Apply(g[n], q[n + 1])[a] /\ Apply(g[n], q[n + 1]) \in Table
      BY <3>1, ApplyRow
    <3> QED BY <3>1, <3>2
  <2> HIDE DEF P
  <2>4. \A n \in 0 .. Len(q) : n \in P
    BY <1>1, <2>2, <2>3, UpTo
  <2>5. Len(q) \in P
    BY <1>1, <2>4
  <2> QED BY <1>3, <2>1, <2>5 DEF P
<1>6. ASSUME NEW a \in Account, \A i \in DOMAIN q : Spares(q[i], a, t[a])
      PROVE  After(t, q)[a] = t[a]
  <2> DEFINE P == {n \in 0 .. Len(q) : f[n][a] = t[a]}
  <2>1. 0 \in P
    BY <1>1, <1>3
  <2>2. ASSUME NEW n \in 0 .. Len(q), n + 1 <= Len(q), n \in P PROVE n + 1 \in P
    <3>1. /\ q[n + 1] \in Cmd /\ f[n] \in Table /\ f[n][a] = t[a]
          /\ f[n + 1] = Apply(f[n], q[n + 1]) /\ Spares(q[n + 1], a, f[n][a])
          /\ n + 1 \in 0 .. Len(q)
      BY <1>2, <1>3, <1>4, <1>6, <2>2
    <3>2. Apply(f[n], q[n + 1])[a] = f[n][a]
      BY <3>1, ApplyRow
    <3> QED BY <3>1, <3>2
  <2> HIDE DEF P
  <2>3. \A n \in 0 .. Len(q) : n \in P
    BY <1>1, <2>1, <2>2, UpTo
  <2>4. Len(q) \in P
    BY <1>1, <2>3
  <2> QED BY <1>3, <2>4 DEF P
<1>7. After(t, q) \in Table
  <2>1. Len(q) \in 0 .. Len(q)
    BY <1>1
  <2> QED BY <1>3, <1>4, <2>1
<1> QED BY <1>5, <1>6, <1>7

-----------------------------------------------------------------------------
(* Queues.                                                                 *)

\* Lemma: what is in the tail of a queue was in the queue.
LEMMA TailAt ==
    ASSUME NEW S, NEW q \in Seq(S), q # <<>>
    PROVE  /\ \A i \in DOMAIN Tail(q) : \E j \in DOMAIN q : Tail(q)[i] = q[j]
           /\ 1 \in DOMAIN q /\ Head(q) = q[1]
<1>1. /\ Len(q) \in Nat /\ Len(q) >= 1 /\ DOMAIN q = 1 .. Len(q) /\ DOMAIN Tail(q) = 1 .. Len(q) - 1
      /\ Head(q) = q[1] /\ \A i \in 1 .. Len(q) - 1 : Tail(q)[i] = q[i + 1]
  OBVIOUS
<1>2. ASSUME NEW i \in DOMAIN Tail(q) PROVE \E j \in DOMAIN q : Tail(q)[i] = q[j]
  <2>1. i + 1 \in DOMAIN q
    BY <1>1
  <2> QED BY <1>1, <2>1
<1> QED BY <1>1, <1>2

\* Lemma: what is in two queues put together was in one of them.
LEMMA ConcatAt ==
    ASSUME NEW S, NEW q \in Seq(S), NEW p \in Seq(S), NEW w, w = q \o p
    PROVE  \A i \in DOMAIN w : (\E j \in DOMAIN q : w[i] = q[j]) \/ (\E j \in DOMAIN p : w[i] = p[j])
<1>1. /\ Len(q) \in Nat /\ Len(p) \in Nat /\ DOMAIN q = 1 .. Len(q) /\ DOMAIN p = 1 .. Len(p)
      /\ DOMAIN w = 1 .. Len(q) + Len(p)
      /\ \A i \in 1 .. Len(q) + Len(p) : w[i] = IF i <= Len(q) THEN q[i] ELSE p[i - Len(q)]
  OBVIOUS
<1> SUFFICES ASSUME NEW i \in 1 .. Len(q) + Len(p)
    PROVE  (\E j \in DOMAIN q : w[i] = q[j]) \/ (\E j \in DOMAIN p : w[i] = p[j])
  BY <1>1
<1>2. CASE i <= Len(q)
  BY <1>1, <1>2
<1>3. CASE ~(i <= Len(q))
  <2>1. i - Len(q) \in DOMAIN p /\ w[i] = p[i - Len(q)]
    BY <1>1, <1>3
  <2> QED BY <2>1
<1> QED BY <1>2, <1>3

\* Lemma: what is in a queue after Append was there or is the new element.
LEMMA AppendAt ==
    ASSUME NEW S, NEW q \in Seq(S), NEW e
    PROVE  \A i \in DOMAIN Append(q, e) : Append(q, e)[i] = e \/ \E j \in DOMAIN q : Append(q, e)[i] = q[j]
<1>1. /\ Len(q) \in Nat /\ DOMAIN q = 1 .. Len(q) /\ DOMAIN Append(q, e) = 1 .. Len(q) + 1
      /\ \A i \in 1 .. Len(q) + 1 : Append(q, e)[i] = IF i <= Len(q) THEN q[i] ELSE e
  OBVIOUS
<1> SUFFICES ASSUME NEW i \in 1 .. Len(q) + 1
    PROVE  Append(q, e)[i] = e \/ \E j \in DOMAIN q : Append(q, e)[i] = q[j]
  BY <1>1
<1>2. CASE i <= Len(q)
  BY <1>1, <1>2
<1>3. CASE ~(i <= Len(q))
  BY <1>1, <1>3
<1> QED BY <1>2, <1>3

-----------------------------------------------------------------------------
(* Types, and the records' own consistency.                                *)

DbTypes == TypeOK /\ RecordsOK

\* Lemma: None is no value of the program.
LEMMA NoneIsNothing ==
    None \notin Account /\ None \notin Role /\ None \notin Val /\ None \notin Row /\ None \notin Record
BY DbConstants

\* Lemma: the next role id is one, and so is the next counter.
LEMMA NewRoleIsRole ==
    ASSUME TypeOK
    PROVE  NewRoleId \in Role /\ NextCounter \in 0 .. CounterRange - 1
<1>1. /\ clock \in Nat /\ counter \in 0 .. CounterRange - 1 /\ counter + 1 \in Nat
      /\ TimeRange \in Nat /\ TimeRange > 0 /\ CounterRange \in Nat /\ CounterRange > 0
  BY DbConstants DEF TypeOK
<1>2. \A x, y \in Nat : y > 0 => x % y \in 0 .. y - 1
  OBVIOUS
<1>3. clock % TimeRange \in 0 .. TimeRange - 1
  BY <1>1, <1>2
<1>4. (counter + 1) % CounterRange \in 0 .. CounterRange - 1
  BY <1>1, <1>2
<1> QED BY <1>1, <1>3, <1>4 DEF NewRoleId, NextCounter, Role

\* Lemma: the parts of a record.
LEMMA RecordIs ==
    ASSUME NEW rec \in Record
    PROVE  /\ rec = [role |-> rec.role, base |-> rec.base, items |-> rec.items,
                     changed |-> rec.changed, st |-> rec.st]
           /\ rec.role \in Role \cup {None} /\ rec.base \in Val /\ rec.items \in Val \cup {None}
           /\ rec.changed \subseteq Field /\ rec.st \in {"-", "INSERT", "UPDATE"}
BY DEF Record

\* Lemma: the record that CreateRole makes.
LEMMA CreatedIs ==
    ASSUME NEW r \in Role
    PROVE  /\ Created(r) \in Record /\ Created(r).role = r /\ Created(r).items = 0
           /\ Created(r).st = "INSERT" /\ 0 # None
<1>1. 0 \in Val
  BY DbConstants DEF Val
<1>2. Created(r) \in Record
  BY <1>1 DEF Created, Record, Field
<1> QED BY <1>1, <1>2, NoneIsNothing DEF Created

\* Lemma: a row that is read to its end.
LEMMA ReadIs ==
    ASSUME NEW row \in Row
    PROVE  /\ Read(row) \in Record /\ Read(row).role = row.role /\ Read(row).base = row.base
           /\ Read(row).items = row.items /\ Read(row).changed = {} /\ Read(row).st = "-"
           /\ row.role \in Role /\ row.items \in Val /\ row.base \in Val
BY DEF Read, Row, Record

\* A row that is not read to its end.
HalfRead(role, base) == [role |-> role, base |-> base, items |-> None, changed |-> {}, st |-> "-"]

\* Lemma: that is a record.
LEMMA HalfReadIs ==
    ASSUME NEW role \in Role \cup {None}, NEW base \in Val
    PROVE  /\ HalfRead(role, base) \in Record /\ HalfRead(role, base).items = None
           /\ HalfRead(role, base).role = role /\ HalfRead(role, base).st = "-"
BY DEF HalfRead, Record

\* Lemma: a whole record that gets into the maps, by CreateRole or by a
\* callback, keeps them typed; the first record of a role id stays.
LEMMA RecordAdded ==
    ASSUME DbTypes, NEW a \in Account, cache[a] = None,
           NEW rec \in Record, rec.role \in Role, rec.items # None,
           cache' = [cache EXCEPT ![a] = rec], byRole' = ByRoleInserted(rec.role, a)
    PROVE  /\ cache' \in [Account -> Record \cup {None}]
           /\ byRole' \in [Role -> Account \cup {None}]
           /\ RecordsOK'
<1>1. cache \in [Account -> Record \cup {None}] /\ byRole \in [Role -> Account \cup {None}]
  BY DEF DbTypes, TypeOK
<1>2. /\ cache' \in [Account -> Record \cup {None}] /\ cache'[a] = rec
      /\ \A b \in Account : b # a => cache'[b] = cache[b]
  BY <1>1
<1>3. /\ byRole' \in [Role -> Account \cup {None}]
      /\ \A r \in Role : byRole'[r] = byRole[r] \/ (r = rec.role /\ byRole'[r] = a)
  BY <1>1 DEF ByRoleInserted
<1>4. Whole(a)' /\ \A b \in Account : b # a => Whole(b)' = Whole(b)
  BY <1>2, NoneIsNothing DEF Whole
<1>5. ASSUME NEW b \in Account
      PROVE  /\ cache'[b] # None /\ cache'[b].st # "-" => Whole(b)'
             /\ Whole(b)' => cache'[b].role # None
  BY <1>2, <1>4, NoneIsNothing DEF DbTypes, RecordsOK
<1>6. ASSUME NEW r \in Role, byRole'[r] # None
      PROVE  Whole(byRole[r])' /\ cache'[byRole'[r]].role = r
  <2>1. CASE r = rec.role /\ byRole'[r] = a
    BY <1>2, <1>4, <2>1
  <2>2. CASE byRole'[r] = byRole[r]
    <3>1. byRole[r] \in Account /\ Whole(byRole[r]) /\ cache[byRole[r]].role = r
      BY <1>1, <1>6, <2>2 DEF DbTypes, RecordsOK
    <3>2. byRole[r] # a
      BY <3>1 DEF Whole
    <3> QED BY <1>2, <2>2, <3>1, <3>2 DEF Whole
  <2> QED BY <1>3, <2>1, <2>2
<1> QED BY <1>2, <1>3, <1>5, <1>6 DEF RecordsOK

\* Lemma: so it is with CreateRole.
LEMMA CreateTypes ==
    ASSUME DbTypes, NEW a \in Account, CreateRole(a)
    PROVE  DbTypes'
<1>1. NewRoleId \in Role /\ NextCounter \in 0 .. CounterRange - 1
  BY NewRoleIsRole DEF DbTypes
<1>2. PICK rec \in Record : /\ rec = Created(NewRoleId) /\ rec.role = NewRoleId /\ rec.role \in Role
                            /\ rec.items # None
  BY <1>1, CreatedIs
<1>3. /\ cache[a] = None /\ cache' = [cache EXCEPT ![a] = rec]
      /\ byRole' = ByRoleInserted(rec.role, a)
      /\ counter' = NextCounter /\ second' \in {second, second \cup {a}}
      /\ UNCHANGED <<at, link, clock, reads, writeQ, table, lost, dropped>>
  BY <1>2 DEF CreateRole
<1>4. /\ cache' \in [Account -> Record \cup {None}]
      /\ byRole' \in [Role -> Account \cup {None}]
      /\ RecordsOK'
  BY <1>2, <1>3, RecordAdded
<1> QED BY <1>1, <1>3, <1>4 DEF DbTypes, TypeOK, reads

\* The record o becomes n by a change of the field f.
Altered(o, n, f) ==
    /\ n \in Record /\ n.role = o.role /\ n.items # None
    /\ n.changed = o.changed \cup {f} /\ n.st = IF o.st = "-" THEN "UPDATE" ELSE o.st
    /\ f # "base" => n.base = o.base
    /\ f # "items" => n.items = o.items

\* Lemma: what SetRoleData and AddItem do to a record.
LEMMA RecordAltered ==
    ASSUME NEW rec \in Record, rec.items # None
    PROVE  /\ rec.base < MaxVal => Altered(rec, CommitUpdate(BaseSet(rec)), "base")
           /\ rec.items < MaxVal => Altered(rec, CommitUpdate(ItemAdded(rec)), "items")
<1> DEFINE d == IF rec.st = "-" THEN "UPDATE" ELSE rec.st
<1>1. /\ rec = [role |-> rec.role, base |-> rec.base, items |-> rec.items,
                changed |-> rec.changed, st |-> rec.st]
      /\ rec.role \in Role \cup {None} /\ rec.base \in Val /\ rec.items \in Val
      /\ rec.changed \subseteq Field /\ d \in {"-", "INSERT", "UPDATE"}
  BY RecordIs
<1>2. ASSUME rec.base < MaxVal PROVE Altered(rec, CommitUpdate(BaseSet(rec)), "base")
  <2> DEFINE n == [role |-> rec.role, base |-> rec.base + 1, items |-> rec.items,
                   changed |-> rec.changed \cup {"base"}, st |-> rec.st]
             m == [role |-> rec.role, base |-> rec.base + 1, items |-> rec.items,
                   changed |-> rec.changed \cup {"base"}, st |-> d]
  <2>1. BaseSet(rec) = n
    <3>1. rec \in [role : Role \cup {None}, base : Val, items : Val \cup {None},
                   changed : SUBSET Field, st : {"-", "INSERT", "UPDATE"}]
      BY DEF Record
    <3>2. [rec EXCEPT !.base = rec.base + 1] =
              [role |-> rec.role, base |-> rec.base + 1, items |-> rec.items, changed |-> rec.changed, st |-> rec.st]
      BY <3>1
    <3>3. BaseSet(rec) = [[rec EXCEPT !.base = rec.base + 1] EXCEPT !.changed = rec.changed \cup {"base"}]
      BY <3>1 DEF BaseSet
    <3> QED BY <3>2, <3>3
  <2>2. CommitUpdate(n) = m
    BY DEF CommitUpdate
  <2>3. rec.base + 1 \in Val
    BY <1>1, <1>2, DbConstants DEF Val
  <2>4. m \in Record
    <3> HIDE DEF d
    <3> QED BY <1>1, <2>3 DEF Record, Field
  <2> QED BY <1>1, <2>1, <2>2, <2>4, NoneIsNothing DEF Altered
<1>3. ASSUME rec.items < MaxVal PROVE Altered(rec, CommitUpdate(ItemAdded(rec)), "items")
  <2> DEFINE n == [role |-> rec.role, base |-> rec.base, items |-> rec.items + 1,
                   changed |-> rec.changed \cup {"items"}, st |-> rec.st]
             m == [role |-> rec.role, base |-> rec.base, items |-> rec.items + 1,
                   changed |-> rec.changed \cup {"items"}, st |-> d]
  <2>1. ItemAdded(rec) = n
    <3>1. rec \in [role : Role \cup {None}, base : Val, items : Val \cup {None},
                   changed : SUBSET Field, st : {"-", "INSERT", "UPDATE"}]
      BY DEF Record
    <3>2. [rec EXCEPT !.items = rec.items + 1] =
              [role |-> rec.role, base |-> rec.base, items |-> rec.items + 1, changed |-> rec.changed, st |-> rec.st]
      BY <3>1
    <3>3. ItemAdded(rec) = [[rec EXCEPT !.items = rec.items + 1] EXCEPT !.changed = rec.changed \cup {"items"}]
      BY <3>1 DEF ItemAdded
    <3> QED BY <3>2, <3>3
  <2>2. CommitUpdate(n) = m
    BY DEF CommitUpdate
  <2>3. rec.items + 1 \in Val
    BY <1>1, <1>3, DbConstants DEF Val
  <2>4. m \in Record
    <3> HIDE DEF d
    <3> QED BY <1>1, <2>3 DEF Record, Field
  <2> QED BY <1>1, <2>1, <2>2, <2>3, <2>4, NoneIsNothing DEF Altered
<1> QED BY <1>2, <1>3

Change(r) == SetRoleData(r) \/ AddItem(r)

\* Lemma: a change leaves everything but the link and one whole record.
LEMMA ChangeDoes ==
    ASSUME DbTypes, NEW r \in Role, Change(r)
    PROVE  /\ UNCHANGED <<at, clock, counter, byRole, readQ, readErr, resQ, writeQ, table,
                          lost, dropped, second>>
           /\ link' \in {link, FALSE}
           /\ \/ cache' = cache
              \/ \E a \in Account, rec \in Record, f \in Field :
                    /\ Whole(a) /\ cache' = [cache EXCEPT ![a] = rec] /\ Altered(cache[a], rec, f)
<1>1. /\ cache \in [Account -> Record \cup {None}] /\ byRole \in [Role -> Account \cup {None}]
  BY DEF DbTypes, TypeOK
<1>2. UNCHANGED <<at, clock, counter, byRole, readQ, readErr, resQ, writeQ, table, lost, dropped, second>>
  BY DEF Change, SetRoleData, AddItem, time, reads
<1>3. CASE byRole[r] = None
  BY <1>2, <1>3 DEF Change, SetRoleData, AddItem, NotFound
<1>4. CASE byRole[r] # None
  <2>1. PICK a \in Account : a = byRole[r]
    BY <1>1, <1>4
  <2>2. Whole(a) /\ cache[a] \in Record /\ cache[a].items # None
    BY <1>1, <1>4, <2>1 DEF DbTypes, RecordsOK, Whole
  <2>3. /\ link' = link
        /\ \/ /\ cache[a].base < MaxVal
              /\ cache' = [cache EXCEPT ![a] = CommitUpdate(BaseSet(cache[a]))]
           \/ /\ cache[a].items < MaxVal
              /\ cache' = [cache EXCEPT ![a] = CommitUpdate(ItemAdded(cache[a]))]
    BY <1>4, <2>1 DEF Change, SetRoleData, AddItem, NotFound
  <2>4. \E rec \in Record, f \in Field : cache' = [cache EXCEPT ![a] = rec] /\ Altered(cache[a], rec, f)
    BY <2>2, <2>3, RecordAltered DEF Altered, Field
  <2> QED BY <1>2, <2>2, <2>3, <2>4
<1> QED BY <1>3, <1>4

\* Lemma: so it keeps the types, and the ids of all records.
LEMMA ChangeTypes ==
    ASSUME DbTypes, NEW r \in Role, Change(r)
    PROVE  /\ DbTypes'
           /\ \A b \in Account :
                \/ cache'[b] = cache[b]
                \/ Whole(b) /\ cache'[b] # None /\ \E f \in Field : Altered(cache[b], cache'[b], f)
<1>1. /\ cache \in [Account -> Record \cup {None}] /\ byRole \in [Role -> Account \cup {None}]
      /\ link \in BOOLEAN
  BY DEF DbTypes, TypeOK
<1>2. /\ UNCHANGED <<at, clock, counter, byRole, readQ, readErr, resQ, writeQ, table, lost, dropped, second>>
      /\ link' \in BOOLEAN
  BY <1>1, ChangeDoes
<1>3. CASE cache' = cache
  <2>1. TypeOK' /\ RecordsOK'
    BY <1>2, <1>3 DEF DbTypes, TypeOK, RecordsOK, Whole
  <2> QED BY <1>3, <2>1 DEF DbTypes
<1>4. CASE cache' # cache
  <2>1. PICK a \in Account, rec \in Record, f \in Field :
          Whole(a) /\ cache' = [cache EXCEPT ![a] = rec] /\ Altered(cache[a], rec, f)
    BY <1>4, ChangeDoes
  <2>2. /\ cache' \in [Account -> Record \cup {None}] /\ cache'[a] = rec /\ rec # None
        /\ \A b \in Account : b # a => cache'[b] = cache[b]
    BY <1>1, <2>1, NoneIsNothing
  <2>3. rec.role = cache[a].role /\ rec.items # None
    BY <2>1 DEF Altered
  <2>4. ASSUME NEW b \in Account
        PROVE  /\ Whole(b)' = Whole(b) /\ (Whole(b) => cache'[b].role = cache[b].role)
               /\ cache'[b] # None /\ cache'[b].st # "-" => Whole(b)'
    <3>1. CASE b = a
      BY <2>1, <2>2, <2>3, <3>1 DEF Whole
    <3>2. CASE b # a
      BY <2>2, <3>2 DEF Whole, DbTypes, RecordsOK
    <3> QED BY <3>1, <3>2
  <2>5. RecordsOK'
    <3>1. ASSUME NEW b \in Account, Whole(b)' PROVE cache'[b].role # None
      BY <2>4, <3>1 DEF DbTypes, RecordsOK
    <3>2. ASSUME NEW z \in Role, byRole'[z] # None
          PROVE  Whole(byRole[z])' /\ cache'[byRole'[z]].role = z
      <4>1. PICK d \in Account : d = byRole[z] /\ byRole'[z] = d
        BY <1>1, <1>2, <3>2
      <4>2. Whole(d) /\ cache[d].role = z
        BY <1>2, <3>2, <4>1 DEF DbTypes, RecordsOK
      <4>3. Whole(d)' /\ cache'[d].role = z
        BY <2>4, <4>2
      <4> QED BY <4>1, <4>3 DEF Whole
    <3> QED BY <2>4, <3>1, <3>2 DEF RecordsOK
  <2>6. TypeOK'
    BY <1>2, <2>2 DEF DbTypes, TypeOK
  <2> QED BY <2>1, <2>2, <2>5, <2>6 DEF DbTypes
<1> QED BY <1>3, <1>4

\* Lemma: what the main loop takes from the results.
LEMMA ResultTaken ==
    ASSUME DbTypes, RunResults
    PROVE  \/ UNCHANGED <<cache, byRole>>
           \/ \E x \in Result :
                /\ x = resQ[1] /\ 1 \in DOMAIN resQ /\ x.account \in Account
                /\ cache[x.account] = None /\ x.row # None /\ x.row \in Row
                /\ \/ /\ \E role \in {None, x.row.role}, base \in Val :
                            cache' = [cache EXCEPT ![x.account] = HalfRead(role, base)]
                      /\ byRole' = byRole
                   \/ /\ cache' = [cache EXCEPT ![x.account] = Read(x.row)]
                      /\ byRole' = ByRoleInserted(x.row.role, x.account)
<1>1. resQ \in Seq(Result)
  BY DEF DbTypes, TypeOK
<1>2. CASE resQ = <<>>
  BY <1>2 DEF RunResults
<1>3. CASE resQ # <<>>
  <2>1. PICK x \in Result : x = Head(resQ) /\ x = resQ[1] /\ 1 \in DOMAIN resQ
    BY <1>1, <1>3, TailAt
  <2>2. Callback(x) /\ x.account \in Account /\ x.row \in Row \cup {None}
    BY <1>3, <2>1 DEF RunResults, Result
  <2>3. CASE x.row = None \/ cache[x.account] # None
    BY <2>2, <2>3 DEF Callback
  <2>4. CASE x.row # None /\ cache[x.account] = None
    <3>1. x.row \in Row /\ x.row.base \in Val /\ 0 \in Val
      BY <2>2, <2>4, ReadIs, DbConstants DEF Val
    <3>2. \/ HalfLoad(x.account, None, 0) \/ Load(x.account, x.row)
          \/ HalfLoad(x.account, x.row.role, x.row.base)
      BY <2>2, <2>4 DEF Callback
    <3>3. CASE HalfLoad(x.account, None, 0)
      BY <2>1, <2>2, <2>4, <3>1, <3>3 DEF HalfLoad, HalfRead
    <3>4. CASE HalfLoad(x.account, x.row.role, x.row.base)
      BY <2>1, <2>2, <2>4, <3>1, <3>4 DEF HalfLoad, HalfRead
    <3>5. CASE Load(x.account, x.row)
      BY <2>1, <2>2, <2>4, <3>1, <3>5 DEF Load
    <3> QED BY <3>2, <3>3, <3>4, <3>5
  <2> QED BY <2>3, <2>4
<1> QED BY <1>2, <1>3

\* Lemma: the result of a query that the main loop takes, and its callback.
LEMMA ResultsTypes ==
    ASSUME DbTypes, RunResults
    PROVE  DbTypes'
<1>1. /\ UNCHANGED <<link, clock, counter, readQ, readErr, writeQ, table, lost, dropped, second>>
      /\ at' = "update"
  BY DEF RunResults, time
<1>2. resQ \in Seq(Result) /\ cache \in [Account -> Record \cup {None}]
      /\ byRole \in [Role -> Account \cup {None}]
  BY DEF DbTypes, TypeOK
<1>3. resQ' \in Seq(Result)
  <2>1. CASE resQ = <<>>
    BY <1>2, <2>1 DEF RunResults
  <2>2. CASE resQ # <<>>
    BY <1>2, <2>2 DEF RunResults
  <2> QED BY <2>1, <2>2
<1>4. CASE UNCHANGED <<cache, byRole>>
  BY <1>1, <1>3, <1>4 DEF DbTypes, TypeOK, RecordsOK, Whole
<1>5. CASE ~UNCHANGED <<cache, byRole>>
  <2>1. PICK x \in Result :
          /\ x.account \in Account /\ cache[x.account] = None /\ x.row \in Row
          /\ \/ /\ \E role \in {None, x.row.role}, base \in Val :
                      cache' = [cache EXCEPT ![x.account] = HalfRead(role, base)]
                /\ byRole' = byRole
             \/ /\ cache' = [cache EXCEPT ![x.account] = Read(x.row)]
                /\ byRole' = ByRoleInserted(x.row.role, x.account)
    BY <1>5, ResultTaken
  <2>2. PICK a \in Account : a = x.account /\ cache[a] = None
    BY <2>1
  <2>3. CASE /\ \E role \in {None, x.row.role}, base \in Val :
                  cache' = [cache EXCEPT ![a] = HalfRead(role, base)]
             /\ byRole' = byRole
    <3>1. PICK rec \in Record : cache' = [cache EXCEPT ![a] = rec] /\ rec.items = None /\ rec.st = "-"
      <4>1. PICK role \in {None, x.row.role}, base \in Val : cache' = [cache EXCEPT ![a] = HalfRead(role, base)]
        BY <2>3
      <4>2. role \in Role \cup {None}
        BY <2>1, ReadIs
      <4> QED BY <4>1, <4>2, HalfReadIs
    <3>2. /\ cache' \in [Account -> Record \cup {None}] /\ cache'[a] = rec
          /\ \A b \in Account : b # a => cache'[b] = cache[b]
      BY <1>2, <3>1
    <3>3. ~Whole(a) /\ ~Whole(a)' /\ \A b \in Account : b # a => Whole(b)' = Whole(b)
      BY <2>2, <3>1, <3>2 DEF Whole
    <3>4. RecordsOK'
      <4>1. ASSUME NEW b \in Account
            PROVE  /\ cache'[b] # None /\ cache'[b].st # "-" => Whole(b)'
                   /\ Whole(b)' => cache'[b].role # None
        BY <3>1, <3>2, <3>3 DEF DbTypes, RecordsOK
      <4>2. ASSUME NEW z \in Role, byRole'[z] # None
            PROVE  Whole(byRole[z])' /\ cache'[byRole'[z]].role = z
        <5>1. byRole[z] \in Account /\ Whole(byRole[z]) /\ cache[byRole[z]].role = z
          BY <1>2, <2>3, <4>2 DEF DbTypes, RecordsOK
        <5>2. byRole[z] # a
          BY <3>3, <5>1
        <5> QED BY <2>3, <3>2, <5>1, <5>2 DEF Whole
      <4> QED BY <4>1, <4>2 DEF RecordsOK
    <3> QED BY <1>1, <1>3, <2>3, <3>2, <3>4 DEF DbTypes, TypeOK
  <2>4. CASE /\ cache' = [cache EXCEPT ![a] = Read(x.row)]
             /\ byRole' = ByRoleInserted(x.row.role, a)
    <3>1. PICK rec \in Record : rec = Read(x.row) /\ rec.role = x.row.role /\ rec.role \in Role /\ rec.items # None
      BY <2>1, ReadIs, NoneIsNothing
    <3>2. /\ cache' \in [Account -> Record \cup {None}]
          /\ byRole' \in [Role -> Account \cup {None}]
          /\ RecordsOK'
      BY <2>2, <2>4, <3>1, RecordAdded
    <3> QED BY <1>1, <1>3, <3>2 DEF DbTypes, TypeOK
  <2> QED BY <2>1, <2>2, <2>3, <2>4
<1> QED BY <1>4, <1>5

\* The commands for the accounts of s.
Cmds(s) == [k \in DOMAIN s |-> WriteCmd(s[k])]

\* Lemma: a record to be written makes a command.
LEMMA WriteCmdIs ==
    ASSUME DbTypes, NEW a \in Account, a \in Dirty
    PROVE  /\ WriteCmd(a) \in Cmd
           /\ cache[a] \in Record /\ cache[a].role \in Role /\ cache[a].base \in Val /\ cache[a].items \in Val
           /\ cache[a].st \in {"INSERT", "UPDATE"} /\ Whole(a)
<1>1. cache[a] \in Record /\ cache[a].st # "-" /\ Whole(a) /\ cache[a].role # None /\ cache[a].items # None
  BY DEF DbTypes, TypeOK, RecordsOK, Dirty, Whole
<1>2. /\ cache[a].st \in {"INSERT", "UPDATE"} /\ cache[a].role \in Role
      /\ cache[a].base \in Val /\ cache[a].items \in Val
  BY <1>1, RecordIs
<1>3. CASE cache[a].st = "INSERT"
  <2>1. WriteCmd(a) = [op |-> "INSERT", account |-> a, role |-> cache[a].role,
                       base |-> cache[a].base, items |-> cache[a].items]
    BY <1>3 DEF WriteCmd, Text, Field
  <2> QED BY <1>1, <1>2, <2>1 DEF Cmd
<1>4. CASE cache[a].st = "UPDATE"
  <2>1. PICK b \in Val \cup {None} : b = IF "base" \in Text(cache[a]) THEN cache[a].base ELSE None
    BY <1>2
  <2>2. PICK i \in Val \cup {None} : i = IF "items" \in Text(cache[a]) THEN cache[a].items ELSE None
    BY <1>2
  <2>3. WriteCmd(a) = [op |-> "UPDATE", account |-> a, role |-> cache[a].role, base |-> b, items |-> i]
    BY <1>4, <2>1, <2>2 DEF WriteCmd
  <2> QED BY <1>1, <1>2, <2>3 DEF Cmd
<1> QED BY <1>2, <1>3, <1>4

\* Lemma: what Update queues: a command for each record in s, which lists the
\* records to be written, but the skipped ones, once each.
LEMMA UpdateDoes ==
    ASSUME DbTypes, Update
    PROVE  \E s \in Seq(Account), skipped \in SUBSET Account :
            /\ \A i, j \in DOMAIN s : s[i] = s[j] => i = j
            /\ \A i \in DOMAIN s : s[i] \in Dirty
            /\ \A a \in Dirty : a \in skipped \/ \E i \in DOMAIN s : s[i] = a
            /\ Cmds(s) \in Seq(Cmd) /\ Len(Cmds(s)) = Len(s)
            /\ writeQ' = writeQ \o Cmds(s) /\ lost' = lost \cup skipped /\ cache' = Clean(skipped)
            /\ dropped' = (dropped \ BaseSent(Dirty \ skipped)) \cup BaseLeft(Dirty \ skipped)
<1>1. PICK skipped \in SUBSET {a \in Dirty : cache[a].st = "UPDATE" /\ "items" \in cache[a].changed} :
        /\ \E s \in SetToSeqs(Dirty \ skipped) : writeQ' = writeQ \o [k \in DOMAIN s |-> WriteCmd(s[k])]
        /\ lost' = lost \cup skipped /\ cache' = Clean(skipped)
        /\ dropped' = (dropped \ BaseSent(Dirty \ skipped)) \cup BaseLeft(Dirty \ skipped)
  BY DEF Update
<1> DEFINE D == Dirty \ skipped
           c == Cardinality(D)
<1>2. PICK s \in SetToSeqs(D) : writeQ' = writeQ \o Cmds(s)
  BY <1>1 DEF Cmds
<1>3. D \subseteq Account /\ skipped \subseteq Account
  BY DEF Dirty
<1>4. IsFiniteSet(D) /\ c \in Nat
  BY <1>3, DbConstants, FS_Subset, FS_CardinalityType
<1>5. s \in [1 .. c -> D] /\ \A i, j \in 1 .. c : i # j => s[i] # s[j]
  BY DEF SetToSeqs
\* s misses nothing: it is an injection of 1..c into a set of c elements.
<1>6. \A a \in D : \E i \in 1 .. c : s[i] = a
  <2>1. s \in Injection(1 .. c, D)
    BY <1>5 DEF Injection, IsInjective
  <2>2. IsFiniteSet(1 .. c) /\ Cardinality(1 .. c) = c
    <3>1. Cardinality(1 .. c) = IF 1 > c THEN 0 ELSE c - 1 + 1
      BY <1>4, FS_Interval
    <3>2. IsFiniteSet(1 .. c)
      BY <1>4, FS_Interval
    <3> QED BY <1>4, <3>1, <3>2
  <2>3. s \in Surjection(1 .. c, D)
    <3>1. Cardinality(D) = c
      OBVIOUS
    <3> HIDE DEF c, D
    <3>2. Cardinality(1 .. c) = Cardinality(D) <=> s \in Surjection(1 .. c, D)
      BY <1>4, <2>1, FS_Injection
    <3> QED BY <2>2, <3>1, <3>2
  <2> QED BY <2>3 DEF Surjection
<1> HIDE DEF c, D
<1>7. s \in Seq(Account) /\ DOMAIN s = 1 .. c
  <2>1. s \in [1 .. c -> Account]
    BY <1>3, <1>5
  <2> QED BY <1>4, <2>1
<1>8. ASSUME NEW i \in DOMAIN s PROVE s[i] \in Dirty /\ WriteCmd(s[i]) \in Cmd
  <2>1. PICK a \in Account : a = s[i] /\ a \in Dirty
    BY <1>5, <1>7 DEF D, Dirty
  <2> QED BY <2>1, WriteCmdIs
<1>9. Cmds(s) \in Seq(Cmd) /\ Len(Cmds(s)) = Len(s)
  <2>1. Cmds(s) \in [1 .. c -> Cmd]
    BY <1>7, <1>8 DEF Cmds
  <2>2. Cmds(s) \in Seq(Cmd)
    BY <1>4, <2>1
  <2>3. Len(s) = c
    BY <1>4, <1>7
  <2>4. Len(Cmds(s)) = c
    BY <1>4, <2>1, <2>2
  <2> QED BY <2>2, <2>3, <2>4
<1>10. \A a \in Dirty : a \in skipped \/ \E i \in DOMAIN s : s[i] = a
  BY <1>6, <1>7 DEF D
<1>11. \A i, j \in DOMAIN s : s[i] = s[j] => i = j
  BY <1>5, <1>7
<1> QED BY <1>1, <1>2, <1>3, <1>7, <1>8, <1>9, <1>10, <1>11

\* Lemma: Clean changes the marks of a record only.
LEMMA CleanIs ==
    ASSUME DbTypes, NEW S
    PROVE  /\ Clean(S) \in [Account -> Record \cup {None}]
           /\ \A a \in Account :
                /\ (Clean(S)[a] = None) = (cache[a] = None)
                /\ cache[a] # None => /\ Clean(S)[a].role = cache[a].role
                                      /\ Clean(S)[a].base = cache[a].base
                                      /\ Clean(S)[a].items = cache[a].items
                                      /\ Clean(S)[a].st = "-"
                /\ a \in Dirty \ S => Clean(S)[a].changed = {}
                /\ a \notin Dirty => Clean(S)[a] = cache[a]
<1>1. cache \in [Account -> Record \cup {None}]
  BY DEF DbTypes, TypeOK
<1>2. ASSUME NEW a \in Account
      PROVE  /\ Clean(S)[a] \in Record \cup {None}
             /\ (Clean(S)[a] = None) = (cache[a] = None)
             /\ cache[a] # None => /\ Clean(S)[a].role = cache[a].role
                                   /\ Clean(S)[a].base = cache[a].base
                                   /\ Clean(S)[a].items = cache[a].items
                                   /\ Clean(S)[a].st = "-"
             /\ a \in Dirty \ S => Clean(S)[a].changed = {}
             /\ a \notin Dirty => Clean(S)[a] = cache[a]
  <2>1. CASE a \in Dirty
    <3>1. PICK rec \in Record : rec = cache[a] /\ rec # None
      BY <1>1, <2>1 DEF Dirty
    <3>2. PICK ch \in SUBSET Field : ch = IF a \in S THEN rec.changed ELSE {}
      BY RecordIs
    <3>3. Clean(S)[a] = [rec EXCEPT !.st = "-", !.changed = ch]
      BY <2>1, <3>1, <3>2 DEF Clean
    <3>4. [rec EXCEPT !.st = "-"] = [role |-> rec.role, base |-> rec.base, items |-> rec.items,
                                     changed |-> rec.changed, st |-> "-"]
      BY DEF Record
    <3>5. Clean(S)[a] = [role |-> rec.role, base |-> rec.base, items |-> rec.items,
                         changed |-> ch, st |-> "-"]
      BY <3>3, <3>4
    <3>6. [role |-> rec.role, base |-> rec.base, items |-> rec.items, changed |-> ch, st |-> "-"] \in Record
      BY RecordIs DEF Record
    <3> QED BY <2>1, <3>1, <3>2, <3>5, <3>6, NoneIsNothing
  <2>2. CASE a \notin Dirty
    <3>1. Clean(S)[a] = cache[a]
      BY <2>2 DEF Clean
    <3>2. cache[a] # None => cache[a].st = "-"
      BY <2>2 DEF Dirty
    <3> QED BY <1>1, <2>2, <3>1, <3>2
  <2> QED BY <2>1, <2>2
<1>3. Clean(S) \in [Account -> Record \cup {None}]
  <2>1. Clean(S) = [a \in Account |-> Clean(S)[a]]
    BY DEF Clean
  <2> HIDE DEF Clean
  <2> QED BY <1>2, <2>1
<1> QED BY <1>2, <1>3

\* Lemma: what Update leaves of a record.
LEMMA UpdateKeeps ==
    ASSUME DbTypes, Update, NEW b \in Account
    PROVE  /\ cache' \in [Account -> Record \cup {None}]
           /\ Whole(b)' = Whole(b) /\ (cache'[b] = None) = (cache[b] = None)
           /\ cache[b] # None => cache'[b].role = cache[b].role /\ cache'[b].st = "-"
<1>1. PICK skipped \in SUBSET Account : cache' = Clean(skipped)
  BY UpdateDoes
<1> QED BY <1>1, CleanIs DEF Whole

\* Lemma: Update keeps the types.
LEMMA UpdateTypes ==
    ASSUME DbTypes, Update
    PROVE  DbTypes'
<1>1. PICK s \in Seq(Account), skipped \in SUBSET Account :
        /\ Cmds(s) \in Seq(Cmd) /\ writeQ' = writeQ \o Cmds(s) /\ lost' = lost \cup skipped
        /\ dropped' = (dropped \ BaseSent(Dirty \ skipped)) \cup BaseLeft(Dirty \ skipped)
        /\ cache' = Clean(skipped)
  BY UpdateDoes
<1>2. /\ at' = "msgs"
      /\ UNCHANGED <<link, clock, counter, byRole, readQ, readErr, resQ, table, second>>
  BY DEF Update, time, reads
<1>3. /\ writeQ \in Seq(Cmd) /\ lost \subseteq Account /\ dropped \subseteq Account
      /\ byRole \in [Role -> Account \cup {None}]
  BY DEF DbTypes, TypeOK
<1>4. writeQ' \in Seq(Cmd) /\ lost' \subseteq Account /\ dropped' \subseteq Account
  BY <1>1, <1>3 DEF BaseLeft, Dirty
<1>5. TypeOK'
  BY <1>1, <1>2, <1>4, CleanIs DEF DbTypes, TypeOK
<1>6. RecordsOK'
  <2>1. ASSUME NEW b \in Account
        PROVE  /\ cache'[b] # None => cache'[b].st = "-"
               /\ Whole(b)' => cache'[b].role # None
    <3>1. Whole(b) => cache[b] # None
      BY DEF Whole
    <3> QED BY <3>1, UpdateKeeps DEF DbTypes, RecordsOK
  <2>2. ASSUME NEW z \in Role, byRole'[z] # None
        PROVE  Whole(byRole[z])' /\ cache'[byRole'[z]].role = z
    <3>1. PICK d \in Account : d = byRole[z] /\ byRole'[z] = d
      BY <1>2, <1>3, <2>2
    <3>2. Whole(d) /\ cache[d] # None /\ cache[d].role = z
      BY <1>2, <2>2, <3>1 DEF DbTypes, RecordsOK, Whole
    <3>3. Whole(d)' /\ cache'[d].role = z
      BY <3>2, UpdateKeeps
    <3> QED BY <3>1, <3>3 DEF Whole
  <2> QED BY <2>1, <2>2 DEF RecordsOK
<1> QED BY <1>5, <1>6 DEF DbTypes

\* Lemma: empty maps and queues are typed.
LEMMA EmptyTypes ==
    /\ <<>> \in Seq(Account) /\ <<>> \in Seq(Result) /\ <<>> \in Seq(Cmd)
    /\ [a \in Account |-> None] \in [Account -> Record \cup {None}]
    /\ [a \in Account |-> None] \in [Account -> Row \cup {None}]
    /\ [r \in Role |-> None] \in [Role -> Account \cup {None}]
OBVIOUS

\* Lemma: every step keeps the types and the records consistent.
LEMMA TypesKept ==
    ASSUME DbTypes, [Next]_vars
    PROVE  DbTypes'
<1>1. /\ readQ \in Seq(Account) /\ resQ \in Seq(Result) /\ writeQ \in Seq(Cmd)
      /\ table \in Table /\ clock \in 0 .. MaxClock /\ readErr \in BOOLEAN
  BY DEF DbTypes, TypeOK, Table
<1>2. CASE UNCHANGED <<cache, byRole>> /\ TypeOK'
  BY <1>2 DEF DbTypes, RecordsOK, Whole
<1>3. ASSUME ConnectDB \/ OnDisconnect PROVE DbTypes'
  BY <1>2, <1>3 DEF ConnectDB, OnDisconnect, DbTypes, TypeOK, time, reads
<1>4. ASSUME NEW a \in Account, GetRole(a) PROVE DbTypes'
  BY <1>1, <1>2, <1>4 DEF GetRole, DbTypes, TypeOK, time
<1>5. ASSUME NEW a \in Account, CreateRole(a) PROVE DbTypes'
  BY <1>5, CreateTypes
<1>6. ASSUME NEW r \in Role, Change(r) PROVE DbTypes'
  BY <1>6, ChangeTypes
<1>7. ASSUME RunResults PROVE DbTypes'
  BY <1>7, ResultsTypes
<1>8. ASSUME Update PROVE DbTypes'
  BY <1>8, UpdateTypes
<1>9. ASSUME ReadOK PROVE DbTypes'
  <2>1. Head(readQ) \in Account /\ Tail(readQ) \in Seq(Account)
    BY <1>1, <1>9 DEF ReadOK
  <2>2. [account |-> Head(readQ), row |-> table[Head(readQ)], err |-> readErr] \in Result
    BY <1>1, <2>1 DEF Result, Table
  <2>3. resQ' \in Seq(Result) /\ readQ' \in Seq(Account) /\ readErr' = FALSE
    BY <1>1, <1>9, <2>1, <2>2 DEF ReadOK
  <2> QED BY <1>2, <1>9, <2>3 DEF ReadOK, DbTypes, TypeOK, time
<1>10. ASSUME ReadFail PROVE DbTypes'
  <2>1. Tail(readQ) \in Seq(Account)
    BY <1>1, <1>10 DEF ReadFail
  <2> QED BY <1>2, <1>10, <2>1 DEF ReadFail, DbTypes, TypeOK, time
<1>11. ASSUME WriteOK PROVE DbTypes'
  <2>1. Head(writeQ) \in Cmd /\ Tail(writeQ) \in Seq(Cmd)
    BY <1>1, <1>11 DEF WriteOK
  <2>2. Apply(table, Head(writeQ)) \in Table
    BY <1>1, <2>1, ApplyRow
  <2> QED BY <1>2, <1>11, <2>1, <2>2 DEF WriteOK, DbTypes, TypeOK, Table, time, reads
<1>12. ASSUME WriteFail PROVE DbTypes'
  <2>1. Head(writeQ) \in Cmd /\ Tail(writeQ) \in Seq(Cmd)
    BY <1>1, <1>12 DEF WriteFail
  <2>2. Head(writeQ).account \in Account
    BY <2>1 DEF Cmd
  <2> QED BY <1>2, <1>12, <2>1, <2>2 DEF WriteFail, DbTypes, TypeOK, time, reads
<1>13. ASSUME Tick PROVE DbTypes'
  <2>1. clock' \in 0 .. MaxClock
    BY <1>1, <1>13, DbConstants DEF Tick
  <2> QED BY <1>2, <1>13, <2>1 DEF Tick, DbTypes, TypeOK, reads
<1>14. ASSUME Restart PROVE DbTypes'
  <2>1. clock' \in 0 .. MaxClock /\ 0 \in 0 .. CounterRange - 1
    BY <1>1, <1>14, DbConstants DEF Restart
  <2>2. TypeOK'
    BY <1>1, <1>14, <2>1, EmptyTypes DEF Restart, TypeOK, Table
  <2>3. RecordsOK'
    BY <1>14 DEF Restart, RecordsOK, Whole
  <2> QED BY <2>2, <2>3 DEF DbTypes
<1>15. CASE UNCHANGED vars
  BY <1>15 DEF vars, DbTypes, TypeOK, RecordsOK, Whole
<1> QED BY <1>3, <1>4, <1>5, <1>6, <1>7, <1>8, <1>9, <1>10, <1>11, <1>12, <1>13, <1>14, <1>15
        DEF Next, Handlers, Change

\* Lemma: the types hold initially.
LEMMA InitTypes == Init => DbTypes
<1> SUFFICES ASSUME Init PROVE DbTypes
  OBVIOUS
<1>1. 0 \in 0 .. MaxClock /\ 0 \in 0 .. CounterRange - 1
  BY DbConstants
<1>2. TypeOK
  BY <1>1, EmptyTypes DEF Init, TypeOK
<1>3. RecordsOK
  BY DEF Init, RecordsOK, Whole
<1> QED BY <1>2, <1>3 DEF DbTypes

\* Theorem: the types of the db server hold in every state, and a role id
\* leads to a record that has it (mysql_records_manager.h), whatever ids are
\* generated.
THEOREM DbTyped == Spec => []DbTypes
<1>1. DbTypes /\ [Next]_vars => DbTypes'
  BY TypesKept
<1> QED BY <1>1, InitTypes, PTL DEF Spec

\* Theorem: TypeOK holds in every state.
THEOREM DbTypesHold == Spec => []TypeOK
<1>1. DbTypes => TypeOK
  BY DEF DbTypes
<1> QED BY <1>1, DbTyped, PTL

-----------------------------------------------------------------------------
(* Role ids.                                                               *)

\* Lemma: what Update adds to the queue.
LEMMA UpdateAt ==
    ASSUME DbTypes, Update
    PROVE  \A i \in DOMAIN writeQ' : \/ \E j \in DOMAIN writeQ : writeQ'[i] = writeQ[j]
                                     \/ \E b \in Dirty : writeQ'[i] = WriteCmd(b)
<1>1. PICK s \in Seq(Account) :
        /\ \A i \in DOMAIN s : s[i] \in Dirty
        /\ Cmds(s) \in Seq(Cmd) /\ writeQ' = writeQ \o Cmds(s)
  BY UpdateDoes
<1>2. writeQ \in Seq(Cmd) /\ Cmds(s) \in Seq(Cmd) /\ writeQ' = writeQ \o Cmds(s)
  BY <1>1 DEF DbTypes, TypeOK
<1>3. \A i \in DOMAIN writeQ' : \/ \E j \in DOMAIN writeQ : writeQ'[i] = writeQ[j]
                                \/ \E j \in DOMAIN Cmds(s) : writeQ'[i] = Cmds(s)[j]
  BY <1>2, ConcatAt, SMTT(30)
<1>4. \A j \in DOMAIN Cmds(s) : \E b \in Dirty : Cmds(s)[j] = WriteCmd(b)
  BY <1>1 DEF Cmds
<1> QED BY <1>3, <1>4

\* Lemma: an id that some part of the state still has was one before, except
\* the one that CreateRole makes.
LEMMA UsedBefore ==
    ASSUME DbTypes, [Next]_vars, NEW b \in Account, NEW r \in Role, Used(b, r)'
    PROVE  Used(b, r) \/ (CreateRole(b) /\ r = NewRoleId)
<1>1. /\ cache \in [Account -> Record \cup {None}] /\ table \in Table
      /\ writeQ \in Seq(Cmd) /\ resQ \in Seq(Result) /\ readQ \in Seq(Account)
  BY DEF DbTypes, TypeOK, Table
<1>2. ASSUME UNCHANGED <<cache, table, writeQ, resQ>> PROVE Used(b, r)
  BY <1>2 DEF Used
<1>3. ASSUME NEW a \in Account, CreateRole(a) PROVE Used(b, r) \/ (CreateRole(b) /\ r = NewRoleId)
  <2>1. UNCHANGED <<table, writeQ, resQ>> /\ cache' = [cache EXCEPT ![a] = Created(NewRoleId)]
    BY <1>3 DEF CreateRole, reads
  <2>5. Created(NewRoleId).role = NewRoleId
    BY DEF Created
  <2>2. CASE b = a /\ r = NewRoleId
    BY <1>3, <2>2
  <2>3. CASE b = a /\ r # NewRoleId
    BY <1>1, <2>1, <2>3, <2>5 DEF Used
  <2>4. CASE b # a
    <3>1. cache'[b] = cache[b]
      BY <1>1, <2>1, <2>4
    <3> QED BY <2>1, <3>1 DEF Used
  <2> QED BY <2>2, <2>3, <2>4
<1>4. ASSUME NEW z \in Role, Change(z) PROVE Used(b, r)
  <2>1. UNCHANGED <<table, writeQ, resQ>>
    BY <1>4, ChangeDoes
  <2>2. cache'[b] # None => cache[b] # None /\ cache'[b].role = cache[b].role
    BY <1>4, ChangeTypes DEF Altered, Whole
  <2> QED BY <2>1, <2>2 DEF Used
<1>5. ASSUME RunResults PROVE Used(b, r)
  <2>1. UNCHANGED <<table, writeQ>>
    BY <1>5 DEF RunResults
  <2>2. CASE resQ = <<>>
    BY <1>2, <1>5, <2>1, <2>2 DEF RunResults
  <2>3. CASE resQ # <<>>
    <3>1. PICK x \in Result : x = Head(resQ) /\ x = resQ[1] /\ 1 \in DOMAIN resQ
      BY <1>1, <2>3, TailAt
    <3>2. Callback(x) /\ resQ' = Tail(resQ)
      BY <1>5, <2>3, <3>1 DEF RunResults
    <3>3. \A i \in DOMAIN resQ' : \E j \in DOMAIN resQ : resQ'[i] = resQ[j]
      BY <1>1, <2>3, <3>2, TailAt
    <3>4. CASE cache'[b] # None /\ cache'[b].role = r
      <4>1. CASE cache'[b] = cache[b]
        BY <3>4, <4>1 DEF Used
      <4>2. CASE cache'[b] # cache[b]
        <5>1. x.row # None /\ x.account \in Account
          BY <3>2, <4>2 DEF Callback, Result
        <5>2. PICK rec : cache' = [cache EXCEPT ![x.account] = rec] /\ rec.role \in {None, x.row.role}
          BY <3>2, <4>2 DEF Callback, Load, HalfLoad, Read
        <5>3. b = x.account /\ cache'[b] = rec
          BY <1>1, <4>2, <5>1, <5>2
        <5>4. x.row.role = r
          BY <3>4, <5>2, <5>3, NoneIsNothing
        <5> QED BY <3>1, <5>1, <5>3, <5>4 DEF Used
      <4> QED BY <4>1, <4>2
    <3>5. CASE ~(cache'[b] # None /\ cache'[b].role = r)
      BY <2>1, <3>3, <3>5 DEF Used
    <3> QED BY <3>4, <3>5
  <2> QED BY <2>2, <2>3
<1>6. ASSUME Update PROVE Used(b, r)
  <2>1. UNCHANGED <<table, resQ>>
    BY <1>6 DEF Update, reads
  <2>2. (cache'[b] = None) = (cache[b] = None) /\ (cache[b] # None => cache'[b].role = cache[b].role)
    BY <1>6, UpdateKeeps
  <2>3. \A i \in DOMAIN writeQ' : \/ \E j \in DOMAIN writeQ : writeQ'[i] = writeQ[j]
                                  \/ \E d \in Dirty : writeQ'[i] = WriteCmd(d)
    BY <1>6, UpdateAt
  <2>4. ASSUME NEW d \in Dirty, WriteCmd(d).account = b, WriteCmd(d).role = r
        PROVE  cache[b] # None /\ cache[b].role = r
    BY <2>4 DEF WriteCmd, Dirty
  <2> QED BY <2>1, <2>2, <2>3, <2>4 DEF Used
<1>7. ASSUME ReadOK PROVE Used(b, r)
  <2> DEFINE e == [account |-> Head(readQ), row |-> table[Head(readQ)], err |-> readErr]
  <2>1. UNCHANGED <<cache, table, writeQ>> /\ resQ' = Append(resQ, e)
    BY <1>7 DEF ReadOK
  <2>2. e.account = Head(readQ) /\ e.row = table[Head(readQ)]
    OBVIOUS
  <2> HIDE DEF e
  <2>3. \A i \in DOMAIN resQ' : resQ'[i] = e \/ \E j \in DOMAIN resQ : resQ'[i] = resQ[j]
    BY <1>1, <2>1, AppendAt
  <2> QED BY <2>1, <2>2, <2>3 DEF Used
<1>8. ASSUME WriteOK PROVE Used(b, r)
  <2>1. PICK c \in Cmd : c = Head(writeQ) /\ c = writeQ[1] /\ 1 \in DOMAIN writeQ
    BY <1>1, <1>8, TailAt DEF WriteOK
  <2>2. UNCHANGED <<cache, resQ>> /\ writeQ' = Tail(writeQ) /\ table' = Apply(table, c)
    BY <1>8, <2>1 DEF WriteOK, reads
  <2>3. \A i \in DOMAIN writeQ' : \E j \in DOMAIN writeQ : writeQ'[i] = writeQ[j]
    BY <1>1, <1>8, TailAt DEF WriteOK
  <2>4. CASE table'[b] # None /\ table'[b].role = r
    <3>1. CASE c.op = "INSERT"
      <4>1. table' = IF table[c.account] = None
                     THEN [table EXCEPT ![c.account] = Inserted(c)] ELSE table
        BY <2>2, <3>1 DEF Apply
      <4>2. table'[b] = table[b] \/ (b = c.account /\ table'[b] = Inserted(c))
        BY <1>1, <4>1 DEF Table
      <4>3. Inserted(c).role = c.role
        BY DEF Inserted
      <4> QED BY <2>1, <2>4, <4>2, <4>3 DEF Used
    <3>2. CASE c.op # "INSERT"
      <4>1. table'[b] = IF table[b] # None /\ table[b].role = c.role
                        THEN Updated(table[b], c) ELSE table[b]
        BY <2>2, <3>2 DEF Apply
      <4>2. Updated(table[b], c).role = table[b].role
        BY DEF Updated
      <4>3. table[b] # None /\ table[b].role = r
        BY <2>4, <4>1, <4>2
      <4> QED BY <4>3 DEF Used
    <3> QED BY <3>1, <3>2
  <2>5. CASE ~(table'[b] # None /\ table'[b].role = r)
    BY <2>2, <2>3, <2>5 DEF Used
  <2> QED BY <2>4, <2>5
<1>9. ASSUME WriteFail PROVE Used(b, r)
  <2>1. UNCHANGED <<cache, table, resQ>>
    BY <1>9 DEF WriteFail, reads
  <2>2. \A i \in DOMAIN writeQ' : \E j \in DOMAIN writeQ : writeQ'[i] = writeQ[j]
    BY <1>1, <1>9, TailAt DEF WriteFail
  <2> QED BY <2>1, <2>2 DEF Used
<1>10. ASSUME Restart PROVE Used(b, r)
  <2>1. table' = table /\ cache'[b] = None /\ DOMAIN writeQ' = {} /\ DOMAIN resQ' = {}
    BY <1>10 DEF Restart
  <2> QED BY <2>1 DEF Used
<1>11. ASSUME ConnectDB \/ OnDisconnect \/ ReadFail \/ Tick \/ (\E a \in Account : GetRole(a))
              \/ UNCHANGED vars
       PROVE  Used(b, r)
  BY <1>2, <1>11 DEF ConnectDB, OnDisconnect, ReadFail, Tick, GetRole, vars, reads
<1> QED BY <1>3, <1>4, <1>5, <1>6, <1>7, <1>8, <1>9, <1>10, <1>11 DEF Next, Handlers, Change

\* Lemma: the records that are loaded are finitely many.
LEMMA LoadedFinite ==
    /\ IsFiniteSet(Loaded) /\ Cardinality(Loaded) \in Nat /\ Loaded \subseteq Account
    /\ Loaded # Account => Cardinality(Loaded) < Cardinality(Account)
<1>1. Loaded \subseteq Account
  BY DEF Loaded
<1> HIDE DEF Loaded
<1>2. IsFiniteSet(Loaded) /\ Cardinality(Loaded) <= Cardinality(Account)
      /\ (Cardinality(Loaded) = Cardinality(Account) => Loaded = Account)
  BY <1>1, DbConstants, FS_Subset
<1>3. Cardinality(Loaded) \in Nat /\ Cardinality(Account) \in Nat
  BY <1>2, DbConstants, FS_CardinalityType
<1> QED BY <1>1, <1>2, <1>3

\* Lemma: under Bounds the id that CreateRole makes is new.
LEMMA NewRoleIsNew ==
    ASSUME Bounds, DbTypes, Fresh, NEW a \in Account, cache[a] = None
    PROVE  /\ NewRoleId = <<clock, counter>>
           /\ \A b \in Account : ~Used(b, NewRoleId)
<1>1. /\ clock \in Nat /\ TimeRange \in Nat /\ clock < TimeRange /\ counter \in Nat
  BY DbConstants DEF DbTypes, TypeOK, Bounds
<1>2. clock % TimeRange = clock
  BY <1>1
<1>3. NewRoleId = <<clock, counter>> /\ NewRoleId \in Role
  BY <1>2, NewRoleIsRole DEF NewRoleId, DbTypes
<1>4. Loaded # Account
  BY DEF Loaded
<1>5. ASSUME NEW b \in Account, Used(b, NewRoleId) PROVE FALSE
  <2>1. NewRoleId[1] = clock /\ NewRoleId[2] = counter
    BY <1>3
  <2>2. counter < counter
    BY <1>3, <1>4, <1>5, <2>1 DEF Fresh
  <2> QED BY <1>1, <2>2
<1> QED BY <1>3, <1>5

\* Lemma: what CreateRole adds to the ids in use.
LEMMA CreateUses ==
    ASSUME DbTypes, NEW a \in Account, CreateRole(a),
           NEW b \in Account, NEW r \in Role, Used(b, r)'
    PROVE  Used(b, r) \/ (b = a /\ r = NewRoleId)
<1>1. cache \in [Account -> Record \cup {None}]
  BY DEF DbTypes, TypeOK
<1>2. Used(b, r) \/ (CreateRole(b) /\ r = NewRoleId)
  <2>1. Next
    BY DEF Next, Handlers
  <2> QED BY <2>1, UsedBefore
<1>3. CASE CreateRole(b) /\ r = NewRoleId /\ b # a
  <2>1. cache[b] = None /\ cache'[b] # None
    <3>1. cache[b] = None /\ cache' = [cache EXCEPT ![b] = Created(NewRoleId)]
      BY <1>3 DEF CreateRole
    <3>2. Created(NewRoleId) \in Record
      BY NewRoleIsRole, CreatedIs DEF DbTypes
    <3> QED BY <1>1, <3>1, <3>2, NoneIsNothing
  <2>2. cache'[b] = cache[b]
    BY <1>1, <1>3 DEF CreateRole
  <2> QED BY <2>1, <2>2
<1> QED BY <1>2, <1>3

\* Lemma: ids stay unique when new ones are unused.
LEMMA UniqueKept ==
    ASSUME DbTypes, Unique, [Next]_vars, NewIdsUnused
    PROVE  Unique'
<1> SUFFICES ASSUME NEW b \in Account, NEW d \in Account, NEW r \in Role, Used(b, r)', Used(d, r)'
    PROVE  b = d
  BY DEF Unique
<1>1. ASSUME NEW a \in Account, CreateRole(a) PROVE b = d
  <2>1. \A e \in Account : ~Used(e, NewRoleId)
    BY <1>1 DEF NewIdsUnused
  <2>2. Used(b, r) \/ (b = a /\ r = NewRoleId)
    BY <1>1, CreateUses
  <2>3. Used(d, r) \/ (d = a /\ r = NewRoleId)
    BY <1>1, CreateUses
  <2> QED BY <2>1, <2>2, <2>3 DEF Unique
<1>2. CASE ~\E a \in Account : CreateRole(a)
  <2>1. Used(b, r) /\ Used(d, r)
    BY <1>2, UsedBefore
  <2> QED BY <2>1 DEF Unique
<1> QED BY <1>1, <1>2

\* Lemma: under Bounds the ids in use stay older than the next one.
LEMMA FreshKept ==
    ASSUME Bounds, DbTypes, DbTypes', Fresh, [Next]_vars
    PROVE  Fresh'
<1>1. /\ clock \in Nat /\ counter \in Nat /\ clock' \in Nat /\ counter' \in Nat
      /\ cache \in [Account -> Record \cup {None}]
  BY DbConstants DEF DbTypes, TypeOK
<1>2. ASSUME NEW a \in Account, CreateRole(a) PROVE Fresh'
  <2>1. /\ NewRoleId = <<clock, counter>> /\ cache[a] = None /\ clock' = clock /\ counter' = NextCounter
        /\ cache' = [cache EXCEPT ![a] = Created(NewRoleId)]
    BY <1>2, NewRoleIsNew DEF CreateRole
  <2>2. NewRoleId \in Role /\ NewRoleId[1] = clock /\ NewRoleId[2] = counter
    BY <2>1, NewRoleIsRole DEF DbTypes
  <2>3. ASSUME NEW b \in Account, NEW r \in Role, Used(b, r)'
        PROVE  Used(b, r) \/ (b = a /\ r = NewRoleId)
    BY <1>2, <2>3, CreateUses
  <2>5. \A b \in Account, r \in Role : Used(b, r)' => r[1] <= clock'
    BY <1>1, <2>1, <2>2, <2>3 DEF Fresh
  <2>6. Loaded' = Loaded \cup {a} /\ a \notin Loaded
    <3>1. Created(NewRoleId) \in Record
      BY <2>2, CreatedIs
    <3> QED BY <1>1, <2>1, <3>1, NoneIsNothing DEF Loaded
  <2>7. Loaded # Account
    BY <2>6
  <2>8. Cardinality(Loaded') = Cardinality(Loaded) + 1
    <3> HIDE DEF Loaded
    <3> QED BY <2>6, LoadedFinite, FS_AddElement
  <2>9. ASSUME Loaded' # Account
        PROVE  counter' = counter + 1 /\ counter' <= Cardinality(Loaded')
    <3>1. counter <= Cardinality(Loaded) /\ Cardinality(Loaded) \in Nat
      BY <2>7, LoadedFinite DEF Fresh
    <3>2. Cardinality(Loaded') < Cardinality(Account)
      <4>1. Loaded' \subseteq Account /\ Loaded' # Account
        BY <2>6, <2>9, LoadedFinite
      <4> HIDE DEF Loaded
      <4>2. IsFiniteSet(Loaded') /\ Cardinality(Loaded') <= Cardinality(Account)
            /\ (Cardinality(Loaded') = Cardinality(Account) => Loaded' = Account)
        BY <4>1, DbConstants, FS_Subset
      <4>3. Cardinality(Loaded') \in Nat /\ Cardinality(Account) \in Nat
        BY <4>2, DbConstants, FS_CardinalityType
      <4> QED BY <4>1, <4>2, <4>3
    <3>3. Cardinality(Account) <= CounterRange /\ CounterRange \in Nat /\ Cardinality(Account) \in Nat
      BY DbConstants, FS_CardinalityType DEF Bounds
    <3>4. counter + 1 < CounterRange
      BY <1>1, <2>8, <3>1, <3>2, <3>3
    <3>5. (counter + 1) % CounterRange = counter + 1
      BY <1>1, <3>3, <3>4
    <3> QED BY <1>1, <2>1, <2>8, <3>1, <3>5 DEF NextCounter
  <2>10. ASSUME Loaded' # Account, NEW b \in Account, NEW r \in Role, Used(b, r)', r[1] = clock'
         PROVE  r[2] < counter'
    <3>1. counter' = counter + 1 /\ r[2] \in Nat
      BY <2>9, <2>10, DbConstants DEF Role
    <3>2. CASE Used(b, r)
      <4>1. r[2] < counter
        BY <2>1, <2>7, <2>10, <3>2 DEF Fresh
      <4> QED BY <1>1, <3>1, <4>1
    <3>3. CASE r = NewRoleId
      BY <1>1, <2>2, <3>1, <3>3
    <3> QED BY <2>3, <2>10, <3>2, <3>3
  <2> QED BY <2>5, <2>9, <2>10 DEF Fresh
<1>3. CASE ~\E a \in Account : CreateRole(a)
  <2>1. ASSUME NEW b \in Account, NEW r \in Role, Used(b, r)' PROVE Used(b, r)
    BY <1>3, <2>1, UsedBefore
  <2>3. \A b \in Account, r \in Role : Used(b, r)' => r[1] <= clock /\ r[1] \in Nat
    BY <2>1, DbConstants DEF Fresh, Role
  <2>4. CASE clock' = clock + 1 /\ counter' = 0
    <3>1. \A b \in Account, r \in Role : Used(b, r)' => r[1] <= clock' /\ r[1] # clock'
      BY <1>1, <2>3, <2>4
    <3>2. Cardinality(Loaded)' \in Nat
      <4>1. Loaded' \subseteq Account
        BY DEF Loaded
      <4> HIDE DEF Loaded
      <4> QED BY <4>1, DbConstants, FS_Subset, FS_CardinalityType
    <3>3. counter' <= Cardinality(Loaded)'
      BY <2>4, <3>2
    <3> QED BY <3>1, <3>3 DEF Fresh
  <2>5. CASE /\ clock' = clock \/ clock' = clock + 1
             /\ counter' = counter /\ Loaded \subseteq Loaded'
    <3>1. \A b \in Account, r \in Role : Used(b, r)' => r[1] <= clock' /\ (r[1] = clock' => clock' = clock)
      BY <1>1, <2>3, <2>5
    <3>2. Loaded' \subseteq Account
      BY DEF Loaded
    <3>3. Loaded' # Account => Loaded # Account
      BY <2>5, <3>2
    <3>4. Cardinality(Loaded) <= Cardinality(Loaded') /\ Cardinality(Loaded') \in Nat
          /\ Cardinality(Loaded) \in Nat
      <4> HIDE DEF Loaded
      <4>1. IsFiniteSet(Loaded')
        BY <3>2, DbConstants, FS_Subset
      <4>2. Cardinality(Loaded) <= Cardinality(Loaded')
        BY <2>5, <4>1, FS_Subset
      <4> QED BY <4>1, <4>2, LoadedFinite, FS_CardinalityType
    <3>5. Loaded' # Account => counter' <= Cardinality(Loaded')
      BY <1>1, <2>5, <3>3, <3>4 DEF Fresh
    <3>6. ASSUME Loaded' # Account, NEW b \in Account, NEW r \in Role, Used(b, r)', r[1] = clock'
          PROVE  r[2] < counter'
      BY <2>1, <2>5, <3>1, <3>3, <3>6 DEF Fresh
    <3> QED BY <3>1, <3>5, <3>6 DEF Fresh
  <2>6. CASE Restart
    BY <2>4, <2>6 DEF Restart
  <2>7. CASE ~Restart
    <3>1. CASE UNCHANGED cache /\ counter' = counter /\ (clock' = clock \/ clock' = clock + 1)
      BY <2>5, <3>1 DEF Loaded
    <3>2. ASSUME NEW r \in Role, Change(r) PROVE Fresh'
      <4>1. Loaded' = Loaded
        BY <3>2, ChangeTypes DEF Loaded, Whole
      <4> QED BY <2>5, <3>2, <4>1, ChangeDoes
    <3>3. ASSUME RunResults PROVE Fresh'
      <4>1. \A b \in Account : cache[b] # None => cache'[b] # None
        <5>1. CASE cache' = cache
          BY <5>1
        <5>2. CASE cache' # cache
          <6>1. PICK b \in Account : cache[b] = None /\ \E rec : cache' = [cache EXCEPT ![b] = rec]
            BY <3>3, <5>2, ResultTaken
          <6> QED BY <1>1, <6>1
        <5> QED BY <5>1, <5>2
      <4>2. Loaded \subseteq Loaded'
        BY <4>1 DEF Loaded
      <4> QED BY <2>5, <3>3, <4>2 DEF RunResults, time
    <3>4. ASSUME Update PROVE Fresh'
      <4>1. Loaded' = Loaded
        BY <3>4, UpdateKeeps DEF Loaded
      <4> QED BY <2>5, <3>4, <4>1 DEF Update, time
    <3>5. ASSUME \/ ConnectDB \/ OnDisconnect \/ ReadOK \/ ReadFail \/ WriteOK \/ WriteFail
                 \/ Tick \/ (\E a \in Account : GetRole(a)) \/ UNCHANGED vars
          PROVE  Fresh'
      BY <3>1, <3>5 DEF ConnectDB, OnDisconnect, ReadOK, ReadFail, WriteOK, WriteFail, Tick,
                        GetRole, vars, time
    <3> QED BY <1>3, <2>7, <3>2, <3>3, <3>4, <3>5 DEF Next, Handlers, Change
  <2> QED BY <2>6, <2>7
<1> QED BY <1>2, <1>3

\* Lemma: a record whose role id no record has is found by it, once it is in
\* the maps.
LEMMA FoundAdded ==
    ASSUME DbTypes, Found, NEW a \in Account, cache[a] = None, NEW rec \in Record, rec.role \in Role,
           byRole[rec.role] = None,
           cache' = [cache EXCEPT ![a] = rec], byRole' = ByRoleInserted(rec.role, a)
    PROVE  Found'
<1>1. cache \in [Account -> Record \cup {None}] /\ byRole \in [Role -> Account \cup {None}]
  BY DEF DbTypes, TypeOK
<1>2. cache'[a] = rec /\ \A b \in Account : b # a => cache'[b] = cache[b]
  BY <1>1
<1>3. byRole'[rec.role] = a /\ \A r \in Role : r # rec.role => byRole'[r] = byRole[r]
  BY <1>1 DEF ByRoleInserted
<1>4. ASSUME NEW b \in Account, Whole(b)'
      PROVE  byRole'[cache'[b].role] = b
  <2>1. CASE b = a
    BY <1>2, <1>3, <2>1
  <2>2. CASE b # a
    <3>1. cache'[b] = cache[b] /\ Whole(b)
      BY <1>2, <1>4, <2>2 DEF Whole
    <3>2. cache[b] \in Record /\ cache[b].role # None /\ byRole[cache[b].role] = b
      BY <1>1, <3>1 DEF Found, DbTypes, RecordsOK, Whole
    <3>4. cache[b].role \in Role
      BY <3>2, RecordIs
    <3>3. cache[b].role # rec.role
      BY <3>2, NoneIsNothing
    <3> QED BY <1>3, <3>1, <3>2, <3>3, <3>4
  <2> QED BY <2>1, <2>2
<1> QED BY <1>4 DEF Found

\* Lemma: a step that leaves the roles of the records alone keeps Found.
LEMMA FoundFramed ==
    ASSUME Found, byRole' = byRole,
           \A b \in Account : Whole(b)' => Whole(b) /\ cache'[b].role = cache[b].role
    PROVE  Found'
BY DEF Found

\* Lemma: Found is kept when new ids are unused: no two records ask for one
\* place in the map by role id.
LEMMA FoundKept ==
    ASSUME DbTypes, IdsInv, [Next]_vars, NewIdsUnused
    PROVE  Found'
<1>1. /\ cache \in [Account -> Record \cup {None}] /\ byRole \in [Role -> Account \cup {None}]
  BY DEF DbTypes, TypeOK
<1>2. Unique /\ Found
  BY DEF IdsInv
<1>3. ASSUME NEW r \in Role, byRole[r] # None PROVE byRole[r] \in Account /\ cache[byRole[r]] # None /\ Used(byRole[r], r)
  BY <1>1, <1>3 DEF DbTypes, RecordsOK, Used, Whole
<1>4. ASSUME NEW a \in Account, CreateRole(a) PROVE Found'
  <2>1. NewRoleId \in Role
    BY NewRoleIsRole DEF DbTypes
  <2>2. PICK rec \in Record : rec = Created(NewRoleId) /\ rec.role = NewRoleId
    BY <2>1, CreatedIs
  <2>3. cache[a] = None /\ cache' = [cache EXCEPT ![a] = rec] /\ byRole' = ByRoleInserted(rec.role, a)
    BY <1>4, <2>2 DEF CreateRole
  <2>4. byRole[NewRoleId] = None
    BY <1>3, <1>4, <2>1 DEF NewIdsUnused
  <2> QED BY <1>2, <2>1, <2>2, <2>3, <2>4, FoundAdded
<1>5. ASSUME RunResults PROVE Found'
  <2>1. CASE UNCHANGED <<cache, byRole>>
    BY <1>2, <2>1 DEF Found, Whole
  <2>2. ASSUME NEW x \in Result, x = resQ[1], 1 \in DOMAIN resQ, x.account \in Account,
               cache[x.account] = None,
               NEW role, NEW base, cache' = [cache EXCEPT ![x.account] = HalfRead(role, base)],
               byRole' = byRole
        PROVE  Found'
    <3>1. cache'[x.account] = HalfRead(role, base) /\ \A b \in Account : b # x.account => cache'[b] = cache[b]
      BY <1>1, <2>2
    <3>2. ~Whole(x.account)'
      BY <3>1 DEF Whole, HalfRead
    <3> QED BY <1>2, <2>2, <3>1, <3>2, FoundFramed DEF Whole
  <2>3. ASSUME NEW x \in Result, x = resQ[1], 1 \in DOMAIN resQ, x.account \in Account,
               cache[x.account] = None, x.row # None, x.row \in Row,
               cache' = [cache EXCEPT ![x.account] = Read(x.row)],
               byRole' = ByRoleInserted(x.row.role, x.account)
        PROVE  Found'
    <3>1. PICK rec \in Record : rec = Read(x.row) /\ rec.role \in Role /\ rec.role = x.row.role
      BY <2>3, ReadIs
    <3>2. cache' = [cache EXCEPT ![x.account] = rec] /\ byRole' = ByRoleInserted(rec.role, x.account)
      BY <2>3, <3>1
    <3>3. Used(x.account, x.row.role)
      BY <2>3 DEF Used
    <3>4. byRole[x.row.role] = None
      BY <1>2, <1>3, <2>3, <3>1, <3>3 DEF Unique
    <3> QED BY <1>2, <2>3, <3>1, <3>2, <3>4, FoundAdded
  <2>4. CASE ~UNCHANGED <<cache, byRole>>
    <3>1. PICK x \in Result :
            /\ x = resQ[1] /\ 1 \in DOMAIN resQ /\ x.account \in Account
            /\ cache[x.account] = None /\ x.row # None /\ x.row \in Row
            /\ \/ /\ \E role \in {None, x.row.role}, base \in Val :
                        cache' = [cache EXCEPT ![x.account] = HalfRead(role, base)]
                  /\ byRole' = byRole
               \/ /\ cache' = [cache EXCEPT ![x.account] = Read(x.row)]
                  /\ byRole' = ByRoleInserted(x.row.role, x.account)
      BY <1>5, <2>4, ResultTaken
    <3> QED BY <2>2, <2>3, <3>1
  <2> QED BY <2>1, <2>4
<1>6. ASSUME NEW r \in Role, Change(r) PROVE Found'
  <2>1. byRole' = byRole
    BY <1>6, ChangeDoes
  <2>2. \A b \in Account : Whole(b)' => Whole(b) /\ cache'[b].role = cache[b].role
    BY <1>6, ChangeTypes DEF Altered, Whole
  <2> QED BY <1>2, <2>1, <2>2, FoundFramed
<1>7. ASSUME Update PROVE Found'
  <2>1. byRole' = byRole
    BY <1>7 DEF Update
  <2>2. \A b \in Account : Whole(b) => cache[b] # None
    BY DEF Whole
  <2>3. \A b \in Account : Whole(b)' => Whole(b) /\ cache'[b].role = cache[b].role
    BY <1>7, <2>2, UpdateKeeps
  <2> QED BY <1>2, <2>1, <2>3, FoundFramed
<1>8. ASSUME Restart PROVE Found'
  BY <1>8 DEF Restart, Found, Whole
<1>9. ASSUME \/ ConnectDB \/ OnDisconnect \/ ReadOK \/ ReadFail \/ WriteOK \/ WriteFail
             \/ Tick \/ (\E a \in Account : GetRole(a)) \/ UNCHANGED vars
      PROVE  Found'
  <2>1. cache' = cache /\ byRole' = byRole
    BY <1>9 DEF ConnectDB, OnDisconnect, ReadOK, ReadFail, WriteOK, WriteFail, Tick, GetRole, vars
  <2> QED BY <1>2, <2>1, FoundFramed DEF Whole
<1> QED BY <1>4, <1>5, <1>6, <1>7, <1>8, <1>9 DEF Next, Handlers, Change

\* Lemma: a record stays loaded until a restart.
LEMMA StaysLoaded ==
    ASSUME DbTypes, [Next]_vars, ~Restart, NEW b \in Account, cache[b] # None
    PROVE  cache'[b] # None
<1>1. cache \in [Account -> Record \cup {None}]
  BY DEF DbTypes, TypeOK
<1>2. ASSUME NEW a \in Account, CreateRole(a) PROVE cache'[b] # None
  BY <1>1, <1>2 DEF CreateRole
<1>3. ASSUME NEW r \in Role, Change(r) PROVE cache'[b] # None
  BY <1>3, ChangeTypes
<1>4. ASSUME RunResults PROVE cache'[b] # None
  BY <1>1, <1>4, ResultTaken
<1>5. ASSUME Update PROVE cache'[b] # None
  BY <1>5, UpdateKeeps
<1>6. ASSUME \/ ConnectDB \/ OnDisconnect \/ ReadOK \/ ReadFail \/ WriteOK \/ WriteFail
             \/ Tick \/ (\E a \in Account : GetRole(a)) \/ UNCHANGED vars
      PROVE  cache'[b] # None
  BY <1>6 DEF ConnectDB, OnDisconnect, ReadOK, ReadFail, WriteOK, WriteFail, Tick, GetRole, vars
<1> QED BY <1>2, <1>3, <1>4, <1>5, <1>6 DEF Next, Handlers, Change

\* Lemma: a command in the queue spares the rows of all other accounts, in
\* the table as it is and as it was when the command was queued.
LEMMA OthersSpared ==
    ASSUME DbTypes, Unique, NEW a \in Account, NEW i \in DOMAIN writeQ, writeQ[i].account # a
    PROVE  Spares(writeQ[i], a, table[a])
<1>1. writeQ[i] \in Cmd /\ table \in Table
  BY DEF DbTypes, TypeOK, Table
<1>2. PICK c \in Cmd : c = writeQ[i]
  BY <1>1
<1>3. c.account \in Account /\ c.role \in Role
  BY CmdIs
<1>4. ASSUME table[a] # None, table[a].role = c.role PROVE FALSE
  <2>1. Used(a, c.role)
    BY <1>4 DEF Used
  <2>2. Used(c.account, c.role)
    BY <1>2 DEF Used
  <2> QED BY <1>2, <1>3, <2>1, <2>2 DEF Unique
<1> QED BY <1>2, <1>4 DEF Spares

\* Lemma: Idle is kept.
LEMMA IdleKept ==
    ASSUME DbTypes, IdsInv, [Next]_vars
    PROVE  Idle'
<1>1. /\ table \in Table /\ writeQ \in Seq(Cmd) /\ resQ \in Seq(Result) /\ readQ \in Seq(Account)
  BY DEF DbTypes, TypeOK, Table
<1>2. Unique /\ Idle
  BY DEF IdsInv
<1>3. CASE Restart
  <2>1. DOMAIN writeQ' = {} /\ DOMAIN resQ' = {}
    BY <1>3 DEF Restart
  <2> QED BY <2>1 DEF Idle
<1>4. CASE ~Restart
  <2> SUFFICES ASSUME NEW a \in Account, cache'[a] = None
      PROVE  /\ \A i \in DOMAIN writeQ' : writeQ'[i].account # a
             /\ \A i \in DOMAIN resQ' : resQ'[i].account = a /\ resQ'[i].row # None
                                            => resQ'[i].row = table'[a]
    BY DEF Idle
  <2>1. cache[a] = None
    BY <1>4, StaysLoaded
  <2>2. /\ \A i \in DOMAIN writeQ : writeQ[i].account # a
        /\ \A i \in DOMAIN resQ : resQ[i].account = a /\ resQ[i].row # None => resQ[i].row = table[a]
    BY <1>2, <2>1 DEF Idle
  <2> DEFINE Goal == /\ \A i \in DOMAIN writeQ' : writeQ'[i].account # a
                     /\ \A i \in DOMAIN resQ' : resQ'[i].account = a /\ resQ'[i].row # None
                                                    => resQ'[i].row = table'[a]
  <2>3. ASSUME UNCHANGED <<writeQ, resQ, table>> PROVE Goal
    BY <2>2, <2>3
  <2>4. ASSUME RunResults PROVE Goal
    <3>1. UNCHANGED <<table, writeQ>>
      BY <2>4 DEF RunResults
    <3>2. \A i \in DOMAIN resQ' : \E j \in DOMAIN resQ : resQ'[i] = resQ[j]
      <4>1. CASE resQ = <<>>
        BY <2>4, <4>1 DEF RunResults
      <4>2. CASE resQ # <<>>
        BY <1>1, <2>4, <4>2, TailAt DEF RunResults
      <4> QED BY <4>1, <4>2
    <3> QED BY <2>2, <3>1, <3>2
  <2>5. ASSUME Update PROVE Goal
    <3>1. UNCHANGED <<table, resQ>>
      BY <2>5 DEF Update, reads
    <3>2. \A i \in DOMAIN writeQ' : \/ \E j \in DOMAIN writeQ : writeQ'[i] = writeQ[j]
                                    \/ \E b \in Dirty : writeQ'[i] = WriteCmd(b)
      BY <2>5, UpdateAt
    <3>3. \A b \in Dirty : WriteCmd(b).account # a
      BY <2>1 DEF WriteCmd, Dirty
    <3> QED BY <2>2, <3>1, <3>2, <3>3
  <2>6. ASSUME ReadOK PROVE Goal
    <3> DEFINE e == [account |-> Head(readQ), row |-> table[Head(readQ)], err |-> readErr]
    <3>1. UNCHANGED <<table, writeQ>> /\ resQ' = Append(resQ, e)
      BY <2>6 DEF ReadOK
    <3>2. e.account = a => e.row = table[a]
      OBVIOUS
    <3> HIDE DEF e
    <3>3. \A i \in DOMAIN resQ' : resQ'[i] = e \/ \E j \in DOMAIN resQ : resQ'[i] = resQ[j]
      BY <1>1, <3>1, AppendAt
    <3> QED BY <2>2, <3>1, <3>2, <3>3
  <2>7. ASSUME WriteOK PROVE Goal
    <3>1. /\ resQ' = resQ /\ writeQ # <<>> /\ table' = Apply(table, Head(writeQ))
          /\ writeQ' = Tail(writeQ)
      BY <2>7 DEF WriteOK, reads
    <3>2. /\ \A i \in DOMAIN writeQ' : \E j \in DOMAIN writeQ : writeQ'[i] = writeQ[j]
          /\ 1 \in DOMAIN writeQ /\ Head(writeQ) = writeQ[1] /\ Head(writeQ) \in Cmd
      BY <1>1, <3>1, TailAt
    <3>3. Spares(Head(writeQ), a, table[a])
      BY <1>2, <2>2, <3>2, OthersSpared
    <3>4. table'[a] = table[a]
      BY <1>1, <3>1, <3>2, <3>3, ApplyRow
    <3> QED BY <2>2, <3>1, <3>2, <3>4
  <2>8. ASSUME WriteFail PROVE Goal
    <3>1. UNCHANGED <<table, resQ>>
      BY <2>8 DEF WriteFail, reads
    <3>2. \A i \in DOMAIN writeQ' : \E j \in DOMAIN writeQ : writeQ'[i] = writeQ[j]
      BY <1>1, <2>8, TailAt DEF WriteFail
    <3> QED BY <2>2, <3>1, <3>2
  <2>9. ASSUME \/ ConnectDB \/ OnDisconnect \/ ReadFail \/ Tick \/ (\E r \in Role : Change(r))
               \/ (\E d \in Account : GetRole(d) \/ CreateRole(d)) \/ UNCHANGED vars
        PROVE  Goal
    <3>1. UNCHANGED <<writeQ, resQ, table>>
      BY <2>9 DEF ConnectDB, OnDisconnect, ReadFail, Tick, Change, SetRoleData, AddItem,
                    GetRole, CreateRole, vars, reads
    <3> QED BY <2>3, <3>1
  <2>10. Goal
    <3> HIDE DEF Goal
    <3> QED BY <1>4, <2>4, <2>5, <2>6, <2>7, <2>8, <2>9 DEF Next, Handlers, Change
  <2> QED BY <2>10
<1> QED BY <1>3, <1>4

\* Lemma: what is proved of the role ids holds initially.
LEMMA InitIds == Init => IdsInv /\ Fresh
<1> SUFFICES ASSUME Init PROVE IdsInv /\ Fresh
  OBVIOUS
<1>1. \A a \in Account, r \in Role : ~Used(a, r)
  <2>1. \A a \in Account : cache[a] = None /\ table[a] = None
    BY DEF Init
  <2>2. DOMAIN writeQ = {} /\ DOMAIN resQ = {}
    BY DEF Init
  <2> QED BY <2>1, <2>2 DEF Used
<1>2. counter <= Cardinality(Loaded)
  BY LoadedFinite DEF Init
<1>3. Unique /\ Fresh
  BY <1>1, <1>2 DEF Unique, Fresh
<1>4. Found
  BY DEF Init, Found, Whole
<1>5. DOMAIN writeQ = {} /\ DOMAIN resQ = {}
  BY DEF Init
<1>6. Idle
  BY <1>5 DEF Idle
<1> QED BY <1>3, <1>4, <1>6 DEF IdsInv

\* Lemma: a step that changes nothing creates no role.
LEMMA StutterUnused ==
    ASSUME DbTypes, UNCHANGED vars
    PROVE  NewIdsUnused
<1> SUFFICES ASSUME NEW a \in Account, CreateRole(a) PROVE FALSE
  BY DEF NewIdsUnused
<1>1. cache \in [Account -> Record \cup {None}] /\ cache' = cache
  BY DEF DbTypes, TypeOK, vars
<1>2. Created(NewRoleId) \in Record
  BY NewRoleIsRole, CreatedIs DEF DbTypes
<1>3. cache[a] = None /\ cache' = [cache EXCEPT ![a] = Created(NewRoleId)]
  BY DEF CreateRole
<1> QED BY <1>1, <1>2, <1>3, NoneIsNothing

\* Theorem: as long as no id is made that is in use, no two accounts use one
\* role id, whether in the records, in MySQL or on the way, over restarts
\* too; every whole record is found by its id; and what was read of an
\* account that is not loaded is what MySQL has of it (GameHandler,
\* mysql_records_manager2, MysqlConnectorPool).
THEOREM DbIds == Spec /\ [][NewIdsUnused]_vars => []IdsInv
<1>1. DbTypes /\ IdsInv /\ [Next]_vars /\ [NewIdsUnused]_vars => IdsInv'
  <2> SUFFICES ASSUME DbTypes, IdsInv, [Next]_vars, [NewIdsUnused]_vars PROVE IdsInv'
    OBVIOUS
  <2>1. NewIdsUnused
    BY StutterUnused
  <2>2. Unique'
    BY <2>1, UniqueKept DEF IdsInv
  <2> QED BY <2>1, <2>2, FoundKept, IdleKept DEF IdsInv
<1>2. Init => IdsInv
  BY InitIds
<1> QED BY <1>1, <1>2, DbTyped, PTL DEF Spec

\* Theorem: as long as the clock does not come round and there is a counter
\* value for each account (Bounds), no id is made that is in use, over
\* restarts too (gen_unique_role_id).
THEOREM DbNewIdsUnused == Bounds => (Spec => [][NewIdsUnused]_vars)
<1> SUFFICES ASSUME Bounds PROVE Spec => [][NewIdsUnused]_vars
  OBVIOUS
<1>1. DbTypes /\ Fresh /\ [Next]_vars => Fresh'
  <2> SUFFICES ASSUME DbTypes, Fresh, [Next]_vars PROVE Fresh'
    OBVIOUS
  <2>1. DbTypes'
    BY TypesKept
  <2> QED BY <2>1, FreshKept
<1>2. DbTypes /\ Fresh => [NewIdsUnused]_vars
  <2> SUFFICES ASSUME DbTypes, Fresh, NEW a \in Account, NEW b \in Account, CreateRole(a)
      PROVE  ~Used(b, NewRoleId)
    BY DEF NewIdsUnused
  <2>1. cache[a] = None
    BY DEF CreateRole
  <2> QED BY <2>1, NewRoleIsNew
<1>3. Init => Fresh
  BY InitIds
<1> QED BY <1>1, <1>2, <1>3, DbTyped, PTL DEF Spec

\* Theorem: as long as no id is made that is in use, the two maps of
\* mysql_records_manager2 lead to the same records.
THEOREM DbMapsAgree == Spec /\ [][NewIdsUnused]_vars => []MapsAgree
<1>1. DbTypes /\ IdsInv => MapsAgree
  BY DEF DbTypes, IdsInv, RecordsOK, Found, MapsAgree
<1> QED BY <1>1, DbTyped, DbIds, PTL

-----------------------------------------------------------------------------
(* What MySQL will have.                                                   *)

\* Lemma: the row of an account after a queue that has at most one command of
\* it, which makes new of old, when all others spare both.
LEMMA RowAfter ==
    ASSUME NEW t \in Table, NEW q \in Seq(Cmd), NEW a \in Account, NEW new,
           \A i \in DOMAIN q : q[i].account # a => Spares(q[i], a, t[a]) /\ Spares(q[i], a, new),
           \A i \in DOMAIN q : q[i].account = a =>
                \A u \in Table : u[a] = t[a] => Apply(u, q[i])[a] = new,
           \A i, j \in DOMAIN q : q[i].account = a /\ q[j].account = a => i = j
    PROVE  After(t, q)[a] = IF \E i \in DOMAIN q : q[i].account = a THEN new ELSE t[a]
<1> DEFINE In(n) == \E i \in DOMAIN q : i <= n /\ q[i].account = a
<1>1. Len(q) \in Nat /\ DOMAIN q = 1 .. Len(q)
  OBVIOUS
<1>2. PICK f : /\ f[0] = t /\ f[Len(q)] = After(t, q)
               /\ \A n \in 0 .. Len(q) : n + 1 <= Len(q) => f[n + 1] = Apply(f[n], q[n + 1])
  BY AfterChain
<1> DEFINE P == {n \in 0 .. Len(q) : f[n] \in Table /\ f[n][a] = IF In(n) THEN new ELSE t[a]}
<1>3. 0 \in P
  <2>1. ~In(0) /\ 0 \in 0 .. Len(q)
    BY <1>1
  <2> HIDE DEF In
  <2> QED BY <1>2, <2>1
<1>4. ASSUME NEW n \in 0 .. Len(q), n + 1 <= Len(q), n \in P PROVE n + 1 \in P
  <2>1. /\ n + 1 \in DOMAIN q /\ n + 1 \in 0 .. Len(q) /\ q[n + 1] \in Cmd /\ ~(n + 1 <= n)
        /\ \A i \in DOMAIN q : i <= n + 1 <=> i <= n \/ i = n + 1
    BY <1>1, <1>4
  <2>2. /\ f[n] \in Table /\ f[n][a] = IF In(n) THEN new ELSE t[a]
        /\ f[n + 1] = Apply(f[n], q[n + 1])
    BY <1>2, <1>4
  <2>3. f[n + 1] \in Table
    BY <2>1, <2>2, ApplyRow
  <2>4. CASE q[n + 1].account = a
    <3>1. ~In(n) /\ In(n + 1)
      BY <2>1, <2>4
    <3> HIDE DEF In
    <3>2. f[n + 1][a] = new
      BY <2>1, <2>2, <2>4, <3>1
    <3> QED BY <2>1, <2>3, <3>1, <3>2
  <2>5. CASE q[n + 1].account # a
    <3>1. In(n + 1) <=> In(n)
      <4>1. ASSUME NEW i \in DOMAIN q, q[i].account = a PROVE i <= n + 1 <=> i <= n
        BY <2>1, <2>5, <4>1
      <4> QED BY <4>1
    <3> HIDE DEF In
    <3>2. Spares(q[n + 1], a, f[n][a])
      BY <2>1, <2>2, <2>5
    <3>3. f[n + 1][a] = f[n][a]
      <4>1. Apply(f[n], q[n + 1])[a] = f[n][a]
        <5>1. f[n] \in Table /\ q[n + 1] \in Cmd
          BY <2>1, <2>2
        <5> QED BY <3>2, <5>1, ApplyRow
      <4> QED BY <2>2, <4>1
    <3> QED BY <2>1, <2>2, <2>3, <3>1, <3>3
  <2> QED BY <2>4, <2>5
<1> HIDE DEF P
<1>5. \A n \in 0 .. Len(q) : n \in P
  BY <1>1, <1>3, <1>4, UpTo
<1>6. Len(q) \in P /\ \A i \in DOMAIN q : i <= Len(q)
  BY <1>1, <1>5
<1> QED BY <1>2, <1>6 DEF P

\* Lemma: Stored is a table, and has what MySQL has of an account of which
\* nothing is queued.
LEMMA StoredIs ==
    ASSUME DbTypes
    PROVE  /\ Stored \in Table
           /\ \A a \in Account : Unique /\ (\A i \in DOMAIN writeQ : writeQ[i].account # a)
                => Stored[a] = table[a]
<1>1. table \in Table /\ writeQ \in Seq(Cmd)
  BY DEF DbTypes, TypeOK, Table
<1>2. ASSUME NEW a \in Account, Unique, \A i \in DOMAIN writeQ : writeQ[i].account # a
      PROVE  Stored[a] = table[a]
  <2>1. \A i \in DOMAIN writeQ : Spares(writeQ[i], a, table[a])
    BY <1>2, OthersSpared
  <2> QED BY <1>1, <2>1, AfterRow DEF Stored
<1>3. Stored \in Table
  BY <1>1, AfterRow DEF Stored
<1> QED BY <1>2, <1>3

\* Lemma: a write that is done was counted already.
LEMMA WriteStored ==
    ASSUME DbTypes, WriteOK
    PROVE  Stored' = Stored
<1>1. writeQ \in Seq(Cmd) /\ writeQ # <<>> /\ writeQ' = Tail(writeQ) /\ table' = Apply(table, Head(writeQ))
  BY DEF DbTypes, TypeOK, WriteOK
<1>2. Stored' = After(table', writeQ')
  BY DEF Stored
<1> QED BY <1>1, <1>2, AfterHead DEF Stored

\* Lemma: a write that fails is one of its account only.
LEMMA FailStored ==
    ASSUME DbTypes, Unique, WriteFail, NEW a \in Account, a # Head(writeQ).account
    PROVE  Stored'[a] = Stored[a]
<1>1. /\ writeQ \in Seq(Cmd) /\ writeQ # <<>> /\ writeQ' = Tail(writeQ) /\ table' = table
      /\ table \in Table
  BY DEF DbTypes, TypeOK, WriteFail, Table
<1>2. PICK c \in Cmd : c = Head(writeQ) /\ c = writeQ[1] /\ 1 \in DOMAIN writeQ
  BY <1>1, TailAt
<1>3. Tail(writeQ) \in Seq(Cmd)
  BY <1>1
<1>4. Spares(c, a, table[a])
  BY <1>2, OthersSpared
<1>5. Apply(table, c) \in Table /\ Apply(table, c)[a] = table[a]
  BY <1>1, <1>4, ApplyRow
<1>6. Stored = After(Apply(table, c), Tail(writeQ))
  BY <1>1, <1>2, AfterHead DEF Stored
<1>7. Stored' = After(table, Tail(writeQ))
  BY <1>1 DEF Stored
<1> QED BY <1>1, <1>3, <1>5, <1>6, <1>7, AfterRow

\* The row that the command of a record to be written makes.
Written(a) ==
    IF cache[a].st = "INSERT" THEN Inserted(WriteCmd(a)) ELSE Updated(Stored[a], WriteCmd(a))

\* Lemma: Update queues what writes the records.
LEMMA UpdateStored ==
    ASSUME DbTypes, IdsInv, Update, NEW a \in Account, a \notin lost', Whole(a), Behind(a)
    PROVE  Stored'[a] = IF a \in Dirty THEN Written(a) ELSE Stored[a]
<1>1. PICK s \in Seq(Account), skipped \in SUBSET Account :
        /\ \A i, j \in DOMAIN s : s[i] = s[j] => i = j
        /\ \A i \in DOMAIN s : s[i] \in Dirty
        /\ \A d \in Dirty : d \in skipped \/ \E i \in DOMAIN s : s[i] = d
        /\ Cmds(s) \in Seq(Cmd) /\ Len(Cmds(s)) = Len(s)
        /\ writeQ' = writeQ \o Cmds(s) /\ lost' = lost \cup skipped
  BY UpdateDoes
<1>2. PICK q \in Seq(Cmd) : q = Cmds(s)
  BY <1>1
<1>3. /\ DOMAIN q = DOMAIN s
      /\ \A i \in DOMAIN q : q[i] = WriteCmd(s[i]) /\ s[i] \in Dirty /\ s[i] \in Account
  BY <1>1, <1>2 DEF Cmds, Dirty
<1>4. /\ table' = table /\ table \in Table /\ writeQ \in Seq(Cmd)
      /\ cache \in [Account -> Record \cup {None}]
  BY DEF Update, DbTypes, TypeOK, Table
<1>5. Stored' = After(Stored, q)
  <2>1. Stored' = After(table, writeQ \o q)
    BY <1>1, <1>2, <1>4 DEF Stored
  <2> QED BY <1>4, <2>1, AfterConcat DEF Stored
<1>6. Stored \in Table
  BY StoredIs
<1>7. cache[a] \in Record /\ cache[a] # None /\ cache[a].role \in Role
  <2>1. cache[a] \in Record /\ cache[a] # None /\ cache[a].role # None
    BY <1>4 DEF Whole, DbTypes, RecordsOK
  <2> QED BY <2>1, RecordIs
<1>8. Stored[a] # None => Stored[a].role = cache[a].role
  BY DEF Behind
<1>9. ASSUME NEW i \in DOMAIN q
      PROVE  q[i].account = s[i] /\ q[i].op = cache[s[i]].st /\ q[i].role = cache[s[i]].role
  BY <1>3 DEF WriteCmd
<1>10. \A i \in DOMAIN q : q[i].account = a <=> s[i] = a
  BY <1>9
<1>11. CASE a \notin Dirty
  <2>1. ASSUME NEW i \in DOMAIN q PROVE Spares(q[i], a, Stored[a])
    <3>1. PICK b \in Account : b = s[i] /\ b \in Dirty /\ b # a
      BY <1>3, <1>11
    <3>2. Used(b, cache[b].role) /\ Used(a, cache[a].role)
      BY <1>7, <3>1 DEF Used, Dirty
    <3>3. q[i].role # cache[a].role
      BY <1>7, <1>9, <3>1, <3>2 DEF IdsInv, Unique
    <3> QED BY <1>8, <1>10, <3>1, <3>3 DEF Spares
  <2>2. After(Stored, q)[a] = Stored[a]
    BY <1>6, <2>1, AfterRow
  <2> QED BY <1>5, <1>11, <2>2
<1>12. CASE a \in Dirty
  <2>1. cache[a].st \in {"INSERT", "UPDATE"} /\ WriteCmd(a) \in Cmd
    BY <1>12, WriteCmdIs
  <2>2. WriteCmd(a).account = a /\ WriteCmd(a).op = cache[a].st /\ WriteCmd(a).role = cache[a].role
    BY DEF WriteCmd
  <2>3. PICK new : new = Written(a) /\ new.role = cache[a].role
    <3>1. Written(a).role = cache[a].role
      BY <2>1, <2>2 DEF Written, Inserted, Updated, Behind
    <3> QED BY <3>1
  <2>4. ASSUME NEW i \in DOMAIN q, q[i].account # a
        PROVE  Spares(q[i], a, Stored[a]) /\ Spares(q[i], a, new)
    <3>1. PICK b \in Account : b = s[i] /\ b \in Dirty /\ b # a
      BY <1>3, <1>9, <2>4
    <3>2. Used(b, cache[b].role) /\ Used(a, cache[a].role)
      BY <1>7, <3>1 DEF Used, Dirty
    <3>3. q[i].role # cache[a].role
      BY <1>7, <1>9, <3>1, <3>2 DEF IdsInv, Unique
    <3> QED BY <1>8, <2>3, <2>4, <3>3 DEF Spares
  <2>5. ASSUME NEW i \in DOMAIN q, q[i].account = a, NEW u \in Table, u[a] = Stored[a]
        PROVE  Apply(u, q[i])[a] = new
    <3>1. PICK c \in Cmd : c = q[i] /\ c = WriteCmd(a)
      BY <1>3, <1>10, <2>1, <2>5
    <3>2. c.account = a /\ c.op = cache[a].st /\ c.role = cache[a].role
      BY <2>2, <3>1
    <3>3. CASE cache[a].st = "INSERT"
      <4>1. u[a] = None
        BY <2>5, <3>3 DEF Behind
      <4>2. Apply(u, c) = [u EXCEPT ![a] = Inserted(c)]
        BY <3>2, <3>3, <4>1 DEF Apply
      <4>3. Written(a) = Inserted(c)
        BY <3>1, <3>3 DEF Written
      <4> QED BY <2>3, <3>1, <4>2, <4>3 DEF Table
    <3>4. CASE cache[a].st = "UPDATE"
      <4>1. u[a] # None /\ u[a].role = c.role
        BY <2>5, <3>2, <3>4 DEF Behind
      <4>2. Apply(u, c)[a] = Updated(u[a], c)
        BY <3>2, <3>4, <4>1 DEF Apply
      <4>3. Written(a) = Updated(u[a], c)
        BY <2>5, <3>1, <3>4 DEF Written
      <4> QED BY <2>3, <3>1, <4>2, <4>3
    <3> QED BY <2>1, <3>3, <3>4
  <2>6. \A i, j \in DOMAIN q : q[i].account = a /\ q[j].account = a => i = j
    BY <1>1, <1>3, <1>10
  <2>7. Stored'[a] = IF \E i \in DOMAIN q : q[i].account = a THEN new ELSE Stored[a]
    BY <1>5, <1>6, <2>4, <2>5, <2>6, RowAfter
  <2>8. \E i \in DOMAIN q : q[i].account = a
    BY <1>1, <1>3, <1>10, <1>12
  <2> QED BY <1>12, <2>3, <2>7, <2>8
<1> QED BY <1>11, <1>12

\* Lemma: so it brings the rows up with the records, but for the changes that
\* the text of an UPDATE leaves out.
LEMMA UpdateBehind ==
    ASSUME DbTypes, IdsInv, Update, NEW a \in Account, a \notin lost', Whole(a), Behind(a)
    PROVE  Behind(a)'
<1>1. PICK skipped \in SUBSET Account :
        /\ lost' = lost \cup skipped /\ cache' = Clean(skipped)
        /\ dropped' = (dropped \ BaseSent(Dirty \ skipped)) \cup BaseLeft(Dirty \ skipped)
  BY UpdateDoes
<1>2. PICK rec \in Record : rec = cache[a] /\ rec # None
  BY DEF Whole, DbTypes, TypeOK
<1>3. a \notin skipped
  BY <1>1
<1>4. /\ cache'[a].role = rec.role /\ cache'[a].base = rec.base /\ cache'[a].items = rec.items
      /\ cache'[a].st = "-"
      /\ a \in Dirty => cache'[a].changed = {}
      /\ a \notin Dirty => cache'[a] = rec
  BY <1>1, <1>2, <1>3, CleanIs
<1>5. CASE a \notin Dirty
  <2>1. rec.st = "-" /\ cache'[a] = cache[a]
    BY <1>2, <1>4, <1>5 DEF Dirty
  <2>2. a \in dropped => a \in dropped'
    BY <1>1, <1>5 DEF BaseSent
  <2>3. Stored'[a] = Stored[a]
    BY <1>5, UpdateStored
  <2> QED BY <1>2, <2>1, <2>2, <2>3 DEF Behind
<1>6. CASE a \in Dirty
  <2>1. Stored'[a] = Written(a)
    BY <1>6, UpdateStored
  <2>2. /\ rec.st \in {"INSERT", "UPDATE"} /\ rec.base \in Val /\ rec.items \in Val
        /\ rec.base # None /\ rec.items # None /\ rec.changed \subseteq Field
    BY <1>2, <1>6, WriteCmdIs, RecordIs, NoneIsNothing
  <2>3. /\ WriteCmd(a).role = rec.role
        /\ WriteCmd(a).base = IF "base" \in Text(rec) THEN rec.base ELSE None
        /\ WriteCmd(a).items = IF "items" \in Text(rec) THEN rec.items ELSE None
    BY <1>2 DEF WriteCmd
  <2> SUFFICES /\ Written(a) # None /\ Written(a).role = rec.role
               /\ Written(a).items = rec.items
               /\ a \in dropped' \/ Written(a).base = rec.base
    BY <1>4, <1>6, <2>1 DEF Behind
  <2>4. CASE rec.st = "INSERT"
    <3>1. Written(a) = [role |-> rec.role, base |-> rec.base, items |-> rec.items]
      BY <1>2, <2>3, <2>4 DEF Written, Inserted, Text, Field
    <3>2. Written(a) \in Row
      <4>1. rec.role \in Role
        BY <1>2, <1>6, WriteCmdIs
      <4> QED BY <2>2, <3>1, <4>1 DEF Row
    <3> QED BY <3>1, <3>2, NoneIsNothing
  <2>5. CASE rec.st = "UPDATE"
    <3>1. PICK row \in Row : row = Stored[a] /\ row.role = rec.role
      <4>1. Stored[a] # None /\ Stored[a].role = rec.role
        BY <1>2, <2>5 DEF Behind
      <4>2. Stored[a] \in Row
        BY <4>1, StoredIs DEF Table
      <4> QED BY <4>1, <4>2
    <3>2. Written(a) = [role |-> row.role,
                        base |-> IF "base" \in Text(rec) THEN rec.base ELSE row.base,
                        items |-> IF "items" \in Text(rec) THEN rec.items ELSE row.items]
      BY <1>2, <2>2, <2>3, <2>5, <3>1 DEF Written, Updated, Else
    <3>3. Written(a) \in Row
      BY <2>2, <3>2 DEF Row
    <3>4. /\ "items" \in rec.changed <=> "items" \in Text(rec)
          /\ "base" \in Text(rec) => "base" \in rec.changed
      BY <2>5 DEF Text, UpdateText
    <3>5. Written(a).items = rec.items
      BY <1>2, <2>5, <3>1, <3>2, <3>4 DEF Behind
    <3>6. CASE "base" \in Text(rec)
      BY <3>1, <3>2, <3>3, <3>5, <3>6, NoneIsNothing
    <3>7. CASE "base" \notin Text(rec)
      <4>1. a \notin BaseSent(Dirty \ skipped)
        BY <1>2, <3>7 DEF BaseSent
      <4>2. CASE "base" \in rec.changed
        <5>1. a \in dropped'
          BY <1>1, <1>2, <1>3, <1>6, <3>7, <4>2 DEF BaseLeft
        <5> QED BY <3>1, <3>2, <3>3, <3>5, <5>1, NoneIsNothing
      <4>3. CASE "base" \notin rec.changed
        <5>1. a \in dropped \/ row.base = rec.base
          BY <1>2, <2>5, <3>1, <4>3 DEF Behind
        <5>2. a \in dropped' \/ Written(a).base = rec.base
          BY <1>1, <3>2, <3>7, <4>1, <5>1
        <5> QED BY <3>1, <3>2, <3>3, <3>5, <5>2, NoneIsNothing
      <4> QED BY <4>2, <4>3
    <3> QED BY <3>6, <3>7
  <2> QED BY <2>2, <2>4, <2>5
<1> QED BY <1>5, <1>6

\* Lemma: every step keeps the rows up with the records.
LEMMA BehindKept ==
    ASSUME DbTypes, IdsInv, WriteBehind, [Next]_vars
    PROVE  WriteBehind'
<1>1. /\ cache \in [Account -> Record \cup {None}] /\ Stored \in Table
  BY StoredIs DEF DbTypes, TypeOK
<1>2. Unique /\ Idle
  BY DEF IdsInv
<1>3. ASSUME NEW a \in Account, cache'[a] = cache[a], Stored'[a] = Stored[a], dropped' = dropped,
             Whole(a) => Behind(a)
      PROVE  Whole(a)' => Behind(a)'
  BY <1>3 DEF Behind, Whole
<1>4. ASSUME NEW a \in Account, CreateRole(a) PROVE WriteBehind'
  <2>1. /\ cache' = [cache EXCEPT ![a] = Created(NewRoleId)]
        /\ second' = IF Stored[a] = None THEN second ELSE second \cup {a}
        /\ lost' = lost /\ UNCHANGED <<table, writeQ, dropped>>
    BY <1>4 DEF CreateRole
  <2>2. Stored' = Stored
    BY <2>1 DEF Stored
  <2>3. cache'[a].st = "INSERT" /\ \A b \in Account : b # a => cache'[b] = cache[b]
    BY <1>1, <2>1 DEF Created
  <2>4. ASSUME NEW b \in Account \ (lost' \cup second') PROVE Whole(b)' => Behind(b)'
    <3>1. CASE b = a
      <4>1. Stored'[a] = None
        BY <2>1, <2>2, <2>4, <3>1
      <4> QED BY <2>3, <3>1, <4>1 DEF Behind
    <3>2. CASE b # a
      <4>1. b \in Account \ (lost \cup second)
        BY <2>1, <2>4
      <4>2. Whole(b) => Behind(b)
        BY <4>1 DEF WriteBehind
      <4> QED BY <1>3, <2>1, <2>2, <2>3, <3>2, <4>2
    <3> QED BY <3>1, <3>2
  <2> QED BY <2>4 DEF WriteBehind
<1>5. ASSUME NEW r \in Role, Change(r) PROVE WriteBehind'
  <2>1. UNCHANGED <<table, writeQ, lost, dropped, second>>
    BY <1>5, ChangeDoes
  <2>2. Stored' = Stored
    BY <2>1 DEF Stored
  <2>3. ASSUME NEW b \in Account \ (lost' \cup second') PROVE Whole(b)' => Behind(b)'
    <3>1. Whole(b) => Behind(b)
      BY <2>1 DEF WriteBehind
    <3>2. CASE cache'[b] = cache[b]
      BY <1>3, <2>1, <2>2, <3>1, <3>2
    <3>3. CASE cache'[b] # cache[b]
      <4>1. PICK f \in Field : Whole(b) /\ Altered(cache[b], cache'[b], f)
        BY <1>5, <3>3, ChangeTypes
      <4>2. PICK o \in Record : o = cache[b]
        BY <1>1, <4>1 DEF Whole
      <4>3. PICK n \in Record : n = cache'[b]
        BY <4>1 DEF Altered
      <4>4. /\ n.role = o.role /\ n.changed = o.changed \cup {f} /\ n.st = IF o.st = "-" THEN "UPDATE" ELSE o.st
            /\ f # "base" => n.base = o.base
            /\ f # "items" => n.items = o.items
        BY <4>1, <4>2, <4>3 DEF Altered
      <4>5. IF o.st = "INSERT" THEN Stored[b] = None
            ELSE /\ Stored[b] # None /\ Stored[b].role = o.role
                 /\ "items" \in o.changed \/ Stored[b].items = o.items
                 /\ "base" \in o.changed \/ b \in dropped \/ Stored[b].base = o.base
        BY <3>1, <4>1, <4>2 DEF Behind
      <4>6. IF n.st = "INSERT" THEN Stored'[b] = None
            ELSE /\ Stored'[b] # None /\ Stored'[b].role = n.role
                 /\ n.changed # {} => n.st = "UPDATE"
                 /\ "items" \in n.changed \/ Stored'[b].items = n.items
                 /\ "base" \in n.changed \/ b \in dropped' \/ Stored'[b].base = n.base
        <5>1. o.st \in {"-", "INSERT", "UPDATE"}
          BY RecordIs
        <5> QED BY <2>1, <2>2, <4>4, <4>5, <5>1
      <4> QED BY <4>3, <4>6 DEF Behind
    <3> QED BY <3>2, <3>3
  <2> QED BY <2>3 DEF WriteBehind
<1>6. ASSUME RunResults PROVE WriteBehind'
  <2>1. UNCHANGED <<table, writeQ, lost, dropped, second>>
    BY <1>6 DEF RunResults
  <2>2. Stored' = Stored
    BY <2>1 DEF Stored
  <2>3. ASSUME NEW b \in Account \ (lost' \cup second') PROVE Whole(b)' => Behind(b)'
    <3>1. Whole(b) => Behind(b)
      BY <2>1 DEF WriteBehind
    <3>2. CASE cache'[b] = cache[b]
      BY <1>3, <2>1, <2>2, <3>1, <3>2
    <3>3. CASE cache'[b] # cache[b]
      <4>1. PICK x \in Result :
              /\ x = resQ[1] /\ 1 \in DOMAIN resQ /\ x.account \in Account
              /\ cache[x.account] = None /\ x.row # None /\ x.row \in Row
              /\ \/ \E role \in {None, x.row.role}, base \in Val :
                        cache' = [cache EXCEPT ![x.account] = HalfRead(role, base)]
                 \/ cache' = [cache EXCEPT ![x.account] = Read(x.row)]
        BY <1>6, <3>3, ResultTaken
      <4>2. ASSUME NEW role, NEW base, cache' = [cache EXCEPT ![x.account] = HalfRead(role, base)]
            PROVE  Whole(b)' => Behind(b)'
        <5>1. cache'[b] = HalfRead(role, base)
          BY <1>1, <3>3, <4>1, <4>2
        <5> QED BY <5>1 DEF Whole, HalfRead
      <4>3. CASE cache' = [cache EXCEPT ![x.account] = Read(x.row)]
        <5>1. b = x.account /\ cache'[b] = Read(x.row)
          BY <1>1, <3>3, <4>1, <4>3
        <5>2. /\ \A i \in DOMAIN writeQ : writeQ[i].account # b
              /\ x.row = table[b]
          BY <1>2, <4>1, <5>1 DEF Idle
        <5>3. Stored[b] = x.row
          BY <1>2, <5>2, StoredIs
        <5>4. /\ cache'[b].st = "-" /\ cache'[b].role = x.row.role /\ cache'[b].changed = {}
              /\ cache'[b].base = x.row.base /\ cache'[b].items = x.row.items
          BY <4>1, <5>1, ReadIs
        <5> QED BY <2>2, <4>1, <5>3, <5>4 DEF Behind
      <4> QED BY <4>1, <4>2, <4>3
    <3> QED BY <3>2, <3>3
  <2> QED BY <2>3 DEF WriteBehind
<1>7. ASSUME Update PROVE WriteBehind'
  <2>1. second' = second /\ lost \subseteq lost'
    BY <1>7, UpdateDoes DEF Update
  <2>2. ASSUME NEW b \in Account \ (lost' \cup second'), Whole(b)' PROVE Behind(b)'
    <3>1. Whole(b)
      BY <1>7, <2>2, UpdateKeeps
    <3>2. Behind(b)
      BY <2>1, <3>1 DEF WriteBehind
    <3> QED BY <1>7, <3>1, <3>2, UpdateBehind
  <2> QED BY <2>2 DEF WriteBehind
<1>8. ASSUME WriteOK PROVE WriteBehind'
  <2>1. Stored' = Stored /\ UNCHANGED <<cache, lost, dropped, second>>
    BY <1>8, WriteStored DEF WriteOK
  <2> QED BY <1>3, <2>1 DEF WriteBehind
<1>9. ASSUME WriteFail PROVE WriteBehind'
  <2>1. UNCHANGED <<cache, dropped, second>> /\ lost' = lost \cup {Head(writeQ).account}
    BY <1>9 DEF WriteFail
  <2>2. ASSUME NEW b \in Account \ (lost' \cup second') PROVE Whole(b)' => Behind(b)'
    <3>1. b \in Account \ (lost \cup second) /\ b # Head(writeQ).account
      BY <2>1
    <3>2. (Whole(b) => Behind(b)) /\ Stored'[b] = Stored[b]
      BY <1>2, <1>9, <3>1, FailStored DEF WriteBehind
    <3> QED BY <1>3, <2>1, <3>2
  <2> QED BY <2>2 DEF WriteBehind
<1>10. ASSUME Restart PROVE WriteBehind'
  <2>1. \A a \in Account : cache'[a] = None
    BY <1>10 DEF Restart
  <2> QED BY <2>1 DEF WriteBehind, Whole
<1>11. ASSUME ConnectDB \/ OnDisconnect \/ ReadOK \/ ReadFail \/ Tick \/ (\E a \in Account : GetRole(a))
              \/ UNCHANGED vars
       PROVE  WriteBehind'
  <2>1. UNCHANGED <<cache, table, writeQ, lost, dropped, second>>
    BY <1>11 DEF ConnectDB, OnDisconnect, ReadOK, ReadFail, Tick, GetRole, vars
  <2>2. Stored' = Stored
    BY <2>1 DEF Stored
  <2> QED BY <1>3, <2>1, <2>2 DEF WriteBehind
<1> QED BY <1>4, <1>5, <1>6, <1>7, <1>8, <1>9, <1>10, <1>11 DEF Next, Handlers, Change

\* Theorem: as long as no id is made that is in use, nothing is lost between
\* a record and MySQL but a change of sex and level that is flushed with one
\* of the items: once the write thread has done what is queued, the row of an
\* account is as its record is, but for the fields that are marked in the way
\* that will bring them there (mysql_records_manager2::update,
\* format_update_field_value_str, MysqlConnectorPool), unless a write of the
\* account failed or it got a second role.
THEOREM DbWriteBehind == Spec /\ [][NewIdsUnused]_vars => []WriteBehind
<1>1. Init => WriteBehind
  BY DEF Init, WriteBehind, Whole
<1>2. DbTypes /\ IdsInv /\ WriteBehind /\ [Next]_vars => WriteBehind'
  BY BehindKept
<1> QED BY <1>1, <1>2, DbTyped, DbIds, PTL DEF Spec

\* Theorem: so both hold as long as the clock does not come round and there
\* is a counter value for each account.
THEOREM DbInBounds == Bounds => (Spec => []MapsAgree /\ []WriteBehind)
<1> SUFFICES ASSUME Bounds PROVE Spec => []MapsAgree /\ []WriteBehind
  OBVIOUS
<1>1. Spec => [][NewIdsUnused]_vars
  BY DbNewIdsUnused
<1> QED BY <1>1, DbMapsAgree, DbWriteBehind, PTL
=============================================================================
