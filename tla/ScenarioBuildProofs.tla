------------------------ MODULE ScenarioBuildProofs ------------------------
(***************************************************************************)
(* The scenario builder, for every number of nodes, users and calls, all   *)
(* durations, funds, wallets and settings: however the calls are ordered,  *)
(* each transaction workload keeps its expectation, chaos delays are in    *)
(* order, the last request about wallets is the one that build() honours,  *)
(* the genesis transaction is sound, and what build() returns can run.     *)
(*                                                                         *)
(* The model goes through sequences with recursive functions.  What these  *)
(* compute is shown by induction along 0..n with the least-number          *)
(* principle: LeastNatural, UpTo and Recursion below.                      *)
(***************************************************************************)
EXTENDS ScenarioBuild, FiniteSetTheorems, TLAPS

-----------------------------------------------------------------------------
(* Recursive functions on 0..n                                             *)

\* A set of naturals has a least element.
LEMMA LeastNatural ==
    ASSUME NEW S, S \subseteq Nat, S # {}
    PROVE  \E x \in S : \A y \in S : x <= y
<1>1. PICK x \in S : \A y \in S : ~(<<y, x>> \in OpToRel(<, Nat))
  BY WFMin, NatLessThanWellFounded
<1>2. ASSUME NEW y \in S PROVE x <= y
  <2>1. <<y, x>> \in Nat \X Nat
    OBVIOUS
  <2>2. ~(y < x)
    BY <1>1, <2>1 DEF OpToRel
  <2> QED
    BY <2>2
<1> QED
  BY <1>2

\* Induction along 0..n, for the members of a set.
LEMMA UpTo ==
    ASSUME NEW n \in Nat, NEW S, 0 \in S, \A k \in 1..n : k - 1 \in S => k \in S
    PROVE  0..n \subseteq S
<1> DEFINE bad == {k \in 0..n : k \notin S}
<1> SUFFICES ASSUME bad # {} PROVE FALSE
  OBVIOUS
<1>1. bad \subseteq Nat
  OBVIOUS
<1>2. PICK k \in bad : \A j \in bad : k <= j
  <2> HIDE DEF bad
  <2> QED BY <1>1, LeastNatural
<1>3. k \in 1..n /\ k \notin S
  OBVIOUS
<1>4. k - 1 \in 0..n /\ k - 1 \notin bad
  BY <1>2, <1>3
<1> QED
  BY <1>3, <1>4

\* The function f starts with base and goes on by step as far as m.
Follows(f, m, base, step) ==
    f[0] = base /\ \A k \in 1..m : f[k] = step[<<k, f[k - 1]>>]

\* A function may be defined by its first value and by a step to the next.
LEMMA Recursion ==
    ASSUME NEW n \in Nat, NEW V, NEW base \in V, NEW step \in [(1..n) \X V -> V]
    PROVE  \E f \in [0..n -> V] : Follows(f, n, base, step)
<1> DEFINE Good(m, f) == Follows(f, m, base, step)
           S == {m \in 0..n : \E f \in [0..m -> V] : Good(m, f)}
<1>1. 0 \in S
  <2> DEFINE f == [k \in 0..0 |-> base]
  <2>1. f \in [0..0 -> V] /\ Good(0, f)
    BY DEF Follows
  <2> HIDE DEF f
  <2> QED BY <2>1
<1>2. ASSUME NEW m \in 1..n, m - 1 \in S PROVE m \in S
  <2>1. PICK f \in [0..(m - 1) -> V] : Good(m - 1, f)
    BY <1>2
  <2> DEFINE g == [k \in 0..m |-> IF k = m THEN step[<<m, f[m - 1]>>] ELSE f[k]]
  <2>2. f[m - 1] \in V
    OBVIOUS
  <2>3. step[<<m, f[m - 1]>>] \in V
    BY <2>2
  <2>4. g \in [0..m -> V]
    BY <2>3
  <2>5. \A k \in 0..(m - 1) : g[k] = f[k]
    OBVIOUS
  <2>6. g[m] = step[<<m, f[m - 1]>>]
    OBVIOUS
  <2> HIDE DEF g
  <2>7. g[0] = base
    BY <2>1, <2>5 DEF Follows
  <2>8. ASSUME NEW k \in 1..m PROVE g[k] = step[<<k, g[k - 1]>>]
    <3>1. CASE k = m
      BY <2>5, <2>6, <3>1
    <3>2. CASE k # m
      BY <2>1, <2>5, <3>2 DEF Follows
    <3> QED BY <3>1, <3>2
  <2>9. Good(m, g)
    BY <2>7, <2>8 DEF Follows
  <2> QED BY <2>4, <2>9
<1>3. n \in S
  <2> HIDE DEF S
  <2>1. 0..n \subseteq S
    BY <1>1, <1>2, UpTo
  <2> QED BY <2>1
<1> QED
  BY <1>3

-----------------------------------------------------------------------------
(* The elements of a kind                                                  *)

\* f[k] are the elements of the kind among the first k.
ChosenFrom(seq, kind, f) ==
    f = [k \in 0..Len(seq) |->
            IF k = 0 THEN <<>>
            ELSE IF seq[k].kind = kind THEN Append(f[k - 1], seq[k]) ELSE f[k - 1]]

\* The same, one step at a time.
LEMMA ChosenSteps ==
    ASSUME NEW V, NEW seq \in Seq(V), NEW kind, NEW f, ChosenFrom(seq, kind, f)
    PROVE  /\ f[0] = <<>>
           /\ \A k \in 1..Len(seq) :
                 f[k] = IF seq[k].kind = kind THEN Append(f[k - 1], seq[k]) ELSE f[k - 1]
<1> DEFINE val(k) == IF k = 0 THEN <<>>
                     ELSE IF seq[k].kind = kind THEN Append(f[k - 1], seq[k]) ELSE f[k - 1]
<1>1. f = [k \in 0..Len(seq) |-> val(k)]
  BY DEF ChosenFrom
<1> HIDE DEF val
<1>2. \A k \in 0..Len(seq) : f[k] = val(k)
  BY <1>1
<1>3. 0 \in 0..Len(seq) /\ \A k \in 1..Len(seq) : k \in 0..Len(seq) /\ k # 0
  OBVIOUS
<1> QED
  BY <1>2, <1>3 DEF val

\* OfKind goes through the sequence with a function that exists.
LEMMA OfKindIsChosen ==
    ASSUME NEW V, NEW seq \in Seq(V), NEW kind
    PROVE  \E f \in [0..Len(seq) -> Seq(V)] :
              ChosenFrom(seq, kind, f) /\ OfKind(seq, kind) = f[Len(seq)]
<1> DEFINE n == Len(seq)
           step == [p \in (1..n) \X Seq(V) |->
                       IF seq[p[1]].kind = kind THEN Append(p[2], seq[p[1]]) ELSE p[2]]
<1>1. n \in Nat
  OBVIOUS
<1>2. step \in [(1..n) \X Seq(V) -> Seq(V)]
  <2>1. ASSUME NEW p \in (1..n) \X Seq(V) PROVE step[p] \in Seq(V)
    <3>1. p[1] \in 1..n /\ p[2] \in Seq(V) /\ seq[p[1]] \in V
      OBVIOUS
    <3>2. Append(p[2], seq[p[1]]) \in Seq(V)
      BY <3>1
    <3> QED BY <3>1, <3>2
  <2> QED BY <2>1
<1>3. PICK f \in [0..n -> Seq(V)] : Follows(f, n, <<>>, step)
  <2>1. <<>> \in Seq(V)
    OBVIOUS
  <2> HIDE DEF step, n
  <2> QED BY <1>1, <1>2, <2>1, Recursion
<1>4. ChosenFrom(seq, kind, f)
  <2> DEFINE val(k) == IF seq[k].kind = kind THEN Append(f[k - 1], seq[k]) ELSE f[k - 1]
  <2>1. ASSUME NEW k \in 1..n PROVE f[k] = val(k)
    <3>1. f[k - 1] \in Seq(V)
      BY <2>1
    <3>2. <<k, f[k - 1]>> \in (1..n) \X Seq(V)
      BY <3>1
    <3> QED BY <1>3, <3>2 DEF Follows
  <2>2. f[0] = <<>>
    BY <1>3 DEF Follows
  <2> HIDE DEF step, val
  <2>3. ASSUME NEW k \in 0..n PROVE f[k] = IF k = 0 THEN <<>> ELSE val(k)
    <3>1. CASE k = 0 BY <2>2, <3>1
    <3>2. CASE k \in 1..n BY <2>1, <3>2
    <3> QED BY <3>1, <3>2
  <2> QED BY <2>3 DEF ChosenFrom, val
<1> DEFINE g == CHOOSE h : ChosenFrom(seq, kind, h)
<1>5. ChosenFrom(seq, kind, g)
  BY <1>4
<1>6. OfKind(seq, kind) = g[n]
  BY DEF OfKind, ChosenFrom
<1> HIDE DEF g, step
<1>7. \A k \in 0..n : g[k] = f[k]
  <2> DEFINE S == {k \in 0..n : g[k] = f[k]}
  <2>1. 0 \in S
    BY <1>4, <1>5, ChosenSteps
  <2>2. ASSUME NEW k \in 1..n, k - 1 \in S PROVE k \in S
    <3>1. g[k - 1] = f[k - 1]
      BY <2>2
    <3>2. g[k] = IF seq[k].kind = kind THEN Append(g[k - 1], seq[k]) ELSE g[k - 1]
      BY <1>5, ChosenSteps
    <3>3. f[k] = IF seq[k].kind = kind THEN Append(f[k - 1], seq[k]) ELSE f[k - 1]
      BY <1>4, ChosenSteps
    <3> QED BY <3>1, <3>2, <3>3
  <2>3. 0..n \subseteq S
    <3> HIDE DEF S, n
    <3> QED BY <1>1, <2>1, <2>2, UpTo
  <2> QED BY <2>3
<1> QED
  BY <1>1, <1>4, <1>6, <1>7

\* What OfKind chooses is of the kind and from the sequence.
LEMMA OfKindFacts ==
    ASSUME NEW V, NEW seq \in Seq(V), NEW kind
    PROVE  /\ OfKind(seq, kind) \in Seq(V)
           /\ \A j \in 1..Len(OfKind(seq, kind)) :
                 \E k \in 1..Len(seq) : seq[k].kind = kind /\ OfKind(seq, kind)[j] = seq[k]
<1> DEFINE n == Len(seq)
           From(s) == \A j \in 1..Len(s) : \E k \in 1..n : seq[k].kind = kind /\ s[j] = seq[k]
<1>1. PICK f \in [0..n -> Seq(V)] : ChosenFrom(seq, kind, f) /\ OfKind(seq, kind) = f[n]
  BY OfKindIsChosen
<1>2. n \in Nat
  OBVIOUS
<1> DEFINE S == {k \in 0..n : From(f[k])}
<1>3. 0 \in S
  <2>1. f[0] = <<>>
    BY <1>1, ChosenSteps
  <2> QED BY <1>2, <2>1
<1>4. ASSUME NEW k \in 1..n, k - 1 \in S PROVE k \in S
  <2>1. From(f[k - 1]) /\ f[k - 1] \in Seq(V)
    BY <1>4
  <2>2. f[k] = IF seq[k].kind = kind THEN Append(f[k - 1], seq[k]) ELSE f[k - 1]
    BY <1>1, ChosenSteps
  <2>3. CASE seq[k].kind = kind
    <3> DEFINE s == f[k - 1]
    <3>1. f[k] = Append(s, seq[k])
      BY <2>2, <2>3
    <3>2. Len(f[k]) = Len(s) + 1 /\ \A j \in 1..Len(s) : f[k][j] = s[j]
      BY <2>1, <3>1
    <3>3. f[k][Len(s) + 1] = seq[k]
      BY <2>1, <3>1
    <3>4. ASSUME NEW j \in 1..Len(f[k]) PROVE j = Len(s) + 1 \/ j \in 1..Len(s)
      BY <2>1, <3>2
    <3> HIDE DEF s
    <3>5. From(f[k])
      BY <2>1, <2>3, <3>2, <3>3, <3>4 DEF s
    <3> QED BY <3>5
  <2>4. CASE seq[k].kind # kind
    BY <2>1, <2>2, <2>4
  <2> QED BY <2>3, <2>4
<1>5. 0..n \subseteq S
  <2> HIDE DEF S, n
  <2> QED BY <1>2, <1>3, <1>4, UpTo
<1>6. From(f[n]) /\ f[n] \in Seq(V)
  BY <1>2, <1>5
<1> QED
  BY <1>1, <1>6

\* An element more.
LEMMA OfKindAppend ==
    ASSUME NEW V, NEW seq \in Seq(V), NEW x \in V, NEW kind
    PROVE  OfKind(Append(seq, x), kind) =
              IF x.kind = kind THEN Append(OfKind(seq, kind), x) ELSE OfKind(seq, kind)
<1> DEFINE n == Len(seq)
           longer == Append(seq, x)
<1>1. PICK f \in [0..n -> Seq(V)] : ChosenFrom(seq, kind, f) /\ OfKind(seq, kind) = f[n]
  BY OfKindIsChosen
<1>2. longer \in Seq(V) /\ Len(longer) = n + 1 /\ longer[n + 1] = x /\ n \in Nat
  OBVIOUS
<1>3. \A k \in 1..n : longer[k] = seq[k]
  OBVIOUS
<1> HIDE DEF longer
<1>4. PICK g \in [0..Len(longer) -> Seq(V)] :
        ChosenFrom(longer, kind, g) /\ OfKind(longer, kind) = g[Len(longer)]
  BY <1>2, OfKindIsChosen
<1>11. \A k \in 1..Len(longer) :
         g[k] = IF longer[k].kind = kind THEN Append(g[k - 1], longer[k]) ELSE g[k - 1]
  BY <1>2, <1>4, ChosenSteps, SMTT(30)
<1> DEFINE S == {k \in 0..n : g[k] = f[k]}
<1>5. 0 \in S
  BY <1>1, <1>2, <1>4, ChosenSteps
<1>6. ASSUME NEW k \in 1..n, k - 1 \in S PROVE k \in S
  <2>1. k \in 1..Len(longer) /\ longer[k] = seq[k] /\ g[k - 1] = f[k - 1]
    BY <1>2, <1>3, <1>6
  <2>2. g[k] = IF longer[k].kind = kind THEN Append(g[k - 1], longer[k]) ELSE g[k - 1]
    BY <1>11, <2>1
  <2>3. f[k] = IF seq[k].kind = kind THEN Append(f[k - 1], seq[k]) ELSE f[k - 1]
    BY <1>1, ChosenSteps, SMTT(30)
  <2> QED BY <2>1, <2>2, <2>3
<1>7. 0..n \subseteq S
  <2> HIDE DEF S, n
  <2> QED BY <1>2, <1>5, <1>6, UpTo
<1>8. g[n] = f[n]
  BY <1>2, <1>7
<1>9. n + 1 \in 1..Len(longer) /\ (n + 1) - 1 = n
  BY <1>2
<1>10. g[n + 1] = IF longer[n + 1].kind = kind THEN Append(g[(n + 1) - 1], longer[n + 1])
                  ELSE g[(n + 1) - 1]
  BY <1>9, <1>11
<1> QED
  BY <1>1, <1>2, <1>4, <1>8, <1>9, <1>10 DEF longer

\* The flows of two sequences of workloads or expectations are the same.
SameFlows(s, t) ==
    Len(s) = Len(t) /\ \A j \in 1..Len(s) : s[j].rate = t[j].rate /\ s[j].users = t[j].users

\* One flow more on both sides.
LEMMA FlowsAppend ==
    ASSUME NEW V, NEW W, NEW s \in Seq(V), NEW t \in Seq(W), NEW x \in V, NEW y \in W,
           SameFlows(t, s), y.rate = x.rate, y.users = x.users
    PROVE  SameFlows(Append(t, y), Append(s, x))
<1> DEFINE a == Append(t, y)
           c == Append(s, x)
<1>1. /\ Len(t) = Len(s) /\ Len(s) \in Nat /\ Len(a) = Len(s) + 1 /\ Len(c) = Len(s) + 1
      /\ a[Len(s) + 1] = y /\ c[Len(s) + 1] = x
  BY DEF SameFlows
<1>2. \A j \in 1..Len(s) : a[j] = t[j] /\ c[j] = s[j]
  BY <1>1
<1> HIDE DEF a, c
<1>3. ASSUME NEW j \in 1..Len(a) PROVE j = Len(s) + 1 \/ j \in 1..Len(s)
  BY <1>1
<1>4. ASSUME NEW j \in 1..Len(a) PROVE a[j].rate = c[j].rate /\ a[j].users = c[j].users
  <2>1. CASE j = Len(s) + 1 BY <1>1, <2>1
  <2>2. CASE j \in 1..Len(s) BY <1>1, <1>2, <2>2 DEF SameFlows
  <2> QED BY <1>3, <2>1, <2>2
<1>5. SameFlows(a, c)
  BY <1>1, <1>4 DEF SameFlows
<1> QED BY <1>5 DEF a, c

\* Two sequences have the same kinds, and the same flows where they have this one.
SameKinds(other, seq, kind) ==
    /\ Len(other) = Len(seq)
    /\ \A k \in 1..Len(seq) :
          /\ other[k].kind = seq[k].kind
          /\ seq[k].kind = kind => other[k].rate = seq[k].rate /\ other[k].users = seq[k].users

\* Elements that were only completed are chosen alike.
LEMMA OfKindSame ==
    ASSUME NEW V, NEW W, NEW seq \in Seq(V), NEW other \in Seq(W), NEW kind,
           SameKinds(other, seq, kind)
    PROVE  SameFlows(OfKind(other, kind), OfKind(seq, kind))
<1> DEFINE n == Len(seq)
<1>1. PICK f \in [0..n -> Seq(V)] : ChosenFrom(seq, kind, f) /\ OfKind(seq, kind) = f[n]
  BY OfKindIsChosen
<1>2. PICK g \in [0..Len(other) -> Seq(W)] :
        ChosenFrom(other, kind, g) /\ OfKind(other, kind) = g[Len(other)]
  BY OfKindIsChosen
<1>3. n \in Nat /\ g \in [0..n -> Seq(W)] /\ OfKind(other, kind) = g[n]
  BY <1>2 DEF SameKinds
<1>7. \A k \in 1..n : f[k] = IF seq[k].kind = kind THEN Append(f[k - 1], seq[k]) ELSE f[k - 1]
  BY <1>1, ChosenSteps
<1>8. \A k \in 1..n : g[k] = IF other[k].kind = kind THEN Append(g[k - 1], other[k]) ELSE g[k - 1]
  BY <1>2, ChosenSteps DEF SameKinds
<1> DEFINE S == {k \in 0..n : SameFlows(g[k], f[k])}
<1>4. 0 \in S
  <2>1. f[0] = <<>> /\ g[0] = <<>>
    BY <1>1, <1>2, ChosenSteps
  <2> QED BY <1>3, <2>1 DEF SameFlows
<1>5. ASSUME NEW k \in 1..n, k - 1 \in S PROVE k \in S
  <2> DEFINE s == f[k - 1]
             t == g[k - 1]
  <2>1. SameFlows(t, s) /\ s \in Seq(V) /\ t \in Seq(W) /\ seq[k] \in V /\ other[k] \in W
    <3>1. SameFlows(t, s)
      BY <1>5
    <3>2. k - 1 \in 0..n
      OBVIOUS
    <3>3. s \in Seq(V) /\ t \in Seq(W)
      BY <1>3, <3>2
    <3>4. k \in 1..Len(seq) /\ k \in 1..Len(other)
      BY DEF SameKinds
    <3> QED BY <3>1, <3>3, <3>4
  <2>2. f[k] = IF seq[k].kind = kind THEN Append(s, seq[k]) ELSE s
    BY <1>7
  <2>3. g[k] = IF other[k].kind = kind THEN Append(t, other[k]) ELSE t
    BY <1>8
  <2> HIDE DEF s, t
  <2>4. CASE seq[k].kind = kind
    <3>1. f[k] = Append(s, seq[k]) /\ g[k] = Append(t, other[k])
      BY <2>2, <2>3, <2>4 DEF SameKinds
    <3>2. other[k].rate = seq[k].rate /\ other[k].users = seq[k].users
      BY <2>4 DEF SameKinds
    <3>3. SameFlows(Append(t, other[k]), Append(s, seq[k]))
      BY <2>1, <3>2, FlowsAppend
    <3>4. SameFlows(g[k], f[k])
      BY <3>1, <3>3
    <3> QED BY <3>4
  <2>5. CASE seq[k].kind # kind
    BY <2>1, <2>2, <2>3, <2>5 DEF SameKinds
  <2> QED BY <2>4, <2>5
<1>6. 0..n \subseteq S
  <2> HIDE DEF S, n
  <2> QED BY <1>3, <1>4, <1>5, UpTo
<1> QED
  BY <1>1, <1>2, <1>3, <1>6

-----------------------------------------------------------------------------
(* The inductive invariant                                                 *)

\* Wallets, in which several accounts may have one key.
Wallet == Seq([key : {"wallet"} \X Nat, value : Nat])

\* A limit of users as the transaction builder keeps it.
Limit == (Nat \ {0}) \cup {None}

\* Workloads and expectations.
TxWorkloads == [kind : {"tx"}, rate : Nat \ {0}, users : Limit]
RestartWorkloads ==
    [kind : {"restart"}, minDelay : Nat, maxDelay : Nat, targetCooldown : Nat,
     includeNodes : BOOLEAN]
Workload == TxWorkloads \cup RestartWorkloads

TxExpectations == [kind : {"tx_inclusion"}, rate : Nat \ {0}, users : Limit]
Expectation == TxExpectations \cup [kind : {"consensus_liveness"}]

\* Capabilities; a URL is one or there is none.
ObservabilityCaps ==
    [kind : {"observability"}, metrics_query_url : {None, "url"},
     metrics_otlp_ingest_url : {None, "url"}, grafana_url : {None, "url"}]
Capability == {NoCaps, NodeControl} \cup ObservabilityCaps

\* The builder, the topology builder in it, and the sub-builders.
TopologyConfig ==
    [nodes : NodeCounts \cup {0}, layout : Layouts, ids : GivenIds \cup {None},
     blendPorts : NodeCounts \cup {None}, accounts : Wallet]

Builder ==
    [topology : TopologyConfig, workloads : Seq(Workload), expectations : Seq(Expectation),
     duration : Durations \cup {0}, walletUsers : UserCounts \cup {None}, caps : Capability]

SubBuilder ==
    {NoSub, [kind |-> "chaos"]}
        \cup [kind : {"topology"}, nodes : NodeCounts \cup {0}, star : BOOLEAN]
        \cup TxWorkloads
        \cup [kind : {"restart"}, minDelay : Nat \ {0}, maxDelay : Nat \ {0},
              targetCooldown : Nat, includeNodes : BOOLEAN]

\* The builder and its sub-builder; a sub-builder has a call left for its apply().
Shapes ==
    /\ env \in [slot : SlotTimes, coeff : SlotCoeffs]
    /\ pc \in {"open", "built", "served", "configs", "failed", "panic"}
    /\ b \in Builder
    /\ sub \in SubBuilder
    /\ calls \in 0..MaxCalls
    /\ sub # NoSub => calls < MaxCalls

\* Only build(), create_general_configs and cfgsync make a result.
ResultInv == pc \notin Made => result = None

\* Transaction workloads and their expectations go together.
FlowsInv == SameFlows(OfKind(b.workloads, "tx"), OfKind(b.expectations, "tx_inclusion"))

\* Restart workloads are normalised.
ChaosInv ==
    \A k \in 1..Len(b.workloads) :
        LET w == b.workloads[k]
        IN  w.kind = "restart" =>
                0 < w.minDelay /\ w.minDelay <= w.maxDelay /\ w.minDelay <= w.targetCooldown

\* What build() would make of the wallets is what was asked for; topology() has
\* asked for nothing yet.
AskedInv ==
    /\ pc = "open" => asked = BuildAccounts
    /\ sub.kind = "topology" => b = NewBuilder(0)

IInv == Shapes /\ ResultInv /\ FlowsInv /\ ChaosInv /\ AskedInv

-----------------------------------------------------------------------------
(* Wallets                                                                 *)

\* The accounts of WalletConfig::uniform.
LEMMA UniformIsWallet ==
    ASSUME NEW funds \in Nat, NEW users \in Nat
    PROVE  Uniform(funds, users) \in Wallet /\ Len(Uniform(funds, users)) = users
<1> DEFINE value(k) == funds \div users + IF k <= funds % users THEN 1 ELSE 0
           u == [k \in 1..users |-> [key |-> <<"wallet", k - 1>>, value |-> value(k)]]
<1>1. Uniform(funds, users) = u
  BY DEF Uniform, Account
<1>2. ASSUME NEW k \in 1..users PROVE value(k) \in Nat
  <2>1. users \in Nat \ {0}
    OBVIOUS
  <2>2. funds \div users \in Nat /\ funds % users \in Nat
    BY <2>1
  <2> QED BY <2>2
<1> HIDE DEF value
<1>3. u \in Seq([key : {"wallet"} \X Nat, value : Nat]) /\ Len(u) = users
  BY <1>2
<1> QED
  BY <1>1, <1>3 DEF Wallet

\* The wallets of a caller, by the assumption about them.
LEMMA OwnIsWallet == OwnWallets \subseteq Wallet
BY WalletsAssumption DEF Wallet

\* The wallet of a new topology builder.
LEMMA EmptyWallet == <<>> \in Wallet
BY DEF Wallet

\* The users whom build() makes accounts for.
LEMMA UsersAreWallet ==
    ASSUME NEW users \in UserCounts
    PROVE  Uniform(DEFAULT_FUNDS_PER_WALLET * users, users) \in Wallet
BY UniformIsWallet, CallsAssumption DEF DEFAULT_FUNDS_PER_WALLET

\* Whichever wallet build() takes.
LEMMA AccountsAreWallet == ASSUME b \in Builder PROVE BuildAccounts \in Wallet
<1>1. b.topology.accounts \in Wallet /\ b.walletUsers \in UserCounts \cup {None}
  BY DEF Builder, TopologyConfig
<1> QED BY <1>1, UsersAreWallet DEF BuildAccounts

-----------------------------------------------------------------------------
(* What the kinds of steps leave                                           *)

\* A call that leaves the flows alone and notes what it asked for.
LEMMA CallKeeps ==
    ASSUME IInv, NEW new, Call(new), new \in Builder, new.workloads = b.workloads,
           OfKind(new.expectations, "tx_inclusion") = OfKind(b.expectations, "tx_inclusion"),
           asked' = BuildAccounts'
    PROVE  IInv'
<1>1. /\ Open /\ calls < MaxCalls /\ b' = new /\ calls' = calls + 1
      /\ env' = env /\ pc' = pc /\ sub' = sub /\ result' = result
  BY DEF Call
<1>2. pc = "open" /\ sub = NoSub /\ sub.kind # "topology"
  BY <1>1 DEF Open, NoSub
<1>3. Shapes'
  <2>1. calls' \in 0..MaxCalls
    BY <1>1, CallsAssumption DEF IInv, Shapes
  <2> QED BY <1>1, <1>2, <2>1 DEF IInv, Shapes
<1>4. ResultInv'
  BY <1>1 DEF IInv, ResultInv
<1>5. FlowsInv' /\ ChaosInv'
  BY <1>1 DEF IInv, FlowsInv, ChaosInv
<1>6. AskedInv'
  BY <1>1, <1>2 DEF AskedInv
<1> QED BY <1>3, <1>4, <1>5, <1>6 DEF IInv

\* A call that returns no builder.
LEMMA GoneKeeps ==
    ASSUME IInv, NEW how \in {"failed", "panic"}, Gone(how), pc = "open"
    PROVE  IInv'
<1>1. pc' = how /\ UNCHANGED <<env, b, sub, calls, asked, result>>
  BY DEF Gone
<1>2. Shapes' /\ ResultInv'
  BY <1>1 DEF IInv, Shapes, ResultInv, Made
<1>3. FlowsInv' /\ ChaosInv'
  BY <1>1 DEF IInv, FlowsInv, ChaosInv
<1>4. AskedInv'
  BY <1>1 DEF IInv, AskedInv
<1> QED BY <1>2, <1>3, <1>4 DEF IInv

\* A call on a sub-builder.
LEMMA SubKeeps ==
    ASSUME IInv, NEW new \in SubBuilder, SubCall(new), calls < MaxCalls,
           new.kind = "topology" => sub.kind = "topology"
    PROVE  IInv'
<1>1. sub' = new /\ UNCHANGED <<env, pc, b, calls, asked, result>>
  BY DEF SubCall
<1>2. Shapes' /\ ResultInv'
  BY <1>1 DEF IInv, Shapes, ResultInv
<1>3. FlowsInv' /\ ChaosInv'
  BY <1>1 DEF IInv, FlowsInv, ChaosInv
<1>4. BuildAccounts' = BuildAccounts
  BY <1>1 DEF BuildAccounts
<1>5. AskedInv'
  BY <1>1, <1>4 DEF IInv, AskedInv
<1> QED BY <1>2, <1>3, <1>5 DEF IInv

\* apply() of a sub-builder, with what it has to show for itself.
LEMMA ApplyKeeps ==
    ASSUME IInv, NEW new \in Builder, Apply(new), sub # NoSub, pc = "open",
           FlowsInv', ChaosInv', BuildAccounts' = BuildAccounts
    PROVE  IInv'
<1>1. /\ b' = new /\ sub' = NoSub /\ calls' = calls + 1
      /\ UNCHANGED <<env, pc, asked, result>>
  BY DEF Apply
<1>2. calls' \in 0..MaxCalls
  BY <1>1, CallsAssumption DEF IInv, Shapes
<1>3. Shapes' /\ ResultInv'
  BY <1>1, <1>2 DEF IInv, Shapes, ResultInv, SubBuilder
<1>4. AskedInv'
  BY <1>1 DEF IInv, AskedInv, NoSub
<1> QED BY <1>3, <1>4 DEF IInv

-----------------------------------------------------------------------------
(* Calls on the builder                                                    *)

\* A liveness expectation is no flow.
LEMMA ExpectLivenessKeeps == IInv /\ ExpectConsensusLiveness => IInv'
<1> SUFFICES ASSUME IInv, ExpectConsensusLiveness PROVE IInv'
  OBVIOUS
<1> DEFINE new == [b EXCEPT !.expectations = Append(@, Liveness)]
<1>1. Call(new) /\ asked' = asked
  BY DEF ExpectConsensusLiveness
<1>2. b \in Builder /\ b.expectations \in Seq(Expectation) /\ Liveness \in Expectation
  BY DEF IInv, Shapes, Builder, Expectation, Liveness
<1>3. new \in Builder
  <2>1. Append(b.expectations, Liveness) \in Seq(Expectation)
    BY <1>2
  <2> QED BY <1>2, <2>1 DEF Builder
<1>4. /\ new.workloads = b.workloads /\ new.expectations = Append(b.expectations, Liveness)
      /\ new.walletUsers = b.walletUsers /\ new.topology = b.topology
  BY <1>2 DEF Builder
<1>5. OfKind(new.expectations, "tx_inclusion") = OfKind(b.expectations, "tx_inclusion")
  <2>1. Liveness.kind # "tx_inclusion"
    BY DEF Liveness
  <2> QED BY <1>2, <1>4, <2>1, OfKindAppend
<1> HIDE DEF new
<1>6. asked' = BuildAccounts'
  <2>1. b' = new /\ pc = "open"
    BY <1>1 DEF Call, Open
  <2> QED BY <1>1, <1>4, <2>1 DEF IInv, AskedInv, BuildAccounts
<1> QED BY <1>1, <1>3, <1>4, <1>5, <1>6, CallKeeps

\* A call that changes neither wallets nor workloads nor expectations.
LEMMA PlainCallKeeps ==
    ASSUME IInv, NEW new \in Builder, Call(new), asked' = asked,
           new.workloads = b.workloads, new.expectations = b.expectations,
           new.walletUsers = b.walletUsers, new.topology.accounts = b.topology.accounts
    PROVE  IInv'
<1>1. b' = new /\ pc = "open"
  BY DEF Call, Open
<1>2. asked' = BuildAccounts'
  BY <1>1 DEF IInv, AskedInv, BuildAccounts
<1> QED BY <1>2, CallKeeps

\* with_run_duration
LEMMA DurationKeeps == IInv /\ WithRunDuration => IInv'
<1> SUFFICES ASSUME IInv, WithRunDuration PROVE IInv'
  OBVIOUS
<1>1. PICK d \in Durations : Call([b EXCEPT !.duration = d])
  BY DEF WithRunDuration
<1> DEFINE new == [b EXCEPT !.duration = d]
<1>2. b \in Builder /\ asked' = asked
  BY DEF IInv, Shapes, WithRunDuration
<1>3. new \in Builder
  BY <1>2 DEF Builder
<1>4. /\ new.workloads = b.workloads /\ new.expectations = b.expectations
      /\ new.walletUsers = b.walletUsers /\ new.topology = b.topology
  BY <1>2 DEF Builder
<1> HIDE DEF new
<1> QED BY <1>1, <1>2, <1>3, <1>4, PlainCallKeeps DEF new

\* map_topology, whose wallet counts only when no users were set.
LEMMA MapTopologyKeeps == IInv /\ MapTopology => IInv'
<1> SUFFICES ASSUME IInv, MapTopology PROVE IInv'
  OBVIOUS
<1>1. b \in Builder /\ b.topology \in TopologyConfig
  BY DEF IInv, Shapes, Builder
<1>2. CASE asked' = asked /\ \E n \in NodeCounts : Call([b EXCEPT !.topology.nodes = n])
  <2>1. PICK n \in NodeCounts : Call([b EXCEPT !.topology.nodes = n])
    BY <1>2
  <2> DEFINE new == [b EXCEPT !.topology.nodes = n]
  <2>2. /\ new \in Builder /\ new.workloads = b.workloads /\ new.expectations = b.expectations
        /\ new.walletUsers = b.walletUsers /\ new.topology.accounts = b.topology.accounts
    BY <1>1 DEF Builder, TopologyConfig
  <2> HIDE DEF new
  <2> QED BY <1>2, <2>1, <2>2, PlainCallKeeps DEF new
<1>3. CASE asked' = asked /\ \E l \in Layouts : Call([b EXCEPT !.topology.layout = l])
  <2>1. PICK l \in Layouts : Call([b EXCEPT !.topology.layout = l])
    BY <1>3
  <2> DEFINE new == [b EXCEPT !.topology.layout = l]
  <2>2. /\ new \in Builder /\ new.workloads = b.workloads /\ new.expectations = b.expectations
        /\ new.walletUsers = b.walletUsers /\ new.topology.accounts = b.topology.accounts
    BY <1>1 DEF Builder, TopologyConfig
  <2> HIDE DEF new
  <2> QED BY <1>3, <2>1, <2>2, PlainCallKeeps DEF new
<1>4. CASE asked' = asked /\ \E ids \in GivenIds : Call([b EXCEPT !.topology.ids = ids])
  <2>1. PICK ids \in GivenIds : Call([b EXCEPT !.topology.ids = ids])
    BY <1>4
  <2> DEFINE new == [b EXCEPT !.topology.ids = ids]
  <2>2. /\ new \in Builder /\ new.workloads = b.workloads /\ new.expectations = b.expectations
        /\ new.walletUsers = b.walletUsers /\ new.topology.accounts = b.topology.accounts
    BY <1>1 DEF Builder, TopologyConfig
  <2> HIDE DEF new
  <2> QED BY <1>4, <2>1, <2>2, PlainCallKeeps DEF new
<1>5. CASE asked' = asked /\ \E n \in NodeCounts : Call([b EXCEPT !.topology.blendPorts = n])
  <2>1. PICK n \in NodeCounts : Call([b EXCEPT !.topology.blendPorts = n])
    BY <1>5
  <2> DEFINE new == [b EXCEPT !.topology.blendPorts = n]
  <2>2. /\ new \in Builder /\ new.workloads = b.workloads /\ new.expectations = b.expectations
        /\ new.walletUsers = b.walletUsers /\ new.topology.accounts = b.topology.accounts
    BY <1>1 DEF Builder, TopologyConfig
  <2> HIDE DEF new
  <2> QED BY <1>5, <2>1, <2>2, PlainCallKeeps DEF new
<1>6. CASE \E w \in OwnWallets : /\ Call([b EXCEPT !.topology.accounts = w])
                                 /\ asked' = IF b.walletUsers = None THEN w ELSE asked
  <2>1. PICK w \in OwnWallets : /\ Call([b EXCEPT !.topology.accounts = w])
                                /\ asked' = IF b.walletUsers = None THEN w ELSE asked
    BY <1>6
  <2> DEFINE new == [b EXCEPT !.topology.accounts = w]
  <2>2. w \in Wallet
    BY OwnIsWallet
  <2>3. /\ new \in Builder /\ new.workloads = b.workloads /\ new.expectations = b.expectations
        /\ new.walletUsers = b.walletUsers /\ new.topology.accounts = w
    BY <1>1, <2>2 DEF Builder, TopologyConfig
  <2> HIDE DEF new
  <2>4. b' = new /\ pc = "open"
    BY <2>1 DEF Call, Open, new
  <2>5. asked' = BuildAccounts'
    BY <2>1, <2>3, <2>4 DEF IInv, AskedInv, BuildAccounts
  <2> QED BY <2>1, <2>3, <2>5, CallKeeps DEF new
<1> QED
  BY <1>2, <1>3, <1>4, <1>5, <1>6 DEF MapTopology

\* with_wallet_config, which initialize_wallet uses too.
LEMMA SetWalletKeeps ==
    ASSUME IInv, NEW w \in Wallet, Call(SetWallet(b, w)), asked' = w
    PROVE  IInv'
<1> DEFINE new == SetWallet(b, w)
<1>1. b \in Builder /\ b.topology \in TopologyConfig
  BY DEF IInv, Shapes, Builder
<1>2. /\ new \in Builder /\ new.workloads = b.workloads /\ new.expectations = b.expectations
      /\ new.walletUsers = None /\ new.topology.accounts = w
  BY <1>1 DEF Builder, TopologyConfig, SetWallet
<1> HIDE DEF new
<1>3. b' = new
  BY DEF Call, new
<1>4. asked' = BuildAccounts'
  BY <1>2, <1>3 DEF BuildAccounts
<1> QED BY <1>2, <1>4, CallKeeps DEF new

\* with_wallet_config, initialize_wallet and wallets take each other's place.
LEMMA WalletCallsKeep == IInv /\ (WithWalletConfig \/ InitializeWallet \/ Wallets) => IInv'
<1> SUFFICES ASSUME IInv, WithWalletConfig \/ InitializeWallet \/ Wallets PROVE IInv'
  OBVIOUS
<1>1. b \in Builder
  BY DEF IInv, Shapes
<1>2. CASE WithWalletConfig
  BY <1>2, SetWalletKeeps, OwnIsWallet DEF WithWalletConfig
<1>3. CASE InitializeWallet
  <2>1. PICK funds \in Funds, users \in UserCounts :
          \/ users = 0 /\ Call(b) /\ UNCHANGED asked
          \/ users > 0 /\ funds < users /\ CallEnds("panic")
          \/ /\ users > 0 /\ funds >= users
             /\ Call(SetWallet(b, Uniform(funds, users)))
             /\ asked' = Uniform(funds, users)
    BY <1>3 DEF InitializeWallet
  <2>2. CASE Call(b) /\ UNCHANGED asked
    BY <1>1, <2>2, PlainCallKeeps
  <2>3. CASE CallEnds("panic")
    BY <2>3, GoneKeeps DEF CallEnds, Open
  <2>4. CASE Call(SetWallet(b, Uniform(funds, users))) /\ asked' = Uniform(funds, users)
    <3>1. Uniform(funds, users) \in Wallet
      BY UniformIsWallet, CallsAssumption
    <3> QED BY <2>4, <3>1, SetWalletKeeps
  <2> QED BY <2>1, <2>2, <2>3, <2>4
<1>4. CASE Wallets
  <2>1. PICK users \in UserCounts :
          /\ Call([b EXCEPT !.walletUsers = users])
          /\ asked' = Uniform(DEFAULT_FUNDS_PER_WALLET * users, users)
    BY <1>4 DEF Wallets
  <2> DEFINE new == [b EXCEPT !.walletUsers = users]
  <2>2. /\ new \in Builder /\ new.workloads = b.workloads /\ new.expectations = b.expectations
        /\ new.walletUsers = users
    BY <1>1 DEF Builder
  <2>3. users # None
    BY CallsAssumption, NoneAssumption
  <2> HIDE DEF new
  <2>4. b' = new
    BY <2>1 DEF Call, new
  <2>5. asked' = BuildAccounts'
    BY <2>1, <2>2, <2>3, <2>4 DEF BuildAccounts
  <2> QED BY <2>1, <2>2, <2>5, CallKeeps DEF new
<1> QED BY <1>2, <1>3, <1>4

\* Capabilities do not touch wallets or flows.
LEMMA CapsKeep == IInv /\ (EnableNodeControl \/ WithFirstUrl \/ WithNextUrl) => IInv'
<1> SUFFICES ASSUME IInv, EnableNodeControl \/ WithFirstUrl \/ WithNextUrl PROVE IInv'
  OBVIOUS
<1>1. b \in Builder /\ b.caps \in Capability
  BY DEF IInv, Shapes, Builder
<1>2. ASSUME NEW c \in Capability, Call([b EXCEPT !.caps = c]), asked' = asked PROVE IInv'
  <2> DEFINE new == [b EXCEPT !.caps = c]
  <2>1. /\ new \in Builder /\ new.workloads = b.workloads /\ new.expectations = b.expectations
        /\ new.walletUsers = b.walletUsers /\ new.topology.accounts = b.topology.accounts
    BY <1>1 DEF Builder
  <2> HIDE DEF new
  <2> QED BY <1>2, <2>1, PlainCallKeeps DEF new
<1>3. CASE EnableNodeControl
  BY <1>2, <1>3 DEF EnableNodeControl, Capability
<1>4. ASSUME NEW c \in ObservabilityCaps, NEW f \in UrlFields
      PROVE  [c EXCEPT ![f] = "url"] \in Capability
  <2>1. CASE f = "metrics_query_url"
    BY <2>1 DEF ObservabilityCaps, Capability
  <2>2. CASE f = "metrics_otlp_ingest_url"
    BY <2>2 DEF ObservabilityCaps, Capability
  <2>3. CASE f = "grafana_url"
    BY <2>3 DEF ObservabilityCaps, Capability
  <2> QED BY <2>1, <2>2, <2>3 DEF UrlFields
<1>5. Observability \in ObservabilityCaps
  BY DEF Observability, ObservabilityCaps
<1>6. CASE CallEnds("failed")
  BY <1>6, GoneKeeps DEF CallEnds, Open
<1>7. CASE WithFirstUrl
  <2>1. CASE asked' = asked /\ \E f \in UrlFields :
                Call([b EXCEPT !.caps = [Observability EXCEPT ![f] = "url"]])
    BY <1>2, <1>4, <1>5, <2>1
  <2>2. CASE asked' = asked /\ Call([b EXCEPT !.caps = Observability])
    BY <1>2, <1>5, <2>2 DEF Capability
  <2> QED BY <1>6, <1>7, <2>1, <2>2 DEF WithFirstUrl
<1>8. CASE WithNextUrl
  <2>1. CASE asked' = asked /\ \E f \in UrlFields : Call([b EXCEPT !.caps[f] = "url"])
    <3>1. PICK f \in UrlFields : Call([b EXCEPT !.caps[f] = "url"])
      BY <2>1
    <3>2. b.caps \in ObservabilityCaps
      BY <1>1, <1>8 DEF WithNextUrl, Capability, NoCaps, NodeControl
    <3>3. [b EXCEPT !.caps[f] = "url"] = [b EXCEPT !.caps = [b.caps EXCEPT ![f] = "url"]]
      BY <1>1 DEF Builder
    <3> QED BY <1>2, <1>4, <2>1, <3>1, <3>2, <3>3
  <2>2. CASE asked' = asked /\ Call(b)
    BY <1>1, <2>2, PlainCallKeeps
  <2> QED BY <1>6, <1>8, <2>1, <2>2 DEF WithNextUrl
<1> QED BY <1>3, <1>7, <1>8

-----------------------------------------------------------------------------
(* Sub-builders                                                            *)

\* What a sub-builder may rely on.
LEMMA SubFacts ==
    ASSUME IInv, sub # NoSub
    PROVE  calls < MaxCalls /\ sub \in SubBuilder /\ b \in Builder
BY DEF IInv, Shapes

\* topology() starts over, before anything was asked for.
LEMMA ConfigureTopologyKeeps == IInv /\ ConfigureTopology => IInv'
<1> SUFFICES ASSUME IInv, ConfigureTopology PROVE IInv'
  OBVIOUS
<1>1. pc = "open" /\ sub.kind = "topology" /\ sub # NoSub
  BY DEF ConfigureTopology, NoSub
<1>2. calls < MaxCalls /\ b \in Builder
  BY <1>1, SubFacts
<1>3. sub \in [kind : {"topology"}, nodes : NodeCounts \cup {0}, star : BOOLEAN]
  BY <1>1, SubFacts DEF SubBuilder, TxWorkloads
<1>4. CASE \E n \in NodeCounts : SubCall([sub EXCEPT !.nodes = n])
  <2>1. PICK n \in NodeCounts : SubCall([sub EXCEPT !.nodes = n])
    BY <1>4
  <2>2. [sub EXCEPT !.nodes = n] \in SubBuilder
    BY <1>3 DEF SubBuilder
  <2> QED BY <1>1, <1>2, <2>1, <2>2, SubKeeps
<1>5. CASE SubCall([sub EXCEPT !.star = TRUE])
  <2>1. [sub EXCEPT !.star = TRUE] \in SubBuilder
    BY <1>3 DEF SubBuilder
  <2> QED BY <1>1, <1>2, <1>5, <2>1, SubKeeps
<1> DEFINE top == [NewTopology(sub.nodes) EXCEPT !.layout = IF sub.star THEN "Star" ELSE @]
           new == [b EXCEPT !.topology = top]
<1>6. CASE Apply(new)
  <2>1. top \in TopologyConfig /\ top.accounts = <<>>
    BY <1>3, EmptyWallet DEF TopologyConfig, NewTopology, Layouts
  <2> HIDE DEF top
  <2>2. /\ new \in Builder /\ new.topology = top /\ new.walletUsers = b.walletUsers
        /\ new.workloads = b.workloads /\ new.expectations = b.expectations
    BY <1>2, <2>1 DEF Builder
  <2> HIDE DEF new
  <2>3. b' = new
    BY <1>6 DEF Apply
  <2>4. b.walletUsers = None /\ b.topology.accounts = <<>>
    BY <1>1 DEF IInv, AskedInv, NewBuilder, NewTopology
  <2>5. BuildAccounts' = BuildAccounts
    BY <2>1, <2>2, <2>3, <2>4 DEF BuildAccounts
  <2>6. FlowsInv' /\ ChaosInv'
    BY <2>2, <2>3 DEF IInv, FlowsInv, ChaosInv
  <2> QED BY <1>1, <1>6, <2>2, <2>5, <2>6, ApplyKeeps
<1> QED
  BY <1>4, <1>5, <1>6 DEF ConfigureTopology

\* with_workload of a workload that comes with no expectation.
LEMMA SilentWorkload ==
    ASSUME IInv, NEW w \in RestartWorkloads, Apply(WithWorkload(b, w)),
           sub # NoSub, pc = "open",
           0 < w.minDelay, w.minDelay <= w.maxDelay, w.minDelay <= w.targetCooldown
    PROVE  IInv'
<1> DEFINE new == WithWorkload(b, w)
<1>1. b \in Builder /\ b.workloads \in Seq(Workload) /\ b.expectations \in Seq(Expectation)
  BY DEF IInv, Shapes, Builder
<1>2. w \in Workload /\ w.kind = "restart" /\ ExpectationsOf(w) = <<>>
  BY DEF Workload, RestartWorkloads, ExpectationsOf
<1>3. b.expectations \o <<>> = b.expectations
  BY <1>1
<1>4. /\ new \in Builder /\ new.topology = b.topology /\ new.walletUsers = b.walletUsers
      /\ new.workloads = Append(b.workloads, w) /\ new.expectations = b.expectations
  <2>1. new = [b EXCEPT !.expectations = b.expectations, !.workloads = Append(b.workloads, w)]
    BY <1>1, <1>2, <1>3 DEF Builder, WithWorkload
  <2>2. Append(b.workloads, w) \in Seq(Workload)
    BY <1>1, <1>2
  <2> QED BY <1>1, <2>1, <2>2 DEF Builder
<1> HIDE DEF new
<1>5. b' = new
  BY DEF Apply, new
<1>6. BuildAccounts' = BuildAccounts
  BY <1>4, <1>5 DEF BuildAccounts
<1>7. FlowsInv'
  <2>1. OfKind(Append(b.workloads, w), "tx") = OfKind(b.workloads, "tx")
    BY <1>1, <1>2, OfKindAppend
  <2> QED BY <1>4, <1>5, <2>1 DEF IInv, FlowsInv
<1>8. ChaosInv'
  <2> SUFFICES ASSUME NEW k \in 1..Len(Append(b.workloads, w)),
                      Append(b.workloads, w)[k].kind = "restart"
               PROVE  LET v == Append(b.workloads, w)[k]
                      IN  /\ 0 < v.minDelay /\ v.minDelay <= v.maxDelay
                          /\ v.minDelay <= v.targetCooldown
    BY <1>4, <1>5 DEF ChaosInv
  <2>1. CASE k \in 1..Len(b.workloads)
    <3>1. Append(b.workloads, w)[k] = b.workloads[k]
      BY <1>1, <2>1
    <3> QED BY <2>1, <3>1 DEF IInv, ChaosInv
  <2>2. CASE k = Len(b.workloads) + 1
    <3>1. Append(b.workloads, w)[k] = w
      BY <1>1, <2>2
    <3> QED BY <3>1
  <2> QED BY <1>1, <2>1, <2>2
<1> QED BY <1>4, <1>6, <1>7, <1>8, ApplyKeeps DEF new

\* with_workload of a transaction workload brings its expectation along.
LEMMA TxWorkloadKeeps ==
    ASSUME IInv, NEW rate \in Nat \ {0}, NEW users \in Limit,
           Apply(WithWorkload(b, TxWorkload(rate, users))), sub # NoSub, pc = "open"
    PROVE  IInv'
<1> DEFINE w == TxWorkload(rate, users)
           e == TxInclusion(rate, users)
           new == WithWorkload(b, w)
<1>1. b \in Builder /\ b.workloads \in Seq(Workload) /\ b.expectations \in Seq(Expectation)
  BY DEF IInv, Shapes, Builder
<1>2. /\ w \in Workload /\ w.kind = "tx" /\ w.rate = rate /\ w.users = users
      /\ ExpectationsOf(w) = <<e>>
  BY DEF Workload, TxWorkloads, TxWorkload, ExpectationsOf
<1>3. e \in Expectation /\ e.kind = "tx_inclusion" /\ e.rate = rate /\ e.users = users
  BY DEF Expectation, TxExpectations, TxInclusion
<1> HIDE DEF w, e
<1>4. b.expectations \o <<e>> = Append(b.expectations, e)
  BY <1>1, <1>3
<1>5. /\ new \in Builder /\ new.topology = b.topology /\ new.walletUsers = b.walletUsers
      /\ new.workloads = Append(b.workloads, w)
      /\ new.expectations = Append(b.expectations, e)
  <2>1. new = [b EXCEPT !.expectations = Append(b.expectations, e),
                        !.workloads = Append(b.workloads, w)]
    BY <1>1, <1>2, <1>4 DEF Builder, WithWorkload
  <2>2. Append(b.workloads, w) \in Seq(Workload) /\ Append(b.expectations, e) \in Seq(Expectation)
    BY <1>1, <1>2, <1>3
  <2> QED BY <1>1, <2>1, <2>2 DEF Builder
<1> HIDE DEF new
<1>6. b' = new
  BY DEF Apply, new, w
<1>7. BuildAccounts' = BuildAccounts
  BY <1>5, <1>6 DEF BuildAccounts
<1>8. FlowsInv'
  <2> DEFINE ws == OfKind(b.workloads, "tx")
             es == OfKind(b.expectations, "tx_inclusion")
  <2>1. OfKind(Append(b.workloads, w), "tx") = Append(ws, w)
    BY <1>1, <1>2, OfKindAppend
  <2>2. OfKind(Append(b.expectations, e), "tx_inclusion") = Append(es, e)
    BY <1>1, <1>3, OfKindAppend
  <2>3. ws \in Seq(Workload) /\ es \in Seq(Expectation) /\ SameFlows(ws, es)
    BY <1>1, OfKindFacts DEF IInv, FlowsInv
  <2> HIDE DEF ws, es
  <2>4. SameFlows(Append(ws, w), Append(es, e))
    BY <1>2, <1>3, <2>3, FlowsAppend
  <2> QED BY <1>5, <1>6, <2>1, <2>2, <2>4 DEF FlowsInv, ws, es
<1>9. ChaosInv'
  <2> SUFFICES ASSUME NEW k \in 1..Len(Append(b.workloads, w)),
                      Append(b.workloads, w)[k].kind = "restart"
               PROVE  LET v == Append(b.workloads, w)[k]
                      IN  /\ 0 < v.minDelay /\ v.minDelay <= v.maxDelay
                          /\ v.minDelay <= v.targetCooldown
    BY <1>5, <1>6 DEF ChaosInv
  <2>1. CASE k \in 1..Len(b.workloads)
    <3>1. Append(b.workloads, w)[k] = b.workloads[k]
      BY <1>1, <2>1
    <3> QED BY <2>1, <3>1 DEF IInv, ChaosInv
  <2>2. CASE k = Len(b.workloads) + 1
    <3>1. Append(b.workloads, w)[k] = w
      BY <1>1, <2>2
    <3> QED BY <1>2, <3>1
  <2> QED BY <1>1, <2>1, <2>2
<1> QED BY <1>5, <1>7, <1>8, <1>9, ApplyKeeps DEF new, w

\* transactions() and its sub-builder.
LEMMA TransactionsKeep == IInv /\ (Transactions \/ ConfigureTransactions) => IInv'
<1> SUFFICES ASSUME IInv, Transactions \/ ConfigureTransactions PROVE IInv'
  OBVIOUS
<1>1. CASE Transactions
  <2>1. [kind |-> "tx", rate |-> 1, users |-> None] \in SubBuilder
    BY DEF SubBuilder, TxWorkloads, Limit
  <2> QED BY <1>1, <2>1, SubKeeps DEF Transactions
<1>2. CASE ConfigureTransactions
  <2>1. pc = "open" /\ sub.kind = "tx" /\ sub # NoSub
    BY <1>2 DEF ConfigureTransactions, NoSub
  <2>2. calls < MaxCalls /\ sub \in TxWorkloads
    BY <2>1, SubFacts DEF SubBuilder, NoSub
  <2>3. sub.rate \in Nat \ {0} /\ sub.users \in Limit
    BY <2>2 DEF TxWorkloads
  <2>4. CASE \E rate \in UserCounts : SubCall([sub EXCEPT !.rate = NonZeroOr(rate, @)])
    <3>1. PICK rate \in UserCounts : SubCall([sub EXCEPT !.rate = NonZeroOr(rate, @)])
      BY <2>4
    <3>2. NonZeroOr(rate, sub.rate) \in Nat \ {0}
      BY <2>3, CallsAssumption DEF NonZeroOr
    <3> DEFINE new == [sub EXCEPT !.rate = NonZeroOr(rate, @)]
    <3>3. new \in SubBuilder /\ new.kind = "tx"
      BY <2>2, <3>2 DEF TxWorkloads, SubBuilder
    <3> HIDE DEF new
    <3> QED BY <2>2, <3>1, <3>3, SubKeeps DEF new
  <2>5. CASE \E users \in UserCounts : SubCall([sub EXCEPT !.users = NonZeroOr(users, @)])
    <3>1. PICK users \in UserCounts : SubCall([sub EXCEPT !.users = NonZeroOr(users, @)])
      BY <2>5
    <3>2. NonZeroOr(users, sub.users) \in Limit
      BY <2>3, CallsAssumption DEF NonZeroOr, Limit
    <3> DEFINE new == [sub EXCEPT !.users = NonZeroOr(users, @)]
    <3>3. new \in SubBuilder /\ new.kind = "tx"
      BY <2>2, <3>2 DEF TxWorkloads, SubBuilder
    <3> HIDE DEF new
    <3> QED BY <2>2, <3>1, <3>3, SubKeeps DEF new
  <2>6. CASE Gone("failed")
    BY <2>1, <2>6, GoneKeeps
  <2>7. CASE Apply(WithWorkload(b, TxWorkload(sub.rate, sub.users)))
    BY <2>1, <2>3, <2>7, TxWorkloadKeeps
  <2> QED BY <1>2, <2>4, <2>5, <2>6, <2>7 DEF ConfigureTransactions
<1> QED BY <1>1, <1>2

\* chaos() and its sub-builder, up to restart().
LEMMA ChaosKeeps == IInv /\ (Chaos \/ ConfigureChaos) => IInv'
<1> SUFFICES ASSUME IInv, Chaos \/ ConfigureChaos PROVE IInv'
  OBVIOUS
<1>1. CASE Chaos
  <2>1. [kind |-> "chaos"] \in SubBuilder
    BY DEF SubBuilder
  <2> QED BY <1>1, <2>1, SubKeeps DEF Chaos
<1>2. CASE ConfigureChaos
  <2>1. pc = "open" /\ sub.kind = "chaos" /\ sub # NoSub
    BY <1>2 DEF ConfigureChaos, NoSub
  <2>2. calls < MaxCalls /\ b \in Builder
    BY <2>1, SubFacts
  <2>3. CASE Apply(b)
    <3>1. b' = b
      BY <2>3 DEF Apply
    <3>2. BuildAccounts' = BuildAccounts
      BY <3>1 DEF BuildAccounts
    <3>3. FlowsInv' /\ ChaosInv'
      BY <3>1 DEF IInv, FlowsInv, ChaosInv
    <3> QED BY <2>1, <2>2, <2>3, <3>2, <3>3, ApplyKeeps
  <2>4. CASE SubCall([kind |-> "restart", minDelay |-> 10, maxDelay |-> 30,
                      targetCooldown |-> 60, includeNodes |-> TRUE])
    <3> DEFINE new == [kind |-> "restart", minDelay |-> 10, maxDelay |-> 30,
                       targetCooldown |-> 60, includeNodes |-> TRUE]
    <3>1. new \in SubBuilder /\ new.kind = "restart"
      BY DEF SubBuilder
    <3> HIDE DEF new
    <3> QED BY <2>2, <2>4, <3>1, SubKeeps DEF new
  <2> QED BY <1>2, <2>3, <2>4 DEF ConfigureChaos
<1> QED BY <1>1, <1>2

\* The smaller and the larger of two numbers.
LEMMA MinMax ==
    ASSUME NEW x \in Nat, NEW y \in Nat
    PROVE  /\ Min({x, y}) \in {x, y} /\ Min({x, y}) <= x /\ Min({x, y}) <= y
           /\ Max({x, y}) \in {x, y} /\ x <= Max({x, y}) /\ y <= Max({x, y})
<1>1. \E m \in {x, y} : \A z \in {x, y} : m =< z
  BY x <= y \/ y <= x
<1>2. \E m \in {x, y} : \A z \in {x, y} : m >= z
  BY x <= y \/ y <= x
<1>3. Min({x, y}) \in {x, y} /\ \A z \in {x, y} : Min({x, y}) =< z
  BY <1>1 DEF Min
<1>4. Max({x, y}) \in {x, y} /\ \A z \in {x, y} : Max({x, y}) >= z
  BY <1>2 DEF Max
<1> QED BY <1>3, <1>4

\* The restart builder puts the delays in order.
LEMMA ConfigureRestartKeeps == IInv /\ ConfigureRestart => IInv'
<1> SUFFICES ASSUME IInv, ConfigureRestart PROVE IInv'
  OBVIOUS
<1> DEFINE Restarts == [kind : {"restart"}, minDelay : Nat \ {0}, maxDelay : Nat \ {0},
                        targetCooldown : Nat, includeNodes : BOOLEAN]
<1>1. pc = "open" /\ sub.kind = "restart" /\ sub # NoSub
  BY DEF ConfigureRestart, NoSub
<1>2. calls < MaxCalls /\ sub \in Restarts
  BY <1>1, SubFacts DEF SubBuilder, NoSub, TxWorkloads
<1>3. ASSUME NEW new \in Restarts, SubCall(new) PROVE IInv'
  <2>1. new \in SubBuilder /\ new.kind = "restart"
    BY DEF SubBuilder
  <2> QED BY <1>2, <1>3, <2>1, SubKeeps
<1>4. ASSUME NEW f \in {"minDelay", "maxDelay", "targetCooldown"}, NEW d \in Delays,
             SubCall([sub EXCEPT ![f] = NonZeroOr(d, @)])
      PROVE  IInv'
  <2>1. d \in Nat
    BY CallsAssumption
  <2>2. [sub EXCEPT ![f] = NonZeroOr(d, @)] \in Restarts
    <3>1. CASE f = "minDelay"
      BY <1>2, <2>1, <3>1 DEF NonZeroOr
    <3>2. CASE f = "maxDelay"
      BY <1>2, <2>1, <3>2 DEF NonZeroOr
    <3>3. CASE f = "targetCooldown"
      BY <1>2, <2>1, <3>3 DEF NonZeroOr
    <3> QED BY <3>1, <3>2, <3>3
  <2> QED BY <1>3, <1>4, <2>2
<1>5. ASSUME NEW enabled \in BOOLEAN, SubCall([sub EXCEPT !.includeNodes = enabled]) PROVE IInv'
  <2>1. [sub EXCEPT !.includeNodes = enabled] \in Restarts
    BY <1>2
  <2> QED BY <1>3, <1>5, <2>1
<1>6. CASE Apply(WithWorkload(b, RestartWorkload(sub)))
  <2> DEFINE w == RestartWorkload(sub)
             low == Min({sub.minDelay, sub.maxDelay})
             high == Max({sub.minDelay, sub.maxDelay})
             cool == Max({sub.targetCooldown, low})
  <2>1. sub.minDelay \in Nat \ {0} /\ sub.maxDelay \in Nat \ {0} /\ sub.targetCooldown \in Nat
    BY <1>2
  <2>2. low \in Nat \ {0} /\ high \in Nat /\ low <= high
    BY <2>1, MinMax
  <2>3. cool \in Nat /\ low <= cool
    BY <2>1, <2>2, MinMax
  <2>4. w = [kind |-> "restart", minDelay |-> low, maxDelay |-> high, targetCooldown |-> cool,
             includeNodes |-> TRUE]
    BY DEF RestartWorkload
  <2> HIDE DEF low, high, cool, w
  <2>5. /\ w \in RestartWorkloads
        /\ 0 < w.minDelay /\ w.minDelay <= w.maxDelay /\ w.minDelay <= w.targetCooldown
    BY <2>2, <2>3, <2>4 DEF RestartWorkloads
  <2> QED BY <1>1, <1>6, <2>5, SilentWorkload DEF w
<1> QED BY <1>4, <1>5, <1>6 DEF ConfigureRestart

-----------------------------------------------------------------------------
(* The end of a builder                                                    *)

\* build() and create_general_configs end the builder; cfgsync comes after that.
LEMMA EndKeeps == IInv /\ (Build \/ BuildFails \/ CreateGeneralConfigs \/ ServeConfigs) => IInv'
<1> SUFFICES ASSUME IInv, Build \/ BuildFails \/ CreateGeneralConfigs \/ ServeConfigs PROVE IInv'
  OBVIOUS
<1>1. CASE Gone("failed") /\ pc = "open"
  BY <1>1, GoneKeeps
<1>2. CASE pc' \in Made /\ UNCHANGED <<env, b, sub, calls, asked>>
  <2>1. Shapes' /\ ResultInv'
    BY <1>2 DEF IInv, Shapes, ResultInv, Made
  <2>2. FlowsInv' /\ ChaosInv'
    BY <1>2 DEF IInv, FlowsInv, ChaosInv
  <2>3. AskedInv'
    BY <1>2 DEF IInv, AskedInv, Made
  <2> QED BY <2>1, <2>2, <2>3 DEF IInv
<1> QED BY <1>1, <1>2 DEF Build, BuildFails, CreateGeneralConfigs, ServeConfigs, Open, Made

\* A new builder, from with_node_counts or from topology().
LEMMA InitInv == Init => IInv
<1> SUFFICES ASSUME Init PROVE IInv
  OBVIOUS
<1>1. PICK n : /\ n \in NodeCounts \cup {0} /\ b = NewBuilder(n)
               /\ sub = NoSub \/ (n = 0 /\ sub = Configurator)
  <2>1. CASE b \in {NewBuilder(n) : n \in NodeCounts} /\ sub = NoSub
    <3>1. PICK m \in NodeCounts : b = NewBuilder(m)
      BY <2>1
    <3>2. m \in NodeCounts \cup {0}
      OBVIOUS
    <3> QED BY <2>1, <3>1, <3>2
  <2>2. CASE b = NewBuilder(0) /\ sub = Configurator
    BY <2>2
  <2> QED BY <2>1, <2>2 DEF Init
<1>2. NewTopology(n) \in TopologyConfig
  BY <1>1, EmptyWallet DEF NewTopology, TopologyConfig, Layouts
<1>3. b \in Builder /\ b.workloads = <<>> /\ b.expectations = <<>> /\ BuildAccounts = <<>>
  BY <1>1, <1>2 DEF NewBuilder, Builder, Capability, BuildAccounts, NewTopology
<1>4. sub \in SubBuilder
  <2>1. sub \in {NoSub, Configurator}
    BY <1>1
  <2>2. NoSub \in SubBuilder
    BY DEF SubBuilder
  <2>3. Configurator \in SubBuilder
    <3>1. Configurator \in [kind : {"topology"}, nodes : NodeCounts \cup {0}, star : BOOLEAN]
      BY DEF Configurator
    <3> QED BY <3>1 DEF SubBuilder
  <2> QED BY <2>1, <2>2, <2>3
<1>5. Shapes /\ ResultInv
  BY <1>3, <1>4, CallsAssumption DEF Init, Shapes, ResultInv, Made
<1>6. FlowsInv /\ ChaosInv
  <2>1. Len(b.workloads) = 0 /\ b.workloads \in Seq(Workload) /\ b.expectations \in Seq(Expectation)
        /\ Len(b.expectations) = 0
    BY <1>3
  <2>2. Len(OfKind(b.workloads, "tx")) = 0 /\ Len(OfKind(b.expectations, "tx_inclusion")) = 0
    <3>1. \A j \in 1..Len(OfKind(b.workloads, "tx")) : FALSE
      BY <2>1, OfKindFacts
    <3>2. \A j \in 1..Len(OfKind(b.expectations, "tx_inclusion")) : FALSE
      BY <2>1, OfKindFacts
    <3>3. /\ Len(OfKind(b.workloads, "tx")) \in Nat
          /\ Len(OfKind(b.expectations, "tx_inclusion")) \in Nat
      BY <2>1, OfKindFacts
    <3> QED BY <3>1, <3>2, <3>3
  <2> QED BY <2>1, <2>2 DEF FlowsInv, ChaosInv, SameFlows
<1>7. AskedInv
  BY <1>1, <1>3 DEF Init, AskedInv, NoSub, Configurator
<1> QED BY <1>5, <1>6, <1>7 DEF IInv

\* Every step keeps the invariant.
LEMMA StepKeepsInv == IInv /\ [Next]_vars => IInv'
<1> SUFFICES ASSUME IInv, [Next]_vars PROVE IInv'
  OBVIOUS
<1>1. CASE UNCHANGED vars
  <2>1. Shapes' /\ ResultInv'
    BY <1>1 DEF vars, IInv, Shapes, ResultInv
  <2>2. FlowsInv' /\ ChaosInv'
    BY <1>1 DEF vars, IInv, FlowsInv, ChaosInv
  <2>3. AskedInv'
    BY <1>1 DEF vars, IInv, AskedInv, BuildAccounts
  <2> QED BY <2>1, <2>2, <2>3 DEF IInv
<1>2. CASE Next
  BY <1>2, ExpectLivenessKeeps, DurationKeeps, MapTopologyKeeps, WalletCallsKeep, CapsKeep,
     ConfigureTopologyKeeps, TransactionsKeep, ChaosKeeps, ConfigureRestartKeeps, EndKeeps
     DEF Next
<1> QED BY <1>1, <1>2

\* The inductive invariant of the builder: the shapes of all that it keeps, flows
\* with their expectations, normalised chaos workloads, and the wallet that build()
\* would take is the one that was asked for last, through every order of calls on
\* the builder and on its sub-builders.
THEOREM Invariant == Spec => []IInv
BY InitInv, StepKeepsInv, PTL DEF Spec

-----------------------------------------------------------------------------
(* Safety                                                                  *)

\* Flows that agree pairwise are the same flows.
LEMMA FlowsFollow == IInv => ExpectationsFollowWorkloads
<1> SUFFICES ASSUME IInv PROVE ExpectationsFollowWorkloads
  OBVIOUS
<1> DEFINE ws == OfKind(b.workloads, "tx")
           es == OfKind(b.expectations, "tx_inclusion")
<1>1. b.workloads \in Seq(Workload) /\ b.expectations \in Seq(Expectation)
  BY DEF IInv, Shapes, Builder
<1>2. ws \in Seq(Workload) /\ es \in Seq(Expectation) /\ SameFlows(ws, es)
  BY <1>1, OfKindFacts DEF IInv, FlowsInv
<1> HIDE DEF ws, es
<1>3. DOMAIN ws = 1..Len(ws) /\ DOMAIN es = 1..Len(ws)
  BY <1>2 DEF SameFlows
<1>4. [k \in DOMAIN ws |-> <<ws[k].rate, ws[k].users>>]
        = [k \in DOMAIN es |-> <<es[k].rate, es[k].users>>]
  BY <1>2, <1>3 DEF SameFlows
<1> QED BY <1>4 DEF ExpectationsFollowWorkloads, ws, es

\* The restart workloads among all workloads.
LEMMA ChaosNormal == IInv => ChaosIsNormal
<1> SUFFICES ASSUME IInv PROVE ChaosIsNormal
  OBVIOUS
<1> DEFINE rs == OfKind(b.workloads, "restart")
<1>1. b.workloads \in Seq(Workload)
  BY DEF IInv, Shapes, Builder
<1>2. /\ rs \in Seq(Workload)
      /\ \A j \in 1..Len(rs) : \E k \in 1..Len(b.workloads) :
            b.workloads[k].kind = "restart" /\ rs[j] = b.workloads[k]
  BY <1>1, OfKindFacts
<1> HIDE DEF rs
<1>3. ASSUME NEW j \in DOMAIN rs
      PROVE  /\ 0 < rs[j].minDelay /\ rs[j].minDelay <= rs[j].maxDelay
             /\ rs[j].minDelay <= rs[j].targetCooldown
  <2>1. PICK k \in 1..Len(b.workloads) : b.workloads[k].kind = "restart" /\ rs[j] = b.workloads[k]
    BY <1>2
  <2> QED BY <2>1 DEF IInv, ChaosInv
<1> QED BY <1>3 DEF ChaosIsNormal, rs

\* The shapes imply the types.
LEMMA TypesHold == IInv => TypeOK
<1> SUFFICES ASSUME IInv PROVE TypeOK
  OBVIOUS
<1>1. b \in Builder /\ b.topology \in TopologyConfig /\ b.caps \in Capability
  BY DEF IInv, Shapes, Builder
<1>2. b.duration \in Durations \cup {0} /\ b.walletUsers \in UserCounts \cup {None}
  BY <1>1 DEF Builder
<1>3. b.topology.nodes \in NodeCounts \cup {0} /\ b.topology.layout \in Layouts
  BY <1>1 DEF TopologyConfig
<1>4. b.caps.kind \in {"none", "node_control", "observability"}
  BY <1>1 DEF Capability, NoCaps, NodeControl, ObservabilityCaps
<1>5. sub.kind \in {"none", "topology", "tx", "chaos", "restart"}
  BY DEF IInv, Shapes, SubBuilder, NoSub, TxWorkloads
<1> QED BY <1>2, <1>3, <1>4, <1>5 DEF IInv, Shapes, ResultInv, TypeOK

\* Each transaction workload that with_workload added is judged by an expectation
\* with its own rate and user limit, and ChaosRestartBuilder::apply leaves delays in
\* order, above zero and below the cooldown, whatever it was given.
THEOREM SafetyHolds == Spec => []Safety
<1>1. IInv => Safety
  BY TypesHold, FlowsFollow, ChaosNormal DEF Safety
<1> QED BY Invariant, <1>1, PTL

-----------------------------------------------------------------------------
(* What was built                                                          *)

\* A result is made by Build or CreateGeneralConfigs, and changed by ServeConfigs.
LEMMA ResultIsMade ==
    ASSUME [Next]_vars
    PROVE  \/ UNCHANGED vars
           \/ Build
           \/ CreateGeneralConfigs /\ pc' = "configs"
           \/ ServeConfigs
           \/ pc' \notin Made
<1>1. ASSUME NEW new, Call(new) PROVE pc' \notin Made
  BY <1>1 DEF Call, Open, Made
<1>2. ASSUME NEW how \in {"failed", "panic"}, Gone(how) PROVE pc' \notin Made
  BY <1>2 DEF Gone, Made
<1>3. ASSUME NEW new, SubCall(new), pc = "open" PROVE pc' \notin Made
  BY <1>3 DEF SubCall, Made
<1>4. ASSUME NEW new, Apply(new), pc = "open" PROVE pc' \notin Made
  BY <1>4 DEF Apply, Made
<1>5. CASE ExpectConsensusLiveness \/ WithRunDuration \/ MapTopology
  BY <1>1, <1>5 DEF ExpectConsensusLiveness, WithRunDuration, MapTopology
<1>6. CASE WithWalletConfig \/ InitializeWallet \/ Wallets
  BY <1>1, <1>2, <1>6 DEF WithWalletConfig, InitializeWallet, Wallets, CallEnds
<1>7. CASE EnableNodeControl \/ WithFirstUrl \/ WithNextUrl
  BY <1>1, <1>2, <1>7 DEF EnableNodeControl, WithFirstUrl, WithNextUrl, CallEnds
<1>8. CASE ConfigureTopology \/ Transactions \/ ConfigureTransactions
  BY <1>2, <1>3, <1>4, <1>8 DEF ConfigureTopology, Transactions, ConfigureTransactions, Open
<1>9. CASE Chaos \/ ConfigureChaos \/ ConfigureRestart
  BY <1>3, <1>4, <1>9 DEF Chaos, ConfigureChaos, ConfigureRestart, Open
<1>10. CASE BuildFails
  BY <1>2, <1>10 DEF BuildFails
<1>11. CASE CreateGeneralConfigs
  BY <1>2, <1>11 DEF CreateGeneralConfigs
<1> QED
  BY <1>5, <1>6, <1>7, <1>8, <1>9, <1>10, <1>11 DEF Next

\* What build() has returned, before cfgsync has made a genesis of its own.
BuiltInv ==
    pc = "built" =>
        \E m : result = [genesis |-> BuildGenesis, metrics |-> m, caps |-> b.caps,
                         workloads |-> [k \in DOMAIN b.workloads |->
                                           InitWorkload(BuildGenesis, b.workloads[k])],
                         expectations |-> b.expectations]

\* A step keeps it.
LEMMA BuiltStep == BuiltInv /\ [Next]_vars => BuiltInv'
<1> SUFFICES ASSUME BuiltInv, [Next]_vars PROVE BuiltInv'
  OBVIOUS
<1>1. b' = b => BuildGenesis' = BuildGenesis
  BY DEF BuildGenesis, BuildAccounts
<1>2. CASE UNCHANGED vars
  BY <1>1, <1>2 DEF vars, BuiltInv
<1>3. CASE Build
  <2>1. b' = b
    BY <1>3 DEF Build
  <2> QED BY <1>1, <1>3, <2>1 DEF Build, BuiltInv
<1>4. CASE pc' # "built"
  BY <1>4 DEF BuiltInv
<1> QED BY <1>2, <1>3, <1>4, ResultIsMade DEF ServeConfigs, Made

\* It holds always.
LEMMA BuiltHolds == Spec => []BuiltInv
<1>1. Init => BuiltInv
  BY DEF Init, BuiltInv
<1> QED BY <1>1, BuiltStep, PTL DEF Spec

\* build() gives the topology the accounts of the last call about wallets: none of
\* wallets(), with_wallet_config() and initialize_wallet() survives a later one,
\* although wallets() only leaves a number that build() turns into accounts.
THEOREM LastRequestWins == Spec => []WalletIsLastRequest
<1>1. Init => WalletIsLastRequest
  BY DEF Init, WalletIsLastRequest
<1>2. IInv /\ WalletIsLastRequest /\ [Next]_vars => WalletIsLastRequest'
  <2> SUFFICES ASSUME IInv, WalletIsLastRequest, [Next]_vars PROVE WalletIsLastRequest'
    OBVIOUS
  <2>1. CASE UNCHANGED vars
    BY <2>1 DEF vars, WalletIsLastRequest
  <2>2. CASE Build
    <3>1. result'.genesis.accounts = BuildAccounts
      BY <2>2 DEF Build, BuildGenesis, Genesis
    <3>2. asked' = asked /\ asked = BuildAccounts
      BY <2>2 DEF Build, Open, IInv, AskedInv
    <3> QED BY <3>1, <3>2 DEF WalletIsLastRequest
  <2>3. CASE pc' # "built"
    BY <2>3 DEF WalletIsLastRequest
  <2> QED BY <2>1, <2>2, <2>3, ResultIsMade DEF ServeConfigs, Made
<1> QED
  BY Invariant, <1>1, <1>2, PTL DEF Spec

-----------------------------------------------------------------------------
(* Sums of notes                                                           *)

\* f are the running sums of a sequence of notes.
SumsOf(seq, f) == f = [k \in 0..Len(seq) |-> IF k = 0 THEN 0 ELSE f[k - 1] + seq[k].value]

\* The same, one step at a time.
LEMMA SumsSteps ==
    ASSUME NEW V, NEW seq \in Seq(V), NEW f, SumsOf(seq, f)
    PROVE  f[0] = 0 /\ \A k \in 1..Len(seq) : f[k] = f[k - 1] + seq[k].value
<1> DEFINE val(k) == IF k = 0 THEN 0 ELSE f[k - 1] + seq[k].value
<1>1. f = [k \in 0..Len(seq) |-> val(k)]
  BY DEF SumsOf
<1> HIDE DEF val
<1>2. \A k \in 0..Len(seq) : f[k] = val(k)
  BY <1>1
<1>3. 0 \in 0..Len(seq) /\ \A k \in 1..Len(seq) : k \in 0..Len(seq) /\ k # 0
  OBVIOUS
<1> QED
  BY <1>2, <1>3 DEF val

\* Total adds up the values with a function that exists.
LEMMA TotalIsSum ==
    ASSUME NEW V, NEW seq \in Seq(V), \A v \in V : v.value \in Nat
    PROVE  \E f \in [0..Len(seq) -> Nat] :
              /\ f[0] = 0 /\ \A k \in 1..Len(seq) : f[k] = f[k - 1] + seq[k].value
              /\ Total(seq) = f[Len(seq)]
<1> DEFINE n == Len(seq)
           step == [p \in (1..n) \X Nat |-> p[2] + seq[p[1]].value]
<1>1. n \in Nat
  OBVIOUS
<1>2. step \in [(1..n) \X Nat -> Nat]
  <2>1. ASSUME NEW p \in (1..n) \X Nat PROVE step[p] \in Nat
    <3>1. p[1] \in 1..n /\ p[2] \in Nat /\ seq[p[1]] \in V
      OBVIOUS
    <3> QED BY <3>1
  <2> QED BY <2>1
<1>3. PICK f \in [0..n -> Nat] : Follows(f, n, 0, step)
  <2> HIDE DEF step, n
  <2> QED BY <1>1, <1>2, Recursion
<1>4. SumsOf(seq, f)
  <2> DEFINE val(k) == f[k - 1] + seq[k].value
  <2>1. ASSUME NEW k \in 1..n PROVE f[k] = val(k)
    <3>1. <<k, f[k - 1]>> \in (1..n) \X Nat
      BY <2>1
    <3> QED BY <1>3, <3>1 DEF Follows
  <2>2. f[0] = 0
    BY <1>3 DEF Follows
  <2> HIDE DEF step, val
  <2>3. ASSUME NEW k \in 0..n PROVE f[k] = IF k = 0 THEN 0 ELSE val(k)
    <3>1. CASE k = 0 BY <2>2, <3>1
    <3>2. CASE k \in 1..n BY <2>1, <3>2
    <3> QED BY <3>1, <3>2
  <2> QED BY <2>3 DEF SumsOf, val
<1> DEFINE g == CHOOSE h : SumsOf(seq, h)
<1>5. SumsOf(seq, g)
  BY <1>4
<1>6. Total(seq) = g[n]
  BY DEF Total, SumsOf
<1> HIDE DEF g, step
<1>7. \A k \in 1..n : f[k] = f[k - 1] + seq[k].value
  BY <1>4, SumsSteps
<1>8. \A k \in 1..n : g[k] = g[k - 1] + seq[k].value
  BY <1>5, SumsSteps
<1>9. f[0] = 0 /\ g[0] = 0
  BY <1>4, <1>5, SumsSteps
<1>10. \A k \in 0..n : g[k] = f[k]
  <2> DEFINE S == {k \in 0..n : g[k] = f[k]}
  <2>1. 0 \in S
    BY <1>1, <1>9
  <2>2. ASSUME NEW k \in 1..n, k - 1 \in S PROVE k \in S
    BY <1>7, <1>8, <2>2
  <2>3. 0..n \subseteq S
    <3> HIDE DEF S, n
    <3> QED BY <1>1, <2>1, <2>2, UpTo
  <2> QED BY <2>3
<1> QED
  BY <1>1, <1>6, <1>7, <1>9, <1>10

-----------------------------------------------------------------------------
(* The notes of the nodes                                                  *)

\* Notes, the entries of the service lists, and what NodeNotes carries along.
Note == [key : {"ld", "bn", "sdp", "wallet"} \X Nat, value : Nat]
Entry == [note : Note, outputIndex : Nat]
Notes == [utxos : Seq(Note), bn : Seq(Entry), sdp : Seq(Entry), outputIndex : Nat]

\* The notes that create_utxos_for_leader_and_services makes for a node.
LeaderNote(id) == [key |-> <<"ld", id>>, value |-> 1000]
ServiceNote(prefix, id) == [key |-> <<prefix, id>>, value |-> 1]

\* The notes of one node more.
PushNode(g, id) == PushService(PushService(PushLeader(g, id), "bn", id), "sdp", id)

\* What the three pushes for a node do.
LEMMA PushNodeIs ==
    ASSUME NEW g \in Notes, NEW id \in Nat
    PROVE  /\ PushNode(g, id) \in Notes
           /\ PushNode(g, id).utxos =
                 Append(Append(Append(g.utxos, LeaderNote(id)), ServiceNote("bn", id)),
                        ServiceNote("sdp", id))
           /\ PushNode(g, id).bn =
                 Append(g.bn, [note |-> ServiceNote("bn", id), outputIndex |-> g.outputIndex + 1])
           /\ PushNode(g, id).outputIndex = g.outputIndex + 3
<1> DEFINE ld == LeaderNote(id)
           bn == ServiceNote("bn", id)
           sdp == ServiceNote("sdp", id)
<1>1. ld \in Note /\ bn \in Note /\ sdp \in Note
  BY DEF Note, LeaderNote, ServiceNote
<1>2. g.utxos \in Seq(Note) /\ g.bn \in Seq(Entry) /\ g.sdp \in Seq(Entry) /\ g.outputIndex \in Nat
  BY DEF Notes
<1>3. PushLeader(g, id) = [g EXCEPT !.utxos = Append(@, ld), !.outputIndex = @ + 1]
  BY DEF PushLeader, LeaderNote
<1>4. ASSUME NEW h \in Notes
      PROVE  /\ PushService(h, "bn", id) =
                   [utxos |-> Append(h.utxos, bn),
                    bn |-> Append(h.bn, [note |-> bn, outputIndex |-> h.outputIndex]),
                    sdp |-> h.sdp, outputIndex |-> h.outputIndex + 1]
             /\ PushService(h, "sdp", id) =
                   [utxos |-> Append(h.utxos, sdp), bn |-> h.bn,
                    sdp |-> Append(h.sdp, [note |-> sdp, outputIndex |-> h.outputIndex]),
                    outputIndex |-> h.outputIndex + 1]
  <2>1. h = [utxos |-> h.utxos, bn |-> h.bn, sdp |-> h.sdp, outputIndex |-> h.outputIndex]
    BY DEF Notes
  <2>2. PushService(h, "bn", id) =
          [h EXCEPT !.utxos = Append(h.utxos, bn),
                    !.bn = Append(h.bn, [note |-> bn, outputIndex |-> h.outputIndex]),
                    !.outputIndex = h.outputIndex + 1]
    BY <2>1 DEF PushService, ServiceNote
  <2>3. PushService(h, "sdp", id) =
          [h EXCEPT !.utxos = Append(h.utxos, sdp),
                    !.sdp = Append(h.sdp, [note |-> sdp, outputIndex |-> h.outputIndex]),
                    !.outputIndex = h.outputIndex + 1]
    BY <2>1 DEF PushService, ServiceNote
  <2> HIDE DEF bn, sdp
  <2> QED BY <2>1, <2>2, <2>3
<1> HIDE DEF ld, bn, sdp
<1> DEFINE g1 == [utxos |-> Append(g.utxos, ld), bn |-> g.bn, sdp |-> g.sdp,
                  outputIndex |-> g.outputIndex + 1]
           e2 == [note |-> bn, outputIndex |-> g.outputIndex + 1]
           g2 == [utxos |-> Append(Append(g.utxos, ld), bn), bn |-> Append(g.bn, e2),
                  sdp |-> g.sdp, outputIndex |-> g.outputIndex + 2]
           e3 == [note |-> sdp, outputIndex |-> g.outputIndex + 2]
           g3 == [utxos |-> Append(Append(Append(g.utxos, ld), bn), sdp), bn |-> Append(g.bn, e2),
                  sdp |-> Append(g.sdp, e3), outputIndex |-> g.outputIndex + 3]
<1>5. PushLeader(g, id) = g1
  BY <1>2, <1>3 DEF Notes
<1>6. /\ Append(g.utxos, ld) \in Seq(Note) /\ Append(Append(g.utxos, ld), bn) \in Seq(Note)
      /\ Append(Append(Append(g.utxos, ld), bn), sdp) \in Seq(Note)
  BY <1>1, <1>2
<1>7. e2 \in Entry /\ e3 \in Entry
  BY <1>1, <1>2 DEF Entry
<1>8. Append(g.bn, e2) \in Seq(Entry) /\ Append(g.sdp, e3) \in Seq(Entry)
  <2> HIDE DEF e2, e3
  <2> QED BY <1>2, <1>7
<1>9. g1 \in Notes /\ g2 \in Notes /\ g3 \in Notes
  BY <1>2, <1>6, <1>8 DEF Notes
<1>10. (g.outputIndex + 1) + 1 = g.outputIndex + 2 /\ (g.outputIndex + 2) + 1 = g.outputIndex + 3
  BY <1>2
<1>11. PushService(g1, "bn", id) = g2
  BY <1>4, <1>9, <1>10
<1>12. PushService(g2, "sdp", id) = g3
  BY <1>4, <1>9, <1>10
<1>13. PushNode(g, id) = g3
  BY <1>5, <1>11, <1>12 DEF PushNode
<1> QED BY <1>9, <1>13, SMTT(60) DEF ld, bn, sdp

\* f[k] are the notes of the first k nodes.
NotesOf(ids, f) == f = [k \in 0..Len(ids) |-> IF k = 0 THEN NoNotes ELSE PushNode(f[k - 1], ids[k])]

\* The same, one step at a time.
LEMMA NotesSteps ==
    ASSUME NEW ids \in Seq(Nat), NEW f, NotesOf(ids, f)
    PROVE  f[0] = NoNotes /\ \A k \in 1..Len(ids) : f[k] = PushNode(f[k - 1], ids[k])
<1> DEFINE val(k) == IF k = 0 THEN NoNotes ELSE PushNode(f[k - 1], ids[k])
<1>1. f = [k \in 0..Len(ids) |-> val(k)]
  BY DEF NotesOf
<1> HIDE DEF val
<1>2. \A k \in 0..Len(ids) : f[k] = val(k)
  BY <1>1
<1>3. 0 \in 0..Len(ids) /\ \A k \in 1..Len(ids) : k \in 0..Len(ids) /\ k # 0
  OBVIOUS
<1> QED
  BY <1>2, <1>3 DEF val

\* NodeNotes goes through the nodes with a function that exists.
LEMMA NodeNotesAre ==
    ASSUME NEW ids \in Seq(Nat)
    PROVE  \E f : NotesOf(ids, f) /\ NodeNotes(ids) = f[Len(ids)]
<1> DEFINE n == Len(ids)
           step == [p \in (1..n) \X Notes |-> PushNode(p[2], ids[p[1]])]
<1>1. n \in Nat /\ NoNotes \in Notes
  BY DEF NoNotes, Notes
<1>2. step \in [(1..n) \X Notes -> Notes]
  <2>1. ASSUME NEW p \in (1..n) \X Notes PROVE step[p] \in Notes
    <3>1. p[1] \in 1..n /\ p[2] \in Notes /\ ids[p[1]] \in Nat
      OBVIOUS
    <3> QED BY <3>1, PushNodeIs
  <2> QED BY <2>1
<1>3. PICK f \in [0..n -> Notes] : Follows(f, n, NoNotes, step)
  <2> HIDE DEF step, n
  <2> QED BY <1>1, <1>2, Recursion
<1>4. NotesOf(ids, f)
  <2> DEFINE val(k) == PushNode(f[k - 1], ids[k])
  <2>1. ASSUME NEW k \in 1..n PROVE f[k] = val(k)
    <3>1. <<k, f[k - 1]>> \in (1..n) \X Notes
      BY <2>1, SMTT(30)
    <3> QED BY <1>3, <3>1 DEF Follows
  <2>2. f[0] = NoNotes
    BY <1>3 DEF Follows
  <2> HIDE DEF step, val
  <2>3. ASSUME NEW k \in 0..n PROVE f[k] = IF k = 0 THEN NoNotes ELSE val(k)
    <3>1. CASE k = 0 BY <2>2, <3>1
    <3>2. CASE k \in 1..n BY <2>1, <3>2
    <3> QED BY <3>1, <3>2
  <2> QED BY <2>3 DEF NotesOf, val
<1> DEFINE g == CHOOSE h : NotesOf(ids, h)
<1>5. NotesOf(ids, g)
  BY <1>4
<1>6. NodeNotes(ids) = g[n]
  BY DEF NodeNotes, NotesOf, PushNode
<1> QED BY <1>5, <1>6

\* The first k nodes have three notes each; the second is the blend note, whose
\* entry has the place that the note takes, counted from 0.
InPlace(ids, k, g) ==
    /\ g \in Notes
    /\ Len(g.utxos) = 3 * k /\ g.outputIndex = 3 * k /\ Len(g.bn) = k
    /\ \A i \in 1..k :
          /\ g.utxos[3 * i - 2] = LeaderNote(ids[i])
          /\ g.utxos[3 * i - 1] = ServiceNote("bn", ids[i])
          /\ g.utxos[3 * i] = ServiceNote("sdp", ids[i])
          /\ g.bn[i] = [note |-> ServiceNote("bn", ids[i]), outputIndex |-> 3 * i - 2]

\* An element more, by position.
LEMMA AppendFacts ==
    ASSUME NEW V, NEW s \in Seq(V), NEW x \in V, NEW m \in Nat, Len(s) = m
    PROVE  /\ Append(s, x) \in Seq(V) /\ Len(Append(s, x)) = m + 1 /\ Append(s, x)[m + 1] = x
           /\ \A j \in 1..m : Append(s, x)[j] = s[j]
OBVIOUS

\* Two sequences in a row, by position.
LEMMA ConcatFacts ==
    ASSUME NEW V, NEW s \in Seq(V), NEW t \in Seq(V), NEW m \in Nat, Len(s) = m
    PROVE  /\ s \o t \in Seq(V) /\ Len(s \o t) = m + Len(t)
           /\ \A j \in 1..m : (s \o t)[j] = s[j]
           /\ \A k \in 1..Len(t) : (s \o t)[m + k] = t[k]
OBVIOUS

\* The notes of one node more are in place.
LEMMA PushInPlace ==
    ASSUME NEW ids \in Seq(Nat), NEW k \in 1..Len(ids), NEW g, InPlace(ids, k - 1, g)
    PROVE  InPlace(ids, k, PushNode(g, ids[k]))
<1> DEFINE h == PushNode(g, ids[k])
           u == g.utxos
           ld == LeaderNote(ids[k])
           bn == ServiceNote("bn", ids[k])
           sdp == ServiceNote("sdp", ids[k])
           e == [note |-> bn, outputIndex |-> g.outputIndex + 1]
<1>1. /\ g \in Notes /\ u \in Seq(Note) /\ g.bn \in Seq(Entry) /\ ids[k] \in Nat
      /\ Len(u) = 3 * (k - 1) /\ g.outputIndex = 3 * (k - 1) /\ Len(g.bn) = k - 1
  BY SMTT(30) DEF InPlace, Notes
<1>2. /\ h \in Notes /\ h.utxos = Append(Append(Append(u, ld), bn), sdp)
      /\ h.bn = Append(g.bn, e) /\ h.outputIndex = g.outputIndex + 3
  BY <1>1, PushNodeIs
<1>3. \A i \in 1..(k - 1) :
          /\ u[3 * i - 2] = LeaderNote(ids[i])
          /\ u[3 * i - 1] = ServiceNote("bn", ids[i])
          /\ u[3 * i] = ServiceNote("sdp", ids[i])
          /\ g.bn[i] = [note |-> ServiceNote("bn", ids[i]), outputIndex |-> 3 * i - 2]
  BY DEF InPlace
<1>4. e.outputIndex = 3 * k - 2 /\ e = [note |-> bn, outputIndex |-> 3 * k - 2]
  BY <1>1
<1>10. ld \in Note /\ bn \in Note /\ sdp \in Note
  BY <1>1 DEF Note, LeaderNote, ServiceNote
<1> DEFINE u1 == Append(u, ld)
           u2 == Append(u1, bn)
           u3 == Append(u2, sdp)
           m == 3 * (k - 1)
<1> HIDE DEF h, u, ld, bn, sdp, e
<1>11. m \in Nat /\ Len(u) = m
  BY <1>1
<1> HIDE DEF m
<1>12. /\ u1 \in Seq(Note) /\ Len(u1) = m + 1 /\ u1[m + 1] = ld
       /\ \A j \in 1..m : u1[j] = u[j]
  BY <1>1, <1>10, <1>11, AppendFacts
<1> HIDE DEF u1
<1>13. /\ u2 \in Seq(Note) /\ Len(u2) = m + 2 /\ u2[m + 2] = bn
       /\ \A j \in 1..(m + 1) : u2[j] = u1[j]
  BY <1>10, <1>11, <1>12
<1> HIDE DEF u2
<1>14. /\ Len(u3) = m + 3 /\ u3[m + 3] = sdp /\ \A j \in 1..(m + 2) : u3[j] = u2[j]
  BY <1>10, <1>11, <1>13
<1> HIDE DEF u3
<1>15. h.utxos = u3
  BY <1>2 DEF u1, u2, u3
<1>5. Len(h.utxos) = 3 * k /\ h.outputIndex = 3 * k /\ Len(h.bn) = k
  <2>1. Len(h.bn) = k
    BY <1>1, <1>2
  <2>2. Len(h.utxos) = 3 * k /\ h.outputIndex = 3 * k
    BY <1>1, <1>2, <1>14, <1>15 DEF m
  <2> QED BY <2>1, <2>2
<1>6. /\ h.utxos[3 * k - 2] = ld /\ h.utxos[3 * k - 1] = bn /\ h.utxos[3 * k] = sdp
      /\ h.bn[k] = e
  <2>1. h.bn[k] = e
    BY <1>1, <1>2
  <2>2. m + 1 = 3 * k - 2 /\ m + 2 = 3 * k - 1 /\ m + 3 = 3 * k
    BY DEF m
  <2>3. u3[m + 1] = ld /\ u3[m + 2] = bn
    BY <1>11, <1>12, <1>13, <1>14, SMTT(30)
  <2> QED BY <1>14, <1>15, <2>1, <2>2, <2>3
<1>7. \A j \in 1..(3 * (k - 1)) : h.utxos[j] = u[j]
  <2>1. \A j \in 1..m : u3[j] = u[j]
    BY <1>11, <1>12, <1>13, <1>14
  <2> QED BY <1>15, <2>1 DEF m
<1>8. \A i \in 1..(k - 1) : h.bn[i] = g.bn[i]
  BY <1>1, <1>2
<1>9. ASSUME NEW i \in 1..k
      PROVE  /\ h.utxos[3 * i - 2] = LeaderNote(ids[i])
             /\ h.utxos[3 * i - 1] = ServiceNote("bn", ids[i])
             /\ h.utxos[3 * i] = ServiceNote("sdp", ids[i])
             /\ h.bn[i] = [note |-> ServiceNote("bn", ids[i]), outputIndex |-> 3 * i - 2]
  <2>1. CASE i = k
    BY <1>4, <1>6, <2>1 DEF ld, bn, sdp
  <2>2. CASE i \in 1..(k - 1)
    <3>1. /\ 3 * i - 2 \in 1..(3 * (k - 1)) /\ 3 * i - 1 \in 1..(3 * (k - 1))
          /\ 3 * i \in 1..(3 * (k - 1))
      BY <2>2
    <3> QED BY <1>3, <1>7, <1>8, <2>2, <3>1
  <2> QED BY <2>1, <2>2
<1> QED BY <1>2, <1>5, <1>9 DEF InPlace, h

\* Three notes for every node, and each blend entry knows the place of its note.
LEMMA NotesInPlace ==
    ASSUME NEW ids \in Seq(Nat) PROVE InPlace(ids, Len(ids), NodeNotes(ids))
<1> DEFINE n == Len(ids)
<1>1. PICK f : NotesOf(ids, f) /\ NodeNotes(ids) = f[n]
  BY NodeNotesAre
<1>2. n \in Nat
  OBVIOUS
<1>3. f[0] = NoNotes /\ \A k \in 1..n : f[k] = PushNode(f[k - 1], ids[k])
  BY <1>1, NotesSteps
<1> DEFINE S == {k \in 0..n : InPlace(ids, k, f[k])}
<1>4. 0 \in S
  <2>1. InPlace(ids, 0, NoNotes)
    BY DEF InPlace, NoNotes, Notes
  <2> QED BY <1>2, <1>3, <2>1
<1>5. ASSUME NEW k \in 1..n, k - 1 \in S PROVE k \in S
  BY <1>3, <1>5, PushInPlace
<1>6. 0..n \subseteq S
  <2> HIDE DEF S, n
  <2> QED BY <1>2, <1>4, <1>5, UpTo
<1> QED BY <1>1, <1>2, <1>6

-----------------------------------------------------------------------------
(* The genesis transaction                                                 *)

\* Accounts are notes.
LEMMA WalletIsNotes == ASSUME NEW w \in Wallet PROVE w \in Seq(Note)
<1> DEFINE A == [key : {"wallet"} \X Nat, value : Nat]
<1>1. A \subseteq Note
  BY DEF Note
<1>2. w \in Seq(A)
  BY DEF Wallet
<1> HIDE DEF A
<1> QED BY <1>1, <1>2

\* The outputs are the notes of the nodes, three each, and then the accounts.
LEMMA OutputsAre ==
    ASSUME NEW ids \in Seq(Nat), NEW accounts \in Wallet
    PROVE  LET o == GenesisOutputs(ids, accounts)
               n == Len(ids)
           IN  /\ o \in Seq(Note) /\ Len(o) = 3 * n + Len(accounts)
               /\ \A i \in 1..n :
                     /\ o[3 * i - 2] = LeaderNote(ids[i])
                     /\ o[3 * i - 1] = ServiceNote("bn", ids[i])
                     /\ o[3 * i] = ServiceNote("sdp", ids[i])
               /\ \A k \in 1..Len(accounts) : o[3 * n + k] = accounts[k]
<1> DEFINE n == Len(ids)
           u == NodeNotes(ids).utxos
           o == u \o accounts
           m == 3 * n
<1>1. InPlace(ids, n, NodeNotes(ids))
  BY NotesInPlace
<1>2. u \in Seq(Note) /\ Len(u) = m /\ m \in Nat
  BY <1>1 DEF InPlace, Notes
<1>3. \A i \in 1..n : /\ u[3 * i - 2] = LeaderNote(ids[i])
                      /\ u[3 * i - 1] = ServiceNote("bn", ids[i])
                      /\ u[3 * i] = ServiceNote("sdp", ids[i])
  BY <1>1 DEF InPlace
<1>4. accounts \in Seq(Note)
  BY WalletIsNotes
<1>5. GenesisOutputs(ids, accounts) = o
  BY DEF GenesisOutputs
<1>6. \A i \in 1..n : 3 * i - 2 \in 1..m /\ 3 * i - 1 \in 1..m /\ 3 * i \in 1..m
  OBVIOUS
<1> HIDE DEF u, m
<1>7. /\ o \in Seq(Note) /\ Len(o) = m + Len(accounts)
      /\ \A j \in 1..m : o[j] = u[j]
      /\ \A k \in 1..Len(accounts) : o[m + k] = accounts[k]
  BY <1>2, <1>4, ConcatFacts
<1> HIDE DEF o
<1>8. \A i \in 1..n : /\ o[3 * i - 2] = LeaderNote(ids[i])
                      /\ o[3 * i - 1] = ServiceNote("bn", ids[i])
                      /\ o[3 * i] = ServiceNote("sdp", ids[i])
  BY <1>3, <1>6, <1>7
<1> QED BY <1>5, <1>7, <1>8 DEF m

\* The outputs hold 1002 tokens for each node and the funds of the accounts.
LEMMA OutputsTotal ==
    ASSUME NEW ids \in Seq(Nat), NEW accounts \in Wallet
    PROVE  Total(GenesisOutputs(ids, accounts)) = 1002 * Len(ids) + Total(accounts)
<1> DEFINE o == GenesisOutputs(ids, accounts)
           n == Len(ids)
           c == Len(accounts)
<1>1. /\ o \in Seq(Note) /\ Len(o) = 3 * n + c /\ n \in Nat /\ c \in Nat
      /\ \A i \in 1..n : /\ o[3 * i - 2] = LeaderNote(ids[i])
                          /\ o[3 * i - 1] = ServiceNote("bn", ids[i])
                          /\ o[3 * i] = ServiceNote("sdp", ids[i])
      /\ \A k \in 1..c : o[3 * n + k] = accounts[k]
  BY OutputsAre DEF Wallet
<1>2. accounts \in Seq(Note) /\ \A v \in Note : v.value \in Nat
  BY WalletIsNotes DEF Note
<1> HIDE DEF o
<1>3. PICK t \in [0..Len(o) -> Nat] :
        /\ t[0] = 0 /\ \A k \in 1..Len(o) : t[k] = t[k - 1] + o[k].value
        /\ Total(o) = t[Len(o)]
  BY <1>1, <1>2, TotalIsSum
<1>4. PICK a \in [0..c -> Nat] :
        /\ a[0] = 0 /\ \A k \in 1..c : a[k] = a[k - 1] + accounts[k].value
        /\ Total(accounts) = a[c]
  BY <1>2, TotalIsSum
<1> HIDE DEF n, c
<1>5. t[3 * n] = 1002 * n
  <2> DEFINE S == {i \in 0..n : t[3 * i] = 1002 * i}
  <2>1. 0 \in S
    BY <1>1, <1>3
  <2>2. ASSUME NEW i \in 1..n, i - 1 \in S PROVE i \in S
    <3>1. t[3 * (i - 1)] = 1002 * (i - 1) /\ 3 * (i - 1) = 3 * i - 3
      BY <2>2
    <3>2. 3 * i - 2 \in 1..Len(o) /\ 3 * i - 1 \in 1..Len(o) /\ 3 * i \in 1..Len(o)
      BY <1>1, SMTT(30)
    <3>3. /\ (3 * i - 2) - 1 = 3 * i - 3 /\ (3 * i - 1) - 1 = 3 * i - 2
          /\ 3 * i - 1 \in Int
      OBVIOUS
    <3>4. /\ o[3 * i - 2].value = 1000 /\ o[3 * i - 1].value = 1 /\ o[3 * i].value = 1
      <4>1. /\ o[3 * i - 2] = LeaderNote(ids[i]) /\ o[3 * i - 1] = ServiceNote("bn", ids[i])
            /\ o[3 * i] = ServiceNote("sdp", ids[i])
        BY <1>1
      <4>2. /\ LeaderNote(ids[i]).value = 1000 /\ ServiceNote("bn", ids[i]).value = 1
            /\ ServiceNote("sdp", ids[i]).value = 1
        BY DEF LeaderNote, ServiceNote
      <4> QED BY <4>1, <4>2
    <3>5. t[3 * i - 2] = t[3 * i - 3] + 1000
      BY <1>3, <3>2, <3>3, <3>4, SMTT(30)
    <3>6. t[3 * i - 1] = t[3 * i - 2] + 1
      BY <1>3, <3>2, <3>3, <3>4, SMTT(30)
    <3>7. t[3 * i] = t[3 * i - 1] + 1
      BY <1>3, <3>2, <3>3, <3>4
    <3>8. t[3 * i] = 1002 * i
      BY <3>1, <3>5, <3>6, <3>7
    <3> QED BY <3>8
  <2>3. 0..n \subseteq S
    <3> HIDE DEF S
    <3> QED BY <1>1, <2>1, <2>2, UpTo
  <2> QED BY <1>1, <2>3
<1>6. t[3 * n + c] = 1002 * n + a[c]
  <2> DEFINE m == 3 * n
             base == 1002 * n
             S == {k \in 0..c : t[m + k] = base + a[k]}
  <2>1. m \in Nat /\ base \in Nat /\ Len(o) = m + c /\ t[m] = base
    BY <1>1, <1>5
  <2>2. \A k \in 1..c : o[m + k] = accounts[k]
    BY <1>1
  <2> HIDE DEF m, base
  <2>3. 0 \in S
    BY <1>1, <1>4, <2>1
  <2>4. ASSUME NEW k \in 1..c, k - 1 \in S PROVE k \in S
    <3>1. m + k \in 1..Len(o) /\ (m + k) - 1 = m + (k - 1) /\ k - 1 \in 0..c
      BY <1>1, <2>1
    <3>2. t[m + k] = t[m + (k - 1)] + accounts[k].value
      BY <1>3, <2>2, <3>1
    <3>3. t[m + (k - 1)] = base + a[k - 1]
      BY <2>4
    <3>4. a[k] = a[k - 1] + accounts[k].value /\ a[k - 1] \in Nat /\ accounts[k].value \in Nat
      <4>1. accounts[k] \in Note
        BY <1>2 DEF c
      <4> QED BY <1>2, <1>4, <3>1, <4>1
    <3>5. t[m + k] = base + a[k]
      BY <2>1, <3>2, <3>3, <3>4, SMTT(30)
    <3> QED BY <3>5
  <2>5. 0..c \subseteq S
    <3> HIDE DEF S
    <3> QED BY <1>1, <2>3, <2>4, UpTo
  <2> QED BY <1>1, <2>5 DEF m, base
<1> QED BY <1>1, <1>3, <1>4, <1>6 DEF o, n

\* The genesis transaction of any ids and any wallet: every declaration locks a note
\* of its provider at the right place, whoever's keys are held besides.
LEMMA GenesisSound ==
    ASSUME NEW ids \in Seq(Nat), NEW core \in 0..Len(ids), NEW accounts \in Wallet,
           NEW g, NEW held, g.ids = ids, g.accounts = accounts,
           g.outputs = GenesisOutputs(ids, accounts),
           g.declarations = Declarations(ProviderInfos(ids, core)), g.kms = KmsKeys(ids, held)
    PROVE  SoundGenesis(g)
<1> DEFINE o == GenesisOutputs(ids, accounts)
           entry(i) == [note |-> ServiceNote("bn", ids[i]), outputIndex |-> 3 * i - 2]
           lock == [i \in DOMAIN g.declarations |-> g.declarations[i].locks.outputIndex]
           zkKey == [i \in DOMAIN g.declarations |-> g.declarations[i].zkKey]
<1>1. g.outputs = o
  OBVIOUS
<1>2. /\ DOMAIN g.declarations = 1..core
      /\ \A i \in 1..core : /\ g.declarations[i].provider = ids[i]
                             /\ g.declarations[i].zkKey = <<"zk", ids[i]>>
                             /\ g.declarations[i].locks = NodeNotes(ids).bn[i]
  BY DEF Declarations, ProviderInfos
<1>3. \A i \in 1..core : NodeNotes(ids).bn[i] = entry(i)
  BY NotesInPlace DEF InPlace
<1>4. \A i \in 1..core : o[3 * i - 1] = ServiceNote("bn", ids[i])
  BY OutputsAre
<1> HIDE DEF o
<1>5. ASSUME NEW i \in 1..core
      PROVE  /\ lock[i] = 3 * i - 2 /\ lock[i] + 1 = 3 * i - 1
             /\ g.declarations[i].locks.note = ServiceNote("bn", ids[i])
  <2>1. g.declarations[i].locks = entry(i)
    BY <1>2, <1>3
  <2>2. lock[i] = entry(i).outputIndex
    BY <1>2, <2>1
  <2>3. entry(i).outputIndex = 3 * i - 2 /\ entry(i).note = ServiceNote("bn", ids[i])
    OBVIOUS
  <2> HIDE DEF lock, entry
  <2> QED BY <2>1, <2>2, <2>3
<1>6. DOMAIN lock = 1..core
  BY <1>2
<1> HIDE DEF lock
<1>7. ASSUME NEW i \in DOMAIN g.declarations
      PROVE  /\ g.outputs[lock[i] + 1] = g.declarations[i].locks.note
             /\ g.outputs[lock[i] + 1].key = <<"bn", g.declarations[i].provider>>
  <2>1. i \in 1..core
    BY <1>2
  <2>2. g.outputs[lock[i] + 1] = ServiceNote("bn", ids[i])
    BY <1>1, <1>4, <1>5, <2>1
  <2>3. ServiceNote("bn", ids[i]).key = <<"bn", ids[i]>>
    BY DEF ServiceNote
  <2> QED BY <1>2, <1>5, <2>1, <2>2, <2>3
<1>8. IsInjective(lock)
  BY <1>5, <1>6 DEF IsInjective
<1>9. Total(g.outputs) = 1002 * Len(g.ids) + Total(g.accounts)
  BY <1>1, OutputsTotal DEF o
<1>10. IsInjective(ids) => IsInjective(zkKey)
  <2> SUFFICES ASSUME IsInjective(ids), NEW i \in 1..core, NEW j \in 1..core, zkKey[i] = zkKey[j]
               PROVE  i = j
    BY <1>2 DEF IsInjective
  <2>1. zkKey[i] = <<"zk", ids[i]>> /\ zkKey[j] = <<"zk", ids[j]>>
    BY <1>2
  <2>2. i \in DOMAIN ids /\ j \in DOMAIN ids /\ ids[i] = ids[j]
    BY <2>1
  <2> QED BY <2>2 DEF IsInjective
<1>11. ASSUME NEW i \in DOMAIN g.ids
       PROVE  {<<"ed25519", g.ids[i]>>, <<"zk", g.ids[i]>>} \subseteq g.kms[i]
  BY DEF KmsKeys, BlendKeys
<1> QED BY <1>7, <1>8, <1>9, <1>10, <1>11, ZenonT(60) DEF SoundGenesis, lock, zkKey

\* In particular that of build() and of create_general_configs, where every key
\* store has the keys of the accounts, and that of cfgsync.
LEMMA MadeIsSound ==
    ASSUME NEW ids \in Seq(Nat), NEW core \in 0..Len(ids), NEW accounts \in Wallet
    PROVE  /\ SoundGenesis(Genesis(ids, core, accounts)) /\ HoldsWallets(Genesis(ids, core, accounts))
           /\ SoundGenesis(CfgsyncGenesis(ids, accounts))
<1>1. SoundGenesis(Genesis(ids, core, accounts))
  <2> DEFINE g == Genesis(ids, core, accounts)
  <2>1. /\ g.ids = ids /\ g.accounts = accounts /\ g.outputs = GenesisOutputs(ids, accounts)
        /\ g.declarations = Declarations(ProviderInfos(ids, core)) /\ g.kms = KmsKeys(ids, accounts)
    BY DEF Genesis
  <2> HIDE DEF g
  <2>2. SoundGenesis(g)
    BY <2>1, GenesisSound
  <2> QED BY <2>2 DEF g
<1>2. HoldsWallets(Genesis(ids, core, accounts))
  BY DEF HoldsWallets, Genesis, KmsKeys
<1>3. SoundGenesis(CfgsyncGenesis(ids, accounts))
  <2> DEFINE g == CfgsyncGenesis(ids, accounts)
  <2>1. /\ g.ids = ids /\ g.accounts = accounts /\ g.outputs = GenesisOutputs(ids, accounts)
        /\ g.declarations = Declarations(ProviderInfos(ids, Len(ids)))
        /\ g.kms = KmsKeys(ids, <<>>)
    BY DEF CfgsyncGenesis, Genesis
  <2> HIDE DEF g
  <2>2. Len(ids) \in 0..Len(ids)
    OBVIOUS
  <2>3. SoundGenesis(g)
    BY <2>1, <2>2, GenesisSound
  <2> QED BY <2>3 DEF g
<1> QED BY <1>1, <1>2, <1>3

\* The ids that build() resolves, given or fresh.
LEMMA BuildIdsAre ==
    ASSUME IInv
    PROVE  ResolvedIds(b.topology, None) \in Seq(Nat)
<1>1. b.topology.ids \in GivenIds \cup {None} /\ b.topology.nodes \in Nat
  <2>1. b.topology \in TopologyConfig
    BY DEF IInv, Shapes, Builder
  <2>2. b.topology.ids \in GivenIds \cup {None} /\ b.topology.nodes \in NodeCounts \cup {0}
    BY <2>1 DEF TopologyConfig
  <2>3. NodeCounts \cup {0} \subseteq Nat
    BY CallsAssumption
  <2> QED BY <2>2, <2>3
<1>2. FreshIds(b.topology.nodes) \in Seq(Nat)
  BY <1>1 DEF FreshIds
<1> QED BY <1>1, <1>2, CallsAssumption DEF ResolvedIds

\* What cfgsync is given of a built scenario, and what it makes of it.
LEMMA ServedGenesis ==
    ASSUME IInv, BuiltInv, ServeConfigs
    PROVE  /\ \E ids \in Seq(Nat), accounts \in Wallet :
                 /\ result.genesis = Genesis(ids, Len(ids), accounts)
                 /\ result'.genesis = CfgsyncGenesis(ids, accounts)
           /\ result'.metrics = result.metrics /\ result'.workloads = result.workloads
           /\ result'.expectations = result.expectations
<1> DEFINE ids == ResolvedIds(b.topology, None)
<1>1. ids \in Seq(Nat) /\ BuildAccounts \in Wallet
  BY BuildIdsAre, AccountsAreWallet DEF IInv, Shapes
<1>2. BuildGenesis = Genesis(ids, Len(ids), BuildAccounts)
  BY DEF BuildGenesis
<1> HIDE DEF ids
<1> DEFINE ws == [k \in DOMAIN b.workloads |-> InitWorkload(BuildGenesis, b.workloads[k])]
<1> HIDE DEF ws
<1>3. PICK m : result = [genesis |-> BuildGenesis, metrics |-> m, caps |-> b.caps,
                         workloads |-> ws, expectations |-> b.expectations]
  BY DEF BuiltInv, ServeConfigs, ws
<1>4. result.genesis = BuildGenesis /\ BuildGenesis.ids = ids /\ BuildGenesis.accounts = BuildAccounts
  BY <1>2, <1>3 DEF Genesis
<1>5. result' = [result EXCEPT !.genesis = CfgsyncGenesis(ids, BuildAccounts)]
  BY <1>4 DEF ServeConfigs
<1>6. /\ result'.genesis = CfgsyncGenesis(ids, BuildAccounts) /\ result'.metrics = result.metrics
      /\ result'.workloads = result.workloads /\ result'.expectations = result.expectations
  BY <1>3, <1>5
<1> QED BY <1>1, <1>2, <1>4, <1>6

\* Genesis is sound, however many nodes and accounts there are: each blend
\* declaration locks an output of its own that holds its provider's note, nodes with
\* distinct ids declare distinct keys, the outputs add up to all stakes and funds,
\* and every node's key store has its own keys and, unless cfgsync made it, those of
\* the accounts.  The declarations name their outputs by the numbers that
\* create_utxos_for_leader_and_services gave the notes, before the accounts were
\* appended and the transaction was made.
THEOREM GenesisHolds == Spec => []GenesisIsSound
<1>1. Init => GenesisIsSound
  BY DEF Init, GenesisIsSound, Made
<1>2. IInv /\ BuiltInv /\ GenesisIsSound /\ [Next]_vars => GenesisIsSound'
  <2> SUFFICES ASSUME IInv, BuiltInv, GenesisIsSound, [Next]_vars PROVE GenesisIsSound'
    OBVIOUS
  <2>1. CASE UNCHANGED vars
    <3>1. SoundGenesis(result.genesis)' <=> SoundGenesis(result.genesis)
      BY <2>1 DEF vars, SoundGenesis
    <3>2. HoldsWallets(result.genesis)' <=> HoldsWallets(result.genesis)
      BY <2>1 DEF vars, HoldsWallets
    <3> QED BY <2>1, <3>1, <3>2 DEF vars, GenesisIsSound
  <2>2. CASE Build
    <3> DEFINE ids == ResolvedIds(b.topology, None)
    <3>1. ids \in Seq(Nat) /\ BuildAccounts \in Wallet /\ Len(ids) \in 0..Len(ids)
      BY BuildIdsAre, AccountsAreWallet DEF IInv, Shapes
    <3>2. result'.genesis = Genesis(ids, Len(ids), BuildAccounts)
      BY <2>2 DEF Build, BuildGenesis
    <3> HIDE DEF ids
    <3>3. SoundGenesis(result'.genesis) /\ HoldsWallets(result'.genesis)
      BY <3>1, <3>2, MadeIsSound
    <3> QED BY <3>3 DEF GenesisIsSound
  <2>3. CASE CreateGeneralConfigs /\ pc' = "configs"
    <3>1. PICK n \in NodeCounts, core \in NodeCounts :
            core <= n /\ result' = [genesis |-> Genesis(FreshIds(n), core, <<>>)]
      BY <2>3 DEF CreateGeneralConfigs, Gone
    <3>2. n \in Nat /\ core \in Nat
      BY CallsAssumption
    <3>3. FreshIds(n) \in Seq(Nat) /\ Len(FreshIds(n)) = n
      BY <3>2 DEF FreshIds
    <3>4. /\ SoundGenesis(Genesis(FreshIds(n), core, <<>>))
          /\ HoldsWallets(Genesis(FreshIds(n), core, <<>>))
      BY <3>1, <3>2, <3>3, EmptyWallet, MadeIsSound
    <3> QED BY <3>1, <3>4 DEF GenesisIsSound
  <2>4. CASE ServeConfigs
    <3>1. PICK ids \in Seq(Nat), accounts \in Wallet :
            result'.genesis = CfgsyncGenesis(ids, accounts)
      BY <2>4, ServedGenesis
    <3>2. Len(ids) \in 0..Len(ids)
      OBVIOUS
    <3>3. SoundGenesis(result'.genesis) /\ pc' = "served"
      BY <2>4, <3>1, <3>2, MadeIsSound DEF ServeConfigs
    <3> QED BY <3>3 DEF GenesisIsSound
  <2>5. CASE pc' \notin Made
    BY <2>5 DEF GenesisIsSound
  <2> QED BY <2>1, <2>2, <2>3, <2>4, <2>5, ResultIsMade
<1> QED
  BY Invariant, BuiltHolds, <1>1, <1>2, PTL DEF Spec

-----------------------------------------------------------------------------
(* The run metrics                                                         *)

\* Slots last at least a second, and the coefficient is a percentage.
LEMMA SettingsAre ==
    ASSUME env \in [slot : SlotTimes, coeff : SlotCoeffs]
    PROVE  SlotDuration \in Nat /\ SlotDuration >= 1000 /\ ActiveSlotCoeff \in 1..100
<1>1. env.slot \in Nat /\ env.coeff \in Nat
  BY CallsAssumption
<1> QED BY <1>1 DEF SlotDuration, ActiveSlotCoeff

\* Products do not shrink.
LEMMA Times == ASSUME NEW x \in Nat, NEW y \in Nat \ {0} PROVE x * y \in Nat /\ x * y >= x
OBVIOUS

\* Products grow with a factor.
LEMMA TimesMore ==
    ASSUME NEW a \in Nat, NEW x \in Nat, NEW y \in Nat, x <= y PROVE a * x <= a * y
OBVIOUS

\* A quotient times its divisor fits into the dividend.
LEMMA QuotientFits ==
    ASSUME NEW a \in Nat, NEW d \in Nat \ {0}
    PROVE  a \div d \in Nat /\ (a \div d) * d <= a
<1>1. a \div d \in Nat
  OBVIOUS
<1>2. (a \div d) * d <= a
  OBVIOUS
<1> QED BY <1>1, <1>2

\* A dividend that is as large as the divisor, or a multiple of it, is not divided
\* to zero.
LEMMA QuotientPositive ==
    ASSUME NEW a \in Nat, NEW d \in Nat \ {0}, a >= d \/ (a % d = 0 /\ a > 0)
    PROVE  a \div d > 0
<1>1. ASSUME a >= d PROVE a \div d > 0
  BY <1>1
<1>2. ASSUME a % d = 0, a > 0 PROVE a \div d > 0
  BY <1>2
<1> QED BY <1>1, <1>2

\* The hint is at most a slot, and the blocks that are certain fit into the run.
LEMMA HintFits ==
    ASSUME NEW slot \in Nat, slot >= 1000, NEW coeff \in 1..100, NEW run \in Nat, run >= 2 * slot
    PROVE  LET hint == (slot * coeff) \div 100
               blocks == run * coeff
               q == blocks \div (slot * 100)
           IN  /\ hint \in Nat /\ 0 < hint /\ hint <= slot
               /\ blocks \in Nat /\ slot * 100 \in Nat \ {0} /\ q \in Nat
               /\ blocks > 0 /\ q * hint <= run
<1> DEFINE x == slot * coeff
           hint == x \div 100
           blocks == run * coeff
           unit == slot * 100
           q == blocks \div unit
<1>1. x \in Nat /\ x >= slot /\ x <= slot * 100
  BY Times, TimesMore
<1>2. hint \in Nat /\ 0 < hint /\ hint <= slot
  <2> HIDE DEF x
  <2> QED BY <1>1
<1>3. blocks \in Nat /\ blocks >= run /\ blocks <= run * 100 /\ unit \in Nat \ {0}
  BY Times, TimesMore
<1>4. q \in Nat /\ q * unit <= blocks
  <2> HIDE DEF blocks, unit
  <2> QED BY <1>3, QuotientFits
<1> HIDE DEF x, q, blocks, hint
<1>5. q * slot <= run
  <2>1. q * unit = (q * slot) * 100
    BY <1>4
  <2>2. q * slot \in Nat
    BY <1>4
  <2> HIDE DEF unit
  <2>3. (q * slot) * 100 <= run * 100
    BY <1>3, <1>4, <2>1, <2>2
  <2> QED BY <2>2, <2>3
<1>6. q * hint <= q * slot /\ q * hint \in Nat /\ q * slot \in Nat
  BY <1>2, <1>4, TimesMore
<1>7. q * hint <= run
  BY <1>5, <1>6
<1> QED
  BY <1>2, <1>3, <1>4, <1>7 DEF x, q, blocks, hint

\* Every value that calculate_expected_blocks may have fits the run.
LEMMA BuildMetricsFit ==
    ASSUME IInv, NEW m \in RunMetrics(EnforceMinDuration(b.duration))
    PROVE  /\ MetricsFit(m) /\ m.run \in Nat /\ m.hint \in Nat
           /\ m.hint <= m.run
<1> DEFINE run == EnforceMinDuration(b.duration)
           slot == SlotDuration
           coeff == ActiveSlotCoeff
           hint == (slot * coeff) \div 100
           blocks == run * coeff
           q == blocks \div (slot * 100)
<1>1. slot \in Nat /\ slot >= 1000 /\ coeff \in 1..100 /\ b.duration \in Nat
  <2>1. b.duration \in Durations \cup {0}
    BY DEF IInv, Shapes, Builder
  <2>2. Durations \cup {0} \subseteq Nat
    BY CallsAssumption
  <2> QED BY <2>1, <2>2, SettingsAre DEF IInv, Shapes
<1> HIDE DEF slot, coeff
<1>2. run \in Nat /\ run >= b.duration /\ run >= 2 * slot
  <2>1. run = Max({b.duration, slot * 2}) /\ slot * 2 \in Nat
    BY <1>1 DEF EnforceMinDuration, MIN_EXPECTATION_BLOCKS, slot
  <2> QED BY <1>1, <2>1, MinMax
<1> HIDE DEF run
<1>3. /\ hint \in Nat /\ 0 < hint /\ hint <= slot
      /\ blocks \in Nat /\ slot * 100 \in Nat \ {0} /\ q \in Nat
      /\ blocks > 0 /\ q * hint <= run
  BY <1>1, <1>2, HintFits, ZenonT(30)
<1>4. PICK e \in ExpectedBlocks(run) : m = [run |-> run, expected |-> e, hint |-> hint]
  BY DEF RunMetrics, BlockIntervalHint, run, slot, coeff
<1>5. \/ blocks % (slot * 100) # 0 /\ e = q + 1
      \/ blocks % (slot * 100) = 0 /\ e \in {q, q + 1}
  <2>1. ExpectedBlocks(run) = IF blocks % (slot * 100) # 0 THEN {q + 1}
                              ELSE IF coeff = 100 THEN {q} ELSE {q, q + 1}
    BY DEF ExpectedBlocks, slot, coeff
  <2> HIDE DEF q, blocks
  <2> QED BY <1>4, <2>1
<1>6. blocks % (slot * 100) = 0 => q > 0
  <2> DEFINE unit == slot * 100
  <2> HIDE DEF blocks, unit
  <2>1. blocks \in Nat /\ unit \in Nat \ {0} /\ blocks > 0
    BY <1>3 DEF unit
  <2>2. blocks % unit = 0 => blocks \div unit > 0
    BY <2>1, QuotientPositive
  <2> QED BY <2>2 DEF unit
<1> HIDE DEF hint, q, blocks
<1>7. e \in Nat /\ e > 0 /\ (e - 1 = q \/ e = q)
  BY <1>3, <1>5, <1>6
<1>8. (e - 1) * hint <= run
  <2>1. CASE e - 1 = q
    BY <1>3, <2>1
  <2>2. CASE e = q
    <3>1. e - 1 \in Nat /\ e - 1 <= q
      BY <1>7, <2>2
    <3>2. hint * (e - 1) <= hint * q
      BY <1>3, <3>1, TimesMore
    <3>3. hint * (e - 1) = (e - 1) * hint /\ hint * q = q * hint
      BY <1>3, <3>1
    <3>4. (e - 1) * hint \in Nat /\ q * hint \in Nat
      BY <1>3, <3>1
    <3> QED BY <1>2, <1>3, <3>2, <3>3, <3>4
  <2> QED BY <1>7, <2>1, <2>2
<1>9. m.run = run /\ m.expected = e /\ m.hint = hint
  BY <1>4
<1>10. hint <= run
  BY <1>1, <1>2, <1>3
<1> QED
  BY <1>2, <1>3, <1>7, <1>8, <1>9, <1>10 DEF MetricsFit, slot

-----------------------------------------------------------------------------
(* The inputs of a transaction workload                                    *)

\* A set of numbers up to n that is not empty has a largest one.
LEMMA MaxIsIn ==
    ASSUME NEW n \in Nat, NEW S, S \subseteq 1..n, S # {}
    PROVE  Max(S) \in S
<1> DEFINE below == {n - i : i \in S}
<1>1. below \subseteq Nat /\ below # {}
  OBVIOUS
<1>2. PICK d \in below : \A c \in below : d <= c
  <2> HIDE DEF below
  <2> QED BY <1>1, LeastNatural
<1>3. PICK i \in S : d = n - i
  BY <1>2
<1>4. ASSUME NEW j \in S PROVE i >= j
  <2>1. n - j \in below
    OBVIOUS
  <2>2. n - i <= n - j
    BY <1>2, <1>3, <2>1
  <2>3. i \in 1..n /\ j \in 1..n
    BY SMTT(30)
  <2> HIDE DEF below
  <2> QED BY <2>2, <2>3
<1>5. \E x \in S : \A y \in S : x >= y
  BY <1>4
<1> QED BY <1>5 DEF Max

\* The output that is found for an account is one of the wallet, with its key.
LEMMA OutputHasKey ==
    ASSUME NEW ids \in Seq(Nat), NEW core, NEW accounts \in Wallet, NEW k \in 1..Len(accounts)
    PROVE  LET g == Genesis(ids, core, accounts)
           IN  /\ OutputOf(g, accounts[k]) \in Nat \ {0}
               /\ \E j \in 1..Len(accounts) : /\ g.outputs[OutputOf(g, accounts[k])] = accounts[j]
                                             /\ accounts[j].key = accounts[k].key
<1> DEFINE g == Genesis(ids, core, accounts)
           o == GenesisOutputs(ids, accounts)
           n == Len(ids)
           a == accounts[k]
           I == {i \in 1..Len(o) : o[i].key = a.key}
<1>1. /\ o \in Seq(Note) /\ Len(o) = 3 * n + Len(accounts) /\ n \in Nat /\ Len(accounts) \in Nat
      /\ \A i \in 1..n : /\ o[3 * i - 2] = LeaderNote(ids[i])
                          /\ o[3 * i - 1] = ServiceNote("bn", ids[i])
                          /\ o[3 * i] = ServiceNote("sdp", ids[i])
      /\ \A j \in 1..Len(accounts) : o[3 * n + j] = accounts[j]
  <2>1. n \in Nat /\ Len(accounts) \in Nat
    BY DEF Wallet
  <2> QED BY <2>1, OutputsAre
<1>2. g.outputs = o
  BY DEF Genesis
<1> HIDE DEF g, o
<1>3. ASSUME NEW j \in 1..Len(accounts) PROVE accounts[j].key[1] = "wallet"
  <2> DEFINE A == [key : {"wallet"} \X Nat, value : Nat]
  <2>1. accounts \in Seq(A)
    BY DEF Wallet
  <2>2. accounts[j] \in A
    <3> HIDE DEF A
    <3> QED BY <2>1
  <2>3. accounts[j].key \in {"wallet"} \X Nat
    BY <2>2
  <2> QED BY <2>3
<1>4. 3 * n + k \in I
  <2>1. 3 * n + k \in 1..Len(o)
    BY <1>1
  <2>2. o[3 * n + k] = a
    BY <1>1
  <2> QED BY <2>1, <2>2
<1>5. OutputOf(g, a) = Max(I)
  <2>1. OutputOf(g, a) = IF I # {} THEN Max(I) ELSE 0
    BY <1>2 DEF OutputOf, SelectLastInSeq
  <2> QED BY <1>4, <2>1
<1>6. Max(I) \in I
  <2>1. I \subseteq 1..Len(o) /\ I # {} /\ Len(o) \in Nat
    BY <1>1, <1>4
  <2> HIDE DEF I
  <2> QED BY <2>1, MaxIsIn
<1> DEFINE top == Max(I)
<1>7. top \in 1..Len(o) /\ o[top].key = a.key
  BY <1>6
<1> HIDE DEF I, top
<1>8. o[top].key[1] = "wallet"
  BY <1>3, <1>7
<1>9. top > 3 * n
  <2> SUFFICES ASSUME top <= 3 * n PROVE FALSE
    BY <1>1, <1>7
  <2> DEFINE i == (top + 2) \div 3
  <2>1. i \in 1..n /\ (top = 3 * i - 2 \/ top = 3 * i - 1 \/ top = 3 * i)
    BY <1>1, <1>7
  <2> HIDE DEF i
  <2>2. o[top] \in {LeaderNote(ids[i]), ServiceNote("bn", ids[i]), ServiceNote("sdp", ids[i])}
    BY <1>1, <2>1
  <2>3. LeaderNote(ids[i]).key[1] = "ld"
    BY DEF LeaderNote
  <2>4. ServiceNote("bn", ids[i]).key[1] = "bn" /\ ServiceNote("sdp", ids[i]).key[1] = "sdp"
    BY DEF ServiceNote
  <2> QED BY <1>8, <2>2, <2>3, <2>4
<1> DEFINE j == top - 3 * n
<1>10. j \in 1..Len(accounts) /\ 3 * n + j = top
  BY <1>1, <1>7, <1>9
<1> HIDE DEF j
<1>11. o[top] = accounts[j]
  BY <1>1, <1>10
<1>12. accounts[j].key = a.key
  BY <1>7, <1>11
<1>13. top \in Nat \ {0}
  BY <1>1, <1>7
<1> QED
  BY <1>2, <1>5, <1>10, <1>11, <1>12, <1>13 DEF top, g

\* What a transaction workload keeps of an account.
Input == [account : Note, output : Nat]

\* f[k] are the matches of the first k accounts.
MatchesOf(g, f) ==
    f = [k \in 0..Len(g.accounts) |->
            IF k = 0 THEN <<>>
            ELSE IF OutputOf(g, g.accounts[k]) = 0 THEN f[k - 1]
                 ELSE Append(f[k - 1], [account |-> g.accounts[k],
                                        output |-> OutputOf(g, g.accounts[k])])]

\* All accounts are matched.
LEMMA AllMatched ==
    ASSUME NEW ids \in Seq(Nat), NEW core, NEW accounts \in Wallet
    PROVE  LET g == Genesis(ids, core, accounts)
           IN  MatchedAccounts(g) = [k \in 1..Len(accounts) |->
                   [account |-> accounts[k], output |-> OutputOf(g, accounts[k])]]
<1> DEFINE g == Genesis(ids, core, accounts)
           n == Len(accounts)
           input(k) == [account |-> accounts[k], output |-> OutputOf(g, accounts[k])]
           all == [k \in 0..n |-> [j \in 1..k |-> input(j)]]
<1>1. g.accounts = accounts /\ n \in Nat
  BY DEF Genesis, Wallet
<1>2. \A k \in 1..n : OutputOf(g, accounts[k]) # 0
  BY OutputHasKey
<1> HIDE DEF g
<1>3. \A k \in 1..n : input(k) \in {input(j) : j \in 1..n}
  OBVIOUS
<1> DEFINE V == {input(j) : j \in 1..n}
           step(s, k) == IF OutputOf(g, accounts[k]) = 0 THEN s ELSE Append(s, input(k))
<1> HIDE DEF input, V
<1>4. ASSUME NEW k \in 1..n PROVE all[k] = Append(all[k - 1], input(k))
  <2>1. k - 1 \in 0..n /\ k \in 0..n
    OBVIOUS
  <2>2. all[k - 1] = [j \in 1..(k - 1) |-> input(j)] /\ all[k] = [j \in 1..k |-> input(j)]
    BY <2>1
  <2>3. \A j \in 1..k : input(j) \in V
    BY <1>3 DEF V
  <2> HIDE DEF all
  <2>4. all[k - 1] \in Seq(V) /\ Len(all[k - 1]) = k - 1 /\ k - 1 \in Nat
    BY <2>2, <2>3
  <2> DEFINE s == Append(all[k - 1], input(k))
  <2>5. /\ s \in Seq(V) /\ Len(s) = (k - 1) + 1 /\ s[(k - 1) + 1] = input(k)
        /\ \A j \in 1..(k - 1) : s[j] = all[k - 1][j]
    BY <2>3, <2>4, AppendFacts
  <2> HIDE DEF s
  <2>6. Len(s) = k /\ s = [j \in 1..k |-> s[j]]
    BY <2>5
  <2>7. ASSUME NEW j \in 1..k PROVE s[j] = input(j)
    <3>1. CASE j = k BY <2>5, <3>1
    <3>2. CASE j \in 1..(k - 1) BY <2>2, <2>5, <3>2
    <3> QED BY <3>1, <3>2
  <2>8. s = all[k]
    BY <2>2, <2>6, <2>7
  <2> QED BY <2>8 DEF s
<1>5. all[0] = <<>>
  BY <1>1
<1>6. MatchesOf(g, all)
  <2>1. ASSUME NEW k \in 0..n PROVE all[k] = IF k = 0 THEN <<>> ELSE step(all[k - 1], k)
    <3>1. CASE k = 0 BY <1>5, <3>1
    <3>2. CASE k \in 1..n BY <1>2, <1>4, <3>2
    <3> QED BY <3>1, <3>2
  <2> DEFINE val(k) == IF k = 0 THEN <<>> ELSE step(all[k - 1], k)
  <2>2. all = [k \in 0..n |-> all[k]]
    OBVIOUS
  <2> HIDE DEF all, step
  <2>3. all = [k \in 0..n |-> val(k)]
    BY <2>1, <2>2
  <2> QED BY <1>1, <2>3 DEF MatchesOf, step, input
<1> DEFINE f == CHOOSE h : MatchesOf(g, h)
<1>7. MatchesOf(g, f)
  <2> HIDE DEF all
  <2> QED BY <1>6
<1>8. MatchedAccounts(g) = f[n]
  BY <1>1 DEF MatchedAccounts, MatchesOf
<1> HIDE DEF f, all
<1>9. \A k \in 0..n : f[k] = IF k = 0 THEN <<>> ELSE step(f[k - 1], k)
  <2> DEFINE val(k) == IF k = 0 THEN <<>> ELSE step(f[k - 1], k)
  <2>1. f = [k \in 0..n |-> val(k)]
    BY <1>1, <1>7 DEF MatchesOf, input
  <2> HIDE DEF val
  <2>2. \A k \in 0..n : f[k] = val(k)
    BY <2>1
  <2> QED BY <2>2 DEF val
<1> DEFINE S == {k \in 0..n : f[k] = all[k]}
<1>10. 0 \in S
  BY <1>1, <1>5, <1>9
<1>11. ASSUME NEW k \in 1..n, k - 1 \in S PROVE k \in S
  <2>1. f[k - 1] = all[k - 1]
    BY <1>11
  <2>2. f[k] = Append(f[k - 1], input(k))
    <3>1. k \in 0..n /\ k # 0
      OBVIOUS
    <3>2. f[k] = step(f[k - 1], k)
      <4> HIDE DEF step
      <4> QED BY <1>9, <3>1
    <3> QED BY <1>2, <3>2
  <2>3. f[k] = all[k]
    BY <1>4, <2>1, <2>2
  <2> QED BY <2>3
<1>12. 0..n \subseteq S
  <2> HIDE DEF S, n
  <2> QED BY <1>1, <1>10, <1>11, UpTo
<1>13. f[n] = all[n]
  BY <1>1, <1>12
<1>14. all[n] = [j \in 1..n |-> input(j)]
  BY <1>1 DEF all
<1> QED BY <1>8, <1>13, <1>14 DEF input, g

\* What init() takes for a limit of users: accounts with their outputs, as many as
\* the expectation counts.
LEMMA InputsAre ==
    ASSUME NEW ids \in Seq(Nat), NEW core, NEW accounts \in Wallet, NEW limit \in Limit
    PROVE  LET g == Genesis(ids, core, accounts)
               inputs == WalletInputs(g, limit)
           IN  /\ inputs \in Seq(Input)
               /\ Len(inputs) = LimitedUsers(limit, Len(accounts))
               /\ InputsFunded(g, inputs)
<1> DEFINE g == Genesis(ids, core, accounts)
           n == Len(accounts)
           c == LimitedUsers(limit, n)
           matched == MatchedAccounts(g)
           inputs == WalletInputs(g, limit)
<1>1. n \in Nat /\ accounts \in Seq(Note)
  BY WalletIsNotes DEF Wallet
<1>2. matched = [k \in 1..n |-> [account |-> accounts[k], output |-> OutputOf(g, accounts[k])]]
  BY AllMatched
<1>3. \A k \in 1..n : /\ OutputOf(g, accounts[k]) \in Nat
                      /\ \E j \in 1..n : /\ g.outputs[OutputOf(g, accounts[k])] = accounts[j]
                                         /\ accounts[j].key = accounts[k].key
  BY OutputHasKey
<1>10. g.accounts = accounts /\ DOMAIN accounts = 1..n
  BY <1>1 DEF Genesis
<1> HIDE DEF g
<1>4. c \in Nat /\ c <= n
  <2>1. CASE limit = None
    BY <1>1, <2>1, NoneAssumption DEF LimitedUsers
  <2>2. CASE limit \in Nat \ {0}
    BY <1>1, <2>2, NoneAssumption DEF LimitedUsers, Smaller
  <2> QED BY <2>1, <2>2 DEF Limit
<1> HIDE DEF c
<1>5. \A k \in 1..n :
         /\ matched[k] \in Input /\ matched[k].account = accounts[k]
         /\ \E j \in 1..n : /\ g.outputs[matched[k].output] = accounts[j]
                            /\ accounts[j].key = accounts[k].key
  <2> SUFFICES ASSUME NEW k \in 1..n
               PROVE  /\ matched[k] \in Input /\ matched[k].account = accounts[k]
                      /\ \E j \in 1..n : /\ g.outputs[matched[k].output] = accounts[j]
                                         /\ accounts[j].key = accounts[k].key
    OBVIOUS
  <2>1. matched[k] = [account |-> accounts[k], output |-> OutputOf(g, accounts[k])]
    BY <1>2
  <2>2. accounts[k] \in Note
    BY <1>1
  <2> HIDE DEF matched, n
  <2>3. matched[k] \in Input
    BY <1>3, <2>1, <2>2 DEF Input
  <2>4. matched[k].account = accounts[k] /\ matched[k].output = OutputOf(g, accounts[k])
    BY <2>1
  <2>5. PICK j \in 1..n : /\ g.outputs[OutputOf(g, accounts[k])] = accounts[j]
                          /\ accounts[j].key = accounts[k].key
    BY <1>3
  <2>6. g.outputs[matched[k].output] = accounts[j]
    BY <2>4, <2>5
  <2> QED BY <2>3, <2>4, <2>5, <2>6
<1>6. matched \in Seq(Input) /\ Len(matched) = n
  <2> HIDE DEF n
  <2> QED BY <1>1, <1>2, <1>5
<1> HIDE DEF matched
<1>7. inputs = SubSeq(matched, 1, c)
  BY <1>6 DEF WalletInputs, matched, c
<1> HIDE DEF inputs
<1>8. inputs \in Seq(Input) /\ Len(inputs) = c /\ \A i \in 1..c : inputs[i] = matched[i]
  <2> HIDE DEF n
  <2> QED BY <1>1, <1>4, <1>6, <1>7
<1> HIDE DEF n
<1>9. /\ DOMAIN inputs = 1..c
      /\ \A i \in 1..c : /\ i \in 1..n /\ inputs[i].account = accounts[i]
                         /\ \E j \in 1..n : /\ g.outputs[inputs[i].output] = accounts[j]
                                            /\ accounts[j].key = accounts[i].key
  <2>1. DOMAIN inputs = 1..c
    BY <1>4, <1>8
  <2>2. ASSUME NEW i \in 1..c
        PROVE  /\ i \in 1..n /\ inputs[i].account = accounts[i]
               /\ \E j \in 1..n : /\ g.outputs[inputs[i].output] = accounts[j]
                                  /\ accounts[j].key = accounts[i].key
    <3>1. i \in 1..n
      BY <1>1, <1>4
    <3>2. inputs[i] = matched[i]
      BY <1>8
    <3>3. PICK j \in 1..n : /\ g.outputs[matched[i].output] = accounts[j]
                            /\ accounts[j].key = accounts[i].key
      BY <1>5, <3>1, Zenon
    <3>4. inputs[i].account = accounts[i]
      BY <1>5, <3>1, <3>2
    <3>5. g.outputs[inputs[i].output] = accounts[j]
      BY <3>2, <3>3
    <3> QED BY <3>1, <3>3, <3>4, <3>5, Zenon
  <2> QED BY <2>1, <2>2
<1>11. InputsFunded(g, inputs)
  <2> DEFINE key == [k \in DOMAIN g.accounts |-> g.accounts[k].key]
             output == [i \in DOMAIN inputs |-> inputs[i].output]
  <2>1. \A i \in DOMAIN inputs : g.outputs[output[i]].key = inputs[i].account.key
    BY <1>9
  <2>2. ASSUME IsInjective(key), NEW i \in DOMAIN inputs
        PROVE  g.outputs[output[i]] = inputs[i].account
    <3>1. PICK j \in 1..n : g.outputs[inputs[i].output] = accounts[j] /\ accounts[j].key = accounts[i].key
      BY <1>9
    <3>2. i \in 1..n /\ key[i] = accounts[i].key /\ key[j] = accounts[j].key /\ DOMAIN key = 1..n
      BY <1>9, <1>10
    <3>3. i = j
      BY <2>2, <3>1, <3>2 DEF IsInjective
    <3> QED BY <1>9, <3>1, <3>3
  <2>3. ASSUME IsInjective(key), NEW i \in DOMAIN inputs, NEW j \in DOMAIN inputs,
               output[i] = output[j]
        PROVE  i = j
    <3>1. inputs[i].account = inputs[j].account
      BY <2>2, <2>3
    <3>2. i \in 1..n /\ j \in 1..n /\ accounts[i] = accounts[j]
      BY <1>9, <3>1
    <3>3. DOMAIN key = 1..n /\ key[i] = key[j]
      BY <1>10, <3>2
    <3> QED BY <2>3, <3>2, <3>3 DEF IsInjective
  <2>4. IsInjective(key) => IsInjective(output)
    BY <2>3 DEF IsInjective
  <2> HIDE DEF key, output
  <2>5. /\ \A i \in DOMAIN inputs : g.outputs[output[i]].key = inputs[i].account.key
        /\ IsInjective(key) => /\ \A i \in DOMAIN inputs : g.outputs[output[i]] = inputs[i].account
                               /\ IsInjective(output)
    BY <2>1, <2>2, <2>4
  <2> QED BY <2>5 DEF InputsFunded, key, output
<1> QED BY <1>8, <1>11 DEF g, c, inputs, n

-----------------------------------------------------------------------------
(* Plans                                                                   *)

\* Workloads after init().
ReadyTx == [kind : {"tx"}, rate : Nat \ {0}, users : Limit, inputs : Seq(Input)]
Ready == ReadyTx \cup RestartWorkloads

\* A run that is as long as the hinted interval has a transaction for someone.
LEMMA PlanIsPositive ==
    ASSUME NEW run \in Nat, NEW hint \in Nat, 0 < hint, hint <= run, NEW rate \in Nat \ {0},
           NEW users \in Nat, users > 0
    PROVE  PlannedCount(run, rate, hint, users) > 0
<1> DEFINE a == run * rate
<1>1. a \in Nat /\ a >= hint /\ hint \in Nat \ {0}
  BY Times
<1> HIDE DEF a
<1>2. a \div hint \in Nat /\ a \div hint > 0
  BY <1>1, QuotientPositive, QuotientFits
<1>3. PlannedCount(run, rate, hint, users) = Smaller(a \div hint, users)
  BY DEF PlannedCount, a
<1> QED BY <1>2, <1>3 DEF Smaller

\* What a transaction workload will submit is what its expectation counts on, for
\* each pair of them.
LEMMA BuiltPlansAgree == ASSUME IInv, Build PROVE PlansAgree(result')
<1> DEFINE ids == ResolvedIds(b.topology, None)
           accounts == BuildAccounts
           g == Genesis(ids, Len(ids), accounts)
           ws == [k \in DOMAIN b.workloads |-> InitWorkload(g, b.workloads[k])]
<1>1. ids \in Seq(Nat) /\ accounts \in Wallet /\ b \in Builder
  BY BuildIdsAre, AccountsAreWallet DEF IInv, Shapes
<1>2. PICK m \in RunMetrics(EnforceMinDuration(b.duration)) :
        result' = [genesis |-> g, metrics |-> m, caps |-> b.caps, workloads |-> ws,
                   expectations |-> b.expectations]
  BY DEF Build, BuildGenesis
<1>3. ~WorkloadInitFails(ws)
  BY DEF Build, BuildError, BuildGenesis
<1>4. /\ MetricsFit(m) /\ m.run \in Nat /\ m.hint \in Nat /\ m.hint <= m.run
  BY <1>2, BuildMetricsFit
<1>5. 0 < m.hint
  BY <1>4 DEF MetricsFit
<1>6. b.workloads \in Seq(Workload) /\ b.expectations \in Seq(Expectation)
  BY <1>1 DEF Builder
<1>7. g.accounts = accounts
  BY DEF Genesis
<1> HIDE DEF ids, accounts
<1>8. ASSUME NEW limit \in Limit
      PROVE  LET inputs == WalletInputs(g, limit)
             IN  /\ inputs \in Seq(Input)
                 /\ Len(inputs) = LimitedUsers(limit, Len(accounts))
                 /\ InputsFunded(g, inputs)
  BY <1>1, InputsAre
<1> HIDE DEF g
<1> DEFINE Done(w) == /\ w.rate \in Nat \ {0}
                      /\ w.inputs \in Seq(Input) /\ w.inputs # <<>>
                      /\ Len(w.inputs) = LimitedUsers(w.users, Len(accounts))
                      /\ InputsFunded(g, w.inputs)
<1>9. ASSUME NEW k \in 1..Len(b.workloads)
      PROVE  /\ ws[k] \in Ready /\ ws[k].kind = b.workloads[k].kind
             /\ ws[k].kind = "tx" => /\ ws[k].rate = b.workloads[k].rate
                                    /\ ws[k].users = b.workloads[k].users
                                    /\ Done(ws[k])
  <2> DEFINE w == b.workloads[k]
  <2>1. w \in Workload /\ k \in DOMAIN ws /\ ws[k] = InitWorkload(g, w)
    BY <1>6
  <2> HIDE DEF ws
  <2>2. CASE w.kind # "tx"
    <3>1. ws[k] = w
      BY <2>1, <2>2 DEF InitWorkload
    <3>2. w \in RestartWorkloads
      BY <2>1, <2>2 DEF Workload, TxWorkloads
    <3> QED BY <2>2, <3>1, <3>2 DEF Ready
  <2>3. CASE w.kind = "tx"
    <3>1. ws[k] = [kind |-> "tx", rate |-> w.rate, users |-> w.users,
                   inputs |-> WalletInputs(g, w.users)]
      BY <2>1, <2>3 DEF InitWorkload
    <3>2. w \in TxWorkloads
      BY <2>1, <2>3 DEF Workload, RestartWorkloads
    <3>3. w.rate \in Nat \ {0} /\ w.users \in Limit
      BY <3>2 DEF TxWorkloads
    <3> HIDE DEF w
    <3>4. /\ WalletInputs(g, w.users) \in Seq(Input)
          /\ Len(WalletInputs(g, w.users)) = LimitedUsers(w.users, Len(accounts))
          /\ InputsFunded(g, WalletInputs(g, w.users))
      BY <1>8, <3>3
    <3>5. /\ ws[k].kind = "tx" /\ ws[k].rate = w.rate /\ ws[k].users = w.users
          /\ ws[k].inputs = WalletInputs(g, w.users)
      BY <3>1
    <3>6. ws[k].inputs # <<>>
      BY <1>3, <2>1, <3>5 DEF WorkloadInitFails
    <3>7. ws[k] \in Ready
      BY <3>1, <3>3, <3>4 DEF Ready, ReadyTx
    <3> QED BY <2>3, <3>3, <3>4, <3>5, <3>6, <3>7 DEF w
  <2> QED BY <2>2, <2>3
<1>10. ws \in Seq(Ready) /\ Len(ws) = Len(b.workloads)
  <2>1. DOMAIN b.workloads = 1..Len(b.workloads) /\ Len(b.workloads) \in Nat
    BY <1>6
  <2>2. ws = [k \in 1..Len(b.workloads) |-> ws[k]]
    BY <2>1
  <2>3. \A k \in 1..Len(b.workloads) : ws[k] \in Ready
    BY <1>9
  <2> HIDE DEF ws
  <2> QED BY <2>1, <2>2, <2>3
<1> HIDE DEF ws, Done
<1> DEFINE txs == OfKind(ws, "tx")
           exps == OfKind(b.expectations, "tx_inclusion")
<1>11. SameFlows(txs, OfKind(b.workloads, "tx"))
  <2>1. SameKinds(ws, b.workloads, "tx")
    BY <1>9, <1>10 DEF SameKinds
  <2> QED BY <1>6, <1>10, <2>1, OfKindSame
<1>12. SameFlows(OfKind(b.workloads, "tx"), exps)
  BY DEF IInv, FlowsInv
<1>13. /\ txs \in Seq(Ready)
       /\ \A j \in 1..Len(txs) : \E k \in 1..Len(ws) : ws[k].kind = "tx" /\ txs[j] = ws[k]
  BY <1>10, OfKindFacts
<1> HIDE DEF txs, exps
<1>14. ASSUME NEW j \in 1..Len(txs)
       PROVE  Done(txs[j]) /\ exps[j].rate = txs[j].rate /\ exps[j].users = txs[j].users
  <2>1. PICK k \in 1..Len(ws) : ws[k].kind = "tx" /\ txs[j] = ws[k]
    BY <1>13
  <2>2. Done(txs[j])
    BY <1>9, <1>10, <2>1
  <2> QED BY <1>11, <1>12, <2>2 DEF SameFlows
<1>15. ASSUME NEW j \in DOMAIN txs
       PROVE  /\ WorkloadPlan(m, txs[j]) > 0
              /\ WorkloadPlan(m, txs[j]) = ExpectationPlan(m, accounts, exps[j])
              /\ InputsFunded(g, txs[j].inputs)
  <2> DEFINE w == txs[j]
  <2>1. j \in 1..Len(txs)
    BY <1>13
  <2>2. Done(w) /\ exps[j].rate = w.rate /\ exps[j].users = w.users
    BY <1>14, <2>1
  <2> HIDE DEF w
  <2>3. /\ w.rate \in Nat \ {0} /\ w.inputs \in Seq(Input) /\ w.inputs # <<>>
        /\ Len(w.inputs) = LimitedUsers(w.users, Len(accounts))
        /\ InputsFunded(g, w.inputs)
    BY <2>2 DEF Done
  <2>4. Len(w.inputs) \in Nat /\ Len(w.inputs) > 0
    BY <2>3
  <2>5. WorkloadPlan(m, w) > 0
    BY <1>4, <1>5, <2>3, <2>4, PlanIsPositive DEF WorkloadPlan
  <2>6. WorkloadPlan(m, w) = ExpectationPlan(m, accounts, exps[j])
    BY <2>2, <2>3 DEF WorkloadPlan, ExpectationPlan
  <2> QED BY <2>3, <2>4, <2>5, <2>6 DEF w
<1>16. /\ result'.workloads = ws /\ result'.expectations = b.expectations
       /\ result'.metrics = m /\ result'.genesis = g
  BY <1>2
<1> QED BY <1>7, <1>15, <1>16 DEF PlansAgree, txs, exps

\* The genesis that cfgsync makes has the outputs of the one that build() made.
LEMMA ServedPlansAgree ==
    ASSUME IInv, BuiltInv, ServeConfigs, PlansAgree(result)
    PROVE  PlansAgree(result')
<1>1. PICK ids \in Seq(Nat), accounts \in Wallet :
        /\ result.genesis = Genesis(ids, Len(ids), accounts)
        /\ result'.genesis = CfgsyncGenesis(ids, accounts)
  BY ServedGenesis
<1>2. /\ result'.genesis.accounts = result.genesis.accounts
      /\ result'.genesis.outputs = result.genesis.outputs
  BY <1>1 DEF CfgsyncGenesis, Genesis
<1>3. /\ result'.metrics = result.metrics /\ result'.workloads = result.workloads
      /\ result'.expectations = result.expectations
  BY ServedGenesis
<1>4. ASSUME NEW inputs
      PROVE  InputsFunded(result'.genesis, inputs) <=> InputsFunded(result.genesis, inputs)
  BY <1>2 DEF InputsFunded
<1> QED BY <1>2, <1>3, <1>4 DEF PlansAgree

\* A scenario that build() returned can run: the run lasts two slots and as long as
\* was asked, the metrics expect a block and no more than fit into it at the hinted
\* interval, and every transaction workload plans at least one transaction and as
\* many as its inclusion expectation, which counts the wallets again, will look for.
\* What it will spend is in the genesis transaction, in the one of build() and in
\* the one that cfgsync makes: outputs with the accounts' keys and, for a wallet
\* whose accounts have keys of their own, each account's own funds.
THEOREM BuiltIsRunnable == Spec => []BuiltMeansRunnable
<1>1. Init => BuiltMeansRunnable
  BY DEF Init, BuiltMeansRunnable
<1>2. IInv /\ BuiltInv /\ BuiltMeansRunnable /\ [Next]_vars => BuiltMeansRunnable'
  <2> SUFFICES ASSUME IInv, BuiltInv, BuiltMeansRunnable, [Next]_vars PROVE BuiltMeansRunnable'
    OBVIOUS
  <2>1. CASE UNCHANGED vars
    <3>1. MetricsFit(result.metrics)' <=> MetricsFit(result.metrics)
      BY <2>1 DEF vars, MetricsFit, SlotDuration
    <3>2. PlansAgree(result') <=> PlansAgree(result)
      BY <2>1 DEF vars
    <3> QED BY <2>1, <3>1, <3>2 DEF vars, BuiltMeansRunnable
  <2>2. CASE Build
    <3>1. PICK m \in RunMetrics(EnforceMinDuration(b.duration)) : result'.metrics = m
      BY <2>2 DEF Build
    <3>2. MetricsFit(m)
      BY <3>1, BuildMetricsFit
    <3>3. SlotDuration' = SlotDuration /\ b' = b
      BY <2>2 DEF Build, SlotDuration
    <3>4. MetricsFit(result.metrics)'
      BY <3>1, <3>2, <3>3 DEF MetricsFit
    <3>5. PlansAgree(result')
      BY <2>2, BuiltPlansAgree
    <3> QED BY <3>4, <3>5 DEF BuiltMeansRunnable
  <2>3. CASE ServeConfigs
    <3>1. MetricsFit(result.metrics) /\ PlansAgree(result)
      BY <2>3 DEF ServeConfigs, BuiltMeansRunnable
    <3>2. SlotDuration' = SlotDuration /\ b' = b /\ result'.metrics = result.metrics
      BY <2>3, ServedGenesis DEF ServeConfigs, SlotDuration
    <3>3. MetricsFit(result.metrics)'
      BY <3>1, <3>2 DEF MetricsFit
    <3>4. PlansAgree(result')
      BY <2>3, <3>1, ServedPlansAgree
    <3> QED BY <3>3, <3>4 DEF BuiltMeansRunnable
  <2>4. CASE pc' \notin {"built", "served"}
    BY <2>4 DEF BuiltMeansRunnable
  <2> QED BY <2>1, <2>2, <2>3, <2>4, ResultIsMade DEF Made
<1> QED
  BY Invariant, BuiltHolds, <1>1, <1>2, PTL DEF Spec
=============================================================================
