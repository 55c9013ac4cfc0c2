--------------------------- MODULE AuthManagerProofs ---------------------------
(***************************************************************************)
(* The statistics and the decisions of the authentication manager, for any *)
(* number of callers and calls, any users and rules.                       *)
(***************************************************************************)
EXTENDS AuthManager, FiniteSetTheorems, WellFoundedInduction, TLAPS

Labels == {"idle", "counting", "required", "default", "named", "allowing", "denying", "locking",
           "deciding", "upgrading", "failing", "login", "stamping"}

CountTypes ==
  /\ pc \in [Callers -> Labels]
  /\ stats \in [total : Nat, allowed : Nat, denied : Nat]
  /\ IsFiniteSet(Answering)

CountInv == CountTypes /\ EveryRequestCounted

(* The counts agree at the start.                                           *)
LEMMA CountInit == Init => CountInv
<1> SUFFICES ASSUME Init PROVE CountInv
  OBVIOUS
<1>1. Answering = {}
  BY DEF Init, Answering
<1>2. IsFiniteSet(Answering) /\ Cardinality(Answering) = 0
  BY <1>1, FS_EmptySet
<1> QED
  BY <1>2 DEF Init, CountInv, CountTypes, EveryRequestCounted, Labels

(* Each step moves one caller at most: into the set of those who are being  *)
(* answered, where it is counted in the total, out of it, where it is       *)
(* counted as allowed or denied, or within it or outside, where nothing is. *)
LEMMA CountStep == CountInv /\ [Next]_vars => CountInv'
<1> SUFFICES ASSUME CountInv, [Next]_vars PROVE CountInv'
  OBVIOUS
<1> USE DEF CountInv, CountTypes, Goto, At
<1>t. /\ IsFiniteSet(Answering) /\ Cardinality(Answering) \in Nat
      /\ \A c \in Callers : c \notin Answering =>
           /\ IsFiniteSet(Answering \cup {c})
           /\ Cardinality(Answering \cup {c}) = Cardinality(Answering) + 1
      /\ \A c \in Callers : c \in Answering =>
           /\ IsFiniteSet(Answering \ {c})
           /\ Cardinality(Answering \ {c}) = Cardinality(Answering) - 1
  BY FS_AddElement, FS_RemoveElement, FS_CardinalityType
<1>1. ASSUME NEW c \in Callers, Count(c) PROVE CountInv'
  <2>1. Answering' = Answering \cup {c} /\ c \notin Answering /\ pc' \in [Callers -> Labels]
    BY <1>1 DEF Count, Answering, Labels
  <2>2. stats' = [stats EXCEPT !.total = @ + 1]
    BY <1>1 DEF Count
  <2>3. EveryRequestCounted'
    BY <1>t, <2>1, <2>2 DEF EveryRequestCounted
  <2> QED
    BY <1>t, <2>1, <2>2, <2>3
<1>2. ASSUME NEW c \in Callers, AllowAtOnce(c) \/ DenyAtOnce(c) PROVE CountInv'
  <2>1. Answering' = Answering \ {c} /\ c \in Answering /\ pc' \in [Callers -> Labels]
    BY <1>2 DEF AllowAtOnce, DenyAtOnce, Answer, Answering, Labels
  <2>2. \/ stats' = [stats EXCEPT !.allowed = @ + 1]
        \/ stats' = [stats EXCEPT !.denied = @ + 1]
    BY <1>2 DEF AllowAtOnce, DenyAtOnce
  <2>3. /\ stats'.total = stats.total
        /\ stats'.allowed + stats'.denied = stats.allowed + stats.denied + 1
    BY <2>2
  <2>4. Cardinality(Answering') = Cardinality(Answering) - 1
    BY <1>t, <2>1
  <2>5. /\ stats.total \in Nat /\ stats.allowed + stats.denied \in Nat
        /\ Cardinality(Answering) \in Nat
    BY <1>t
  <2>6. EveryRequestCounted'
    BY <2>3, <2>4, <2>5 DEF EveryRequestCounted
  <2> QED
    BY <1>t, <2>1, <2>2, <2>6
<1>f. ASSUME Answering' = Answering, stats' = stats, pc' \in [Callers -> Labels]
      PROVE  CountInv'
  BY <1>f DEF EveryRequestCounted
<1>3. ASSUME NEW c \in Callers,
             ReadRequired(c) \/ ReadDefault(c) \/ CheckName(c) \/ ReadLock(c) \/ Decide(c)
      PROVE  CountInv'
  <2>1. PICK from \in {"required", "default", "named", "locking", "deciding"},
             to \in {"default", "named", "allowing", "denying", "locking", "deciding", "upgrading"} :
               pc[c] = from /\ pc' = [pc EXCEPT ![c] = to]
    BY <1>3 DEF ReadRequired, ReadDefault, CheckName, ReadLock, Decide
  <2>2. stats' = stats
    BY <1>3 DEF ReadRequired, ReadDefault, CheckName, ReadLock, Decide
  <2>3. pc' \in [Callers -> Labels] /\ Answering' = Answering
    BY <2>1 DEF Answering, Labels
  <2> QED
    BY <1>f, <2>2, <2>3
<1>4. ASSUME NEW c \in Callers, Ask(c) \/ Authenticate(c) \/ FailLogin(c) \/ Stamp(c)
      PROVE  CountInv'
  <2>1. PICK from \in {"idle", "failing", "login", "stamping"},
             to \in {"idle", "counting", "failing", "login", "stamping"} :
               pc[c] = from /\ pc' = [pc EXCEPT ![c] = to]
    BY <1>4 DEF Ask, Authenticate, FailLogin, Stamp
  <2>2. stats' = stats
    BY <1>4 DEF Ask, Authenticate, FailLogin, Stamp
  <2>3. pc' \in [Callers -> Labels] /\ Answering' = Answering
    BY <2>1 DEF Answering, Labels
  <2> QED
    BY <1>f, <2>2, <2>3
<1>5. CASE UNCHANGED <<pc, stats>>
  BY <1>f, <1>5 DEF Answering
<1>6. Administer \/ UNCHANGED vars => UNCHANGED <<pc, stats>>
  BY DEF Administer, AddUser, RemoveUser, AddACLRule, RemoveACLRule, SetPolicy, vars
<1> QED
  BY <1>1, <1>2, <1>3, <1>4, <1>5, <1>6 DEF Next, Step

(* Every request that was counted has been counted as allowed or as denied, *)
(* or is still being answered.                                              *)
THEOREM RequestsAddUp == Spec => []EveryRequestCounted
<1>1. CountInv => EveryRequestCounted
  BY DEF CountInv
<1> QED
  BY <1>1, CountInit, CountStep, PTL DEF Spec

-----------------------------------------------------------------------------
(* The two loops of the sort, by induction on their turns.                  *)

(* A nonempty set of natural numbers has a least element.                   *)
LEMMA LeastNumber ==
  ASSUME NEW T, T \subseteq Nat, T # {}
  PROVE  \E x \in T : \A y \in T : x <= y
<1>1. \E x \in T : \A y \in T : ~ (<<y, x>> \in OpToRel(<, Nat))
  BY NatLessThanWellFounded, WFMin
<1>2. \A x, y \in Nat : ~ (<<y, x>> \in OpToRel(<, Nat)) => x <= y
  BY DEF OpToRel
<1> QED
  BY <1>1, <1>2

(* Induction on an interval, with a set of numbers for the predicate.       *)
LEMMA Induction ==
  ASSUME NEW lo \in Int, NEW hi \in Int, NEW P, lo \in P,
         \A j \in lo + 1..hi : j - 1 \in P => j \in P
  PROVE  lo..hi \subseteq P
<1> DEFINE T == {k \in Nat : lo + k <= hi /\ lo + k \notin P}
<1>1. SUFFICES ASSUME T # {} PROVE FALSE
  <2>1. \A j \in lo..hi : j \notin P => j - lo \in T
    OBVIOUS
  <2> QED
    BY <2>1, <1>1
<1>2. PICK x \in T : \A y \in T : x <= y
  BY <1>1, LeastNumber
<1>3. x # 0
  OBVIOUS
<1>4. x - 1 \in Nat /\ x - 1 \notin T
  BY <1>2, <1>3
<1>5. lo + (x - 1) \in P
  BY <1>4
<1>6. lo + x \in lo + 1..hi /\ (lo + x) - 1 = lo + (x - 1)
  BY <1>4
<1> QED
  BY <1>5, <1>6

(* A loop over lo + 1..hi that starts with s, and whose turns stay in S.    *)
Runs(f, s, step, lo, hi) ==
  \A j \in lo..hi : f[j] = IF j = lo THEN s ELSE step[<<f[j - 1], j>>]
StaysIn(S, step, lo, hi) == \A j \in lo + 1..hi, v \in S : step[<<v, j>>] \in S

(* It has a value after each turn.                                          *)
LEMMA LoopExists ==
  ASSUME NEW lo \in Int, NEW hi \in Int, NEW S, NEW s \in S, NEW step, StaysIn(S, step, lo, hi)
  PROVE  \E f \in [lo..hi -> S] : Runs(f, s, step, lo, hi)
<1> USE DEF Runs, StaysIn
<1> DEFINE Q(m, f) == \A j \in lo..m : f[j] = IF j = lo THEN s ELSE step[<<f[j - 1], j>>]
           P == {m \in lo..hi : \E f \in [lo..m -> S] : Q(m, f)}
<1>0. CASE hi < lo
  <2>1. [j \in lo..hi |-> s] \in [lo..hi -> S] /\ Q(hi, [j \in lo..hi |-> s])
    BY <1>0
  <2> QED
    BY <2>1
<1>1. CASE lo <= hi
  <2>1. lo \in P
    <3> DEFINE f == [j \in lo..lo |-> s]
    <3>1. f \in [lo..lo -> S] /\ Q(lo, f) /\ lo \in lo..hi
      BY <1>1
    <3> HIDE DEF f
    <3> QED
      BY <3>1
  <2>2. ASSUME NEW m \in lo + 1..hi, m - 1 \in P PROVE m \in P
    <3>1. PICK f \in [lo..m - 1 -> S] : Q(m - 1, f)
      BY <2>2
    <3> DEFINE g == [j \in lo..m |-> IF j = m THEN step[<<f[m - 1], m>>] ELSE f[j]]
    <3>2. m - 1 \in lo..m - 1 /\ f[m - 1] \in S
      OBVIOUS
    <3>3. step[<<f[m - 1], m>>] \in S
      BY <3>2
    <3>4. g \in [lo..m -> S]
      BY <3>3
    <3>5. Q(m, g)
      <4> SUFFICES ASSUME NEW j \in lo..m
                   PROVE  g[j] = IF j = lo THEN s ELSE step[<<g[j - 1], j>>]
        OBVIOUS
      <4>1. CASE j = m
        <5>1. g[m - 1] = f[m - 1] /\ g[m] = step[<<f[m - 1], m>>] /\ m # lo
          BY <3>2
        <5> QED
          BY <4>1, <5>1
      <4>2. CASE j # m
        <5>1. j \in lo..m - 1 /\ g[j] = f[j]
          BY <4>2
        <5>2. j # lo => g[j - 1] = f[j - 1]
          BY <4>2
        <5> QED
          BY <3>1, <5>1, <5>2
      <4> QED
        BY <4>1, <4>2
    <3> HIDE DEF g
    <3> QED
      BY <3>4, <3>5
  <2> HIDE DEF P
  <2>3. lo..hi \subseteq P
    BY <2>1, <2>2, Induction
  <2>4. hi \in P
    BY <2>3, <1>1
  <2> QED
    BY <2>4 DEF P
<1> QED
  BY <1>0, <1>1

RuleSet == {LocalRule, DenyRule} \cup MoreRules
Orders(n) == [1..n -> RuleSet]
Content(s) == {s[k] : k \in DOMAIN s}

(* The rule at i is not outranked by any of those after it up to m.         *)
Leads(s, i, m) == \A b \in i..m : s[i].priority >= s[b].priority

(* Priorities can be compared.                                              *)
LEMMA Priorities == \A rule \in RuleSet : rule.priority \in Int
BY AuthAssumption DEF RuleSet, LocalRule, DenyRule

(* An exchange keeps the rules, what leads before i, and makes the rule at  *)
(* i lead one rule more.                                                    *)
LEMMA ExchangeEffect ==
  ASSUME NEW n \in Nat, NEW s \in Orders(n), NEW i \in 1..n, NEW j \in i + 1..n
  PROVE  /\ Exchange(s, i, j) \in Orders(n)
         /\ Content(Exchange(s, i, j)) = Content(s)
         /\ \A a \in 1..i - 1 : Leads(s, a, n) => Leads(Exchange(s, i, j), a, n)
         /\ Leads(s, i, j - 1) => Leads(Exchange(s, i, j), i, j)
<1>1. /\ j \in 1..n /\ i < j /\ DOMAIN s = 1..n
      /\ \A k \in 1..n : s[k] \in RuleSet /\ s[k].priority \in Int
  BY Priorities DEF Orders
<1>2. CASE ~(s[i].priority < s[j].priority)
  <2>1. Exchange(s, i, j) = s
    BY <1>2 DEF Exchange
  <2>2. Leads(s, i, j - 1) => Leads(s, i, j)
    BY <1>1, <1>2 DEF Leads
  <2> QED
    BY <2>1, <2>2
<1>3. CASE s[i].priority < s[j].priority
  <2> DEFINE t == [s EXCEPT ![i] = s[j], ![j] = s[i]]
  <2>1. Exchange(s, i, j) = t
    BY <1>3 DEF Exchange
  <2>2. /\ t \in Orders(n) /\ DOMAIN t = 1..n /\ t[i] = s[j] /\ t[j] = s[i]
        /\ \A k \in 1..n : k # i /\ k # j => t[k] = s[k]
    BY <1>1 DEF Orders
  <2> HIDE DEF t
  <2>3. Content(t) = Content(s)
    <3>1. \A k \in 1..n : t[k] \in Content(s)
      BY <1>1, <2>2 DEF Content
    <3>2. \A k \in 1..n : s[k] \in Content(t)
      BY <1>1, <2>2 DEF Content
    <3> QED
      BY <1>1, <2>2, <3>1, <3>2 DEF Content
  <2>4. ASSUME NEW a \in 1..i - 1, Leads(s, a, n) PROVE Leads(t, a, n)
    <3>1. /\ a \in 1..n /\ t[a] = s[a] /\ i \in a..n /\ j \in a..n
      BY <1>1, <2>2
    <3> SUFFICES ASSUME NEW b \in a..n PROVE t[a].priority >= t[b].priority
      BY DEF Leads
    <3>2. b \in 1..n
      OBVIOUS
    <3>3. t[b] = s[b] \/ t[b] = s[i] \/ t[b] = s[j]
      BY <2>2, <3>2
    <3> QED
      BY <2>4, <3>1, <3>3 DEF Leads
  <2>5. ASSUME Leads(s, i, j - 1) PROVE Leads(t, i, j)
    <3> SUFFICES ASSUME NEW b \in i..j PROVE t[i].priority >= t[b].priority
      BY DEF Leads
    <3>1. b \in 1..n
      BY <1>1
    <3>2. CASE b = i \/ b = j
      BY <1>1, <1>3, <2>2, <3>2
    <3>3. CASE b # i /\ b # j
      <4>1. b \in i..j - 1 /\ t[b] = s[b] /\ s[i].priority >= s[b].priority
        BY <1>1, <2>2, <2>5, <3>1, <3>3 DEF Leads
      <4> QED
        BY <1>1, <1>3, <2>2, <3>1, <4>1
    <3> QED
      BY <3>2, <3>3
  <2> QED
    BY <2>1, <2>2, <2>3, <2>4, <2>5
<1> QED
  BY <1>2, <1>3

(* The inner loop makes the rule at i lead all that come after it.          *)
LEMMA PassEffect ==
  ASSUME NEW n \in Nat, NEW s \in Orders(n), NEW i \in 1..n
  PROVE  /\ Pass(s, i, n) \in Orders(n)
         /\ Content(Pass(s, i, n)) = Content(s)
         /\ (\A a \in 1..i - 1 : Leads(s, a, n)) => \A a \in 1..i : Leads(Pass(s, i, n), a, n)
<1> DEFINE Loop(f) == f = [j \in i..n |-> IF j = i THEN s ELSE Exchange(f[j - 1], i, j)]
           after == CHOOSE f : Loop(f)
<1>1. \E f : Loop(f)
  <2> DEFINE step == [w \in Orders(n) \X (i + 1..n) |-> Exchange(w[1], i, w[2])]
  <2>1. \A j \in i + 1..n, v \in Orders(n) :
          step[<<v, j>>] = Exchange(v, i, j) /\ step[<<v, j>>] \in Orders(n)
    BY ExchangeEffect
  <2> HIDE DEF step
  <2>t. StaysIn(Orders(n), step, i, n)
    BY <2>1 DEF StaysIn
  <2>2. PICK f \in [i..n -> Orders(n)] : Runs(f, s, step, i, n)
    BY <2>t, LoopExists
  <2>3. ASSUME NEW j \in i..n PROVE f[j] = IF j = i THEN s ELSE Exchange(f[j - 1], i, j)
    <3>1. CASE j = i
      BY <2>2, <3>1 DEF Runs
    <3>2. CASE j # i
      <4>1. j \in i + 1..n /\ j - 1 \in i..n
        BY <3>2
      <4>2. f[j - 1] \in Orders(n)
        BY <4>1
      <4>3. step[<<f[j - 1], j>>] = Exchange(f[j - 1], i, j)
        BY <2>1, <4>1, <4>2
      <4> QED
        BY <2>2, <3>2, <4>3 DEF Runs
    <3> QED
      BY <3>1, <3>2
  <2>4. Loop(f)
    BY <2>3
  <2> QED
    BY <2>4
<1>2. Loop(after)
  BY <1>1
<1>3. Pass(s, i, n) = after[n]
  BY DEF Pass
<1> HIDE DEF after
<1> DEFINE Done(j) == /\ after[j] \in Orders(n)
                      /\ Content(after[j]) = Content(s)
                      /\ (\A a \in 1..i - 1 : Leads(s, a, n)) =>
                           \A a \in 1..i - 1 : Leads(after[j], a, n)
                      /\ Leads(after[j], i, j)
           P == {j \in i..n : Done(j)}
<1>4. i \in P
  <2>1. after[i] = s
    BY <1>2
  <2>2. s[i].priority \in Int
    BY Priorities DEF Orders
  <2>3. Leads(s, i, i)
    BY <2>2 DEF Leads
  <2> QED
    BY <2>1, <2>3
<1>5. ASSUME NEW j \in i + 1..n, j - 1 \in P PROVE j \in P
  <2>1. after[j] = Exchange(after[j - 1], i, j)
    BY <1>2
  <2>2. Done(j - 1)
    BY <1>5
  <2>3. Done(j)
    BY <2>1, <2>2, ExchangeEffect
  <2> QED
    BY <2>3
<1>6. Done(n)
  <2> HIDE DEF P
  <2>1. i..n \subseteq P
    BY <1>4, <1>5, Induction
  <2> QED
    BY <2>1 DEF P
<1>7. (\A a \in 1..i - 1 : Leads(s, a, n)) => \A a \in 1..i : Leads(after[n], a, n)
  <2>1. \A a \in 1..i : a = i \/ a \in 1..i - 1
    OBVIOUS
  <2> QED
    BY <1>6, <2>1
<1> QED
  BY <1>3, <1>6, <1>7

(* Both loops together: the rules are the same, and none outranks one       *)
(* before it.                                                               *)
LEMMA SortedEffect ==
  ASSUME NEW s \in Seq(RuleSet)
  PROVE  /\ DOMAIN Sorted(s) = DOMAIN s
         /\ Content(Sorted(s)) = Content(s)
         /\ \A a \in DOMAIN s : Leads(Sorted(s), a, Len(s))
<1> DEFINE n == Len(s)
           Loop(f) == f = [i \in 0..n |-> IF i = 0 THEN s ELSE Pass(f[i - 1], i, n)]
           after == CHOOSE f : Loop(f)
<1>0. n \in Nat /\ s \in Orders(n) /\ DOMAIN s = 1..n
  BY DEF Orders
<1>3. Sorted(s) = after[n]
  BY DEF Sorted
<1> HIDE DEF n
<1>1. \E f : Loop(f)
  <2> DEFINE step == [w \in Orders(n) \X (0 + 1..n) |-> Pass(w[1], w[2], n)]
  <2>1. \A i \in 0 + 1..n, v \in Orders(n) :
          step[<<v, i>>] = Pass(v, i, n) /\ step[<<v, i>>] \in Orders(n)
    BY <1>0, PassEffect
  <2> HIDE DEF step
  <2>t. StaysIn(Orders(n), step, 0, n)
    BY <2>1 DEF StaysIn
  <2>2. PICK f \in [0..n -> Orders(n)] : Runs(f, s, step, 0, n)
    BY <1>0, <2>t, LoopExists
  <2>3. ASSUME NEW i \in 0..n PROVE f[i] = IF i = 0 THEN s ELSE Pass(f[i - 1], i, n)
    <3>1. CASE i = 0
      BY <2>2, <3>1 DEF Runs
    <3>2. CASE i # 0
      <4>1. i \in 0 + 1..n /\ i - 1 \in 0..n
        BY <1>0, <3>2
      <4>2. f[i - 1] \in Orders(n)
        BY <4>1
      <4>3. step[<<f[i - 1], i>>] = Pass(f[i - 1], i, n)
        BY <2>1, <4>1, <4>2
      <4> QED
        BY <2>2, <3>2, <4>3 DEF Runs
    <3> QED
      BY <3>1, <3>2
  <2>4. Loop(f)
    BY <2>3
  <2> QED
    BY <2>4
<1>2. Loop(after)
  BY <1>1
<1> HIDE DEF after
<1> DEFINE Done(i) == /\ after[i] \in Orders(n)
                      /\ Content(after[i]) = Content(s)
                      /\ \A a \in 1..i : Leads(after[i], a, n)
           P == {i \in 0..n : Done(i)}
<1>4. 0 \in P
  BY <1>0, <1>2
<1>5. ASSUME NEW i \in 0 + 1..n, i - 1 \in P PROVE i \in P
  <2>1. after[i] = Pass(after[i - 1], i, n) /\ i \in 1..n
    BY <1>0, <1>2
  <2>2. Done(i - 1)
    BY <1>5
  <2>3. Done(i)
    BY <1>0, <2>1, <2>2, PassEffect
  <2> QED
    BY <1>0, <2>3
<1>6. Done(n)
  <2> HIDE DEF P
  <2>1. 0..n \subseteq P
    BY <1>0, <1>4, <1>5, Induction
  <2> QED
    BY <1>0, <2>1 DEF P
<1> QED
  BY <1>0, <1>3, <1>6 DEF Orders, n

-----------------------------------------------------------------------------
(* Answers(d, r): d is what the rules, users and policy in force say of the *)
(* request r.                                                               *)
Answers(d, r) ==
  IF Best(r) = {} THEN d = defaultAllow
  ELSE \E i \in Best(r) : d = (rules[i].action = Allow)

(* The first rule that applies is one that no applicable rule outranks.     *)
LEMMA DecisionIsBest ==
  ASSUME rules \in Seq(RuleSet), NEW r
  PROVE  Answers(Decision(r), r)
<1> DEFINE sorted == Sorted(rules)
           hits == {i \in DOMAIN rules : Applies(sorted[i], r)}
           first == CHOOSE i \in hits : \A j \in hits : i <= j
<1>1. /\ DOMAIN sorted = DOMAIN rules /\ DOMAIN rules = 1..Len(rules) /\ Len(rules) \in Nat
      /\ Content(sorted) = Content(rules)
      /\ \A a \in DOMAIN rules : Leads(sorted, a, Len(rules))
  BY SortedEffect
<1>2. /\ hits = {} => Decision(r) = defaultAllow
      /\ hits # {} => Decision(r) = (sorted[first].action = Allow)
  BY Zenon DEF Decision
<1> HIDE DEF sorted
<1>3. CASE hits = {}
  <2>1. Best(r) = {}
    <3> SUFFICES ASSUME NEW i \in DOMAIN rules, Applies(rules[i], r) PROVE FALSE
      BY DEF Best
    <3>1. rules[i] \in Content(sorted)
      BY <1>1 DEF Content
    <3>2. PICK k \in DOMAIN rules : sorted[k] = rules[i]
      BY <1>1, <3>1 DEF Content
    <3> QED
      BY <1>3, <3>2
  <2> QED
    BY <1>2, <1>3, <2>1, Zenon DEF Answers
<1>4. CASE hits # {}
  <2>1. \E x \in hits : \A y \in hits : x <= y
    <3>1. hits \subseteq Nat
      BY <1>1
    <3> QED
      BY <1>4, <3>1, LeastNumber
  <2>2. first \in hits /\ \A j \in hits : first <= j
    BY <2>1
  <2> HIDE DEF first
  <2>3. PICK i \in DOMAIN rules : rules[i] = sorted[first]
    <3>1. sorted[first] \in Content(rules)
      BY <1>1, <2>2 DEF Content
    <3> QED
      BY <3>1 DEF Content
  <2>4. Applies(rules[i], r)
    BY <2>2, <2>3
  <2>5. ASSUME NEW j \in DOMAIN rules, Applies(rules[j], r)
        PROVE  rules[j].priority <= rules[i].priority
    <3>1. rules[j] \in Content(sorted)
      BY <1>1 DEF Content
    <3>2. PICK k \in DOMAIN rules : sorted[k] = rules[j]
      BY <1>1, <3>1 DEF Content
    <3>3. k \in first..Len(rules)
      BY <1>1, <2>2, <2>5, <3>2
    <3>4. sorted[first].priority >= sorted[k].priority
      BY <1>1, <2>2, <3>3 DEF Leads
    <3>5. rules[i] \in RuleSet /\ rules[j] \in RuleSet
      OBVIOUS
    <3> QED
      BY <2>3, <3>2, <3>4, <3>5, Priorities
  <2>6. i \in Best(r)
    BY <2>4, <2>5 DEF Best
  <2>7. Decision(r) = (rules[i].action = Allow)
    BY <1>2, <1>4, <2>3, Zenon
  <2> QED
    BY <2>6, <2>7, Zenon DEF Answers
<1> QED
  BY <1>3, <1>4

(* Who decides is inside the read lock and stays there, so an answer is     *)
(* the decision of the data in force for as long as it is being counted.    *)
DecisionTypes ==
  /\ rules \in Seq(RuleSet)
  /\ DOMAIN pc = Callers /\ DOMAIN request = Callers /\ DOMAIN decided = Callers

Inside == \A c \in Callers : pc[c] \in {"deciding", "upgrading"} => c \in readers

StillDecided == \A c \in Upgrading : decided[c] = Decision(request[c])

DecisionInv == DecisionTypes /\ Inside /\ StillDecided

(* At the start nobody decides.                                             *)
LEMMA DecisionInit == Init => DecisionInv
<1> SUFFICES ASSUME Init PROVE DecisionInv
  OBVIOUS
<1>1. <<LocalRule, DenyRule>> \in Seq(RuleSet)
  <2>1. LocalRule \in RuleSet /\ DenyRule \in RuleSet
    BY DEF RuleSet
  <2> HIDE DEF RuleSet
  <2> QED
    BY <2>1
<1>2. Upgrading = {} /\ Inside
  BY DEF Init, Upgrading, At, Inside
<1> QED
  BY <1>1, <1>2 DEF Init, DecisionInv, DecisionTypes, StillDecided

(* The rules stay rules, whatever is added or removed.                      *)
LEMMA RulesStay ==
  ASSUME rules \in Seq(RuleSet), Administer
  PROVE  rules' \in Seq(RuleSet)
<1>1. ASSUME NEW rule \in MoreRules, AddACLRule(rule) PROVE rules' \in Seq(RuleSet)
  <2>1. rule \in RuleSet
    BY DEF RuleSet
  <2> QED
    BY <1>1, <2>1 DEF AddACLRule
<1>2. ASSUME NEW i \in 1..MaxRules, RemoveACLRule(i) PROVE rules' \in Seq(RuleSet)
  <2>1. /\ i \in 1..Len(rules) /\ Len(rules) \in Nat
        /\ rules' = SubSeq(rules, 1, i - 1) \o SubSeq(rules, i + 1, Len(rules))
    BY <1>2 DEF RemoveACLRule
  <2>2. SubSeq(rules, 1, i - 1) \in Seq(RuleSet) /\ SubSeq(rules, i + 1, Len(rules)) \in Seq(RuleSet)
    BY <2>1
  <2> QED
    BY <2>1, <2>2
<1>3. (\E name \in Names : RemoveUser(name) \/ \E groups \in MorePermissions : AddUser(name, groups))
      \/ SetPolicy => rules' = rules
  BY DEF AddUser, RemoveUser, SetPolicy, data
<1> QED
  BY <1>1, <1>2, <1>3 DEF Administer

(* A decision follows from the rules, the users and the default policy.     *)
LEMMA DecisionFrame ==
  UNCHANGED <<data, defaultAllow>> => \A r : Decision(r)' = Decision(r)
BY DEF Decision, Applies, Matches, InGroup, data

(* A step in which somebody decides or has decided changes no data; the     *)
(* others leave decisions alone.                                            *)
LEMMA DecisionStep == DecisionInv /\ [Next]_vars => DecisionInv'
<1> SUFFICES ASSUME DecisionInv, [Next]_vars PROVE DecisionInv'
  OBVIOUS
<1> USE DEF DecisionInv, DecisionTypes, Goto, At
<1>f. ASSUME UNCHANGED <<data, defaultAllow>>,
             \A c \in Upgrading' : c \in Upgrading /\ UNCHANGED <<decided[c], request[c]>>
      PROVE  StillDecided'
  <2> SUFFICES ASSUME NEW c \in Upgrading' PROVE (decided[c] = Decision(request[c]))'
    BY DEF StillDecided
  <2>1. decided[c] = Decision(request[c])
    BY <1>f DEF StillDecided
  <2>2. Decision(request[c])' = Decision(request[c])
    BY <1>f, DecisionFrame
  <2> QED
    BY <1>f, <2>1, <2>2
<1>1. CASE Administer
  <2>1. readers = {} /\ UNCHANGED <<pc, request, decided, readers>>
    BY <1>1 DEF Administer, AddUser, RemoveUser, AddACLRule, RemoveACLRule, SetPolicy, CanWrite, asks
  <2>2. Upgrading = {} /\ Upgrading' = {}
    BY <2>1 DEF Inside, Upgrading
  <2> QED
    BY <1>1, <2>1, <2>2, RulesStay DEF Inside, StillDecided
<1>2. ASSUME NEW c \in Callers, Decide(c) PROVE DecisionInv'
  <2>1. /\ pc' = [pc EXCEPT ![c] = "upgrading"] /\ pc[c] = "deciding"
        /\ decided' = [decided EXCEPT ![c] = Decision(request[c])]
        /\ UNCHANGED <<data, rules, defaultAllow, request, readers>>
    BY <1>2 DEF Decide, data, policy
  <2>2. Inside'
    BY <2>1 DEF Inside
  <2>3. ASSUME NEW d \in Upgrading' PROVE (decided[d] = Decision(request[d]))'
    <3>1. d \in Callers /\ Decision(request[d])' = Decision(request[d])
      BY <2>1, DecisionFrame DEF Upgrading
    <3>2. CASE d = c
      BY <2>1, <3>1, <3>2
    <3>3. CASE d # c
      <4>1. d \in Upgrading /\ decided'[d] = decided[d]
        BY <2>1, <3>1, <3>3 DEF Upgrading
      <4>2. decided[d] = Decision(request[d])
        BY <4>1 DEF StillDecided
      <4> QED
        BY <2>1, <3>1, <4>1, <4>2
    <3> QED
      BY <3>2, <3>3
  <2> QED
    BY <2>1, <2>2, <2>3 DEF StillDecided
<1>3. ASSUME NEW c \in Callers, ReadLock(c) PROVE DecisionInv'
  <2>1. /\ pc' = [pc EXCEPT ![c] = "deciding"] /\ readers' = readers \cup {c}
        /\ UNCHANGED <<data, rules, defaultAllow, request, decided>>
    BY <1>3 DEF ReadLock, data, policy, asks
  <2>2. Inside' /\ Upgrading' \subseteq Upgrading
    BY <2>1 DEF Inside, Upgrading
  <2> QED
    BY <1>f, <2>1, <2>2
<1>4. ASSUME NEW c \in Callers,
             \/ Ask(c) \/ Authenticate(c) \/ Count(c) \/ ReadRequired(c) \/ ReadDefault(c)
             \/ CheckName(c) \/ AllowAtOnce(c) \/ DenyAtOnce(c) \/ FailLogin(c) \/ Stamp(c)
      PROVE  DecisionInv'
  <2>1. PICK to \in Labels \ {"deciding", "upgrading"} :
          /\ pc[c] # "upgrading" /\ pc' = [pc EXCEPT ![c] = to]
    BY <1>4 DEF Ask, Authenticate, Count, ReadRequired, ReadDefault, CheckName, AllowAtOnce,
                DenyAtOnce, Answer, FailLogin, Stamp, Labels
  <2>2. /\ UNCHANGED <<data, rules, defaultAllow, readers, decided>>
        /\ DOMAIN request' = Callers /\ \A d \in Callers \ {c} : request'[d] = request[d]
    BY <1>4 DEF Ask, Authenticate, Count, ReadRequired, ReadDefault, CheckName, AllowAtOnce,
                DenyAtOnce, Answer, FailLogin, Stamp, data, policy, asks
  <2>3. Inside' /\ c \notin Upgrading' /\ Upgrading' \subseteq Upgrading
    BY <2>1, <2>2 DEF Inside, Upgrading, Labels
  <2>4. StillDecided'
    BY <1>f, <2>2, <2>3 DEF Upgrading
  <2> QED
    BY <2>1, <2>2, <2>3, <2>4
<1>5. CASE UNCHANGED vars
  <2>1. UNCHANGED <<data, rules, defaultAllow, readers, decided, request, pc>>
    BY <1>5 DEF vars, data
  <2>2. Inside' /\ Upgrading' = Upgrading
    BY <2>1 DEF Inside, Upgrading
  <2> QED
    BY <1>f, <2>1, <2>2
<1> QED
  BY <1>1, <1>2, <1>3, <1>4, <1>5 DEF Next, Step

(* An answer of CheckAccess is that of a rule no applicable rule outranks,  *)
(* or the default policy, as long as it is being counted.                   *)
THEOREM DecisionsHold == Spec => []DecisionHolds
<1>1. DecisionInv => DecisionHolds
  <2> SUFFICES ASSUME DecisionInv, NEW c \in Upgrading PROVE Answers(decided[c], request[c])
    BY DEF DecisionHolds, Answers
  <2>1. Answers(Decision(request[c]), request[c])
    BY DecisionIsBest DEF DecisionInv, DecisionTypes
  <2>2. decided[c] = Decision(request[c])
    BY DEF DecisionInv, StillDecided
  <2> QED
    BY <2>1, <2>2, Zenon
<1> QED
  BY <1>1, DecisionInit, DecisionStep, PTL DEF Spec
================================================================================
