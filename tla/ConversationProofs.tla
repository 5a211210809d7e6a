------------------------- MODULE ConversationProofs -------------------------
(***************************************************************************)
(* Machine-checked proofs about what a run says: the messages its loop     *)
(* sends to the model (AgentLoop), for any steering and any length, and    *)
(* the replay of its events to clients (EventJournal), for any runs and    *)
(* clients.                                                                *)
(***************************************************************************)
EXTENDS FiniteSetTheorems, AgentLoop, EventJournal, TLAPS

\* The leaves are first-order: Zenon proves them, and those it does not find cite SMT.
USE Zenon

-----------------------------------------------------------------------------
(* Least and greatest numbers *)

LEMMA LessIsWellFounded ==
  \E R : IsWellFoundedOn(R, Nat) /\ \A x, y \in Nat : x < y => <<x, y>> \in R
<1>1. IsWellFoundedOn(OpToRel(<, Nat), Nat)
  BY NatLessThanWellFounded
<1>2. \A x, y \in Nat : x < y => <<x, y>> \in OpToRel(<, Nat)
  BY SMT DEF OpToRel
<1> QED BY <1>1, <1>2

\* The least of a set of numbers.
LEMMA Least ==
  ASSUME NEW T, T \subseteq Nat, T # {}
  PROVE  \E x \in T : \A y \in T : x <= y
<1>1. PICK R : IsWellFoundedOn(R, Nat) /\ \A x, y \in Nat : x < y => <<x, y>> \in R
  BY LessIsWellFounded
<1>2. PICK x \in T : \A y \in T : ~(<<y, x>> \in R)
  <2>1. IsWellFoundedOn(R, Nat)
    BY <1>1
  <2>2. T \subseteq Nat /\ T # {}
    OBVIOUS
  <2> HIDE <1>1
  <2> QED BY ONLY <2>1, <2>2, WFMin
<1>3. x \in Nat /\ \A y \in T : y \in Nat
  OBVIOUS
<1>4. \A y \in T : ~(y < x)
  BY <1>1, <1>2, <1>3
<1>5. \A y \in T : x <= y
  BY <1>3, <1>4, SMT
<1> QED BY <1>5

\* Max, of a bounded set of numbers.
LEMMA Greatest ==
  ASSUME NEW b \in Nat, NEW S, S \subseteq 0..b, S # {}
  PROVE  Max(S) \in S /\ \A y \in S : y <= Max(S)
<1>1. PICK d \in {b - x : x \in S} : \A e \in {b - x : x \in S} : d <= e
  <2>1. {b - x : x \in S} \subseteq Nat
    BY SMT
  <2>2. {b - x : x \in S} # {}
    OBVIOUS
  <2> QED BY <2>1, <2>2, Least
<1>2. PICK m \in S : d = b - m
  BY <1>1
<1>3. \A y \in S : m >= y
  <2> TAKE y \in S
  <2>1. b - m <= b - y
    BY <1>1, <1>2
  <2> QED BY <2>1, SMT
<1>4. Max(S) \in S /\ \A y \in S : Max(S) >= y
  BY <1>3 DEF Max
<1> QED BY <1>4, SMT

\* Max, of a set whose greatest element is known.
LEMMA MaxIs ==
  ASSUME NEW S, S \subseteq Int, NEW m \in S, \A y \in S : y <= m
  PROVE  Max(S) = m
<1>1. \A y \in S : m >= y
  BY SMT
<1>2. Max(S) \in S /\ \A y \in S : Max(S) >= y
  BY <1>1 DEF Max
<1>3. Max(S) >= m /\ Max(S) <= m /\ Max(S) \in Int /\ m \in Int
  BY <1>2
<1> QED BY ONLY <1>3, SMT

-----------------------------------------------------------------------------
(* The numbers of a set in order *)

\* How many of S are not above i.
Rank(S, i) == Cardinality({j \in S : j <= i})

LEMMA FiniteNumbers ==
  ASSUME NEW b \in Nat, NEW S \in SUBSET (1..b)
  PROVE  IsFiniteSet(S) /\ Cardinality(S) \in Nat
<1>1. IsFiniteSet(1..b)
  BY FS_Interval, SMT
<1>2. IsFiniteSet(S)
  BY <1>1, FS_Subset
<1> QED BY <1>2, FS_CardinalityType

LEMMA RankType ==
  ASSUME NEW b \in Nat, NEW S \in SUBSET (1..b), NEW i \in S
  PROVE  Rank(S, i) \in 1..Cardinality(S)
<1>1. PICK T : T = {j \in S : j <= i}
  OBVIOUS
<1>2. T \subseteq S /\ i \in T
  <2>1. i <= i
    BY SMT
  <2> QED BY <1>1, <2>1
<1>3. IsFiniteSet(S) /\ Cardinality(S) \in Nat
  BY FiniteNumbers
<1>4. IsFiniteSet(T) /\ Cardinality(T) <= Cardinality(S)
  BY <1>2, <1>3, FS_Subset
<1>5. Cardinality(T) \in Nat /\ Cardinality(T) # 0
  BY <1>2, <1>4, FS_CardinalityType, FS_EmptySet
<1> QED BY <1>1, <1>3, <1>4, <1>5, SMT DEF Rank

\* The ranks of consecutive members are consecutive.
LEMMA RankRun ==
  ASSUME NEW b \in Nat, NEW S \in SUBSET (1..b), NEW i \in S, NEW d \in Nat,
         \A q \in 1..d : i + q \in S
  PROVE  Rank(S, i + d) = Rank(S, i) + d
<1>1. PICK T : T = {j \in S : j <= i}
  OBVIOUS
<1>2. PICK U : U = (i + 1)..(i + d)
  OBVIOUS
<1>3. {j \in S : j <= i + d} = T \cup U
  <2>1. \A j \in S : j <= i + d <=> j <= i \/ j \in (i + 1)..(i + d)
    BY SMT
  <2>2. \A j \in (i + 1)..(i + d) : j \in S
    <3> TAKE j \in (i + 1)..(i + d)
    <3>1. j - i \in 1..d /\ i + (j - i) = j
      BY SMT
    <3> QED BY <3>1
  <2> QED BY <1>1, <1>2, <2>1, <2>2
<1>4. T \cap U = {}
  <2>1. \A j \in S : j <= i => j \notin (i + 1)..(i + d)
    BY SMT
  <2> QED BY <1>1, <1>2, <2>1
<1>5. IsFiniteSet(T) /\ Cardinality(T) \in Nat
  <2>1. T \in SUBSET (1..b)
    BY <1>1
  <2> QED BY <2>1, FiniteNumbers
<1>6. IsFiniteSet(U) /\ Cardinality(U) = d
  <2>1. i + 1 \in Int /\ i + d \in Int
    BY SMT
  <2>2. IsFiniteSet(U) /\ Cardinality(U) = IF i + 1 > i + d THEN 0 ELSE (i + d) - (i + 1) + 1
    BY <1>2, <2>1, FS_Interval
  <2>3. CASE i + 1 > i + d
    <3>1. d = 0
      BY <2>3, SMT
    <3> QED BY <2>2, <2>3, <3>1
  <2>4. CASE ~(i + 1 > i + d)
    <3>1. (i + d) - (i + 1) + 1 = d
      BY SMT
    <3> QED BY <2>2, <2>4, <3>1
  <2> QED BY <2>3, <2>4
<1>7. Cardinality(T \cup U) = Cardinality(T) + d - 0
  BY <1>4, <1>5, <1>6, FS_Union, FS_EmptySet
<1>8. Cardinality(T) + d - 0 = Cardinality(T) + d
  BY <1>5, SMT
<1> QED BY <1>1, <1>3, <1>7, <1>8 DEF Rank

\* A later member has a higher rank.
LEMMA RankRises ==
  ASSUME NEW b \in Nat, NEW S \in SUBSET (1..b), NEW i \in S, NEW j \in S, i < j
  PROVE  Rank(S, i) < Rank(S, j)
<1>1. PICK T : T = {m \in S : m <= i}
  OBVIOUS
<1>2. PICK U : U = {m \in S : m <= j}
  OBVIOUS
<1>3. T \subseteq U /\ j \in U /\ j \notin T
  <2>1. j <= j /\ ~(j <= i) /\ \A m \in S : m <= i => m <= j
    BY SMT
  <2> QED BY <1>1, <1>2, <2>1
<1>4. IsFiniteSet(U) /\ Cardinality(U) \in Nat
  <2>1. U \in SUBSET (1..b)
    BY <1>2
  <2> QED BY <2>1, FiniteNumbers
<1>5. IsFiniteSet(T) /\ Cardinality(T) \in Nat
  <2>1. T \in SUBSET (1..b)
    BY <1>1
  <2> QED BY <2>1, FiniteNumbers
<1>6. Cardinality(T) <= Cardinality(U) /\ Cardinality(T) # Cardinality(U)
  <2>1. T \in SUBSET U /\ T # U
    BY <1>3
  <2> QED BY <1>4, <2>1, FS_Subset
<1>7. Cardinality(T) < Cardinality(U)
  BY ONLY <1>4, <1>5, <1>6, SMT
<1> QED BY <1>1, <1>2, <1>7 DEF Rank

\* Every rank is that of a member.
LEMMA RankTaken ==
  ASSUME NEW b \in Nat, NEW S \in SUBSET (1..b), NEW k \in 1..Cardinality(S)
  PROVE  \E i \in S : Rank(S, i) = k
<1>1. IsFiniteSet(S) /\ Cardinality(S) \in Nat
  BY FiniteNumbers
<1>2. k \in Nat /\ 1 <= k /\ k <= Cardinality(S)
  BY <1>1, SMT
<1>3. \A T : T \subseteq S /\ T # {} => \E m \in T : \A y \in T : y <= m
  <2> SUFFICES ASSUME NEW T, T \subseteq S, T # {} PROVE \E m \in T : \A y \in T : y <= m
    OBVIOUS
  <2>1. T \subseteq 0..b
    BY SMT
  <2> QED BY <2>1, Greatest
<1>4. S # {}
  <2>1. Cardinality(S) # 0
    BY <1>1, <1>2, SMT
  <2> QED BY <2>1, FS_EmptySet
<1>5. PICK last \in S : \A y \in S : y <= last
  BY <1>3, <1>4
<1>6. Rank(S, last) = Cardinality(S)
  <2>1. {j \in S : j <= last} = S
    BY <1>5
  <2> QED BY <2>1 DEF Rank
<1>7. PICK n \in {i \in S : k <= Rank(S, i)} : \A y \in {i \in S : k <= Rank(S, i)} : n <= y
  <2>1. {i \in S : k <= Rank(S, i)} \subseteq Nat
    <3>1. S \subseteq Nat
      BY SMT
    <3> QED BY <3>1
  <2>2. last \in {i \in S : k <= Rank(S, i)}
    BY ONLY <1>2, <1>5, <1>6, Zenon
  <2> QED BY <2>1, <2>2, Least
<1>8. n \in S /\ k <= Rank(S, n) /\ \A y \in S : k <= Rank(S, y) => n <= y
  BY <1>7
<1>9. Rank(S, n) \in Nat
  <2>1. Rank(S, n) \in 1..Cardinality(S)
    BY <1>8, RankType
  <2> QED BY ONLY <1>1, <2>1, SMT
<1>10. CASE Rank(S, n) = k
  BY <1>8, <1>10
<1>11. CASE Rank(S, n) # k
  <2>1. PICK T : T = {j \in S : j <= n} \ {n}
    OBVIOUS
  <2>2. \A j \in S : j <= n /\ j # n <=> j < n
    BY <1>8, SMT
  <2>3. T = {j \in S : j < n}
    BY <2>1, <2>2
  <2>4. Cardinality(T) = Rank(S, n) - 1
    <3>1. n \in {j \in S : j <= n}
      <4>1. n <= n
        BY <1>8, SMT
      <4> QED BY <1>8, <4>1
    <3>2. IsFiniteSet({j \in S : j <= n})
      <4>1. {j \in S : j <= n} \in SUBSET S
        OBVIOUS
      <4> QED BY <1>1, <4>1, FS_Subset
    <3> QED BY <2>1, <3>1, <3>2, FS_RemoveElement DEF Rank
  <2>5. k <= Rank(S, n) - 1 /\ Rank(S, n) - 1 # 0
    BY ONLY <1>2, <1>8, <1>9, <1>11, SMT
  <2>6. T # {}
    BY <2>4, <2>5, FS_EmptySet
  <2>7. PICK m \in T : \A y \in T : y <= m
    BY <1>3, <2>1, <2>6
  <2>8. m \in S /\ m < n
    BY <2>3, <2>7
  <2>9. {j \in S : j <= m} = T
    <3>1. \A j \in S : j <= m => j < n
      BY <1>8, <2>8, SMT
    <3> QED BY <2>3, <2>7, <3>1
  <2>10. Rank(S, m) = Rank(S, n) - 1
    BY <2>4, <2>9 DEF Rank
  <2>11. n <= m
    BY <1>8, <2>5, <2>8, <2>10
  <2> QED BY <1>8, <2>8, <2>11, SMT
<1> QED BY <1>10, <1>11

\* What select leaves of a list, and where.
LEMMA Selected ==
  ASSUME NEW M, NEW ms \in Seq(M), NEW S \in SUBSET (1..Len(ms))
  PROVE  /\ select(ms, S) \in Seq(M) /\ Len(select(ms, S)) = Cardinality(S)
         /\ Cardinality(S) \in Nat
         /\ \A i \in S : Rank(S, i) \in 1..Cardinality(S) /\ select(ms, S)[Rank(S, i)] = ms[i]
         /\ \A k \in 1..Cardinality(S) : \E i \in S : Rank(S, i) = k /\ select(ms, S)[k] = ms[i]
<1>1. Len(ms) \in Nat /\ \A i \in 1..Len(ms) : ms[i] \in M
  BY SMT
<1>2. Cardinality(S) \in Nat
  BY <1>1, FiniteNumbers
<1>3. PICK nth : nth = [k \in 1..Cardinality(S) |-> CHOOSE i \in S : Rank(S, i) = k]
  OBVIOUS
<1>4. \A k \in 1..Cardinality(S) : nth[k] \in S /\ Rank(S, nth[k]) = k
  <2> TAKE k \in 1..Cardinality(S)
  <2>1. nth[k] = CHOOSE i \in S : Rank(S, i) = k
    BY <1>3
  <2>2. \E i \in S : Rank(S, i) = k
    BY <1>1, RankTaken
  <2> QED BY <2>1, <2>2
<1>5. \A i \in S : Rank(S, i) \in 1..Cardinality(S)
  BY <1>1, RankType
<1>6. \A i \in S : nth[Rank(S, i)] = i
  <2> TAKE i \in S
  <2>1. PICK j \in S : j = nth[Rank(S, i)] /\ Rank(S, j) = Rank(S, i)
    BY <1>4, <1>5
  <2>2. Rank(S, i) \in Nat
    BY <1>2, <1>5, SMT
  <2>3. ~(Rank(S, i) < Rank(S, i))
    BY <2>2, SMT
  <2>4. ~(i < j) /\ ~(j < i)
    BY <1>1, <2>1, <2>3, RankRises
  <2>5. i = j
    BY <1>1, <2>4, SMT
  <2> QED BY <2>1, <2>5
<1>7. select(ms, S) = [k \in 1..Cardinality(S) |-> ms[nth[k]]]
  <2>1. \A k \in 1..Cardinality(S) : nth[k] = CHOOSE i \in S : Cardinality({j \in S : j <= i}) = k
    BY <1>3 DEF Rank
  <2>2. [k \in 1..Cardinality(S) |-> ms[nth[k]]]
        = [k \in 1..Cardinality(S) |-> ms[CHOOSE i \in S : Cardinality({j \in S : j <= i}) = k]]
    BY <2>1
  <2> QED BY <2>2 DEF select
<1>8. select(ms, S) \in [1..Cardinality(S) -> M]
  BY <1>1, <1>4, <1>7
<1>9. select(ms, S) \in Seq(M) /\ Len(select(ms, S)) = Cardinality(S)
  BY ONLY <1>2, <1>8, SMT
<1>10. \A i \in S : select(ms, S)[Rank(S, i)] = ms[i]
  BY <1>5, <1>6, <1>7
<1>11. \A k \in 1..Cardinality(S) : select(ms, S)[k] = ms[nth[k]]
  BY <1>7
<1> QED BY <1>2, <1>4, <1>5, <1>9, <1>10, <1>11

-----------------------------------------------------------------------------
(* Messages *)

Ids == Steers \cup {"prompt", "step", "task", "objective", "reflect", "plain", "protocol",
                    "feedback", "summary", "calls", "result"}

\* The messages a loop has: only an assistant's message asks for calls, and a
\* summary asks for none.
Talk == {m \in [role: {"system", "user", "assistant", "tool"}, id: Ids, n: Nat] :
           /\ m.role \in {"system", "user"} \/ m.id = "summary" => m.n = 0
           /\ m.role = "tool" => m.id # "summary"}

LEMMA TalkIs ==
  /\ \A role \in {"system", "user"}, id \in Ids : Msg(role, id) \in Talk
  /\ Msg("assistant", "summary") \in Talk
  /\ \A n \in Nat : CallsMsg(n) \in Talk /\ Result(n) \in Talk
<1>1. ASSUME NEW role \in {"system", "user", "assistant"}, NEW id \in Ids
      PROVE  Msg(role, id) \in Talk
  BY SMT DEF Talk, Msg
<1>2. {"summary", "calls", "result"} \subseteq Ids
  BY DEF Ids
<1>3. ASSUME NEW n \in Nat PROVE CallsMsg(n) \in Talk /\ Result(n) \in Talk
  BY <1>2, SMT DEF Talk, CallsMsg, Result
<1> QED BY <1>1, <1>2, <1>3

\* The fields of a message.
LEMMA MsgFields ==
  /\ \A role, id : Msg(role, id).role = role /\ Msg(role, id).n = 0 /\ Msg(role, id).id = id
  /\ \A n : CallsMsg(n).role = "assistant" /\ CallsMsg(n).n = n
  /\ \A n : Result(n).role = "tool" /\ Result(n).n = n /\ Result(n).id = "result"
  BY DEF Msg, CallsMsg, Result

LEMMA TalkFields ==
  ASSUME NEW m \in Talk
  PROVE  /\ m.n \in Nat
         /\ m.role \in {"system", "user"} => m.n = 0
         /\ m.id = "summary" => m.n = 0 /\ m.role # "tool"
  BY SMT DEF Talk

\* A result of whole exchanges comes that far after its call.
LEMMA WholeResult ==
  ASSUME NEW ms \in Seq(Talk), Whole(ms), NEW i \in 1..Len(ms), ms[i].role = "tool"
  PROVE  /\ i - ms[i].n \in 1..Len(ms) /\ ms[i].n \in Nat
         /\ ms[i - ms[i].n].role = "assistant" /\ ms[i].n <= ms[i - ms[i].n].n
         /\ i - ms[i].n + ms[i].n = i
<1>1. Len(ms) \in Nat /\ DOMAIN ms = 1..Len(ms) /\ ms[i] \in Talk
  BY SMT
<1>2. PICK j \in 1..(i - 1) : ms[j].role = "assistant" /\ ms[i].n = i - j /\ ms[i].n <= ms[j].n
  BY <1>1 DEF Whole
<1>3. j = i - ms[i].n /\ j \in 1..Len(ms) /\ j + ms[i].n = i /\ ms[i].n \in Nat
  BY <1>1, <1>2, SMT
<1> QED BY <1>2, <1>3

LEMMA WholeCall ==
  ASSUME NEW ms \in Seq(Talk), Whole(ms), NEW i \in 1..Len(ms), ms[i].role # "tool"
  PROVE  ms[i].n \in Nat /\ \A k \in 1..ms[i].n : i + k \in 1..Len(ms) /\ ms[i + k] = Result(k)
<1>1. Len(ms) \in Nat /\ DOMAIN ms = 1..Len(ms) /\ ms[i] \in Talk
  BY SMT
<1> QED BY <1>1, TalkFields DEF Whole

\* The same, to show that a list is whole.
LEMMA IsWhole ==
  ASSUME NEW ms \in Seq(Talk),
         \A i \in 1..Len(ms) : ms[i].role = "tool" =>
            \E j \in 1..(i - 1) : ms[j].role = "assistant" /\ ms[i].n = i - j /\ ms[i].n <= ms[j].n,
         \A i \in 1..Len(ms) : ms[i].role # "tool" =>
            \A k \in 1..ms[i].n : i + k \in 1..Len(ms) /\ ms[i + k] = Result(k)
  PROVE  Whole(ms)
<1>1. DOMAIN ms = 1..Len(ms)
  BY SMT
<1> QED BY <1>1 DEF Whole

\* Closed under exchanges: with a message, the rest of its exchange.
Closed(ms, S) ==
  /\ \A i \in S : ms[i].role = "tool" =>
       i - ms[i].n \in S /\ \A q \in 1..ms[i].n : i - ms[i].n + q \in S
  /\ \A i \in S : ms[i].role # "tool" => \A q \in 1..ms[i].n : i + q \in S

\* Leaving out exchanges as a whole leaves whole exchanges.
LEMMA SelectWhole ==
  ASSUME NEW ms \in Seq(Talk), Whole(ms), NEW S \in SUBSET (1..Len(ms)), Closed(ms, S)
  PROVE  Whole(select(ms, S))
<1>1. Len(ms) \in Nat /\ \A i \in 1..Len(ms) : ms[i] \in Talk
  BY SMT
<1>2. PICK s : s = select(ms, S)
  OBVIOUS
<1>3. PICK c \in Nat : c = Cardinality(S)
  BY Selected
<1>4. /\ s \in Seq(Talk) /\ Len(s) = c
      /\ \A i \in S : Rank(S, i) \in 1..c /\ s[Rank(S, i)] = ms[i]
      /\ \A k \in 1..c : \E i \in S : Rank(S, i) = k /\ s[k] = ms[i]
  BY <1>2, <1>3, Selected
<1>5. ASSUME NEW k \in 1..c, s[k].role = "tool"
      PROVE  \E j \in 1..(k - 1) : s[j].role = "assistant" /\ s[k].n = k - j /\ s[k].n <= s[j].n
  <2>1. PICK i \in S : Rank(S, i) = k /\ s[k] = ms[i]
    BY <1>4
  <2>2. PICK n \in Nat : n = ms[i].n
    BY <1>1, TalkFields
  <2>3. PICK e \in S : e = i - n
    BY <1>5, <2>1, <2>2 DEF Closed
  <2>4. ms[e].role = "assistant" /\ n <= ms[e].n /\ e + n = i
    <3>1. ms[i].role = "tool" /\ i \in 1..Len(ms)
      BY <1>5, <2>1
    <3>2. /\ ms[i - ms[i].n].role = "assistant" /\ ms[i].n <= ms[i - ms[i].n].n
          /\ i - ms[i].n + ms[i].n = i
      BY <3>1, WholeResult
    <3> QED BY <2>2, <2>3, <3>2
  <2>5. \A q \in 1..n : e + q \in S
    BY <1>5, <2>1, <2>2, <2>3 DEF Closed
  <2>6. k = Rank(S, e) + n
    BY <1>1, <2>1, <2>4, <2>5, RankRun
  <2>7. Rank(S, e) \in 1..c /\ s[Rank(S, e)] = ms[e]
    BY <1>4
  <2>8. n # 0
    <3>1. n = 0 => e = i
      BY <2>3, <1>1, SMT
    <3>2. "tool" # "assistant"
      OBVIOUS
    <3> QED BY <1>5, <2>1, <2>4, <3>1, <3>2
  <2>9. Rank(S, e) \in 1..(k - 1) /\ n = k - Rank(S, e)
    BY ONLY <1>3, <2>2, <2>6, <2>7, <2>8, SMT
  <2> QED BY <2>1, <2>2, <2>4, <2>7, <2>9
<1>6. ASSUME NEW k \in 1..c, s[k].role # "tool", NEW q \in 1..s[k].n
      PROVE  k + q \in 1..c /\ s[k + q] = Result(q)
  <2>1. PICK i \in S : Rank(S, i) = k /\ s[k] = ms[i]
    BY <1>4
  <2>2. PICK n \in Nat : n = ms[i].n
    BY <1>1, TalkFields
  <2>3. \A p \in 1..n : i + p \in S
    BY <1>6, <2>1, <2>2 DEF Closed
  <2>4. q \in 1..n /\ q \in Nat /\ \A p \in 1..q : p \in 1..n
    <3>1. q \in 1..n
      BY <1>6, <2>1, <2>2
    <3> QED BY <3>1, SMT
  <2>5. Rank(S, i + q) = k + q
    BY <1>1, <2>1, <2>3, <2>4, RankRun
  <2>6. i + q \in S /\ ms[i + q] = Result(q)
    BY <1>6, <2>1, <2>2, <2>3, <2>4, WholeCall
  <2> QED BY <1>4, <2>5, <2>6
<1> QED BY <1>2, <1>4, <1>5, <1>6, IsWhole

-----------------------------------------------------------------------------
(* Putting messages in *)

LEMMA Inserted ==
  ASSUME NEW M, NEW s \in Seq(M), NEW p \in 1..(Len(s) + 1), NEW e \in M
  PROVE  /\ insert(s, p, e) \in Seq(M) /\ Len(insert(s, p, e)) = Len(s) + 1
         /\ \A i \in 1..(p - 1) : insert(s, p, e)[i] = s[i]
         /\ insert(s, p, e)[p] = e
         /\ \A i \in (p + 1)..(Len(s) + 1) : insert(s, p, e)[i] = s[i - 1]
<1>1. Len(s) \in Nat /\ p \in Nat /\ 1 <= p /\ p <= Len(s) + 1
  BY SMT
<1>2. PICK a : a = SubSeq(s, 1, p - 1)
  OBVIOUS
<1>3. PICK z : z = SubSeq(s, p, Len(s))
  OBVIOUS
<1>4. a \in Seq(M) /\ Len(a) = p - 1 /\ \A i \in 1..(p - 1) : a[i] = s[i]
  BY <1>1, <1>2, SMT
<1>5. z \in Seq(M) /\ Len(z) = Len(s) - p + 1 /\ \A i \in 1..(Len(s) - p + 1) : z[i] = s[p + i - 1]
  BY <1>1, <1>3, SMT
<1>6. PICK b : b = a \o <<e>>
  OBVIOUS
<1>7. b \in Seq(M) /\ Len(b) = p /\ b[p] = e /\ \A i \in 1..(p - 1) : b[i] = a[i]
  BY ONLY <1>1, <1>4, <1>6, e \in M, SMT
<1>8. PICK t : t = b \o z
  OBVIOUS
<1>9. t = insert(s, p, e)
  BY <1>2, <1>3, <1>6, <1>8 DEF insert
<1>10. /\ t \in Seq(M) /\ Len(t) = Len(s) + 1
       /\ \A i \in 1..p : t[i] = b[i]
       /\ \A i \in (p + 1)..(Len(s) + 1) : t[i] = z[i - p]
  BY ONLY <1>1, <1>5, <1>7, <1>8, SMT
<1>11. \A i \in 1..(p - 1) : t[i] = s[i]
  BY ONLY <1>1, <1>4, <1>7, <1>10, SMT
<1>12. t[p] = e
  BY ONLY <1>1, <1>7, <1>10, SMT
<1>13. ASSUME NEW i \in (p + 1)..(Len(s) + 1) PROVE t[i] = s[i - 1]
  <2>1. i - p \in 1..(Len(s) - p + 1) /\ p + (i - p) - 1 = i - 1
    BY ONLY <1>1, i \in (p + 1)..(Len(s) + 1), SMT
  <2> QED BY <1>5, <1>10, <2>1
<1> QED BY <1>9, <1>10, <1>11, <1>12, <1>13

\* A message that asks for nothing may be put in front of all the others, or
\* after one that asks for nothing.
LEMMA InsertWhole ==
  ASSUME NEW s \in Seq(Talk), Whole(s), NEW p \in 1..(Len(s) + 1), NEW e \in Talk,
         e.role # "tool", e.n = 0,
         p = 1 \/ (s[p - 1].role \notin {"tool", "assistant"} /\ s[p - 1].n = 0)
  PROVE  Whole(insert(s, p, e))
<1>1. Len(s) \in Nat /\ p \in Nat /\ 1 <= p /\ p <= Len(s) + 1 /\ \A i \in 1..Len(s) : s[i] \in Talk
  BY SMT
<1>2. PICK t : t = insert(s, p, e)
  OBVIOUS
<1>3. /\ t \in Seq(Talk) /\ Len(t) = Len(s) + 1
      /\ \A i \in 1..(p - 1) : t[i] = s[i]
      /\ t[p] = e
      /\ \A i \in (p + 1)..(Len(s) + 1) : t[i] = s[i - 1]
  <2>1. /\ insert(s, p, e) \in Seq(Talk) /\ Len(insert(s, p, e)) = Len(s) + 1
        /\ \A i \in 1..(p - 1) : insert(s, p, e)[i] = s[i]
        /\ insert(s, p, e)[p] = e
        /\ \A i \in (p + 1)..(Len(s) + 1) : insert(s, p, e)[i] = s[i - 1]
    <3>1. s \in Seq(Talk) /\ p \in 1..(Len(s) + 1) /\ e \in Talk
      OBVIOUS
    <3> QED BY ONLY <3>1, Inserted, SMT
  <2> QED BY <1>2, <2>1
\* No exchange spans the place.
<1>4. ASSUME NEW i \in 1..Len(s), s[i].role # "tool", NEW q \in 1..s[i].n, i < p
      PROVE  i + q < p
  <2>1. PICK n \in Nat : n = s[i].n
    BY <1>1, TalkFields
  <2>2. \A k \in 1..n : i + k \in 1..Len(s) /\ s[i + k] = Result(k)
    BY <1>4, <2>1, WholeCall
  <2>3. q \in 1..n
    BY <1>4, <2>1
  <2> SUFFICES ASSUME ~(i + q < p) PROVE FALSE
    OBVIOUS
  <2>4. p # 1 /\ (p - 1 = i \/ p - 1 - i \in 1..n) /\ i + (p - 1 - i) = p - 1
    BY ONLY <1>1, <1>4, <2>1, <2>3, ~(i + q < p), SMT
  <2>5. s[p - 1].role \notin {"tool", "assistant"} /\ s[p - 1].n = 0
    BY <2>4
  <2>6. CASE p - 1 = i
    <3>1. 0 \in Nat /\ ~(q \in 1..0)
      BY <2>3, SMT
    <3> QED BY <2>1, <2>3, <2>5, <2>6, <3>1
  <2>7. CASE p - 1 - i \in 1..n
    <3>1. s[p - 1] = Result(p - 1 - i)
      BY <2>2, <2>4, <2>7
    <3>2. Result(p - 1 - i).role = "tool"
      BY MsgFields
    <3> QED BY <2>5, <3>1, <3>2
  <2> QED BY <2>4, <2>6, <2>7
\* Where message i of s is in t.
<1>5. PICK w : w = [i \in 1..Len(s) |-> IF i < p THEN i ELSE i + 1]
  OBVIOUS
<1>6. ASSUME NEW i \in 1..Len(s) PROVE w[i] \in 1..Len(t) /\ t[w[i]] = s[i]
  <2>1. CASE i < p
    <3>1. w[i] = i /\ i \in 1..(p - 1) /\ i \in 1..(Len(s) + 1)
      <4>1. i \in 1..(p - 1) /\ i \in 1..(Len(s) + 1)
        BY <1>1, <2>1, SMT
      <4> QED BY <1>5, <2>1, <4>1
    <3> QED BY <1>3, <3>1
  <2>2. CASE ~(i < p)
    <3>1. i + 1 \in (p + 1)..(Len(s) + 1) /\ (i + 1) - 1 = i /\ i + 1 \in 1..(Len(s) + 1)
      BY <1>1, <2>2, SMT
    <3>2. w[i] = i + 1
      BY <1>5, <2>2
    <3> QED BY <1>3, <3>1, <3>2
  <2> QED BY <2>1, <2>2
<1>7. ASSUME NEW k \in 1..Len(t), k # p PROVE \E i \in 1..Len(s) : k = w[i]
  <2>1. CASE k < p
    <3>1. k \in 1..Len(s)
      BY <1>1, <1>3, <2>1, SMT
    <3> QED BY <1>5, <2>1, <3>1
  <2>2. CASE ~(k < p)
    <3>1. k - 1 \in 1..Len(s) /\ ~(k - 1 < p) /\ (k - 1) + 1 = k
      BY <1>1, <1>3, <1>7, <2>2, SMT
    <3> QED BY <1>5, <3>1
  <2> QED BY <2>1, <2>2
\* The exchange of message i stays together.
<1>8. ASSUME NEW i \in 1..Len(s), s[i].role # "tool", NEW q \in 1..s[i].n, i + q \in 1..Len(s)
      PROVE  w[i + q] = w[i] + q
  <2>1. s[i].n \in Nat
    BY <1>1, TalkFields
  <2>2. CASE i < p
    <3>1. i + q < p
      BY <1>4, <1>8, <2>2
    <3> QED BY <1>5, <1>8, <2>2, <3>1
  <2>3. CASE ~(i < p)
    <3>1. ~(i + q < p) /\ i + q + 1 = i + 1 + q
      BY <1>1, <2>1, <2>3, SMT
    <3>2. w[i + q] = i + q + 1 /\ w[i] = i + 1
      BY <1>5, <1>8, <2>3, <3>1
    <3> QED BY <3>1, <3>2
  <2> QED BY <2>2, <2>3
<1>9. ASSUME NEW k \in 1..Len(t), t[k].role = "tool"
      PROVE  \E j \in 1..(k - 1) : t[j].role = "assistant" /\ t[k].n = k - j /\ t[k].n <= t[j].n
  <2>1. k # p
    BY <1>3, <1>9
  <2>2. PICK i \in 1..Len(s) : k = w[i]
    BY <1>7, <2>1
  <2>3. t[k] = s[i]
    BY <1>6, <2>2
  <2>4. PICK n \in Nat : n = s[i].n
    BY <1>1, TalkFields
  <2>5. PICK j \in 1..Len(s) : j = i - n
    BY <1>9, <2>3, <2>4, WholeResult
  <2>6. s[j].role = "assistant" /\ n <= s[j].n /\ j + n = i
    BY <1>9, <2>3, <2>4, <2>5, WholeResult
  <2>7. n # 0
    <3>1. n = 0 => i = j
      BY <1>1, <2>5, SMT
    <3> QED BY <1>9, <2>3, <2>6, <3>1
  <2>8. n \in 1..s[j].n
    <3>1. s[j].n \in Nat
      BY <1>1, TalkFields
    <3> QED BY ONLY <2>4, <2>6, <2>7, <3>1, SMT
  <2>9. k = w[j] + n
    <3>1. s[j].role # "tool"
      BY <2>6
    <3> QED BY <1>8, <2>2, <2>6, <2>8, <3>1
  <2>10. w[j] \in 1..Len(t) /\ t[w[j]] = s[j]
    BY <1>6
  <2>11. w[j] \in 1..(k - 1) /\ n = k - w[j]
    <3>1. Len(t) \in Nat
      BY <1>1, <1>3, SMT
    <3> QED BY ONLY <2>4, <2>7, <2>9, <2>10, <3>1, SMT
  <2> QED BY <2>3, <2>4, <2>6, <2>10, <2>11
<1>10. ASSUME NEW k \in 1..Len(t), t[k].role # "tool", NEW q \in 1..t[k].n
       PROVE  k + q \in 1..Len(t) /\ t[k + q] = Result(q)
  <2>1. k # p
    <3>1. ~(q \in 1..0)
      BY SMT
    <3> QED BY <1>3, <1>10, <3>1
  <2>2. PICK i \in 1..Len(s) : k = w[i]
    BY <1>7, <2>1
  <2>3. t[k] = s[i]
    BY <1>6, <2>2
  <2>4. i + q \in 1..Len(s) /\ s[i + q] = Result(q)
    BY <1>10, <2>3, WholeCall
  <2>5. w[i + q] = k + q
    BY <1>8, <1>10, <2>2, <2>3, <2>4
  <2> QED BY <1>6, <2>4, <2>5
<1> QED BY <1>2, <1>3, <1>9, <1>10, IsWhole

-----------------------------------------------------------------------------
(* Compaction *)

LEMMA PinnedIs ==
  ASSUME NEW ms \in Seq(Talk)
  PROVE  Pinned(ms) \subseteq 1..Len(ms) /\ \A i \in Pinned(ms) : ms[i].role \in {"system", "user"}
<1>1. Len(ms) \in Nat /\ DOMAIN ms = 1..Len(ms)
  BY SMT
<1>2. PICK users : users = {i \in DOMAIN ms : ms[i].role = "user"}
  OBVIOUS
<1>3. users # {} => Min(users) \in users /\ Max(users) \in users
  <2> SUFFICES ASSUME users # {} PROVE Min(users) \in users /\ Max(users) \in users
    OBVIOUS
  <2>1. users \subseteq 1..Len(ms)
    BY <1>1, <1>2
  <2>2. users \subseteq Nat /\ users \subseteq 0..Len(ms)
    BY <1>1, <2>1, SMT
  <2>3. \E x \in users : \A y \in users : x <= y
    BY <2>2, Least
  <2> QED BY <1>1, <2>2, <2>3, Greatest DEF Min
<1>4. Pinned(ms) = {i \in DOMAIN ms : ms[i].role = "system"}
                   \cup (IF users = {} THEN {} ELSE {Min(users), Max(users)})
  BY <1>2 DEF Pinned
<1> QED BY <1>1, <1>2, <1>3, <1>4

\* Compaction keeps or drops exchanges as a whole.
LEMMA KeptClosed ==
  ASSUME NEW ms \in Seq(Talk), Whole(ms)
  PROVE  Kept(ms) \subseteq 1..Len(ms) /\ Closed(ms, Kept(ms))
<1>1. Len(ms) \in Nat /\ DOMAIN ms = 1..Len(ms) /\ \A i \in 1..Len(ms) : ms[i] \in Talk
  BY SMT
<1>2. PICK free : free = {i \in DOMAIN ms \ Pinned(ms) : ms[i].id # "summary"}
  OBVIOUS
<1>3. PICK room : room = ContextLimit - Cardinality(Pinned(ms))
  OBVIOUS
<1>4. PICK late : late = {i \in free : Cardinality({j \in free : j >= ExchangeOf(ms, i)})
                                       <= room - Min({1, room})}
  OBVIOUS
<1>5. Kept(ms) = Pinned(ms) \cup late
  BY <1>2, <1>3, <1>4 DEF Kept
<1>6. \A i \in late, e \in free : ExchangeOf(ms, e) = ExchangeOf(ms, i) => e \in late
  BY <1>4
<1>7. \A i \in 1..Len(ms) : ms[i].role \notin {"system", "user"} /\ ms[i].id # "summary" => i \in free
  BY <1>1, <1>2, PinnedIs
\* The messages of the exchange that message e starts.
<1>8. ASSUME NEW e \in 1..Len(ms), ms[e].role # "tool", NEW q \in 1..ms[e].n
      PROVE  /\ e \in free /\ ExchangeOf(ms, e) = e
             /\ e + q \in free /\ ExchangeOf(ms, e + q) = e
  <2>1. ms[e].n \in Nat /\ ms[e].n # 0
    <3>1. ms[e].n \in Nat
      BY <1>1, TalkFields
    <3> QED BY <3>1, SMT
  <2>2. ms[e].role \notin {"system", "user"} /\ ms[e].id # "summary"
    BY <1>1, <2>1, TalkFields
  <2>3. e \in free /\ ExchangeOf(ms, e) = e
    BY <1>7, <1>8, <2>2 DEF ExchangeOf
  <2>4. e + q \in 1..Len(ms) /\ ms[e + q] = Result(q)
    BY <1>8, WholeCall
  <2>5. ms[e + q].role = "tool" /\ ms[e + q].n = q /\ ms[e + q].id = "result"
    <3>1. Result(q).role = "tool" /\ Result(q).n = q /\ Result(q).id = "result"
      BY MsgFields
    <3> QED BY <2>4, <3>1
  <2>6. (e + q) - q = e
    BY <1>1, <2>1, SMT
  <2>7. ExchangeOf(ms, e + q) = e
    <3>1. PICK x : x = e + q
      OBVIOUS
    <3>2. ms[x].role = "tool" /\ ms[x].n = q /\ x - q = e
      BY <2>5, <2>6, <3>1
    <3>3. ExchangeOf(ms, x) = x - ms[x].n
      BY <3>2 DEF ExchangeOf
    <3> QED BY <3>1, <3>2, <3>3
  <2>8. e + q \in free
    <3>1. ms[e + q].role \notin {"system", "user"} /\ ms[e + q].id # "summary"
      BY <2>5
    <3> QED BY <1>7, <2>4, <3>1
  <2> QED BY <2>3, <2>7, <2>8
<1>9. Kept(ms) \subseteq 1..Len(ms)
  BY <1>1, <1>2, <1>4, <1>5, PinnedIs
<1>10. ASSUME NEW i \in Kept(ms), ms[i].role = "tool"
       PROVE  i - ms[i].n \in Kept(ms) /\ \A q \in 1..ms[i].n : i - ms[i].n + q \in Kept(ms)
  <2>1. i \in late /\ i \in 1..Len(ms)
    BY <1>5, <1>9, <1>10, PinnedIs
  <2>2. PICK n \in Nat : n = ms[i].n
    BY <1>1, <2>1, TalkFields
  <2>3. PICK e \in 1..Len(ms) : e = i - n
    BY <1>10, <2>1, <2>2, WholeResult
  <2>4. ms[e].role = "assistant" /\ n <= ms[e].n /\ e + n = i
    <3>1. /\ ms[i - ms[i].n].role = "assistant" /\ ms[i].n <= ms[i - ms[i].n].n
          /\ i - ms[i].n + ms[i].n = i
      BY <1>10, <2>1, WholeResult
    <3> QED BY <2>2, <2>3, <3>1
  <2>5. ExchangeOf(ms, i) = e
    BY <1>10, <2>2, <2>3 DEF ExchangeOf
  <2>6. n # 0
    <3>1. n = 0 => i = e
      BY ONLY <1>1, <2>1, <2>2, <2>3, SMT
    <3> QED BY <1>10, <2>4, <3>1
  <2>7. n \in 1..n /\ \A q \in 1..n : q \in 1..ms[e].n
    <3>1. ms[e].n \in Nat
      BY <1>1, TalkFields
    <3> QED BY ONLY <2>2, <2>4, <2>6, <3>1, SMT
  <2>8. ms[e].role # "tool"
    BY <2>4
  <2>9. e \in free /\ ExchangeOf(ms, e) = e
    BY <1>8, <2>7, <2>8
  <2>10. e \in late
    BY <1>6, <2>1, <2>5, <2>9
  <2>11. ASSUME NEW q \in 1..n PROVE e + q \in late
    <3>1. e + q \in free /\ ExchangeOf(ms, e + q) = e
      BY <1>8, <2>7, <2>8
    <3> QED BY <1>6, <2>1, <2>5, <3>1
  <2> QED BY <1>5, <2>2, <2>3, <2>10, <2>11
<1>11. ASSUME NEW i \in Kept(ms), ms[i].role # "tool", NEW q \in 1..ms[i].n
       PROVE  i + q \in Kept(ms)
  <2>1. i \in 1..Len(ms)
    BY <1>9
  <2>2. /\ i \in free /\ ExchangeOf(ms, i) = i
        /\ i + q \in free /\ ExchangeOf(ms, i + q) = i
    BY <1>8, <1>11, <2>1
  <2>3. i \notin Pinned(ms)
    BY <1>2, <2>2
  <2>4. i + q \in late
    BY <1>5, <1>6, <2>2, <2>3
  <2> QED BY <1>5, <2>4
<1> QED BY <1>9, <1>10, <1>11 DEF Closed

\* _insert_bounded_summary puts the summary between exchanges.
LEMMA SummaryWhole ==
  ASSUME NEW ms \in Seq(Talk), Whole(ms)
  PROVE  insert_bounded_summary(ms) \in Seq(Talk) /\ Whole(insert_bounded_summary(ms))
<1>1. Len(ms) \in Nat /\ DOMAIN ms = 1..Len(ms)
  BY SMT
<1>2. PICK users : users = {i \in DOMAIN ms : ms[i].role = "user"}
  OBVIOUS
<1>3. PICK e \in Talk : e = Msg("assistant", "summary")
  BY TalkIs
<1>4. e.role # "tool" /\ e.n = 0
  <2>1. Msg("assistant", "summary").role = "assistant" /\ Msg("assistant", "summary").n = 0
    BY MsgFields
  <2> QED BY <1>3, <2>1
<1>5. PICK p : p = IF users = {} THEN 1 ELSE Min(users) + 1
  OBVIOUS
<1>6. /\ p \in 1..(Len(ms) + 1)
      /\ p = 1 \/ (ms[p - 1].role \notin {"tool", "assistant"} /\ ms[p - 1].n = 0)
  <2>1. CASE users = {}
    <3>1. p = 1
      BY <1>5, <2>1
    <3> QED BY <1>1, <3>1, SMT
  <2>2. CASE users # {}
    <3>1. users \subseteq 1..Len(ms)
      BY <1>1, <1>2
    <3>2. users \subseteq Nat
      BY <1>1, <3>1, SMT
    <3>3. \E x \in users : \A y \in users : x <= y
      BY <2>2, <3>2, Least
    <3>4. PICK m \in users : m = Min(users)
      BY <3>3 DEF Min
    <3>5. p = m + 1
      BY <1>5, <2>2, <3>4
    <3>6. p \in 1..(Len(ms) + 1) /\ p - 1 = m
      BY <1>1, <3>1, <3>4, <3>5, SMT
    <3>7. ms[m].role = "user" /\ ms[m] \in Talk
      <4>1. \A i \in 1..Len(ms) : ms[i] \in Talk
        BY SMT
      <4> QED BY <1>2, <3>1, <3>4, <4>1
    <3>8. ms[m].n = 0
      BY <3>7, TalkFields
    <3> QED BY <3>6, <3>7, <3>8
  <2> QED BY <2>1, <2>2
<1>7. insert(ms, p, e) \in Seq(Talk) /\ Whole(insert(ms, p, e))
  BY <1>4, <1>6, Inserted, InsertWhole
<1>8. insert_bounded_summary(ms) = ms \/ insert_bounded_summary(ms) = insert(ms, p, e)
  BY <1>2, <1>3, <1>5 DEF insert_bounded_summary
<1> QED BY <1>7, <1>8

\* ContextCompactor.prepare leaves whole exchanges.
LEMMA CompactWhole ==
  ASSUME NEW ms \in Seq(Talk), Whole(ms)
  PROVE  compact(ms) \in Seq(Talk) /\ Whole(compact(ms))
<1>1. Kept(ms) \in SUBSET (1..Len(ms)) /\ Closed(ms, Kept(ms))
  BY KeptClosed
<1>2. select(ms, Kept(ms)) \in Seq(Talk) /\ Whole(select(ms, Kept(ms)))
  BY <1>1, Selected, SelectWhole
<1>3. /\ insert_bounded_summary(select(ms, Kept(ms))) \in Seq(Talk)
      /\ Whole(insert_bounded_summary(select(ms, Kept(ms))))
  BY <1>2, SummaryWhole
<1> QED BY <1>3 DEF compact

-----------------------------------------------------------------------------
(* Adding messages *)

\* One whole list after another is whole.
LEMMA ConcatWhole ==
  ASSUME NEW a \in Seq(Talk), Whole(a), NEW b \in Seq(Talk), Whole(b)
  PROVE  a \o b \in Seq(Talk) /\ Whole(a \o b)
<1>1. PICK m \in Nat : m = Len(a)
  BY SMT
<1>2. PICK n \in Nat : n = Len(b)
  BY SMT
<1>3. PICK t : t = a \o b
  OBVIOUS
<1>4. /\ t \in Seq(Talk) /\ Len(t) = m + n
      /\ \A i \in 1..m : t[i] = a[i]
      /\ \A i \in 1..n : t[m + i] = b[i]
  BY <1>1, <1>2, <1>3, SMT
<1>5. /\ \A i \in 1..m : i \in 1..(m + n)
      /\ \A i \in 1..n : m + i \in 1..(m + n)
      /\ \A k \in 1..(m + n) : k \in 1..m \/ \E i \in 1..n : k = m + i
  <2>1. \A k \in 1..(m + n) : k \in 1..m \/ (k - m \in 1..n /\ k = m + (k - m))
    BY SMT
  <2>2. /\ \A i \in 1..m : i \in 1..(m + n)
        /\ \A i \in 1..n : m + i \in 1..(m + n)
    BY SMT
  <2> QED BY <2>1, <2>2
<1>6. ASSUME NEW k \in 1..(m + n), t[k].role = "tool"
      PROVE  \E j \in 1..(k - 1) : t[j].role = "assistant" /\ t[k].n = k - j /\ t[k].n <= t[j].n
  <2>1. CASE k \in 1..m
    <3>1. t[k] = a[k] /\ DOMAIN a = 1..m
      <4>1. DOMAIN a = 1..m
        BY <1>1, SMT
      <4> QED BY <1>4, <2>1, <4>1
    <3>2. PICK j \in 1..(k - 1) : a[j].role = "assistant" /\ a[k].n = k - j /\ a[k].n <= a[j].n
      BY <1>6, <2>1, <3>1 DEF Whole
    <3>3. j \in 1..m
      BY <2>1, SMT
    <3> QED BY <1>4, <3>1, <3>2, <3>3
  <2>2. ASSUME NEW i \in 1..n, k = m + i
        PROVE  \E j \in 1..(k - 1) : t[j].role = "assistant" /\ t[k].n = k - j /\ t[k].n <= t[j].n
    <3>1. t[k] = b[i] /\ DOMAIN b = 1..n
      <4>1. DOMAIN b = 1..n
        BY <1>2, SMT
      <4> QED BY <1>4, <2>2, <4>1
    <3>2. PICK j \in 1..(i - 1) : b[j].role = "assistant" /\ b[i].n = i - j /\ b[i].n <= b[j].n
      BY <1>6, <2>2, <3>1 DEF Whole
    <3>3. j \in 1..n /\ m + j \in 1..(k - 1) /\ i - j = k - (m + j)
      BY <2>2, SMT
    <3>4. t[m + j] = b[j]
      BY <1>4, <3>3
    <3> QED BY <3>1, <3>2, <3>3, <3>4
  <2> QED BY <1>5, <2>1, <2>2
<1>7. ASSUME NEW k \in 1..(m + n), t[k].role # "tool", NEW q \in 1..t[k].n
      PROVE  k + q \in 1..(m + n) /\ t[k + q] = Result(q)
  <2>1. CASE k \in 1..m
    <3>1. t[k] = a[k]
      BY <1>4, <2>1
    <3>2. k + q \in 1..m /\ a[k + q] = Result(q)
      BY <1>1, <1>7, <2>1, <3>1, WholeCall
    <3> QED BY <1>4, <1>5, <3>2
  <2>2. ASSUME NEW i \in 1..n, k = m + i
        PROVE  k + q \in 1..(m + n) /\ t[k + q] = Result(q)
    <3>1. t[k] = b[i]
      BY <1>4, <2>2
    <3>2. i + q \in 1..n /\ b[i + q] = Result(q)
      BY <1>2, <1>7, <3>1, WholeCall
    <3>3. k + q = m + (i + q)
      <4>1. b[i].n \in Nat
        <5>1. b[i] \in Talk
          BY <1>2, SMT
        <5> QED BY <5>1, TalkFields
      <4> QED BY <1>7, <2>2, <3>1, <4>1, SMT
    <3> QED BY <1>4, <1>5, <3>2, <3>3
  <2> QED BY <1>5, <2>1, <2>2
<1> QED BY <1>3, <1>4, <1>6, <1>7, IsWhole

\* Messages without calls and results.
LEMMA PlainWhole ==
  ASSUME NEW s \in Seq(Talk), \A i \in 1..Len(s) : s[i].role # "tool" /\ s[i].n = 0
  PROVE  Whole(s)
<1>1. ~(\E k \in 1..0 : TRUE)
  BY SMT
<1> QED BY <1>1, IsWhole

LEMMA OneWhole ==
  ASSUME NEW role \in {"system", "user"}, NEW id \in Ids
  PROVE  <<Msg(role, id)>> \in Seq(Talk) /\ Whole(<<Msg(role, id)>>)
<1>1. PICK e \in Talk : e = Msg(role, id)
  BY TalkIs
<1>2. e.role # "tool" /\ e.n = 0
  <2>1. Msg(role, id).role = role /\ Msg(role, id).n = 0
    BY MsgFields
  <2> QED BY <1>1, <2>1
<1>3. <<e>> \in Seq(Talk) /\ Len(<<e>>) = 1 /\ \A i \in 1..1 : <<e>>[i] = e
  BY SMT
<1>4. Whole(<<e>>)
  BY <1>2, <1>3, PlainWhole
<1> QED BY <1>1, <1>3, <1>4

LEMMA AppendWhole ==
  ASSUME NEW ms \in Seq(Talk), NEW id \in Ids
  PROVE  /\ Append(ms, Msg("system", id)) \in Seq(Talk)
         /\ Whole(ms) => Whole(Append(ms, Msg("system", id)))
<1>1. PICK e \in Talk : e = Msg("system", id)
  BY TalkIs
<1>2. Append(ms, e) = ms \o <<e>> /\ Append(ms, e) \in Seq(Talk)
  BY SMT
<1>3. Whole(<<e>>) /\ <<e>> \in Seq(Talk)
  BY <1>1, OneWhole
<1> QED BY <1>1, <1>2, <1>3, ConcatWhole

LEMMA ResultsTalk ==
  ASSUME NEW n \in Nat
  PROVE  /\ [i \in 1..n |-> Result(i)] \in Seq(Talk) /\ Len([i \in 1..n |-> Result(i)]) = n
         /\ \A i \in 1..n : [j \in 1..n |-> Result(j)][i] = Result(i)
<1>1. \A i \in 1..n : Result(i) \in Talk
  <2>1. \A i \in 1..n : i \in Nat
    BY SMT
  <2> QED BY <2>1, TalkIs
<1>2. PICK r : r = [i \in 1..n |-> Result(i)]
  OBVIOUS
<1>3. r \in [1..n -> Talk] /\ \A i \in 1..n : r[i] = Result(i)
  BY <1>1, <1>2
<1>4. r \in Seq(Talk) /\ Len(r) = n
  BY ONLY <1>3, n \in Nat, SMT
<1> QED BY <1>2, <1>3, <1>4

\* The calls of a batch and their results.
LEMMA ExchangeWhole ==
  ASSUME NEW n \in Nat
  PROVE  /\ <<CallsMsg(n)>> \o [i \in 1..n |-> Result(i)] \in Seq(Talk)
         /\ Whole(<<CallsMsg(n)>> \o [i \in 1..n |-> Result(i)])
<1>1. PICK r : r = [i \in 1..n |-> Result(i)]
  OBVIOUS
<1>2. r \in Seq(Talk) /\ Len(r) = n /\ \A i \in 1..n : r[i] = Result(i)
  BY <1>1, ResultsTalk
<1>3. PICK e \in Talk : e = CallsMsg(n)
  BY TalkIs
<1>4. e.role = "assistant" /\ e.n = n
  BY <1>3, MsgFields
<1>5. PICK t : t = <<e>> \o r
  OBVIOUS
<1>6. t \in Seq(Talk) /\ Len(t) = n + 1 /\ t[1] = e /\ \A i \in 1..n : t[1 + i] = r[i]
  BY ONLY <1>2, <1>3, <1>5, n \in Nat, SMT
<1>7. ASSUME NEW k \in 1..(n + 1) PROVE k = 1 \/ (k - 1 \in 1..n /\ 1 + (k - 1) = k)
  BY SMT
<1>8. ASSUME NEW k \in 1..(n + 1), t[k].role = "tool"
      PROVE  \E j \in 1..(k - 1) : t[j].role = "assistant" /\ t[k].n = k - j /\ t[k].n <= t[j].n
  <2>1. k # 1
    BY <1>4, <1>6, <1>8
  <2>2. k - 1 \in 1..n /\ 1 + (k - 1) = k
    BY <1>7, <2>1
  <2>3. t[k] = Result(k - 1)
    BY <1>2, <1>6, <2>2
  <2>4. t[k].n = k - 1
    BY <2>3, MsgFields
  <2>5. 1 \in 1..(k - 1) /\ k - 1 <= n
    BY <2>2, SMT
  <2> QED BY <1>4, <1>6, <2>4, <2>5
<1>9. ASSUME NEW k \in 1..(n + 1), t[k].role # "tool", NEW q \in 1..t[k].n
      PROVE  k + q \in 1..(n + 1) /\ t[k + q] = Result(q)
  <2>1. k = 1
    <3> SUFFICES ASSUME k # 1 PROVE FALSE
      OBVIOUS
    <3>1. k - 1 \in 1..n /\ 1 + (k - 1) = k
      BY <1>7
    <3>2. t[k] = Result(k - 1)
      BY <1>2, <1>6, <3>1
    <3> QED BY <1>9, <3>2, MsgFields
  <2>2. q \in 1..n
    BY <1>4, <1>6, <1>9, <2>1
  <2>3. 1 + q \in 1..(n + 1)
    BY <2>2, SMT
  <2> QED BY <1>2, <1>6, <2>1, <2>2, <2>3
<1>10. Whole(t)
  BY <1>6, <1>8, <1>9, IsWhole
<1> QED BY <1>1, <1>3, <1>5, <1>6, <1>10

\* A batch of calls and then its results, after whole exchanges.
LEMMA BatchWhole ==
  ASSUME NEW w \in Seq(Talk), Whole(w), NEW n \in Nat
  PROVE  /\ Append(w, CallsMsg(n)) \o [i \in 1..n |-> Result(i)] \in Seq(Talk)
         /\ Whole(Append(w, CallsMsg(n)) \o [i \in 1..n |-> Result(i)])
<1>1. PICK e \in Talk : e = CallsMsg(n)
  BY TalkIs
<1>2. PICK r \in Seq(Talk) : r = [i \in 1..n |-> Result(i)]
  BY ResultsTalk
<1>3. Append(w, e) \o r = w \o (<<e>> \o r)
  BY ONLY w \in Seq(Talk), e \in Talk, r \in Seq(Talk), SMT
<1>4. <<e>> \o r \in Seq(Talk) /\ Whole(<<e>> \o r)
  BY <1>1, <1>2, ExchangeWhole
<1> QED BY <1>1, <1>2, <1>3, <1>4, ConcatWhole

-----------------------------------------------------------------------------
(* The request _prepare makes *)

LEMMA SteeringTalk ==
  ASSUME NEW ms \in Seq(Talk), NEW steers \in Seq(Steers)
  PROVE  add_steering(ms, steers) \in Seq(Talk)
<1>1. PICK said : said = [i \in DOMAIN steers |-> Msg("user", steers[i])]
  OBVIOUS
<1>2. Len(steers) \in Nat /\ DOMAIN steers = 1..Len(steers) /\ \A i \in 1..Len(steers) : steers[i] \in Steers
  BY SMT
<1>3. \A i \in 1..Len(steers) : Msg("user", steers[i]) \in Talk
  <2>1. \A i \in 1..Len(steers) : steers[i] \in Ids
    BY <1>2 DEF Ids
  <2> QED BY <2>1, TalkIs
<1>4. said \in [1..Len(steers) -> Talk]
  BY <1>1, <1>2, <1>3
<1>5. said \in Seq(Talk) /\ DOMAIN said = 1..Len(said)
  BY ONLY <1>2, <1>4, SMT
<1>6. PICK r : r = select(said, {i \in DOMAIN said : ~Has(ms, said[i])})
  OBVIOUS
<1>7. r \in Seq(Talk)
  <2>1. {i \in DOMAIN said : ~Has(ms, said[i])} \in SUBSET (1..Len(said))
    BY <1>5
  <2> QED BY <1>5, <1>6, <2>1, Selected
<1>8. ms \o r \in Seq(Talk)
  BY <1>7, SMT
<1> QED BY <1>1, <1>6, <1>8 DEF add_steering

LEMMA ObjectiveTalk ==
  ASSUME NEW ms \in Seq(Talk)
  PROVE  add_objective(ms) \in Seq(Talk)
<1>1. Len(ms) \in Nat /\ DOMAIN ms = 1..Len(ms)
  BY SMT
<1>2. PICK users : users = {i \in DOMAIN ms : ms[i].role = "user"}
  OBVIOUS
<1>3. ASSUME Cardinality(users) > 1 PROVE insert(ms, 2, Msg("system", "objective")) \in Seq(Talk)
  <2>1. users # {}
    <3>1. ~(0 > 1)
      BY SMT
    <3> QED BY <1>3, <3>1, FS_EmptySet
  <2>2. 2 \in 1..(Len(ms) + 1)
    <3>1. PICK i : i \in 1..Len(ms)
      BY <1>1, <1>2, <2>1
    <3> QED BY <1>1, <3>1, SMT
  <2>3. PICK e \in Talk : e = Msg("system", "objective")
    BY TalkIs DEF Ids
  <2>4. insert(ms, 2, e) \in Seq(Talk)
    BY <2>2, Inserted
  <2> QED BY <2>3, <2>4
<1> QED BY <1>2, <1>3 DEF add_objective

\* Whatever the messages are, what is sent is whole exchanges.
LEMMA PreparedWhole ==
  ASSUME NEW ms \in Seq(Talk), NEW steers \in Seq(Steers), NEW sent \in Prepared(ms, steers)
  PROVE  sent \in Seq(Talk) /\ Whole(sent)
<1>1. PICK f : f = add_objective(add_steering(ms, steers))
  OBVIOUS
<1>2. f \in Seq(Talk)
  BY <1>1, SteeringTalk, ObjectiveTalk
<1>3. sent = compact(f) /\ Whole(f)
  BY <1>1 DEF Prepared, Preparable
<1> QED BY <1>2, <1>3, CompactWhole

-----------------------------------------------------------------------------
(* The loop *)

IsAsk(a) ==
  /\ DOMAIN a = {"for", "n", "got", "sent"} /\ a.n \in Nat /\ a.got \in Seq(Nat)
  /\ a.sent \in Seq(Talk) /\ Whole(a.sent)
  /\ \A i \in DOMAIN a.got : a.got[i] = a.n

IsBatch(b) == DOMAIN b = {"n", "done"} /\ b.n \in Nat /\ b.done \in Nat

\* Where the messages are whole: everywhere but between a batch of calls and its
\* results, where all that is missing is the results.
Between ==
  mode # "message" =>
    /\ at \in {"round", "model", "reflect", "summary", "resummary"} => Whole(msgs)
    /\ at = "batch" => \E w \in Seq(Talk) : Whole(w) /\ msgs = Append(w, CallsMsg(toolBatch.n))

LoopInv ==
  /\ msgs \in Seq(Talk) /\ control \in Seq(Steers) /\ collected \in Seq(Steers)
  /\ IsAsk(ask) /\ IsBatch(toolBatch)
  /\ Between

LEMMA NothingAsked == IsAsk(NoAsk) /\ IsBatch(NoBatch)
<1>1. <<>> \in Seq(Talk) /\ <<>> \in Seq(Nat) /\ Len(<<>>) = 0 /\ ~(\E i \in 1..0 : TRUE) /\ 0 \in Nat
  BY SMT
<1>2. Whole(<<>>)
  BY <1>1, PlainWhole
<1>3. DOMAIN <<>> = {}
  BY SMT
<1>4. /\ DOMAIN NoAsk = {"for", "n", "got", "sent"} /\ NoAsk.n = 0 /\ NoAsk.got = <<>> /\ NoAsk.sent = <<>>
      /\ DOMAIN NoBatch = {"n", "done"} /\ NoBatch.n = 0 /\ NoBatch.done = 0
  BY SMT DEF NoAsk, NoBatch
<1> QED BY <1>1, <1>2, <1>3, <1>4 DEF IsAsk, IsBatch

\* The loop goes on with another request, or ends.
Leaves ==
  /\ at' \in {"round", "reflect", "summary", "resummary", "end"}
  /\ ask' = NoAsk /\ toolBatch' = NoBatch

LEMMA EndsLeave == \A how : EndsAs(how) => Leaves
  BY DEF EndsAs, Leaves

LEMMA GoesLeave == \A to \in {"round", "reflect", "summary", "resummary"} : Goes(to) => Leaves
  BY DEF Goes, Leaves

LEMMA NextLeaves == NextRound => Leaves
  BY EndsLeave DEF NextRound, Leaves

LEMMA FailsLeave == \A for : RequestFails(for) => Leaves
<1> SUFFICES ASSUME NEW for, RequestFails(for) PROVE Leaves
  OBVIOUS
<1>1. CASE for = "round"
  BY <1>1, EndsLeave DEF RequestFails
<1>2. CASE for = "reflect"
  BY <1>2, GoesLeave DEF RequestFails
<1>3. CASE for # "round" /\ for # "reflect"
  BY <1>3, EndsLeave DEF RequestFails
<1> QED BY <1>1, <1>2, <1>3

LEMMA LeavesKeeps ==
  ASSUME LoopInv, Leaves, mode' = mode, msgs' \in Seq(Talk),
         control' \in Seq(Steers), collected' \in Seq(Steers),
         mode # "message" => at' = "end" \/ Whole(msgs')
  PROVE  LoopInv'
<1>1. IsAsk(ask)' /\ IsBatch(toolBatch)'
  BY NothingAsked DEF Leaves, IsAsk, IsBatch
<1>2. Between'
  <2>1. at' # "batch" /\ at' # "model"
    BY DEF Leaves
  <2>2. mode # "message" /\ at' # "end" => Whole(msgs)'
    BY DEF Whole
  <2> QED BY <2>1, <2>2 DEF Between
<1> QED BY <1>1, <1>2 DEF LoopInv

\* A step at the model or in a batch.
LEMMA StaysKeeps ==
  ASSUME LoopInv, UNCHANGED <<mode, msgs, at>>, IsAsk(ask'), IsBatch(toolBatch'),
         mode # "message" => toolBatch'.n = toolBatch.n,
         control' \in Seq(Steers), collected' \in Seq(Steers)
  PROVE  LoopInv'
<1>1. IsAsk(ask)' /\ IsBatch(toolBatch)'
  BY DEF IsAsk, IsBatch
<1>2. Between'
  BY DEF LoopInv, Between, Whole
<1> QED BY <1>1, <1>2 DEF LoopInv

\* begin_request, from where the loop asks.
LEMMA BeginKeeps ==
  ASSUME LoopInv, NEW for, NEW base \in Seq(Talk), NEW own \in BOOLEAN,
         at \in {"round", "reflect", "summary", "resummary"}, begin_request(for, base, own)
  PROVE  LoopInv'
<1>1. msgs \in Seq(Talk) /\ control \in Seq(Steers) /\ collected \in Seq(Steers) /\ mode' = mode
  BY DEF LoopInv, begin_request
<1>2. <<>> \in Seq(Steers) /\ collected \o control \in Seq(Steers)
  BY <1>1, SMT
<1>3. mode # "message" => Whole(msgs)
  BY DEF LoopInv, Between
<1>4. CASE cancelled
  <2>1. at' = "end" /\ Leaves /\ UNCHANGED <<msgs, control, collected>>
    BY <1>4, EndsLeave DEF begin_request, EndsAs
  <2> QED BY <1>1, <2>1, LeavesKeeps
<1>5. CASE ~cancelled /\ RequestFails(for) /\ UNCHANGED msgs /\ control' = <<>>
           /\ collected' = collected \o control
  <2>1. Leaves
    BY <1>5, FailsLeave
  <2> QED BY <1>1, <1>2, <1>3, <1>5, <2>1, LeavesKeeps
<1>6. ASSUME control' = <<>>, collected' = collected \o control,
             NEW sent \in Prepared(base, collected \o control),
             ask' = [for |-> for, n |-> 0, got |-> <<>>, sent |-> sent],
             msgs' = IF own THEN sent ELSE msgs, at' = "model", toolBatch' = toolBatch
      PROVE  LoopInv'
  <2>1. sent \in Seq(Talk) /\ Whole(sent)
    BY <1>2, PreparedWhole
  <2>2. /\ DOMAIN ask' = {"for", "n", "got", "sent"} /\ ask'.n = 0 /\ ask'.got = <<>>
        /\ ask'.sent = sent
    BY ONLY <1>6, SMT
  <2>3. <<>> \in Seq(Nat) /\ DOMAIN <<>> = {} /\ 0 \in Nat
    BY SMT
  <2>4. IsAsk(ask')
    BY <2>1, <2>2, <2>3 DEF IsAsk
  <2>5. IsAsk(ask)' /\ IsBatch(toolBatch)'
    BY <1>6, <2>4 DEF IsAsk, LoopInv
  <2>6. msgs' \in Seq(Talk) /\ (mode # "message" => Whole(msgs'))
    BY <1>1, <1>3, <1>6, <2>1
  <2>7. Between'
    <3>1. mode' # "message" => Whole(msgs)'
      BY <1>1, <2>6 DEF Whole
    <3>2. at' # "batch"
      BY <1>6
    <3> QED BY <3>1, <3>2 DEF Between
  <2> QED BY <1>2, <1>6, <2>5, <2>6, <2>7 DEF LoopInv
<1> QED BY <1>4, <1>5, <1>6 DEF begin_request

LEMMA RequestKeeps ==
  ASSUME LoopInv, start_round \/ attempt_reflection \/ generate_final_summary
  PROVE  LoopInv'
<1>1. msgs \in Seq(Talk)
  BY DEF LoopInv
<1>2. TRUE \in BOOLEAN /\ FALSE \in BOOLEAN
  OBVIOUS
<1>3. CASE start_round
  BY <1>1, <1>2, <1>3, BeginKeeps DEF start_round
<1>4. CASE attempt_reflection
  <2>1. Append(msgs, Msg("system", "reflect")) \in Seq(Talk)
    BY <1>1, AppendWhole DEF Ids
  <2> QED BY <1>2, <1>4, <2>1, BeginKeeps DEF attempt_reflection
<1>5. CASE at = "summary" /\ begin_request("summary", msgs, TRUE)
  BY <1>1, <1>2, <1>5, BeginKeeps
<1>6. CASE at = "resummary" /\ begin_request("resummary", <<Msg("system", "plain")>> \o msgs, FALSE)
  <2>1. <<Msg("system", "plain")>> \in Seq(Talk)
    BY OneWhole DEF Ids
  <2>2. <<Msg("system", "plain")>> \o msgs \in Seq(Talk)
    BY <1>1, <2>1, SMT
  <2> QED BY <1>2, <1>6, <2>2, BeginKeeps
<1> QED BY <1>3, <1>4, <1>5, <1>6 DEF generate_final_summary

\* A step that ends the loop, or leaves the model, with the messages as they are.
LEMMA LeftKeeps ==
  ASSUME LoopInv, Leaves, UNCHANGED <<mode, msgs, control, collected>>, at = "model" \/ at' = "end"
  PROVE  LoopInv'
<1>1. mode # "message" => at' = "end" \/ Whole(msgs')
  BY DEF LoopInv, Between
<1> QED BY <1>1, LeavesKeeps DEF LoopInv

\* The attempts of a request.
LEMMA AttemptKeeps ==
  ASSUME LoopInv, stream_event \/ (\E retryable \in BOOLEAN : http_error(retryable))
  PROVE  LoopInv'
<1>1. /\ IsAsk(ask) /\ IsBatch(toolBatch)
      /\ control \in Seq(Steers) /\ collected \in Seq(Steers) /\ at = "model"
      /\ UNCHANGED <<mode, msgs, control, collected>>
  BY DEF LoopInv, stream_event, http_error, talkVars, runVars
<1>2. CASE stream_event
  <2>1. ask' = [ask EXCEPT !.got = Append(ask.got, ask.n)] /\ toolBatch' = toolBatch /\ at' = at
    BY <1>2 DEF stream_event
  <2>2. ask.got \in Seq(Nat) /\ ask.n \in Nat /\ \A i \in DOMAIN ask.got : ask.got[i] = ask.n
    BY <1>1 DEF IsAsk
  <2>3. PICK got : got = Append(ask.got, ask.n)
    OBVIOUS
  <2>4. got \in Seq(Nat) /\ \A i \in DOMAIN got : got[i] = ask.n
    BY ONLY <2>2, <2>3, SMT
  <2>5. /\ DOMAIN ask' = {"for", "n", "got", "sent"} /\ ask'.n = ask.n /\ ask'.got = got
        /\ ask'.sent = ask.sent
    BY ONLY <1>1, <2>1, <2>3, SMT DEF IsAsk
  <2>6. IsAsk(ask')
    BY <1>1, <2>4, <2>5 DEF IsAsk
  <2> QED BY <1>1, <2>1, <2>6, StaysKeeps
<1>3. CASE RequestFails(ask.for)
  BY <1>1, <1>3, FailsLeave, LeftKeeps
<1>4. CASE CanRetry /\ ask' = [ask EXCEPT !.n = ask.n + 1] /\ UNCHANGED <<at, toolBatch>>
  <2>1. ask.got = <<>> /\ ask.n \in Nat
    BY <1>1, <1>4 DEF CanRetry, IsAsk
  <2>2. /\ DOMAIN ask' = {"for", "n", "got", "sent"} /\ ask'.n = ask.n + 1 /\ ask'.got = ask.got
        /\ ask'.sent = ask.sent
    BY ONLY <1>1, <1>4, SMT DEF IsAsk
  <2>3. ask.n + 1 \in Nat /\ DOMAIN <<>> = {}
    BY <2>1, SMT
  <2>4. IsAsk(ask')
    BY <1>1, <2>1, <2>2, <2>3 DEF IsAsk
  <2> QED BY <1>1, <1>4, <2>4, StaysKeeps
<1> QED BY <1>2, <1>3, <1>4 DEF http_error

\* Whatever else ends a loop, or goes from the model to a last request.
LEMMA OverKeeps ==
  ASSUME LoopInv,
         \/ invalid_response \/ round_timeout \/ text_answer \/ complete_plan_step \/ remember_fails
         \/ \E markup \in BOOLEAN : summary_answer(markup)
  PROVE  LoopInv'
<1>1. UNCHANGED <<mode, msgs, control, collected>>
  BY DEF invalid_response, round_timeout, text_answer, complete_plan_step, remember_fails,
         summary_answer, talkVars, runVars
<1>2. CASE invalid_response
  BY <1>1, <1>2, FailsLeave, LeftKeeps DEF invalid_response
<1>3. ASSUME NEW how, EndsAs(how) PROVE LoopInv'
  BY <1>1, <1>3, EndsLeave, LeftKeeps DEF EndsAs
<1>4. ASSUME NEW markup \in BOOLEAN, summary_answer(markup) PROVE LoopInv'
  <2>1. CASE Goes("resummary")
    BY <1>1, <1>4, <2>1, GoesLeave, LeftKeeps DEF summary_answer
  <2> QED BY <1>3, <1>4, <2>1 DEF summary_answer
<1> QED BY <1>2, <1>3, <1>4 DEF round_timeout, text_answer, complete_plan_step, remember_fails

\* The model asks for calls.
LEMMA ToolCallsKeeps ==
  ASSUME LoopInv, NEW n \in 1..MaxBatch, NEW p, tool_calls(n, p)
  PROVE  LoopInv'
<1>1. at = "model" /\ UNCHANGED <<mode, control, collected>> /\ n \in Nat
  <2>1. n \in Nat
    BY LoopBounds, SMT
  <2> QED BY <2>1 DEF tool_calls, runVars
<1>2. CASE (Goes("summary") \/ Goes("reflect")) /\ UNCHANGED msgs
  BY <1>1, <1>2, GoesLeave, LeftKeeps
<1>3. CASE /\ msgs' = Append(msgs, CallsMsg(n)) /\ toolBatch' = [n |-> n, done |-> 0]
           /\ at' = "batch" /\ ask' = NoAsk
  <2>1. msgs \in Seq(Talk) /\ CallsMsg(n) \in Talk
    BY <1>1, TalkIs DEF LoopInv
  <2>2. msgs' \in Seq(Talk)
    BY <1>3, <2>1, SMT
  <2>3. DOMAIN toolBatch' = {"n", "done"} /\ toolBatch'.n = n /\ toolBatch'.done = 0 /\ 0 \in Nat
    BY ONLY <1>3, SMT
  <2>4. IsBatch(toolBatch)' /\ IsAsk(ask)'
    BY <1>1, <1>3, <2>3, NothingAsked DEF IsBatch, IsAsk
  <2>5. mode # "message" => Whole(msgs)
    BY <1>1 DEF LoopInv, Between
  <2>6. Between'
    <3>1. mode' # "message" => \E w \in Seq(Talk) : Whole(w) /\ msgs' = Append(w, CallsMsg(toolBatch'.n))
      BY <1>1, <1>3, <2>1, <2>3, <2>5
    <3>2. at' = "batch"
      BY <1>3
    <3> QED BY <3>1, <3>2 DEF Between, Whole, CallsMsg
  <2> QED BY <1>1, <2>2, <2>4, <2>6 DEF LoopInv
<1>4. \/ (Goes("summary") \/ Goes("reflect")) /\ UNCHANGED msgs
      \/ /\ msgs' = Append(msgs, CallsMsg(n)) /\ toolBatch' = [n |-> n, done |-> 0]
         /\ at' = "batch" /\ ask' = NoAsk
  BY SMT DEF tool_calls
<1> QED BY <1>2, <1>3, <1>4

\* A message to the model is added and the next round begins.
LEMMA AnsweredKeeps ==
  ASSUME LoopInv, invalid_terminal_response \/ reflected
  PROVE  LoopInv'
<1>1. /\ at = "model" /\ UNCHANGED <<mode, control, collected>>
      /\ msgs \in Seq(Talk) /\ control \in Seq(Steers) /\ collected \in Seq(Steers)
      /\ mode # "message" => Whole(msgs)
  BY DEF LoopInv, Between, invalid_terminal_response, reflected, runVars
<1>2. ASSUME NEW id \in Ids, msgs' = Append(msgs, Msg("system", id)), NextRound
      PROVE  LoopInv'
  <2>1. msgs' \in Seq(Talk) /\ (mode # "message" => Whole(msgs'))
    BY <1>1, <1>2, AppendWhole
  <2> QED BY <1>1, <1>2, <2>1, NextLeaves, LeavesKeeps
<1>3. CASE invalid_terminal_response
  <2>1. CASE EndsAs("failed") /\ UNCHANGED <<msgs, rnd>>
    BY <1>1, <2>1, EndsLeave, LeftKeeps
  <2>2. CASE msgs' = Append(msgs, Msg("system", "protocol")) /\ NextRound
    BY <1>2, <2>2 DEF Ids
  <2> QED BY <1>3, <2>1, <2>2 DEF invalid_terminal_response
<1>4. CASE reflected
  BY <1>2, <1>4 DEF reflected, Ids
<1> QED BY <1>3, <1>4

\* The calls of a batch.
LEMMA CallKeeps ==
  ASSUME LoopInv, run_ephemeral \/ (\E known \in BOOLEAN : execute_one(known))
  PROVE  LoopInv'
<1>1. /\ IsAsk(ask) /\ IsBatch(toolBatch) /\ toolBatch.n \in Nat /\ toolBatch.done \in Nat
      /\ control \in Seq(Steers) /\ collected \in Seq(Steers)
      /\ UNCHANGED <<mode, msgs, control, collected>>
  BY DEF LoopInv, run_ephemeral, execute_one, talkVars, runVars, IsBatch
<1>2. toolBatch.done + 1 \in Nat
  BY <1>1, SMT
<1>3. ASSUME NEW how, EndsAs(how) PROVE LoopInv'
  BY <1>1, <1>3, EndsLeave, LeftKeeps DEF EndsAs
<1>4. CASE OneDone
  <2>1. toolBatch' = [toolBatch EXCEPT !.done = toolBatch.done + 1] /\ UNCHANGED <<at, ask>>
    BY <1>4 DEF OneDone
  <2>2. /\ DOMAIN toolBatch' = {"n", "done"} /\ toolBatch'.n = toolBatch.n
        /\ toolBatch'.done = toolBatch.done + 1
    BY ONLY <1>1, <2>1, SMT DEF IsBatch
  <2>3. IsBatch(toolBatch') /\ IsAsk(ask')
    BY <1>1, <1>2, <2>1, <2>2 DEF IsBatch
  <2> QED BY <1>1, <2>1, <2>2, <2>3, StaysKeeps
<1>5. CASE Cut /\ mode = "message"
  <2>1. toolBatch' = [n |-> toolBatch.done + 1, done |-> toolBatch.done + 1] /\ UNCHANGED <<at, ask>>
    BY <1>5 DEF Cut
  <2>2. /\ DOMAIN toolBatch' = {"n", "done"} /\ toolBatch'.n = toolBatch.done + 1
        /\ toolBatch'.done = toolBatch.done + 1
    BY ONLY <2>1, SMT
  <2>3. IsBatch(toolBatch') /\ IsAsk(ask')
    BY <1>1, <1>2, <2>1, <2>2 DEF IsBatch
  <2> QED BY <1>1, <1>5, <2>1, <2>3, StaysKeeps
<1> QED BY <1>3, <1>4, <1>5 DEF run_ephemeral, execute_one

\* The results of a batch.
LEMMA BatchKeeps ==
  ASSUME LoopInv, NEW p, batch_returns(p)
  PROVE  LoopInv'
<1>1. /\ at = "batch" /\ UNCHANGED <<mode, control, collected>>
      /\ msgs \in Seq(Talk) /\ control \in Seq(Steers) /\ collected \in Seq(Steers)
      /\ msgs' = msgs \o [i \in 1..toolBatch.n |-> Result(i)]
  BY DEF LoopInv, batch_returns, runVars
<1>2. PICK n \in Nat : n = toolBatch.n
  BY DEF LoopInv, IsBatch
<1>3. msgs' \in Seq(Talk)
  <2>1. PICK r \in Seq(Talk) : r = [i \in 1..n |-> Result(i)]
    BY ResultsTalk
  <2>2. msgs \o r \in Seq(Talk)
    BY <1>1, SMT
  <2> QED BY <1>1, <1>2, <2>1, <2>2
<1>4. ASSUME mode # "message" PROVE Whole(msgs')
  <2>1. PICK w \in Seq(Talk) : Whole(w) /\ msgs = Append(w, CallsMsg(n))
    BY <1>1, <1>2, <1>4 DEF LoopInv, Between
  <2>2. Whole(Append(w, CallsMsg(n)) \o [i \in 1..n |-> Result(i)])
    BY <2>1, BatchWhole
  <2> QED BY <1>1, <1>2, <2>1, <2>2
<1>5. Leaves
  <2>1. NextRound \/ Goes("reflect") \/ Goes("summary")
    BY SMT DEF batch_returns
  <2> QED BY <2>1, NextLeaves, GoesLeave
<1> QED BY <1>1, <1>3, <1>4, <1>5, LeavesKeeps

LEMMA Two == ASSUME NEW a \in Talk, NEW b \in Talk PROVE <<a>> \o <<b>> = <<a, b>>
<1>1. <<a, b>> \in Seq(Talk) /\ Len(<<a, b>>) = 2 /\ <<a, b>>[1] = a /\ <<a, b>>[2] = b
  BY SMT
<1>2. PICK t : t = <<a>> \o <<b>>
  OBVIOUS
<1>3. t \in Seq(Talk) /\ Len(t) = 2 /\ t[1] = a /\ t[2] = b
  BY <1>2, SMT
<1>4. PICK s : s = <<a, b>>
  OBVIOUS
<1>5. s = t
  BY <1>1, <1>3, <1>4, SMT
<1> QED BY <1>2, <1>4, <1>5

\* What a loop starts from.
LEMMA FirstWhole ==
  ASSUME NEW m, NEW recovered \in BOOLEAN, NEW chat \in Seq(Steers)
  PROVE  FirstMessages(m, recovered, chat) \in Seq(Talk) /\ Whole(FirstMessages(m, recovered, chat))
<1>1. <<>> \in Seq(Talk) /\ Whole(<<>>)
  BY NothingAsked, SMT DEF IsAsk, NoAsk
<1>2. PICK a \in Seq(Talk) : a = <<Msg("system", "prompt")>> /\ Whole(a)
  BY OneWhole DEF Ids
<1>3. PICK b \in Seq(Talk) : b = (IF m = "step" THEN <<Msg("system", "step")>> ELSE <<>>) /\ Whole(b)
  BY <1>1, OneWhole DEF Ids
<1>4. PICK c \in Seq(Talk) : c = <<Msg("user", "task")>> /\ Whole(c)
  BY OneWhole DEF Ids
<1>5. PICK said : said = [i \in DOMAIN chat |-> Msg("user", chat[i])]
  OBVIOUS
<1>6. said \in Seq(Talk) /\ Whole(said)
  <2>1. Len(chat) \in Nat /\ DOMAIN chat = 1..Len(chat) /\ \A i \in 1..Len(chat) : chat[i] \in Steers
    BY SMT
  <2>2. \A i \in 1..Len(chat) : Msg("user", chat[i]) \in Talk
    <3>1. \A i \in 1..Len(chat) : chat[i] \in Ids
      BY <2>1 DEF Ids
    <3> QED BY <3>1, TalkIs
  <2>3. said \in [1..Len(chat) -> Talk] /\ \A i \in 1..Len(chat) : said[i] = Msg("user", chat[i])
    BY <1>5, <2>1, <2>2
  <2>4. said \in Seq(Talk) /\ Len(said) = Len(chat)
    BY ONLY <2>1, <2>3, SMT
  <2>5. \A i \in 1..Len(said) : said[i].role # "tool" /\ said[i].n = 0
    <3> TAKE i \in 1..Len(said)
    <3>1. said[i] = Msg("user", chat[i])
      BY <2>3, <2>4
    <3>2. Msg("user", chat[i]).role = "user" /\ Msg("user", chat[i]).n = 0
      BY MsgFields
    <3> QED BY <3>1, <3>2
  <2> QED BY <2>4, <2>5, PlainWhole
<1>7. PICK d \in Seq(Talk) : d = (IF m = "step" THEN <<>> ELSE said) /\ Whole(d)
  BY <1>1, <1>6
<1>8. PICK x \in Seq(Talk) : x = <<CallsMsg(1), Result(1)>> /\ Whole(x)
  <2>1. 1 \in Nat
    BY SMT
  <2>2. PICK y \in Seq(Talk) : y = <<CallsMsg(1)>> \o [i \in 1..1 |-> Result(i)] /\ Whole(y)
    BY <2>1, ExchangeWhole
  <2>3. PICK a1 \in Talk, r1 \in Talk : a1 = CallsMsg(1) /\ r1 = Result(1)
    BY <2>1, TalkIs
  <2>4. PICK r \in Seq(Talk) : r = [i \in 1..1 |-> Result(i)] /\ Len(r) = 1 /\ \A i \in 1..1 : r[i] = Result(i)
    BY <2>1, ResultsTalk
  <2>5. r[1] = r1
    <3>1. 1 \in 1..1
      BY SMT
    <3> QED BY <2>3, <2>4, <3>1
  <2>6. <<a1>> \o r = <<a1, r1>>
    <3>1. r = <<r1>>
      BY ONLY <2>3, <2>4, <2>5, SMT
    <3> QED BY <3>1, <2>3, Two
  <2> QED BY <2>2, <2>3, <2>4, <2>6
<1>9. PICK e \in Seq(Talk) : e = (IF recovered THEN <<CallsMsg(1), Result(1)>> ELSE <<>>) /\ Whole(e)
  BY <1>1, <1>8
<1>10. a \o b \o c \o d \o e \in Seq(Talk) /\ Whole(a \o b \o c \o d \o e)
  <2>1. a \o b \in Seq(Talk) /\ Whole(a \o b)
    BY <1>2, <1>3, ConcatWhole
  <2>2. a \o b \o c \in Seq(Talk) /\ Whole(a \o b \o c)
    BY <1>4, <2>1, ConcatWhole
  <2>3. a \o b \o c \o d \in Seq(Talk) /\ Whole(a \o b \o c \o d)
    BY <1>7, <2>2, ConcatWhole
  <2> QED BY <1>9, <2>3, ConcatWhole
<1>11. FirstMessages(m, recovered, chat) = a \o b \o c \o d \o e
  BY <1>2, <1>3, <1>4, <1>5, <1>7, <1>9 DEF FirstMessages
<1> QED BY <1>10, <1>11

\* A call that waited was decided.
LEMMA ResumeKeeps ==
  ASSUME LoopInv, resume_recovery
  PROVE  LoopInv'
<1>1. control \in Seq(Steers) /\ collected \in Seq(Steers)
  BY DEF LoopInv
<1>2. <<>> \in Seq(Steers) /\ collected \o control \in Seq(Steers)
  BY <1>1, SMT
<1>3. msgs' \in Seq(Talk) /\ Whole(msgs')
  BY <1>2, FirstWhole DEF resume_recovery
<1>4. at' = "round" /\ control' = <<>> /\ collected' = <<>> /\ UNCHANGED <<ask, toolBatch>>
  BY DEF resume_recovery
<1>5. IsAsk(ask)' /\ IsBatch(toolBatch)'
  BY <1>4 DEF LoopInv, IsAsk, IsBatch
<1>6. Between'
  <2>1. Whole(msgs)' /\ at' # "batch"
    BY <1>3, <1>4 DEF Whole
  <2> QED BY <2>1 DEF Between
<1> QED BY <1>2, <1>3, <1>4, <1>5, <1>6 DEF LoopInv

LEMMA LoopStarts == LoopInit => LoopInv
<1> SUFFICES ASSUME LoopInit PROVE LoopInv
  OBVIOUS
<1>1. <<>> \in Seq(Steers)
  BY SMT
<1>2. msgs \in Seq(Talk) /\ Whole(msgs)
  BY <1>1, FirstWhole DEF LoopInit
<1>3. /\ at = "round" /\ control = <<>> /\ collected = <<>> /\ ask = NoAsk /\ toolBatch = NoBatch
  BY DEF LoopInit
<1>4. Between
  BY <1>2, <1>3 DEF Between
<1> QED BY <1>1, <1>2, <1>3, <1>4, NothingAsked DEF LoopInv

LEMMA LoopKeeps ==
  ASSUME LoopInv, [LoopNext]_loopVars
  PROVE  LoopInv'
<1>1. /\ IsAsk(ask) /\ IsBatch(toolBatch)
      /\ control \in Seq(Steers) /\ collected \in Seq(Steers)
  BY DEF LoopInv
<1>2. CASE LoopStep
  BY <1>2, RequestKeeps, AttemptKeeps, OverKeeps, ToolCallsKeeps, AnsweredKeeps, CallKeeps, BatchKeeps
     DEF LoopStep
<1>3. ASSUME NEW s \in Steers, steer(s) PROVE LoopInv'
  <2>1. /\ UNCHANGED <<mode, msgs, at, ask, toolBatch, collected>> /\ control' = Append(control, s)
    BY <1>3 DEF steer, talkVars, stepVars
  <2>2. control' \in Seq(Steers)
    BY <1>1, <2>1, SMT
  <2> QED BY <1>1, <2>1, <2>2, StaysKeeps
<1>4. CASE cancel_loop \/ UNCHANGED loopVars
  <2>1. UNCHANGED <<mode, msgs, at, ask, toolBatch, control, collected>>
    BY <1>4 DEF cancel_loop, loopVars, talkVars, stepVars, runVars
  <2> QED BY <1>1, <2>1, StaysKeeps
<1>5. CASE resume_recovery
  BY <1>5, ResumeKeeps
<1> QED BY <1>2, <1>3, <1>4, <1>5 DEF LoopNext

\* Every request of the loop is whole exchanges, in each of its four forms and
\* however its messages were compacted, and the text of an answer is one attempt's.
THEOREM ConversationHolds == LoopSpec => []ConversationSound
<1>1. LoopInit => LoopInv
  BY LoopStarts
<1>2. LoopInv /\ [LoopNext]_loopVars => LoopInv'
  BY LoopKeeps
<1>3. LoopInv => ConversationSound
  BY DEF LoopInv, IsAsk, Between, ConversationSound, ExchangesWhole, StreamedOnce
<1> QED BY <1>1, <1>2, <1>3, PTL DEF LoopSpec

-----------------------------------------------------------------------------
(* The journal's replay *)

\* What was saved, what of it is retained, and how far each run was pruned.
StoreInv ==
  /\ owner \in Seq(Runs)
  /\ live \in Runs \cup {NoRun}
  /\ retained \subseteq 1..Len(owner)
  /\ Len(owner) > 0 => Len(owner) \in retained
  /\ expired \in [Runs -> 0..Len(owner)]
  /\ \A n \in 1..Len(owner) : n \notin retained => expired[owner[n]] >= n

\* A subscription has its fields.
IsSub(s) ==
  DOMAIN s = {"at", "run", "from", "cursor", "idx", "state", "got", "upto", "quiet", "error"}

\* A subscription that meets no producer reads the journal once, from where it
\* started.
SubInv ==
  /\ IsSub(sub)
  /\ sub.at # "none" => sub.run \in Runs /\ sub.from \in Nat
  /\ sub.at = "mirror" => ~sub.quiet
  /\ sub.quiet /\ sub.at \in {"top", "journal"} => sub.got = <<>> /\ sub.cursor = sub.from
  /\ sub.quiet /\ sub.at = "journal" => ~sub.state
  /\ sub.at = "done" => sub.upto \in 0..Len(owner)
  /\ ReplayExactOrError

\* The steps that leave what was saved alone.
Reads == UNCHANGED <<owner, retained, expired>>

LEMMA StoreKept ==
  ASSUME StoreInv, Reads, live' \in Runs \cup {NoRun}
  PROVE  StoreInv'
BY DEF StoreInv, Reads

\* The number of the next event is one more than all saved before.
LEMMA NextNumber ==
  ASSUME StoreInv
  PROVE  Max(retained \cup {0}) = Len(owner)
<1>1. Len(owner) \in Nat /\ retained \subseteq Int
  BY SMT DEF StoreInv
<1>2. Len(owner) \in retained \cup {0}
  BY <1>1, SMT DEF StoreInv
<1>3. \A y \in retained \cup {0} : y <= Len(owner)
  BY <1>1, SMT DEF StoreInv
<1>4. retained \cup {0} \subseteq Int
  BY <1>1, SMT
<1> QED BY <1>2, <1>3, <1>4, MaxIs

\* With room for the markers of all runs none is forgotten.
LEMMA MarkersStay ==
  ASSUME Cardinality(Runs) <= MaxMarkers, NEW marks, NEW kept
  PROVE  forget_markers(marks, kept) = marks
<1>1. {r \in Runs : marks[r] > 0} \in SUBSET Runs
  OBVIOUS
<1>2. /\ IsFiniteSet(Runs) /\ MaxMarkers \in Nat
  BY JournalBounds
<1>3. /\ IsFiniteSet({r \in Runs : marks[r] > 0})
      /\ Cardinality({r \in Runs : marks[r] > 0}) <= Cardinality(Runs)
  BY <1>1, <1>2, FS_Subset
<1>4. Cardinality({r \in Runs : marks[r] > 0}) \in Nat /\ Cardinality(Runs) \in Nat
  BY <1>2, <1>3, FS_CardinalityType
<1>5. ~(Cardinality({r \in Runs : marks[r] > 0}) > MaxMarkers)
  BY <1>2, <1>3, <1>4, SMT
<1> QED BY <1>5 DEF forget_markers

\* _append: the new event is retained, and what is pruned is marked.
LEMMA AppendKeeps ==
  ASSUME Cardinality(Runs) <= MaxMarkers, StoreInv, NEW mirrored \in BOOLEAN, append(mirrored)
  PROVE  /\ StoreInv'
         /\ Len(owner') = Len(owner) + 1
         /\ \A n \in 1..Len(owner) : owner'[n] = owner[n]
<1> DEFINE n == Max(retained \cup {0}) + 1
           stale == {k \in retained \cup {n} : Cardinality({j \in retained \cup {n} : j > k}) >= MaxEvents}
           kept == (retained \cup {n}) \ stale
           own == Append(owner, live)
           marked(r) == {expired[r]} \cup {k \in stale : own[k] = r}
           marks == [r \in Runs |-> Max(marked(r))]
<1>1. /\ live \in Runs
      /\ owner' = own /\ retained' = kept
      /\ expired' = IF stale = {} THEN marks ELSE forget_markers(marks, kept \ {n})
      /\ live' \in Runs \cup {NoRun}
  BY DEF append, StoreInv
<1>2. expired' = marks
  BY <1>1, MarkersStay
<1>3. n = Len(owner) + 1 /\ Len(owner) \in Nat
  BY NextNumber, SMT DEF StoreInv
<1> HIDE DEF n
<1>4. /\ own \in Seq(Runs) /\ Len(own) = n
      /\ \A k \in 1..Len(owner) : own[k] = owner[k]
      /\ own[n] = live
  BY <1>1, <1>3, SMT DEF StoreInv
<1> HIDE DEF own
<1>5. retained \subseteq 1..Len(owner) /\ stale \subseteq 1..n /\ kept \subseteq 1..n
  <2>1. retained \subseteq 1..Len(owner)
    BY DEF StoreInv
  <2>2. \A k \in retained \cup {n} : k \in 1..n
    BY <2>1, <1>3, SMT
  <2> QED BY <2>1, <2>2
<1>6. n \in kept
  <2>1. {j \in retained \cup {n} : j > n} = {}
    <3>1. \A j \in retained \cup {n} : ~(j > n)
      BY <1>5, <1>3, SMT
    <3> QED BY <3>1
  <2>2. ~(Cardinality({j \in retained \cup {n} : j > n}) >= MaxEvents)
    BY <2>1, FS_EmptySet, JournalBounds, SMT
  <2> QED BY <2>2
<1>7. \A k \in retained \cup {n} : k \in stale \/ k \in kept
  OBVIOUS
<1> HIDE DEF stale, kept
<1>8. ASSUME NEW r \in Runs
      PROVE  marks[r] \in marked(r) /\ \A y \in marked(r) : y <= marks[r]
  <2>1. expired[r] \in 0..Len(owner)
    BY DEF StoreInv
  <2>2. \A k \in stale : k \in 1..n
    BY <1>5
  <2>3. expired[r] \in 0..n /\ (\A k \in 1..n : k \in 0..n) /\ n \in Nat
    BY <2>1, <1>3, SMT
  <2>4. marked(r) \subseteq 0..n /\ marked(r) # {}
    BY <2>2, <2>3
  <2>5. marks[r] = Max(marked(r))
    OBVIOUS
  <2> HIDE DEF marked, marks
  <2> QED BY <2>3, <2>4, <2>5, Greatest
<1>9. marks \in [Runs -> 0..n]
  <2> SUFFICES ASSUME NEW r \in Runs PROVE marks[r] \in 0..n
    OBVIOUS
  <2>1. expired[r] \in 0..Len(owner)
    BY DEF StoreInv
  <2>2. expired[r] \in 0..n /\ \A k \in 1..n : k \in 0..n
    BY <2>1, <1>3, SMT
  <2>3. marks[r] \in marked(r)
    BY <1>8
  <2>4. \A k \in stale : k \in 1..n
    BY <1>5
  <2> HIDE DEF marks
  <2> QED BY <2>2, <2>3, <2>4
<1>10. ASSUME NEW k \in 1..n, k \notin kept
       PROVE  marks[own[k]] >= k
  <2>1. own[k] \in Runs
    BY <1>4, SMT
  <2>2. marks[own[k]] \in 0..n /\ k \in Nat
    BY <1>9, <2>1, SMT
  <2>3. CASE k \in stale
    <3>1. k \in marked(own[k])
      BY <2>3
    <3>2. k <= marks[own[k]]
      BY <3>1, <1>8, <2>1
    <3> HIDE DEF marks
    <3> QED BY <3>2, <2>2, SMT
  <2>4. CASE k \notin stale
    <3>1. k \notin retained /\ k # n
      BY <1>7, <1>10, <2>4
    <3>2. k \in 1..Len(owner)
      BY <3>1, <1>3, SMT
    <3>3. expired[owner[k]] >= k /\ own[k] = owner[k]
      BY <3>1, <3>2, <1>4 DEF StoreInv
    <3>4. expired[own[k]] <= marks[own[k]]
      BY <1>8, <2>1
    <3>5. expired[own[k]] \in 0..Len(owner)
      BY <2>1 DEF StoreInv
    <3> HIDE DEF marks
    <3> QED BY <3>3, <3>4, <3>5, <2>2, SMT
  <2> QED BY <2>3, <2>4
<1> HIDE DEF marks
<1>11. Len(owner') = n /\ n \in retained'
  BY <1>1, <1>4, <1>6
<1>12. StoreInv'
  BY <1>1, <1>2, <1>4, <1>5, <1>9, <1>10, <1>11 DEF StoreInv
<1> QED BY <1>12, <1>1, <1>3, <1>4

\* A set of event numbers, in order, is a sequence.
LEMMA InOrderSeq ==
  ASSUME NEW b \in Nat, NEW S \in SUBSET (1..b)
  PROVE  <<>> \o InOrder(S) = InOrder(S)
<1>1. IsFiniteSet(S)
  <2>1. IsFiniteSet(1..b)
    BY FS_Interval, SMT
  <2> QED BY <2>1, FS_Subset
<1>2. Cardinality(S) \in Nat
  BY <1>1, FS_CardinalityType
<1>3. PICK V : InOrder(S) \in [1..Cardinality(S) -> V]
  <2> DEFINE nth(k) == CHOOSE n \in S : Cardinality({m \in S : m <= n}) = k
  <2>1. InOrder(S) = [k \in 1..Cardinality(S) |-> nth(k)]
    BY DEF InOrder
  <2> HIDE DEF nth
  <2>2. [k \in 1..Cardinality(S) |-> nth(k)] \in [1..Cardinality(S) -> {nth(k) : k \in 1..Cardinality(S)}]
    OBVIOUS
  <2> QED BY <2>1, <2>2
<1>4. InOrder(S) \in Seq(V)
  BY <1>2, <1>3, SMT
<1> QED BY <1>4, SMT

\* A subscription that is over stays exact when other events are saved.
LEMMA SubKept ==
  ASSUME SubInv, Len(owner') \in Nat, Len(owner) <= Len(owner'), Len(owner) \in Nat,
         \A n \in 1..Len(owner) : owner'[n] = owner[n], UNCHANGED sub
  PROVE  SubInv'
<1>1. ASSUME sub.at = "done"
      PROVE  /\ sub.upto \in 0..Len(owner')
             /\ EventsOf(sub.run, sub.from, sub.upto)' = EventsOf(sub.run, sub.from, sub.upto)
  <2>1. sub.upto \in 0..Len(owner)
    BY <1>1 DEF SubInv
  <2>2. sub.upto \in 0..Len(owner') /\ \A n \in 1..sub.upto : n \in 1..Len(owner)
    BY <2>1, SMT
  <2>3. {n \in 1..sub.upto : n > sub.from /\ owner'[n] = sub.run}
        = {n \in 1..sub.upto : n > sub.from /\ owner[n] = sub.run}
    BY <2>2
  <2> QED BY <2>2, <2>3 DEF EventsOf
<1> QED BY <1>1 DEF SubInv, ReplayExactOrError, IsSub

\* A producer starts; the subscription of its run is not quiet any more.
LEMMA StartKeeps ==
  ASSUME StoreInv, SubInv, NEW r \in Runs, start_producer(r)
  PROVE  StoreInv' /\ SubInv'
<1>1. StoreInv'
  BY StoreKept DEF start_producer, Reads
<1>2. CASE sub' = sub
  BY <1>2, SubKept, SMT DEF start_producer, StoreInv
<1>3. CASE sub' = [sub EXCEPT !.quiet = FALSE] /\ sub.at # "done"
  <2>1. /\ IsSub(sub') /\ sub'.at = sub.at /\ sub'.run = sub.run /\ sub'.from = sub.from
        /\ sub'.quiet = FALSE
    BY <1>3, SMT DEF SubInv, IsSub
  <2> QED BY <1>1, <1>3, <2>1 DEF SubInv, ReplayExactOrError
<1> QED BY <1>1, <1>2, <1>3 DEF start_producer

\* A client comes back with the last number it has seen.
LEMMA ReconnectKeeps ==
  ASSUME StoreInv, SubInv, NEW r \in Runs, NEW c \in 0..Len(owner), reconnect_run(r, c)
  PROVE  StoreInv' /\ SubInv'
<1>1. StoreInv'
  BY StoreKept DEF reconnect_run, Reads, StoreInv
<1>2. c \in Nat
  BY SMT DEF StoreInv
<1>3. /\ IsSub(sub') /\ sub'.at = "top" /\ sub'.run = r /\ sub'.from = c /\ sub'.cursor = c
      /\ sub'.got = <<>>
  BY SMT DEF reconnect_run, NoSub, IsSub
<1>4. SubInv'
  BY <1>2, <1>3 DEF SubInv, ReplayExactOrError
<1> QED BY <1>1, <1>4

\* events reads the mirror: no longer quiet, or on to the journal with nothing read.
LEMMA MirrorKeeps ==
  ASSUME StoreInv, SubInv, events_mirror
  PROVE  StoreInv' /\ SubInv'
<1>1. StoreInv'
  BY StoreKept DEF events_mirror, Reads, StoreInv
<1>2. sub.at \in {"top", "mirror"} /\ IsSub(sub)
  BY DEF events_mirror, SubInv
<1>3. CASE sub' = [sub EXCEPT !.at = "journal", !.state = IF sub.at = "top" THEN live = sub.run ELSE @,
                              !.quiet = @ /\ ~(live = sub.run)]
  <2>1. PICK q \in BOOLEAN : q = (sub.quiet /\ ~(live = sub.run))
    OBVIOUS
  <2>2. PICK st : st = IF sub.at = "top" THEN live = sub.run ELSE sub.state
    OBVIOUS
  <2>3. sub' = [sub EXCEPT !.at = "journal", !.state = st, !.quiet = q]
    BY <1>3, <2>1, <2>2
  <2>4. q => sub.quiet /\ ~st
    BY <2>1, <2>2, <1>2 DEF SubInv
  <2>5. /\ sub'.at = "journal" /\ sub'.state = st /\ sub'.quiet = q /\ IsSub(sub')
        /\ sub'.run = sub.run /\ sub'.from = sub.from /\ sub'.got = sub.got /\ sub'.cursor = sub.cursor
    BY ONLY <2>3, <1>2, SMT DEF IsSub
  <2> QED BY <1>1, <1>2, <2>4, <2>5 DEF SubInv, ReplayExactOrError
<1>4. ASSUME NEW i, NEW c, NEW g,
             sub' = [sub EXCEPT !.at = "mirror", !.state = TRUE, !.quiet = FALSE,
                                !.idx = i, !.cursor = c, !.got = g]
      PROVE  SubInv'
  <2>1. /\ IsSub(sub') /\ sub'.at = "mirror" /\ sub'.quiet = FALSE
        /\ sub'.run = sub.run /\ sub'.from = sub.from
    BY ONLY <1>2, <1>4, SMT DEF IsSub
  <2> QED BY <1>2, <2>1 DEF SubInv, ReplayExactOrError
<1> QED BY <1>1, <1>3, <1>4 DEF events_mirror

\* events reads the journal: if the run was pruned beyond the cursor an error;
\* otherwise every event of the run past the cursor is retained.
LEMMA JournalKeeps ==
  ASSUME StoreInv, SubInv, events_journal
  PROVE  StoreInv' /\ SubInv'
<1> DEFINE fresh == {n \in retained : n > sub.cursor}
           found == InOrder({n \in fresh : owner[n] = sub.run})
<1>1. StoreInv' /\ owner' = owner
  BY StoreKept DEF events_journal, Reads, StoreInv
<1>2. /\ sub.at = "journal" /\ sub.run \in Runs /\ sub.from \in Nat /\ Len(owner) \in Nat
      /\ IsSub(sub)
  BY SMT DEF events_journal, SubInv, StoreInv
<1>3. CASE expired[sub.run] > sub.cursor
  <2>1. sub' = [[sub EXCEPT !.upto = Len(owner)] EXCEPT !.at = "done", !.error = TRUE]
    BY <1>3 DEF events_journal
  <2>2. /\ IsSub(sub') /\ sub'.at = "done" /\ sub'.error = TRUE /\ sub'.upto = Len(owner)
        /\ sub'.run = sub.run /\ sub'.from = sub.from
    BY ONLY <2>1, <1>2, SMT DEF IsSub
  <2>3. Len(owner) \in 0..Len(owner')
    BY <1>1, <1>2, SMT
  <2> QED BY <1>1, <1>2, <2>2, <2>3 DEF SubInv, ReplayExactOrError
<1>4. CASE ~(expired[sub.run] > sub.cursor)
  <2>1. PICK c, g, a :
           /\ a = IF sub.state THEN "top" ELSE "done"
           /\ g = sub.got \o found
           /\ c = Max(fresh \cup {sub.cursor})
    OBVIOUS
  <2>2. sub' = [[sub EXCEPT !.upto = Len(owner)] EXCEPT !.at = a, !.cursor = c, !.got = g]
    <3>1. /\ [sub EXCEPT !.upto = Len(owner)].cursor = sub.cursor
          /\ [sub EXCEPT !.upto = Len(owner)].got = sub.got
      BY ONLY <1>2, SMT DEF IsSub
    <3> QED BY <1>4, <2>1, <3>1 DEF events_journal
  <2>3. /\ sub'.at = a /\ sub'.got = g /\ sub'.cursor = c /\ sub'.upto = Len(owner) /\ IsSub(sub')
        /\ sub'.run = sub.run /\ sub'.from = sub.from /\ sub'.quiet = sub.quiet /\ sub'.error = sub.error
        /\ sub'.state = sub.state
    BY ONLY <2>2, <1>2, SMT DEF IsSub
  <2>4. a \in {"top", "done"} /\ (sub.quiet => a = "done")
    BY <2>1, <1>2 DEF SubInv
  <2>5. ASSUME sub.quiet
        PROVE  g = EventsOf(sub.run, sub.from, Len(owner))
    <3>1. sub.got = <<>> /\ sub.cursor = sub.from
      BY <2>5, <1>2 DEF SubInv
    <3>2. ASSUME NEW n \in 1..Len(owner), owner[n] = sub.run, n > sub.from
          PROVE  n \in retained
      <4>1. n \notin retained => expired[sub.run] >= n
        BY <3>2 DEF StoreInv
      <4>2. expired[sub.run] \in 0..Len(owner)
        BY <1>2 DEF StoreInv
      <4>3. ~(expired[sub.run] > sub.from)
        BY <1>4, <3>1
      <4> QED BY <4>1, <4>2, <4>3, <3>2, <1>2, SMT
    <3>3. \A n \in retained : n \in 1..Len(owner)
      BY DEF StoreInv
    <3>4. {n \in fresh : owner[n] = sub.run}
          = {n \in 1..Len(owner) : n > sub.from /\ owner[n] = sub.run}
      BY <3>1, <3>2, <3>3
    <3>5. found = EventsOf(sub.run, sub.from, Len(owner))
      BY <3>4 DEF EventsOf
    <3>6. <<>> \o found = found
      BY InOrderSeq, SMT
    <3> QED BY <2>1, <3>1, <3>5, <3>6
  <2>6. EventsOf(sub.run, sub.from, Len(owner))' = EventsOf(sub'.run, sub'.from, Len(owner))
    BY <1>1 DEF EventsOf
  <2>7. Len(owner) \in 0..Len(owner')
    BY <1>1, <1>2, SMT
  <2> HIDE DEF found, fresh
  <2> QED BY <1>1, <1>2, <2>3, <2>4, <2>5, <2>6, <2>7 DEF SubInv, ReplayExactOrError
<1> QED BY <1>3, <1>4

\* The invariant of the journal and its subscriber.
JournalInv == StoreInv /\ SubInv

LEMMA JournalStarts == JournalInit => JournalInv
<1> SUFFICES ASSUME JournalInit PROVE JournalInv
  OBVIOUS
<1>1. StoreInv
  BY SMT DEF JournalInit, StoreInv
<1>2. IsSub(sub) /\ sub.at = "none"
  BY SMT DEF JournalInit, NoSub, IsSub
<1> QED BY <1>1, <1>2 DEF JournalInv, SubInv, ReplayExactOrError

LEMMA JournalStep ==
  ASSUME Cardinality(Runs) <= MaxMarkers, JournalInv, [JournalNext]_journalVars
  PROVE  JournalInv'
<1> USE DEF JournalInv
<1>1. Len(owner) \in Nat /\ Len(owner) <= Len(owner)
  BY SMT DEF StoreInv
<1>2. ASSUME NEW r \in Runs, start_producer(r) PROVE JournalInv'
  BY <1>2, StartKeeps
<1>3. ASSUME NEW r \in Runs, NEW c \in 0..Len(owner), reconnect_run(r, c) PROVE JournalInv'
  BY <1>3, ReconnectKeeps
<1>4. ASSUME NEW mirrored \in BOOLEAN, append(mirrored) PROVE JournalInv'
  <2>1. /\ StoreInv' /\ Len(owner') = Len(owner) + 1
        /\ \A n \in 1..Len(owner) : owner'[n] = owner[n]
    BY <1>4, AppendKeeps
  <2>2. Len(owner') \in Nat /\ Len(owner) <= Len(owner')
    BY <1>1, <2>1, SMT
  <2> QED BY <1>1, <1>4, <2>1, <2>2, SubKept DEF append
<1>5. ASSUME Reads, UNCHANGED sub, live' \in Runs \cup {NoRun} PROVE JournalInv'
  BY <1>1, <1>5, StoreKept, SubKept DEF Reads
<1>6. CASE deliver
  BY <1>5, <1>6 DEF deliver, Reads, StoreInv
<1>7. CASE EndProducer
  BY <1>5, <1>7 DEF EndProducer, Reads
<1>8. CASE events_mirror
  BY <1>8, MirrorKeeps
<1>9. CASE events_journal
  BY <1>9, JournalKeeps
<1>10. CASE UNCHANGED journalVars
  BY <1>5, <1>10 DEF journalVars, Reads, StoreInv
<1> QED BY <1>2, <1>3, <1>4, <1>6, <1>7, <1>8, <1>9, <1>10 DEF JournalNext

\* As long as there is room for the markers of all runs of the session, a
\* replay is refused or complete (_append, events).
THEOREM ReplaysExact ==
  ASSUME Cardinality(Runs) <= MaxMarkers
  PROVE  JournalSpec => []ReplayExactOrError
<1>1. JournalInit => JournalInv
  BY JournalStarts
<1>2. JournalInv /\ [JournalNext]_journalVars => JournalInv'
  BY JournalStep
<1>3. JournalInv => ReplayExactOrError
  BY DEF JournalInv, SubInv
<1> QED BY <1>1, <1>2, <1>3, PTL DEF JournalSpec

=============================================================================
