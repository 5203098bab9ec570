--------------------------- MODULE ConversationProof ---------------------------
(***************************************************************************)
(* Theorems about Conversation, for any people, lines and histories.       *)
(*                                                                         *)
(* Types, NothingMixedUp and VerdictsReachTheirThreads are about every     *)
(* history.  OwnThreadsOnly and TrueConversation need that nobody quotes a *)
(* notice: who does is taken for the bot (the run Conversation_quote).     *)
(*                                                                         *)
(* The invariant says that comments are in threads (InThreads), that what  *)
(* the run remembers is of these (Remembered) and, without quotations,     *)
(* that only the bot looks like the bot (ToldApart).  That the code puts   *)
(* threads together as they are then needs three facts about its own       *)
(* operators: sorting by number sorts (Sorts), the walk along replies      *)
(* arrives within its depth (WalkUp), and what it attaches to a thread was *)
(* said in that thread (Replies).                                          *)
(***************************************************************************)
EXTENDS Conversation, FiniteSetTheorems, FunctionTheorems, NaturalsInduction, TLAPS

-----------------------------------------------------------------------------
(* Numbers: least ones, and induction, from the well-foundedness of <.     *)

LEMMA Least ==
    ASSUME NEW S \in SUBSET Nat, S # {}
    PROVE  \E m \in S : \A k \in S : m <= k
<1> DEFINE R == OpToRel(<, Nat)
<1>1. IsWellFoundedOn(R, Nat)
  BY NatLessThanWellFounded
<1>2. \A k, m \in Nat : <<k, m>> \in R <=> k < m
  BY DEF OpToRel
<1> HIDE DEF R
<1>3. PICK m \in S : \A k \in S : ~(<<k, m>> \in R)
  BY <1>1, WFMin
<1>4. \A k \in S : ~(k < m)
  <2> TAKE k \in S
  <2>1. k \in Nat /\ m \in Nat
    OBVIOUS
  <2>2. ~(<<k, m>> \in R)
    BY <1>3
  <2>3. QED
    BY <1>2, <2>1, <2>2
<1>5. m \in Nat /\ \A k \in S : k \in Nat
  OBVIOUS
<1>6. QED
  BY <1>4, <1>5

LEMMA Induction ==
    ASSUME NEW S, 0 \in S, \A n \in Nat : n \in S => n + 1 \in S
    PROVE  Nat \subseteq S
<1> SUFFICES ASSUME Nat \ S # {} PROVE FALSE
  OBVIOUS
<1>1. PICK m \in Nat \ S : \A k \in Nat \ S : m <= k
  BY Least
<1>2. m \in Nat /\ m - 1 \in Nat /\ m - 1 + 1 = m
  BY <1>1
<1>3. m - 1 \in S
  BY <1>1, <1>2
<1>4. QED
  BY <1>1, <1>2, <1>3

-----------------------------------------------------------------------------
(* Sorting.                                                                *)

Below(S, number, c) == {d \in S : number[d] < number[c]}

\* In a set with distinct numbers, each element has its place, and each place
\* its element.
LEMMA Sorts ==
    ASSUME NEW S, IsFiniteSet(S), NEW number \in [S -> Nat],
           \A c, d \in S : number[c] = number[d] => c = d
    PROVE  /\ Cardinality(S) \in Nat
           /\ InOrder(S, number) \in [1..Cardinality(S) -> S]
           /\ \A n \in 1..Cardinality(S) :
                 Cardinality(Below(S, number, InOrder(S, number)[n])) = n - 1
           /\ \A c \in S : /\ Cardinality(Below(S, number, c)) + 1 \in 1..Cardinality(S)
                           /\ InOrder(S, number)[Cardinality(Below(S, number, c)) + 1] = c
<1> DEFINE rank(c) == Cardinality(Below(S, number, c))
           N == Cardinality(S)
<1>1. N \in Nat
  BY FS_CardinalityType
<1>2. \A c : IsFiniteSet(Below(S, number, c)) /\ rank(c) \in Nat
  BY FS_Subset, FS_CardinalityType DEF Below
<1>3. ASSUME NEW c \in S, NEW e \in S, number[c] < number[e] PROVE rank(c) < rank(e)
  <2>1. Below(S, number, c) \cup {c} \subseteq Below(S, number, e) /\ c \notin Below(S, number, c)
    BY <1>3 DEF Below
  <2>2. Cardinality(Below(S, number, c) \cup {c}) = rank(c) + 1
    BY <1>2, <2>1, FS_AddElement
  <2>3. Cardinality(Below(S, number, c) \cup {c}) <= rank(e)
    BY <1>2, <2>1, FS_Subset
  <2>4. QED
    BY <1>2, <2>2, <2>3
<1>4. ASSUME NEW c \in S PROVE rank(c) + 1 \in 1..N
  <2>1. Below(S, number, c) \in SUBSET S /\ c \notin Below(S, number, c)
    BY DEF Below
  <2>2. rank(c) <= N /\ (N = rank(c) => S = Below(S, number, c))
    BY <2>1, FS_Subset
  <2>3. rank(c) # N
    BY <2>1, <2>2
  <2>4. QED
    BY <1>1, <1>2, <2>2, <2>3
<1>5. \A c, e \in S : rank(c) = rank(e) => c = e
  <2> SUFFICES ASSUME NEW c \in S, NEW e \in S, rank(c) = rank(e) PROVE c = e
    OBVIOUS
  <2>1. ~(number[c] < number[e]) /\ ~(number[e] < number[c])
    BY <1>2, <1>3
  <2>2. QED
    BY <2>1
<1>6. \A n \in 1..N : \E c \in S : rank(c) = n - 1
  <2> DEFINE f == [c \in S |-> rank(c) + 1]
  <2>1. f \in [S -> 1..N] /\ \A c \in S : f[c] = rank(c) + 1
    BY <1>4
  <2>2. IsFiniteSet(1..N) /\ Cardinality(1..N) = N
    BY <1>1, FS_Interval
  <2> HIDE DEF f
  <2>3. \A c, e \in S : f[c] = f[e] => c = e
    BY <1>2, <1>5, <2>1
  <2>4. f \in Injection(S, 1..N)
    BY <2>1, <2>3, Fun_IsInj
  <2>5. f \in Surjection(S, 1..N)
    BY <2>2, <2>4, FS_Injection
  <2>6. \A n \in 1..N : \E c \in S : f[c] = n
    BY <2>5, Fun_SurjectionProperties
  <2>7. QED
    BY <1>2, <2>1, <2>6
<1>7. \A n \in 1..N : InOrder(S, number)[n] \in S /\ rank(InOrder(S, number)[n]) = n - 1
  <2> SUFFICES ASSUME NEW n \in 1..N
               PROVE  InOrder(S, number)[n] \in S /\ rank(InOrder(S, number)[n]) = n - 1
    OBVIOUS
  <2>1. InOrder(S, number)[n] = CHOOSE c \in S : rank(c) = n - 1
    BY DEF InOrder, Below
  <2>2. QED
    BY <1>6, <2>1
<1>8. InOrder(S, number) \in [1..N -> S]
  <2> DEFINE at(n) == CHOOSE c \in S : rank(c) = n - 1
  <2>1. InOrder(S, number) = [n \in 1..N |-> at(n)]
    BY DEF InOrder, Below
  <2>2. \A n \in 1..N : at(n) \in S
    BY <1>6
  <2> HIDE DEF at
  <2>3. QED
    BY <2>1, <2>2
<1>9. \A c \in S : InOrder(S, number)[rank(c) + 1] = c
  <2> SUFFICES ASSUME NEW c \in S PROVE InOrder(S, number)[rank(c) + 1] = c
    OBVIOUS
  <2>1. rank(InOrder(S, number)[rank(c) + 1]) = rank(c)
    BY <1>2, <1>4, <1>7
  <2>2. QED
    BY <1>4, <1>5, <1>7, <2>1
<1>10. QED
  BY <1>1, <1>4, <1>7, <1>8, <1>9

\* And the places are in the order of the numbers.
LEMMA Ascends ==
    ASSUME NEW S, IsFiniteSet(S), NEW number \in [S -> Nat],
           \A c, d \in S : number[c] = number[d] => c = d,
           NEW a \in 1..Cardinality(S), NEW b \in 1..Cardinality(S), a < b
    PROVE  number[InOrder(S, number)[a]] < number[InOrder(S, number)[b]]
<1> DEFINE s == InOrder(S, number)
           A == Below(S, number, s[a])
           B == Below(S, number, s[b])
<1>1. /\ Cardinality(S) \in Nat /\ s[a] \in S /\ s[b] \in S
      /\ Cardinality(A) = a - 1 /\ Cardinality(B) = b - 1
  BY Sorts
<1> HIDE DEF s
<1>2. IsFiniteSet(A)
  BY FS_Subset DEF Below
<1>3. ASSUME ~(number[s[a]] < number[s[b]]) PROVE FALSE
  <2>1. number[s[a]] \in Nat /\ number[s[b]] \in Nat /\ \A d \in S : number[d] \in Nat
    BY <1>1
  <2>2. B \in SUBSET A
    BY <1>3, <2>1 DEF Below
  <2> HIDE DEF A, B
  <2>3. Cardinality(B) <= Cardinality(A)
    BY <1>2, <2>2, FS_Subset
  <2>4. a \in Int /\ b \in Int
    BY <1>1
  <2>5. QED
    BY <1>1, <2>3, <2>4
<1>4. QED
  BY <1>3 DEF s

\* R stands, by `of', for all of S but its first, t, and is numbered alike.
Alike(S, t, id, R, number, of) ==
    /\ IsFiniteSet(S) /\ t \in S /\ \A i \in S : i \in Nat /\ t <= i
    /\ id \in [S -> Nat] /\ \A i \in S : id[i] = i
    /\ number \in [R -> Nat] /\ of \in [R -> S \ {t}]
    /\ \A i \in S \ {t} : \E c \in R : of[c] = i
    /\ \A c, d \in R : number[c] < number[d] <=> of[c] < of[d]
    /\ \A c, d \in R : of[c] = of[d] => c = d

\* The first, and then what stands for the others in its own order, are the
\* set in its order.
LEMMA SortsAlike ==
    ASSUME NEW S, NEW t, NEW id, NEW R, NEW number, NEW of, Alike(S, t, id, R, number, of)
    PROVE  /\ Cardinality(R) \in Nat /\ InOrder(R, number) \in [1..Cardinality(R) -> R]
           /\ InOrder(S, id) \in [1..Cardinality(R) + 1 -> S]
           /\ InOrder(S, id)[1] = t
           /\ \A n \in 1..Cardinality(R) : InOrder(S, id)[n + 1] = of[InOrder(R, number)[n]]
<1> DEFINE r == InOrder(R, number)
           s == InOrder(S, id)
<1> USE DEF Alike
<1>1. id \in [S -> Nat] /\ (\A i \in S : id[i] = i) /\ \A i, j \in S : id[i] = id[j] => i = j
  OBVIOUS
<1>2. \A c \in R : of[c] \in S /\ of[c] \in Nat /\ t < of[c]
  <2> SUFFICES ASSUME NEW c \in R PROVE of[c] \in S /\ of[c] \in Nat /\ t < of[c]
    OBVIOUS
  <2>1. of[c] \in S /\ of[c] # t
    OBVIOUS
  <2>2. t <= of[c] /\ t \in Nat /\ of[c] \in Nat
    BY <2>1
  <2>3. QED
    BY <2>1, <2>2
<1>3. /\ Cardinality(S) \in Nat /\ s \in [1..Cardinality(S) -> S]
      /\ \A i \in S : /\ Cardinality(Below(S, id, i)) + 1 \in 1..Cardinality(S)
                      /\ s[Cardinality(Below(S, id, i)) + 1] = i
  BY <1>1, Sorts
<1>4. IsFiniteSet(S \ {t}) /\ Cardinality(S \ {t}) = Cardinality(S) - 1
  BY FS_RemoveElement
<1>5. of \in Bijection(R, S \ {t})
  BY Fun_IsBij
<1>6. IsFiniteSet(R) /\ Cardinality(R) = Cardinality(S) - 1
  <2>1. of \in Injection(R, S \ {t}) /\ of \in Surjection(R, S \ {t})
    BY <1>5, Fun_BijectionProperties
  <2>2. QED
    BY <1>4, <2>1, FS_Injection
<1>7. \A c, d \in R : number[c] = number[d] => c = d
  <2> SUFFICES ASSUME NEW c \in R, NEW d \in R, number[c] = number[d] PROVE c = d
    OBVIOUS
  <2>1. of[c] \in Nat /\ of[d] \in Nat /\ ~(of[c] < of[d]) /\ ~(of[d] < of[c])
    BY <1>2
  <2>2. QED
    BY <2>1
<1>8. /\ r \in [1..Cardinality(R) -> R]
      /\ \A n \in 1..Cardinality(R) : Cardinality(Below(R, number, r[n])) = n - 1
  BY <1>6, <1>7, Sorts
<1>9. ASSUME NEW n \in 1..Cardinality(R) PROVE s[n + 1] = of[r[n]]
  <2>1. r[n] \in R /\ of[r[n]] \in S \ {t} /\ t < of[r[n]]
    BY <1>8, <1>2
  <2> DEFINE A == Below(R, number, r[n])
             B == Below(S, id, of[r[n]])
             f == [c \in A |-> of[c]]
  <2>2. Cardinality(A) = n - 1 /\ A \subseteq R
    BY <1>8 DEF Below
  <2>3. f \in [A -> B \ {t}]
    <3>1. \A c \in A : of[c] \in B \ {t}
      BY <1>1, <1>2, <2>1 DEF Below
    <3>2. QED
      BY <3>1
  <2>4. \A i \in B \ {t} : \E c \in A : f[c] = i
    BY <1>1, <2>1 DEF Below
  <2>5. \A c, d \in A : f[c] = f[d] => c = d
    BY <2>2
  <2> HIDE DEF f
  <2>6. f \in Bijection(A, B \ {t})
    BY <2>3, <2>4, <2>5, Fun_IsBij
  <2>7. t \in B
    BY <1>1, <2>1 DEF Below
  <2>8. IsFiniteSet(B) /\ IsFiniteSet(A)
    BY <1>6, FS_Subset DEF Below
  <2>9. IsFiniteSet(B \ {t}) /\ Cardinality(B \ {t}) = Cardinality(B) - 1 /\ Cardinality(B) \in Nat
    BY <2>7, <2>8, FS_RemoveElement, FS_CardinalityType
  <2>10. Cardinality(B \ {t}) = Cardinality(A)
    <3>1. f \in Injection(A, B \ {t}) /\ f \in Surjection(A, B \ {t})
      BY <2>6, Fun_BijectionProperties
    <3>2. QED
      BY <2>9, <3>1, FS_Injection
  <2>11. Cardinality(B) = n
    BY <2>2, <2>9, <2>10
  <2>12. QED
    BY <1>3, <2>1, <2>11
<1>10. s[1] = t
  <2>1. Below(S, id, t) = {}
    BY <1>1 DEF Below
  <2>2. Cardinality(Below(S, id, t)) + 1 = 1
    BY <2>1, FS_EmptySet
  <2>3. QED
    BY <1>3, <2>2
<1>11. Cardinality(R) \in Nat /\ Cardinality(S) = Cardinality(R) + 1
  BY <1>3, <1>6, FS_CardinalityType
<1> HIDE DEF r, s
<1>12. /\ Cardinality(R) \in Nat /\ r \in [1..Cardinality(R) -> R]
       /\ s \in [1..Cardinality(R) + 1 -> S]
       /\ s[1] = t /\ \A n \in 1..Cardinality(R) : s[n + 1] = of[r[n]]
  BY <1>3, <1>8, <1>9, <1>10, <1>11
<1>13. QED
  BY <1>12 DEF r, s

LEMMA Chained ==
    ASSUME NEW N \in Nat, NEW T, NEW t \in T, NEW q \in [1..N -> T],
           NEW s \in [1..N + 1 -> T], s[1] = t, \A n \in 1..N : s[n + 1] = q[n]
    PROVE  <<t>> \o q = s
<1>1. q \in Seq(T) /\ Len(q) = N /\ s \in Seq(T) /\ Len(s) = N + 1
  OBVIOUS
<1>2. <<t>> \in Seq(T) /\ Len(<<t>>) = 1 /\ <<t>>[1] = t
  OBVIOUS
<1>3. <<t>> \o q \in Seq(T) /\ Len(<<t>> \o q) = N + 1
  BY <1>1, <1>2
<1>4. \A n \in 1..N + 1 : (<<t>> \o q)[n] = IF n = 1 THEN t ELSE q[n - 1]
  BY <1>1, <1>2
<1>5. \A n \in 1..N + 1 : s[n] = IF n = 1 THEN t ELSE q[n - 1]
  <2> SUFFICES ASSUME NEW n \in 1..N + 1, n # 1 PROVE s[n] = q[n - 1]
    OBVIOUS
  <2>1. n - 1 \in 1..N /\ n - 1 + 1 = n
    OBVIOUS
  <2>2. s[n - 1 + 1] = q[n - 1]
    BY <2>1
  <2>3. QED
    BY <2>1, <2>2
<1>6. QED
  BY <1>1, <1>3, <1>4, <1>5

-----------------------------------------------------------------------------
(* What is posted.                                                         *)

\* Whoever quotes what, only the bot gives verdicts.
Comment ==
    {c \in [author : Person \cup {Bot}, said : Said, line : Line \cup {0},
            thread : Nat, parent : Nat, state : State] :
        c.said \in Status => c.author = Bot}

\* Every comment is in a thread on its line, which an earlier one opened unless
\* it did so itself, and answers a comment of that thread.
InThreads(p) ==
    /\ p \in Seq(Comment)
    /\ \A i \in DOMAIN p :
        /\ p[i].thread \in 1..i /\ p[i].parent \in 0..i - 1
        /\ p[i].parent = 0 <=> p[i].thread = i
        /\ p[i].parent # 0 => p[p[i].parent].thread = p[i].thread
        /\ p[p[i].thread].thread = p[i].thread
        /\ p[p[i].thread].line = p[i].line

\* Nobody quotes a notice and only the bot posts one, the bot posts in threads
\* of its own and closes no other.
ToldApart(p) ==
    \A i \in DOMAIN p :
        /\ p[i].said # "quoting"
        /\ p[i].said = "notice" => p[i].author = Bot /\ p[i].line = 0
        /\ p[i].author = Bot => p[p[i].thread].author = Bot
        /\ p[i].state # "active" => p[i].author = Bot

\* A comment that opens a thread, or answers one.
Fits(p, c) ==
    /\ c \in Comment /\ c.state = "active"
    /\ \/ c.thread = Len(p) + 1 /\ c.parent = 0
       \/ c.parent \in DOMAIN p /\ c.thread = p[c.parent].thread /\ c.line = p[c.parent].line

Speaks(p, c) ==
    /\ c.said # "quoting"
    /\ c.said = "notice" => c.author = Bot /\ c.line = 0
    /\ c.author = Bot => c.thread = Len(p) + 1 \/ p[c.thread].author = Bot

\* q is what p has become, but for the states of threads.
Grown(p, q) ==
    /\ DOMAIN p \subseteq DOMAIN q /\ Len(p) <= Len(q)
    /\ \A i \in DOMAIN p : /\ q[i].author = p[i].author /\ q[i].said = p[i].said
                           /\ q[i].line = p[i].line /\ q[i].thread = p[i].thread

LEMMA Appended ==
    ASSUME NEW p, InThreads(p), NEW c, Fits(p, c)
    PROVE  /\ InThreads(Append(p, c)) /\ Grown(p, Append(p, c))
           /\ Len(Append(p, c)) = Len(p) + 1 /\ Append(p, c)[Len(p) + 1] = c
           /\ \A i \in DOMAIN p : Append(p, c)[i] = p[i]
           /\ ToldApart(p) /\ Speaks(p, c) => ToldApart(Append(p, c))
<1> DEFINE q == Append(p, c)
           n == Len(p) + 1
<1>1. p \in Seq(Comment) /\ c \in Comment /\ Len(p) \in Nat /\ DOMAIN p = 1..Len(p)
  BY DEF InThreads, Fits
<1>2. /\ q \in Seq(Comment) /\ Len(q) = n /\ q[n] = c /\ DOMAIN q = 1..n
      /\ \A i \in DOMAIN p : q[i] = p[i]
  BY <1>1
<1> HIDE DEF q
<1>3. n \in Nat /\ DOMAIN q = DOMAIN p \cup {n} /\ n \notin DOMAIN p
  BY <1>1, <1>2
<1>4. /\ c.thread \in 1..n /\ c.parent \in 0..n - 1
      /\ c.parent = 0 <=> c.thread = n
      /\ c.parent # 0 => q[c.parent].thread = c.thread
      /\ q[c.thread].thread = c.thread /\ q[c.thread].line = c.line
  <2>1. CASE c.thread = n /\ c.parent = 0
    BY <1>2, <1>3, <2>1
  <2>2. CASE c.parent \in DOMAIN p /\ c.thread = p[c.parent].thread /\ c.line = p[c.parent].line
    <3>1. /\ c.thread \in 1..c.parent /\ c.parent \in 1..Len(p)
          /\ p[c.thread].thread = c.thread /\ p[c.thread].line = c.line
      BY <1>1, <2>2 DEF InThreads
    <3>2. c.thread \in DOMAIN p /\ c.thread # n /\ c.parent # 0 /\ c.parent \in 0..n - 1 /\ c.thread \in 1..n
      BY <1>1, <3>1
    <3>3. QED
      BY <1>2, <2>2, <3>1, <3>2
  <2>3. QED
    BY <2>1, <2>2 DEF Fits
<1>5. ASSUME NEW i \in DOMAIN p
      PROVE  /\ q[i].thread \in 1..i /\ q[i].parent \in 0..i - 1
             /\ q[i].parent = 0 <=> q[i].thread = i
             /\ q[i].parent # 0 => q[q[i].parent].thread = q[i].thread
             /\ q[q[i].thread].thread = q[i].thread
             /\ q[q[i].thread].line = q[i].line
  <2>1. /\ p[i].thread \in 1..i /\ p[i].parent \in 0..i - 1 /\ i \in 1..Len(p)
    BY <1>1 DEF InThreads
  <2>2. p[i].thread \in DOMAIN p /\ (p[i].parent # 0 => p[i].parent \in DOMAIN p)
    BY <1>1, <2>1
  <2>3. QED
    BY <1>2, <2>2 DEF InThreads
<1>6. InThreads(q)
  BY <1>2, <1>3, <1>4, <1>5 DEF InThreads
<1>7. Grown(p, q)
  BY <1>1, <1>2, <1>3 DEF Grown
<1>8. ASSUME ToldApart(p), Speaks(p, c) PROVE ToldApart(q)
  <2>1. ASSUME NEW i \in DOMAIN p
        PROVE  /\ q[i].said # "quoting"
               /\ q[i].said = "notice" => q[i].author = Bot /\ q[i].line = 0
               /\ q[i].author = Bot => q[q[i].thread].author = Bot
               /\ q[i].state # "active" => q[i].author = Bot
    <3>1. p[i].thread \in DOMAIN p
      BY <1>1 DEF InThreads
    <3>2. QED
      BY <1>2, <1>8, <3>1 DEF ToldApart
  <2>2. c.author = Bot => q[c.thread].author = Bot
    <3>1. c.thread = n \/ c.thread \in DOMAIN p
      BY <1>1, <1>4
    <3>2. QED
      BY <1>2, <1>3, <1>8, <3>1 DEF Speaks
  <2>3. QED
    BY <1>2, <1>3, <1>8, <2>1, <2>2 DEF ToldApart, Speaks, Fits
<1>9. QED
  BY <1>2, <1>6, <1>7, <1>8 DEF q

\* q is p with thread t in state s.
Resets(p, q, t, s) == t \in DOMAIN p /\ s \in State /\ q = [p EXCEPT ![t].state = s]

LEMMA Reset ==
    ASSUME NEW p, InThreads(p), NEW t, NEW s, NEW q, Resets(p, q, t, s)
    PROVE  /\ InThreads(q) /\ Grown(p, q) /\ Len(q) = Len(p)
           /\ \A i \in DOMAIN p \ {t} : q[i] = p[i]
           /\ ToldApart(p) /\ p[t].author = Bot => ToldApart(q)
<1> USE DEF Resets
<1>1. p \in Seq(Comment) /\ Len(p) \in Nat /\ DOMAIN p = 1..Len(p)
  BY DEF InThreads
<1>2. [p[t] EXCEPT !.state = s] \in Comment
  <2>1. p[t] \in Comment
    BY <1>1
  <2>2. QED
    BY <2>1 DEF Comment
<1>3. /\ DOMAIN q = DOMAIN p /\ q[t] = [p[t] EXCEPT !.state = s]
      /\ \A i \in DOMAIN p \ {t} : q[i] = p[i]
  OBVIOUS
<1>4. q \in Seq(Comment) /\ Len(q) = Len(p)
  BY <1>1, <1>2, <1>3
<1>5. \A i \in DOMAIN p :
        /\ q[i].author = p[i].author /\ q[i].said = p[i].said /\ q[i].line = p[i].line
        /\ q[i].thread = p[i].thread /\ q[i].parent = p[i].parent
  BY <1>1, <1>3 DEF Comment
<1>6. \A i \in DOMAIN p : p[i].thread \in DOMAIN p /\ (p[i].parent # 0 => p[i].parent \in DOMAIN p)
  <2> SUFFICES ASSUME NEW i \in DOMAIN p
               PROVE  p[i].thread \in DOMAIN p /\ (p[i].parent # 0 => p[i].parent \in DOMAIN p)
    OBVIOUS
  <2>1. p[i].thread \in 1..i /\ p[i].parent \in 0..i - 1 /\ i \in 1..Len(p)
    BY <1>1 DEF InThreads
  <2>2. QED
    BY <1>1, <2>1
<1>7. InThreads(q)
  <2>1. ASSUME NEW i \in DOMAIN p
        PROVE  /\ q[i].thread \in 1..i /\ q[i].parent \in 0..i - 1
               /\ q[i].parent = 0 <=> q[i].thread = i
               /\ q[i].parent # 0 => q[q[i].parent].thread = q[i].thread
               /\ q[q[i].thread].thread = q[i].thread
               /\ q[q[i].thread].line = q[i].line
    <3>1. /\ q[i].thread = p[i].thread /\ q[i].parent = p[i].parent /\ q[i].line = p[i].line
      BY <1>5
    <3>2. /\ p[i].thread \in 1..i /\ p[i].parent \in 0..i - 1
          /\ p[i].parent = 0 <=> p[i].thread = i
          /\ p[i].parent # 0 => p[p[i].parent].thread = p[i].thread
          /\ p[p[i].thread].thread = p[i].thread
          /\ p[p[i].thread].line = p[i].line
      BY DEF InThreads
    <3>3. /\ q[p[i].thread].thread = p[p[i].thread].thread
          /\ q[p[i].thread].line = p[p[i].thread].line
      BY <1>5, <1>6
    <3>4. p[i].parent # 0 => q[p[i].parent].thread = p[p[i].parent].thread
      BY <1>5, <1>6
    <3>5. QED
      BY <3>1, <3>2, <3>3, <3>4
  <2>2. QED
    BY <1>3, <1>4, <2>1 DEF InThreads
<1>8. Grown(p, q)
  BY <1>3, <1>4, <1>5, <1>1 DEF Grown
<1>9. ToldApart(p) /\ p[t].author = Bot => ToldApart(q)
  BY <1>3, <1>5, <1>6 DEF ToldApart
<1>10. QED
  BY <1>3, <1>4, <1>7, <1>8, <1>9

-----------------------------------------------------------------------------
(* What the provider lists, and who is who in it.                          *)

\* What the listing is read in.
World == InThreads(posted) /\ shape \in Shapes

LEMMA Posted ==
    ASSUME World
    PROVE  /\ shape \in {"azure", "github", "flat"}
           /\ Len(posted) \in Nat /\ DOMAIN posted = 1..Len(posted)
           /\ \A i \in DOMAIN posted :
                /\ i \in Nat /\ i >= 1 /\ posted[i] \in Comment
                /\ posted[i].thread \in DOMAIN posted /\ posted[i].thread <= i
                /\ posted[i].thread \in Nat /\ posted[i].thread >= 1
                /\ posted[i].parent \in Nat /\ posted[i].parent < i
                /\ posted[i].parent # 0 => posted[i].parent \in DOMAIN posted
<1>1. /\ shape \in {"azure", "github", "flat"} /\ posted \in Seq(Comment)
      /\ Len(posted) \in Nat /\ DOMAIN posted = 1..Len(posted)
  BY ConversationAssumption DEF World, InThreads
<1>2. ASSUME NEW i \in DOMAIN posted
      PROVE  /\ i \in Nat /\ i >= 1 /\ posted[i] \in Comment
             /\ posted[i].thread \in DOMAIN posted /\ posted[i].thread <= i
             /\ posted[i].thread \in Nat /\ posted[i].thread >= 1
             /\ posted[i].parent \in Nat /\ posted[i].parent < i
             /\ posted[i].parent # 0 => posted[i].parent \in DOMAIN posted
  <2>1. i \in 1..Len(posted) /\ posted[i].thread \in 1..i /\ posted[i].parent \in 0..i - 1
    BY <1>1 DEF World, InThreads
  <2>2. posted[i] \in Comment
    BY <1>1
  <2>3. QED
    BY <1>1, <2>1, <2>2
<1>3. QED
  BY <1>1, <1>2

\* Later in a thread is a higher place.
LEMMA Places ==
    ASSUME World, NEW i \in DOMAIN posted, NEW j \in DOMAIN posted,
           posted[i].thread = posted[j].thread
    PROVE  Place(i) \in Nat /\ Place(j) \in Nat /\ (i < j <=> Place(i) < Place(j))
<1> DEFINE upto(n) == {m \in 1..n : posted[m].thread = posted[i].thread}
<1>1. i \in Nat /\ j \in Nat /\ i >= 1 /\ j >= 1
  BY Posted
<1>2. ASSUME NEW n \in Nat PROVE IsFiniteSet(upto(n)) /\ Cardinality(upto(n)) \in Nat
  <2>1. IsFiniteSet(1..n) /\ upto(n) \in SUBSET (1..n)
    BY FS_Interval
  <2>2. QED
    BY <2>1, FS_Subset, FS_CardinalityType
<1>3. Place(i) = Cardinality(upto(i)) /\ Place(j) = Cardinality(upto(j))
  BY DEF Place
<1>4. ASSUME NEW a \in Nat, NEW b \in Nat, a < b, b >= 1, posted[b].thread = posted[i].thread
      PROVE  Cardinality(upto(a)) < Cardinality(upto(b))
  <2>1. upto(a) \cup {b} \in SUBSET upto(b) /\ b \notin upto(a)
    BY <1>4
  <2>2. Cardinality(upto(a) \cup {b}) = Cardinality(upto(a)) + 1
    BY <1>2, <2>1, FS_AddElement
  <2>3. Cardinality(upto(a) \cup {b}) <= Cardinality(upto(b))
    BY <1>2, <2>1, FS_Subset
  <2> HIDE DEF upto
  <2>4. QED
    BY <1>2, <2>2, <2>3
<1>5. i < j => Cardinality(upto(i)) < Cardinality(upto(j))
  BY <1>1, <1>4
<1>6. j < i => Cardinality(upto(j)) < Cardinality(upto(i))
  BY <1>1, <1>4
<1> HIDE DEF upto
<1>7. i = j \/ i < j \/ j < i
  BY <1>1
<1>8. QED
  BY <1>1, <1>2, <1>3, <1>5, <1>6, <1>7

\* What is in the entry for a comment.
LEMMA Entries ==
    ASSUME World, NEW i \in DOMAIN posted
    PROVE  /\ Listed(i) \in comments /\ Listed(i).of = i
           /\ Listed(i).Author = posted[i].author /\ Listed(i).Line = posted[i].line
           /\ Listed(i).ThreadID = (IF shape = "flat" THEN 0 ELSE posted[i].thread)
           /\ shape # "azure" => Listed(i).ID = i
           /\ shape = "azure" => Listed(i).ID = Place(i)
           /\ Listed(i).ID \in Nat
           /\ shape = "flat" => Listed(i).InReplyToID = posted[i].parent
<1>1. Listed(i) \in comments
  BY DEF comments
<1>2. i \in Nat /\ Place(i) \in Nat
  BY Posted, Places
<1>3. QED
  BY <1>1, <1>2 DEF Listed

LEMMA EveryEntry ==
    ASSUME World, NEW c \in comments
    PROVE  c.of \in DOMAIN posted /\ Listed(c.of) = c
BY DEF comments, Listed

\* Within a thread the provider's numbers are in the order of the comments.
LEMMA Numbers ==
    ASSUME World, NEW i \in DOMAIN posted, NEW j \in DOMAIN posted,
           posted[i].thread = posted[j].thread
    PROVE  Listed(i).ID < Listed(j).ID <=> i < j
<1>1. i < j <=> Place(i) < Place(j)
  BY Places
<1>2. QED
  BY <1>1, Entries, Posted

\* No two comments have the same key.
LEMMA Keys ==
    ASSUME World, NEW S \in SUBSET comments
    PROVE  ByKey(S) = S
<1> SUFFICES ASSUME NEW c \in S, NEW d \in S, keyOf(d) = keyOf(c) PROVE d.of <= c.of
  BY DEF ByKey
<1> DEFINE i == c.of
           j == d.of
<1>1. i \in DOMAIN posted /\ j \in DOMAIN posted /\ Listed(i) = c /\ Listed(j) = d
  BY EveryEntry
<1> HIDE DEF i, j
<1>2. Listed(i).ThreadID = Listed(j).ThreadID /\ Listed(i).ID = Listed(j).ID
  BY <1>1 DEF keyOf
<1>3. i \in Nat /\ j \in Nat
  BY <1>1, Posted
<1>4. CASE shape # "azure"
  BY <1>1, <1>2, <1>3, <1>4, Entries DEF i, j
<1>5. CASE shape = "azure"
  <2>1. posted[i].thread = posted[j].thread
    BY <1>1, <1>2, <1>5, Entries
  <2>2. ~(i < j) /\ ~(j < i)
    <3>1. Listed(i).ID \in Nat
      BY <1>1, Entries
    <3>2. QED
      BY <1>1, <1>2, <2>1, <3>1, Numbers
  <2>3. QED
    BY <1>3, <2>2 DEF i, j
<1>6. QED
  BY <1>4, <1>5

\* A conversation is opened by the comment that opened the thread.
LEMMA Opens ==
    ASSUME World, NEW i \in DOMAIN posted
    PROVE  opensConversation(Listed(i), firstCommentOfEachThread) <=> posted[i].thread = i
<1> DEFINE t == posted[i].thread
<1>1. t \in DOMAIN posted /\ posted[t].thread = t /\ t \in Nat /\ t >= 1 /\ i \in Nat /\ t <= i
  BY Posted DEF World, InThreads
<1> HIDE DEF t
<1>2. CASE shape = "flat"
  <2>1. Listed(i).ThreadID = 0 /\ Listed(i).InReplyToID = posted[i].parent
    BY <1>2, Entries
  <2>2. posted[i].parent = 0 <=> posted[i].thread = i
    BY DEF World, InThreads
  <2>3. QED
    BY <2>1, <2>2 DEF opensConversation
<1>3. CASE shape # "flat"
  <2>1. Listed(i).ThreadID = t /\ Listed(t).ThreadID = t /\ t # 0
    BY <1>1, <1>3, Entries DEF t
  <2> DEFINE IDs == {c.ID : c \in {d \in comments : d.ThreadID = t}}
  <2>2. Listed(t).ID \in IDs
    BY <1>1, <2>1, Entries
  <2>3. ASSUME NEW m \in IDs PROVE m \in Nat /\ Listed(t).ID <= m
    <3>1. PICK c \in comments : c.ThreadID = t /\ m = c.ID
      OBVIOUS
    <3>2. c.of \in DOMAIN posted /\ Listed(c.of) = c
      BY EveryEntry
    <3> DEFINE j == c.of
    <3>3. j \in DOMAIN posted /\ posted[j].thread = t /\ m = Listed(j).ID
      BY <1>3, <3>1, <3>2, Entries
    <3> HIDE DEF j
    <3>4. t <= j /\ j \in Nat
      BY <3>3, Posted
    <3>5. ~(Listed(j).ID < Listed(t).ID)
      BY <1>1, <3>3, <3>4, Numbers
    <3>6. Listed(j).ID \in Nat /\ Listed(t).ID \in Nat
      BY <1>1, <3>3, Entries
    <3>7. QED
      BY <3>3, <3>5, <3>6
  <2>4. Min(IDs) = Listed(t).ID
    <3> HIDE DEF IDs
    <3>1. Min(IDs) \in IDs /\ \A m \in IDs : Min(IDs) <= m
      BY <2>2, <2>3 DEF Min
    <3>2. QED
      BY <2>2, <2>3, <3>1
  <2>5. firstCommentOfEachThread[t] = Listed(t).ID
    <3>1. t \in {c.ThreadID : c \in comments}
      BY <1>1, <2>1, Entries
    <3>2. QED
      BY <2>4, <3>1 DEF firstCommentOfEachThread
  <2>6. opensConversation(Listed(i), firstCommentOfEachThread) <=> Listed(i).ID = Listed(t).ID
    BY <2>1, <2>5 DEF opensConversation
  <2>7. Listed(i).ID = Listed(t).ID <=> i = t
    <3>1. t < i <=> Listed(t).ID < Listed(i).ID
      BY <1>1, Numbers DEF t
    <3>2. Listed(i).ID \in Nat /\ Listed(t).ID \in Nat
      BY <1>1, Entries
    <3>3. QED
      BY <1>1, <3>1, <3>2
  <2>8. QED
    BY <2>6, <2>7 DEF t
<1>4. QED
  BY <1>2, <1>3

\* Where nobody quotes a notice, only the bot is taken for the bot.
LEMMA Identities ==
    ASSUME World, ToldApart(posted)
    PROVE  identities = IF Recognised THEN {Bot} ELSE {}
<1>1. ASSUME NEW a \in DetectBotAuthors
      PROVE  a = Bot /\ \E i \in DOMAIN posted : posted[i].author = Bot /\ posted[i].said = "notice"
  <2>1. PICK d \in comments : d.Author = a /\ looksLikeBotAnnotation(posted[d.of].said)
    BY DEF DetectBotAuthors
  <2>2. d.of \in DOMAIN posted /\ Listed(d.of) = d
    BY EveryEntry
  <2>3. posted[d.of].author = a
    BY <2>1, <2>2, Entries
  <2>4. QED
    BY <2>1, <2>2, <2>3 DEF looksLikeBotAnnotation, ToldApart
<1>2. ASSUME NEW i \in DOMAIN posted, posted[i].author = Bot, posted[i].said = "notice"
      PROVE  Bot \in DetectBotAuthors
  <2>1. Listed(i) \in comments /\ Listed(i).of = i /\ Listed(i).Author = Bot /\ Listed(i).Line = 0
    BY <1>2, Entries DEF ToldApart
  <2>2. looksLikeBotAnnotation(posted[i].said)
    BY <1>2 DEF looksLikeBotAnnotation
  <2>3. QED
    BY <2>1, <2>2 DEF DetectBotAuthors
<1>3. QED
  BY <1>1, <1>2 DEF identities, Recognised

-----------------------------------------------------------------------------
(* The threads that are the bot's, and their replies.                      *)

LEMMA Roots ==
    ASSUME World
    PROVE  /\ discoverThreadRoots \subseteq comments
           /\ \A i \in DOMAIN posted : Listed(i) \in discoverThreadRoots <=>
                posted[i].thread = i /\ posted[i].line > 0 /\ IsBotAuthor(posted[i].author)
<1> DEFINE first == firstCommentOfEachThread
           R == {c \in comments : c.Line > 0 /\ opensConversation(c, first) /\ IsBotAuthor(c.Author)}
<1>1. ByKey(R) = R
  BY Keys
<1>2. discoverThreadRoots = R
  BY <1>1 DEF discoverThreadRoots
<1>3. QED
  BY <1>2, Entries, Opens

LEMMA RootEntry ==
    ASSUME World, NEW r \in discoverThreadRoots
    PROVE  /\ r.of \in DOMAIN posted /\ Listed(r.of) = r /\ r \in comments
           /\ posted[r.of].thread = r.of /\ posted[r.of].line > 0
           /\ IsBotAuthor(posted[r.of].author)
BY Roots, EveryEntry

\* The steps of a walk up the replies exist for every length.
LEMMA Walks ==
    ASSUME NEW roots, NEW k \in Nat
    PROVE  \E f : f = [n \in 0..k |-> IF n = 0 THEN [d \in comments |-> {}] ELSE hop(roots, f[n - 1])]
<1> DEFINE none == [d \in comments |-> {}]
           next(w) == hop(roots, w)
           IsWalk(f, m) == f = [n \in 0..m |-> IF n = 0 THEN none ELSE next(f[n - 1])]
           S == {m \in Nat : \E f : IsWalk(f, m)}
<1> HIDE DEF none, next
<1>1. 0 \in S
  <2> DEFINE f == [n \in 0..0 |-> none]
  <2>1. IsWalk(f, 0)
    <3>1. \A n \in 0..0 : n = 0
      OBVIOUS
    <3>2. QED
      BY <3>1
  <2>2. QED
    BY <2>1
<1>2. ASSUME NEW m \in Nat, m \in S PROVE m + 1 \in S
  <2>1. PICK f : IsWalk(f, m)
    BY <1>2
  <2> DEFINE g == [n \in 0..m + 1 |-> IF n = m + 1 THEN next(f[m]) ELSE f[n]]
  <2>2. ASSUME NEW n \in 0..m + 1
        PROVE  g[n] = IF n = 0 THEN none ELSE next(g[n - 1])
    <3>1. CASE n = m + 1
      <4>1. m \in 0..m + 1 /\ m # m + 1 /\ n # 0 /\ n - 1 = m
        BY <3>1
      <4>2. QED
        BY <3>1, <4>1
    <3>2. CASE n # m + 1 /\ n # 0
      <4>1. n \in 0..m /\ n - 1 \in 0..m /\ n - 1 \in 0..m + 1 /\ n - 1 # m + 1
        BY <3>2
      <4>2. g[n] = f[n] /\ g[n - 1] = f[n - 1]
        BY <3>2, <4>1
      <4>3. f[n] = next(f[n - 1])
        BY <2>1, <3>2, <4>1
      <4> HIDE DEF g
      <4>4. QED
        BY <3>2, <4>2, <4>3
    <3>3. CASE n = 0
      <4>1. g[0] = f[0] /\ 0 \in 0..m
        OBVIOUS
      <4>2. f[0] = none
        BY <2>1, <4>1
      <4> HIDE DEF g
      <4>3. QED
        BY <3>3, <4>1, <4>2
    <3>4. QED
      BY <3>1, <3>2, <3>3
  <2>3. g = [n \in 0..m + 1 |-> g[n]]
    OBVIOUS
  <2> HIDE DEF g
  <2>4. IsWalk(g, m + 1)
    BY <2>2, <2>3
  <2>5. QED
    BY <2>4
<1> HIDE DEF S
<1>3. k \in S
  BY <1>1, <1>2, Induction
<1>4. QED
  BY <1>3 DEF S, none, next

\* Without threads, the walk from a comment that is not too far down finds the
\* comment that opened its chain, and no walk finds any other.
LEMMA WalkUp ==
    ASSUME World, shape = "flat", NEW i \in DOMAIN posted
    PROVE  LET found == {Listed(posted[i].thread)} \cap discoverThreadRoots
           IN  /\ walkToRoot(Listed(i), discoverThreadRoots) \subseteq found
               /\ posted[i].thread # i /\ i <= maxReplyChainDepth + 1
                     => walkToRoot(Listed(i), discoverThreadRoots) = found
<1> DEFINE roots == discoverThreadRoots
           none == [d \in comments |-> {}]
           walk == CHOOSE w : w = [n \in 0..maxReplyChainDepth |->
                                     IF n = 0 THEN none ELSE hop(roots, w[n - 1])]
           found(j) == {Listed(posted[j].thread)} \cap roots
           Right(w, n) == \A j \in DOMAIN posted :
                /\ w[Listed(j)] \subseteq found(j)
                /\ posted[j].thread # j /\ j <= n + 1 => w[Listed(j)] = found(j)
           S == {n \in Nat : n <= maxReplyChainDepth => Right(walk[n], n)}
<1> HIDE DEF roots
<1>1. walk = [n \in 0..maxReplyChainDepth |-> IF n = 0 THEN none ELSE hop(roots, walk[n - 1])]
  <2> DEFINE IsWalk(w) == w = [n \in 0..maxReplyChainDepth |->
                                 IF n = 0 THEN none ELSE hop(roots, w[n - 1])]
  <2>1. maxReplyChainDepth \in Nat
    BY DEF maxReplyChainDepth
  <2>2. \E w : IsWalk(w)
    BY <2>1, Walks
  <2>3. walk = CHOOSE w : IsWalk(w)
    OBVIOUS
  <2> HIDE DEF IsWalk, walk
  <2>4. IsWalk(walk)
    BY <2>2, <2>3
  <2>5. QED
    BY <2>4 DEF IsWalk
<1>2. \A c : walkToRoot(c, roots) = walk[maxReplyChainDepth][c]
  BY DEF walkToRoot
<1> HIDE DEF walk
<1>3. walk[0] = none /\ \A n \in 1..maxReplyChainDepth : walk[n] = hop(roots, walk[n - 1])
  BY <1>1 DEF maxReplyChainDepth
<1>4. 0 \in S
  <2>1. \A j \in DOMAIN posted : none[Listed(j)] = {}
    BY Entries
  <2>2. \A j \in DOMAIN posted : posted[j].thread # j => ~(j <= 0 + 1)
    BY Posted
  <2>3. QED
    BY <1>3, <2>1, <2>2
<1>5. ASSUME NEW n \in Nat, n \in S PROVE n + 1 \in S
  <2> SUFFICES ASSUME n + 1 <= maxReplyChainDepth PROVE Right(walk[n + 1], n + 1)
    OBVIOUS
  <2>1. n <= maxReplyChainDepth /\ n + 1 \in 1..maxReplyChainDepth /\ n + 1 - 1 = n
    BY DEF maxReplyChainDepth
  <2>2. walk[n + 1] = hop(roots, walk[n])
    BY <1>3, <2>1
  <2> DEFINE w == walk[n]
  <2>3. Right(w, n)
    BY <1>5, <2>1
  <2> HIDE DEF w
  <2> SUFFICES ASSUME NEW j \in DOMAIN posted
               PROVE  /\ hop(roots, w)[Listed(j)] \subseteq found(j)
                      /\ posted[j].thread # j /\ j <= n + 1 + 1 => hop(roots, w)[Listed(j)] = found(j)
    BY <2>2 DEF w
  <2>4. hop(roots, w)[Listed(j)] =
            UNION {IF e \in roots THEN {e} ELSE w[e] : e \in parentOf(Listed(j))}
    BY Entries DEF hop
  <2>5. ByKey(comments) = comments
    BY Keys
  <2>6. CASE posted[j].parent = 0
    <3>1. parentOf(Listed(j)) = {}
      <4> SUFFICES ASSUME NEW e \in comments, e.ID = Listed(j).InReplyToID PROVE FALSE
        BY <2>5 DEF parentOf
      <4>1. e.of \in DOMAIN posted /\ Listed(e.of) = e
        BY EveryEntry
      <4>2. e.ID = e.of /\ e.of >= 1 /\ e.of \in Nat
        BY <4>1, Entries, Posted
      <4>3. Listed(j).InReplyToID = 0
        BY <2>6, Entries
      <4>4. e.of = 0
        BY <4>2, <4>3
      <4>5. QED
        BY <4>2, <4>4
    <3>2. posted[j].thread = j
      BY <2>6 DEF World, InThreads
    <3>3. QED
      BY <2>4, <3>1, <3>2
  <2>7. CASE posted[j].parent # 0
    <3> DEFINE p == posted[j].parent
    <3>1. p \in DOMAIN posted /\ p \in Nat /\ j \in Nat /\ p < j /\ posted[p].thread = posted[j].thread
      BY <2>7, Posted DEF World, InThreads
    <3>2. parentOf(Listed(j)) = {Listed(p)}
      <4>1. ASSUME NEW e \in comments
            PROVE  e.ThreadID = Listed(j).ThreadID /\ e.ID = Listed(j).InReplyToID <=> e = Listed(p)
        <5>1. e.of \in DOMAIN posted /\ Listed(e.of) = e
          BY EveryEntry
        <5>2. e.ThreadID = 0 /\ e.ID = e.of /\ Listed(p).of = p
          BY <3>1, <5>1, Entries
        <5>3. Listed(j).ThreadID = 0 /\ Listed(j).InReplyToID = p
          BY Entries
        <5>4. QED
          BY <5>1, <5>2, <5>3
      <4>2. Listed(p) \in comments
        BY <3>1, Entries
      <4>3. QED
        BY <2>5, <4>1, <4>2 DEF parentOf
    <3>3. hop(roots, w)[Listed(j)] = IF Listed(p) \in roots THEN {Listed(p)} ELSE w[Listed(p)]
      BY <2>4, <3>2
    <3>4. found(p) = found(j)
      BY <3>1
    <3>5. Listed(p) \in roots => posted[p].thread = p
      BY <3>1, Roots DEF roots
    <3>6. CASE Listed(p) \in roots
      BY <3>1, <3>3, <3>5, <3>6
    <3>7. CASE Listed(p) \notin roots /\ posted[p].thread = p
      <4>1. found(p) = {}
        BY <3>7
      <4>2. w[Listed(p)] = {}
        BY <2>3, <3>1, <4>1
      <4>3. QED
        BY <3>3, <3>4, <3>7, <4>1, <4>2
    <3>8. CASE Listed(p) \notin roots /\ posted[p].thread # p
      <4>1. w[Listed(p)] \subseteq found(p) /\ (p <= n + 1 => w[Listed(p)] = found(p))
        BY <2>3, <3>1, <3>8
      <4>2. j <= n + 1 + 1 => p <= n + 1
        BY <3>1
      <4> HIDE DEF p, found
      <4>3. QED
        BY <3>3, <3>4, <3>8, <4>1, <4>2
    <3>9. QED
      BY <3>6, <3>7, <3>8
  <2>8. QED
    BY <2>6, <2>7
<1> HIDE DEF S
<1>6. maxReplyChainDepth \in S
  BY <1>4, <1>5, Induction DEF maxReplyChainDepth
<1>7. Right(walk[maxReplyChainDepth], maxReplyChainDepth)
  BY <1>6 DEF S, maxReplyChainDepth
<1>8. QED
  BY <1>2, <1>7 DEF roots

\* The replies in a thread of the bot's are comments of that thread: all but
\* the first, unless the provider has no threads and the chain is too long.
LEMMA Replies ==
    ASSUME World, NEW r \in discoverThreadRoots
    PROVE  /\ repliesTo(r, discoverThreadRoots) \subseteq comments
           /\ \A i \in DOMAIN posted :
                /\ Listed(i) \in repliesTo(r, discoverThreadRoots)
                      => posted[i].thread = r.of /\ i # r.of
                /\ shape # "flat" \/ i <= maxReplyChainDepth + 1 =>
                      (posted[i].thread = r.of /\ i # r.of
                         => Listed(i) \in repliesTo(r, discoverThreadRoots))
<1> DEFINE roots == discoverThreadRoots
           t == r.of
<1>1. /\ t \in DOMAIN posted /\ Listed(t) = r /\ posted[t].thread = t /\ posted[t].line > 0
  BY RootEntry
<1>2. repliesTo(r, roots) = {c \in comments : c \notin roots /\ c.Line > 0 /\ rootFor(c, roots) = {r}}
  BY DEF repliesTo
<1> SUFFICES ASSUME NEW i \in DOMAIN posted
             PROVE  /\ Listed(i) \in repliesTo(r, roots) => posted[i].thread = t /\ i # t
                    /\ shape # "flat" \/ i <= maxReplyChainDepth + 1 =>
                          (posted[i].thread = t /\ i # t => Listed(i) \in repliesTo(r, roots))
  BY <1>2
<1>3. Listed(i) \in comments /\ Listed(i).Line = posted[i].line /\ Listed(i).of = i
  BY Entries
<1>4. Listed(i) \in roots => posted[i].thread = i
  BY Roots
<1>5. /\ posted[i].thread \in DOMAIN posted
      /\ Listed(posted[i].thread) = r <=> posted[i].thread = t
  BY <1>1, Posted, Entries
<1>6. posted[i].line = posted[posted[i].thread].line
  BY DEF World, InThreads
<1>7. rootFor(Listed(i), roots) \subseteq {Listed(posted[i].thread)}
      /\ (shape # "flat" \/ i <= maxReplyChainDepth + 1 =>
            (posted[i].thread = t /\ i # t => rootFor(Listed(i), roots) = {r}))
  <2>1. CASE shape = "flat"
    <3>1. rootFor(Listed(i), roots) = walkToRoot(Listed(i), roots)
      BY <2>1, Entries DEF rootFor
    <3>2. /\ walkToRoot(Listed(i), roots) \subseteq {Listed(posted[i].thread)} \cap roots
          /\ posted[i].thread # i /\ i <= maxReplyChainDepth + 1
                => walkToRoot(Listed(i), roots) = {Listed(posted[i].thread)} \cap roots
      BY <2>1, WalkUp
    <3> HIDE DEF roots
    <3>3. r \in roots
      BY DEF roots
    <3>4. QED
      BY <1>5, <2>1, <3>1, <3>2, <3>3
  <2>2. CASE shape # "flat"
    <3>1. Listed(i).ThreadID = posted[i].thread /\ posted[i].thread # 0
      BY <2>2, Entries, Posted
    <3>2. rootFor(Listed(i), roots) = {e \in roots : e.ThreadID = posted[i].thread}
      BY <3>1 DEF rootFor
    <3>3. ASSUME NEW e \in roots PROVE e.ThreadID = posted[i].thread <=> e = Listed(posted[i].thread)
      <4>1. e.of \in DOMAIN posted /\ Listed(e.of) = e /\ posted[e.of].thread = e.of
        BY RootEntry
      <4>2. e.ThreadID = e.of
        BY <2>2, <4>1, Entries
      <4>3. Listed(posted[i].thread).of = posted[i].thread
        BY <1>5, Entries
      <4>4. QED
        BY <4>1, <4>2, <4>3
    <3>4. QED
      BY <1>5, <3>2, <3>3
  <2>3. QED
    BY <2>1, <2>2
<1>8. r \in roots
  OBVIOUS
<1> HIDE DEF roots
<1>9. Listed(i) \in repliesTo(r, roots) => posted[i].thread = t /\ i # t
  BY <1>1, <1>2, <1>5, <1>7, <1>8
<1>10. posted[i].thread = t /\ i # t => Listed(i) \notin roots /\ posted[i].line > 0
  BY <1>1, <1>4, <1>6
<1>11. QED
  BY <1>2, <1>3, <1>7, <1>9, <1>10

-----------------------------------------------------------------------------
(* The conversation that is put together.                                  *)

\* A thread of the bot's starts with the comment that opened it and holds
\* comments of that thread; it is that thread, in order, unless the provider
\* has no threads and a chain of replies may be too long to follow.
LEMMA ThreadRead ==
    ASSUME World, NEW r \in discoverThreadRoots,
           NEW m, m = ReviewThread(r, discoverThreadRoots).msgs
    PROVE  /\ m \in Seq(Nat) /\ Len(m) > 0 /\ m[1] = r.of
           /\ \A j \in DOMAIN m : m[j] \in DOMAIN posted /\ posted[m[j]].thread = r.of
           /\ \A i, j \in DOMAIN m : i < j => m[i] < m[j]
           /\ shape # "flat" \/ Len(posted) <= maxReplyChainDepth + 1 => m = ThreadOf(r.of)
<1> DEFINE t == r.of
           R == repliesTo(r, discoverThreadRoots)
           S == {t} \cup {c.of : c \in R}
           number == [c \in R |-> c.ID]
           of == [c \in R |-> c.of]
           id == [i \in S |-> i]
<1>1. /\ t \in DOMAIN posted /\ posted[t].thread = t
  BY RootEntry
<1>2. ASSUME NEW c \in R
      PROVE  /\ c.of \in DOMAIN posted /\ Listed(c.of) = c /\ c.ID \in Nat
             /\ posted[c.of].thread = t /\ c.of # t
  <2>1. c \in comments
    BY Replies
  <2>2. c.of \in DOMAIN posted /\ Listed(c.of) = c
    BY <2>1, EveryEntry
  <2>3. QED
    BY <2>2, Entries, Replies
<1>3. \A i \in S : i \in DOMAIN posted /\ posted[i].thread = t /\ i \in Nat /\ t <= i
  <2>1. \A i \in S : i \in DOMAIN posted /\ posted[i].thread = t
    BY <1>1, <1>2
  <2>2. QED
    BY <2>1, Posted
<1>4. IsFiniteSet(S)
  <2>1. S \in SUBSET (1..Len(posted)) /\ Len(posted) \in Nat
    BY <1>3, Posted
  <2>2. IsFiniteSet(1..Len(posted))
    BY <2>1, FS_Interval
  <2>3. QED
    BY <2>1, <2>2, FS_Subset
<1> HIDE DEF R
<1>5. number \in [R -> Nat] /\ of \in [R -> S \ {t}]
  BY <1>2
<1>6. \A i \in S \ {t} : \E c \in R : of[c] = i
  OBVIOUS
<1>7. \A c, d \in R : number[c] < number[d] <=> of[c] < of[d]
  <2> SUFFICES ASSUME NEW c \in R, NEW d \in R PROVE c.ID < d.ID <=> c.of < d.of
    OBVIOUS
  <2>1. Listed(c.of).ID < Listed(d.of).ID <=> c.of < d.of
    BY <1>2, Numbers
  <2>2. QED
    BY <1>2, <2>1
<1>8. \A c, d \in R : of[c] = of[d] => c = d
  <2> SUFFICES ASSUME NEW c \in R, NEW d \in R, c.of = d.of PROVE c = d
    OBVIOUS
  <2>1. QED
    BY <1>2
<1>9. t \in S
  OBVIOUS
<1> DEFINE a == InOrder(R, number)
<1>10. ReviewThread(r, discoverThreadRoots).msgs = <<t>> \o [n \in DOMAIN a |-> a[n].of]
  BY DEF ReviewThread, R
<1> HIDE DEF S, number, of
<1> DEFINE q == [n \in DOMAIN a |-> a[n].of]
<1>11. id \in [S -> Nat] /\ (\A i \in S : id[i] = i) /\ \A i, j \in S : id[i] = id[j] => i = j
  BY <1>3
<1> HIDE DEF id
<1>12. <<t>> \o q = InOrder(S, id)
  <2> DEFINE s == InOrder(S, id)
             N == Cardinality(R)
  <2>1. Alike(S, t, id, R, number, of)
    BY <1>3, <1>4, <1>5, <1>6, <1>7, <1>8, <1>9, <1>11 DEF Alike
  <2> HIDE DEF t
  <2>2. /\ N \in Nat /\ InOrder(R, number) \in [1..N -> R] /\ InOrder(S, id) \in [1..N + 1 -> S]
        /\ InOrder(S, id)[1] = t /\ \A n \in 1..N : InOrder(S, id)[n + 1] = of[InOrder(R, number)[n]]
    BY <2>1, SortsAlike
  <2>3. /\ N \in Nat /\ a \in [1..N -> R] /\ s \in [1..N + 1 -> S]
        /\ s[1] = t /\ \A n \in 1..N : s[n + 1] = of[a[n]]
    BY <2>2
  <2> HIDE DEF a, s
  <2>4. q \in [1..N -> S] /\ \A n \in 1..N : q[n] = of[a[n]]
    <3>1. \A n \in 1..N : a[n] \in R /\ a[n].of \in S /\ of[a[n]] = a[n].of
      BY <2>3 DEF of, S
    <3>2. DOMAIN a = 1..N
      BY <2>3
    <3>3. QED
      BY <3>1, <3>2
  <2> HIDE DEF q, N
  <2>5. \A n \in 1..N : s[n + 1] = q[n]
    BY <2>3, <2>4
  <2>6. <<t>> \o q = s
    BY <1>9, <2>3, <2>4, <2>5, Chained
  <2>7. QED
    BY <2>6 DEF s
<1>13. m = InOrder(S, id)
  BY <1>10, <1>12
<1> HIDE DEF a
<1>14. /\ Cardinality(S) \in Nat /\ m \in [1..Cardinality(S) -> S]
       /\ Cardinality(Below(S, id, t)) + 1 \in 1..Cardinality(S)
       /\ m[Cardinality(Below(S, id, t)) + 1] = t
  BY <1>4, <1>9, <1>13, <1>11, Sorts
<1>15. Cardinality(Below(S, id, t)) + 1 = 1
  <2>1. Below(S, id, t) = {}
    BY <1>3, <1>9, <1>11 DEF Below
  <2>2. QED
    BY <2>1, FS_EmptySet
<1>16. m \in Seq(Nat) /\ Len(m) = Cardinality(S) /\ DOMAIN m = 1..Cardinality(S)
  <2>1. m \in [1..Cardinality(S) -> Nat]
    BY <1>3, <1>14
  <2>2. QED
    BY <1>14, <2>1
<1>17. ASSUME shape # "flat" \/ Len(posted) <= maxReplyChainDepth + 1 PROVE m = ThreadOf(t)
  <2>1. ASSUME NEW i \in DOMAIN posted PROVE i \in S <=> posted[i].thread = t
    <3>1. i <= Len(posted) /\ i \in Nat /\ Len(posted) \in Nat
      BY Posted
    <3>2. shape # "flat" \/ i <= maxReplyChainDepth + 1
      BY <1>17, <3>1 DEF maxReplyChainDepth
    <3>3. posted[i].thread = t /\ i # t => Listed(i) \in R
      BY <3>2, Replies DEF R
    <3>4. Listed(i).of = i
      BY Entries
    <3>5. QED
      BY <1>3, <1>9, <3>3, <3>4 DEF S
  <2>2. S = {i \in DOMAIN posted : posted[i].thread = t}
    BY <1>3, <2>1
  <2>3. QED
    BY <1>13, <2>2 DEF ThreadOf, id
<1>18. \A j \in DOMAIN m : m[j] \in S
  BY <1>14, <1>16
<1>19. ASSUME NEW i \in DOMAIN m, NEW j \in DOMAIN m, i < j PROVE m[i] < m[j]
  <2>1. id[m[i]] < id[m[j]]
    BY <1>4, <1>11, <1>13, <1>16, <1>19, Ascends
  <2>2. QED
    BY <1>11, <1>18, <2>1
<1>20. QED
  BY <1>3, <1>14, <1>15, <1>16, <1>17, <1>18, <1>19

\* The listing is finite, and so is the conversation.
LEMMA FiniteConversation ==
    ASSUME World
    PROVE  IsFiniteSet(BuildReviewConversation)
<1> DEFINE roots == discoverThreadRoots
           B == BuildReviewConversation
           listing == [i \in DOMAIN posted |-> Listed(i)]
           thread == [r \in roots |-> ReviewThread(r, roots)]
<1>1. IsFiniteSet(DOMAIN posted)
  BY Posted, FS_Interval
<1>2. IsFiniteSet(comments)
  <2>1. listing \in [DOMAIN posted -> comments] /\ \A c \in comments : \E i \in DOMAIN posted : listing[i] = c
    BY DEF comments
  <2> HIDE DEF listing
  <2>2. listing \in Surjection(DOMAIN posted, comments)
    BY <2>1, Fun_IsSurj
  <2>3. QED
    BY <1>1, <2>2, FS_Surjection
<1>3. IsFiniteSet(roots)
  BY <1>2, Roots, FS_Subset
<1>4. thread \in [roots -> B] /\ \A b \in B : \E r \in roots : thread[r] = b
  BY DEF BuildReviewConversation
<1> HIDE DEF thread, B, roots
<1>5. thread \in Surjection(roots, B)
  BY <1>4, Fun_IsSurj
<1>6. QED
  BY <1>3, <1>5, FS_Surjection DEF B

\* What the code puts together is what was said: each thread of the bot's, in
\* full and in order, if it knows its own account.
LEMMA Together ==
    ASSUME World, ToldApart(posted), shape # "flat" \/ Len(posted) <= maxReplyChainDepth + 1
    PROVE  ConversationIsTrue
<1> DEFINE roots == discoverThreadRoots
           own == {ThreadOf(t) : t \in OwnThreads}
           read == {t.msgs : t \in BuildReviewConversation}
<1>1. identities = IF Recognised THEN {Bot} ELSE {}
  BY Identities
<1>2. ASSUME NEW r \in roots
      PROVE  Recognised /\ r.of \in OwnThreads /\ ReviewThread(r, roots).msgs = ThreadOf(r.of)
  <2>1. /\ r.of \in DOMAIN posted /\ posted[r.of].thread = r.of /\ posted[r.of].line > 0
        /\ IsBotAuthor(posted[r.of].author)
    BY RootEntry
  <2>2. ReviewThread(r, roots).msgs = ThreadOf(r.of)
    BY ThreadRead
  <2>3. QED
    BY <1>1, <2>1, <2>2 DEF IsBotAuthor, OwnThreads
<1>3. ASSUME Recognised, NEW t \in OwnThreads
      PROVE  Listed(t) \in roots /\ ReviewThread(Listed(t), roots).msgs = ThreadOf(t)
  <2>1. t \in DOMAIN posted /\ posted[t].thread = t /\ posted[t].line > 0 /\ posted[t].author = Bot
    BY DEF OwnThreads
  <2>2. Listed(t) \in roots
    BY <1>1, <1>3, <2>1, Roots DEF IsBotAuthor
  <2>3. Listed(t).of = t
    BY <2>1, Entries
  <2>4. QED
    BY <1>2, <2>2, <2>3
<1>4. BuildReviewConversation = {ReviewThread(r, roots) : r \in roots}
  BY DEF BuildReviewConversation
<1> HIDE DEF roots
<1>5. Recognised => read = own
  <2>1. ASSUME Recognised, NEW m \in own PROVE m \in read
    <3>1. PICK t \in OwnThreads : m = ThreadOf(t)
      OBVIOUS
    <3>2. Listed(t) \in roots /\ ReviewThread(Listed(t), roots).msgs = m
      BY <1>3, <2>1, <3>1
    <3>3. QED
      BY <1>4, <3>2
  <2>2. ASSUME NEW m \in read PROVE m \in own
    <3>1. PICK r \in roots : m = ReviewThread(r, roots).msgs
      BY <1>4
    <3>2. QED
      BY <1>2, <3>1
  <2>3. QED
    BY <2>1, <2>2
<1>6. ~Recognised => read = {}
  BY <1>2, <1>4
<1>7. QED
  BY <1>5, <1>6 DEF ConversationIsTrue

-----------------------------------------------------------------------------
(* The invariant.                                                          *)

\* A thread the run remembers is one of p's.
Remembered(p, c) ==
    /\ c.msgs \in Seq(Nat) /\ Len(c.msgs) > 0
    /\ \A j \in DOMAIN c.msgs : c.msgs[j] \in DOMAIN p /\ p[c.msgs[j]].thread = c.msgs[1]
    /\ c.line \in Line /\ p[c.msgs[1]].line = c.line
    /\ c.ThreadID = IF shape = "flat" THEN 0 ELSE c.msgs[1]

CInv ==
    /\ World /\ known \in BOOLEAN /\ Len(posted) <= MaxComments
    /\ phase \in {"idle", "reading", "answering", "posting"}
    /\ phase # "answering" => conv = <<>> /\ bots = {}
    /\ bots \subseteq Person \cup {Bot}
    /\ \E n \in Nat : DOMAIN conv = 1..n
    /\ \A k \in DOMAIN conv : Remembered(posted, conv[k])

\* Where nobody quotes a notice, the bot is not mistaken for anybody.
Clear ==
    /\ ToldApart(posted)
    /\ bots \subseteq {Bot}
    /\ \A k \in DOMAIN conv : posted[conv[k].msgs[1]].author = Bot

Inv == CInv /\ (~Quoting => Clear)

LEMMA StillRemembered ==
    ASSUME NEW p, NEW q, Grown(p, q), NEW c, Remembered(p, c)
    PROVE  Remembered(q, c) /\ q[c.msgs[1]].author = p[c.msgs[1]].author
<1>1. 1 \in DOMAIN c.msgs
  BY DEF Remembered
<1>2. c.msgs[1] \in DOMAIN p
  BY <1>1 DEF Remembered
<1>3. QED
  BY <1>2 DEF Remembered, Grown

\* More comments, or a thread closed, disturb nothing the run remembers.
LEMMA MoreIsPosted ==
    ASSUME Inv, UNCHANGED <<shape, known, conv, bots>>,
           phase' \in {"idle", "reading", "answering", "posting"},
           phase' # "answering" => conv = <<>> /\ bots = {},
           InThreads(posted'), Grown(posted, posted'), Len(posted') <= MaxComments,
           ~Quoting => ToldApart(posted')
    PROVE  Inv'
<1>1. World'
  BY DEF Inv, CInv, World
<1>2. \A k \in DOMAIN conv : Remembered(posted', conv[k])
                             /\ posted'[conv[k].msgs[1]].author = posted[conv[k].msgs[1]].author
  BY StillRemembered DEF Inv, CInv
<1>3. \A k \in DOMAIN conv' : Remembered(posted, conv[k])'
  BY <1>2 DEF Remembered
<1>4. CInv'
  BY <1>1, <1>3 DEF Inv, CInv
<1>5. ~Quoting => Clear'
  BY <1>2 DEF Inv, Clear
<1>6. QED
  BY <1>4, <1>5 DEF Inv

LEMMA OneMore ==
    ASSUME Inv, UNCHANGED <<shape, known, conv, bots>>,
           phase' \in {"idle", "reading", "answering", "posting"},
           phase' # "answering" => conv = <<>> /\ bots = {},
           Room, NEW c, Fits(posted, c), ~Quoting => Speaks(posted, c), posted' = Append(posted, c)
    PROVE  Inv'
<1>1. InThreads(posted) /\ Len(posted) \in Nat /\ MaxComments \in Nat /\ Len(posted) < MaxComments
  BY Posted, ConversationAssumption DEF Inv, CInv, World, Room
<1>2. /\ InThreads(posted') /\ Grown(posted, posted') /\ Len(posted') = Len(posted) + 1
      /\ ToldApart(posted) /\ Speaks(posted, c) => ToldApart(posted')
  BY <1>1, Appended
<1>3. Len(posted') <= MaxComments
  BY <1>1, <1>2
<1>4. ~Quoting => ToldApart(posted')
  BY <1>2 DEF Inv, Clear
<1>5. QED
  BY <1>2, <1>3, <1>4, MoreIsPosted

LEMMA NoMore ==
    ASSUME Inv, UNCHANGED <<shape, known, posted, conv, bots>>,
           phase' \in {"idle", "reading", "answering", "posting"},
           phase' # "answering" => conv = <<>> /\ bots = {}
    PROVE  Inv'
<1>1. InThreads(posted') /\ Len(posted') <= MaxComments /\ (~Quoting => ToldApart(posted'))
  BY DEF Inv, CInv, Clear, World
<1>2. Grown(posted, posted')
  BY Posted DEF Grown, Inv, CInv
<1>3. QED
  BY <1>1, <1>2, MoreIsPosted

\* What opens a thread, or answers in one, fits.
LEMMA Opened ==
    ASSUME InThreads(posted), NEW author \in Person \cup {Bot}, NEW said \in Said, NEW line \in Line \cup {0},
           said \in Status => author = Bot
    PROVE  /\ Fits(posted, Opening(author, said, line))
           /\ Opening(author, said, line).author = author /\ Opening(author, said, line).said = said
           /\ Opening(author, said, line).line = line
           /\ Opening(author, said, line).thread = Len(posted) + 1
<1>1. Len(posted) + 1 \in Nat
  BY DEF InThreads
<1>2. QED
  BY <1>1 DEF Opening, Fits, Comment, State

LEMMA AnsweredIn ==
    ASSUME World, NEW author \in Person \cup {Bot}, NEW said \in Said, NEW i \in DOMAIN posted,
           said \in Status => author = Bot
    PROVE  /\ Fits(posted, Answering(author, said, i))
           /\ Answering(author, said, i).author = author /\ Answering(author, said, i).said = said
           /\ Answering(author, said, i).line = posted[i].line
           /\ Answering(author, said, i).thread = posted[i].thread
<1>1. posted[i] \in Comment /\ posted[i].thread \in Nat /\ i \in Nat
  BY Posted
<1>2. posted[i].line \in Line \cup {0}
  BY <1>1 DEF Comment
<1>3. QED
  BY <1>1, <1>2 DEF Answering, Fits, Comment, State

\* A notice is posted, or not.
LEMMA Notices ==
    ASSUME Inv, posted' \in Announced, UNCHANGED <<shape, known, conv, bots>>,
           phase' \in {"idle", "reading", "posting"}, phase # "answering"
    PROVE  Inv'
<1>1. conv = <<>> /\ bots = {}
  BY DEF Inv, CInv
<1>2. CASE posted' = posted
  BY <1>1, <1>2, NoMore
<1>3. CASE Room /\ posted' = Append(posted, Opening(Bot, "notice", 0))
  <2> DEFINE c == Opening(Bot, "notice", 0)
  <2>1. /\ Fits(posted, c) /\ c.said = "notice" /\ c.author = Bot /\ c.line = 0
        /\ c.thread = Len(posted) + 1
    BY Opened DEF Inv, CInv, World, Said
  <2> HIDE DEF c
  <2>2. Speaks(posted, c)
    BY <2>1 DEF Speaks
  <2>3. posted' = Append(posted, c)
    BY <1>3 DEF c
  <2>4. QED
    BY <1>1, <1>3, <2>1, <2>2, <2>3, OneMore
<1>4. QED
  BY <1>2, <1>3 DEF Announced

\* What is read is what is remembered.
LEMMA ReadThread ==
    ASSUME World, NEW r \in discoverThreadRoots, NEW b, b = ReviewThread(r, discoverThreadRoots)
    PROVE  Remembered(posted, b) /\ IsBotAuthor(posted[b.msgs[1]].author)
<1>1. /\ r.of \in DOMAIN posted /\ Listed(r.of) = r /\ posted[r.of].thread = r.of
      /\ posted[r.of].line > 0 /\ IsBotAuthor(posted[r.of].author)
  BY RootEntry
<1>2. /\ b.msgs \in Seq(Nat) /\ Len(b.msgs) > 0 /\ b.msgs[1] = r.of
      /\ \A j \in DOMAIN b.msgs : b.msgs[j] \in DOMAIN posted /\ posted[b.msgs[j]].thread = r.of
  BY ThreadRead
<1>3. b.ThreadID = r.ThreadID /\ b.line = r.Line
  BY DEF ReviewThread
<1>4. r.ThreadID = (IF shape = "flat" THEN 0 ELSE r.of) /\ r.Line = posted[r.of].line
  BY <1>1, Entries
<1>5. posted[r.of].line \in Line
  <2>1. posted[r.of].line \in Line \cup {0}
    BY <1>1, Posted DEF Comment
  <2>2. QED
    BY <1>1, <2>1
<1>6. QED
  BY <1>1, <1>2, <1>3, <1>4, <1>5 DEF Remembered

LEMMA Read ==
    ASSUME Inv, buildConversation
    PROVE  Inv'
<1>1. World /\ UNCHANGED <<shape, known, posted>> /\ phase' = "answering"
  BY DEF Inv, CInv, buildConversation
<1>2. CASE UNCHANGED <<conv, bots>>
  BY <1>1, <1>2, NoMore
<1>3. CASE /\ conv' \in SetToSeqs(BuildReviewConversation)
           /\ bots' = {a \in Person \cup {Bot} : IsBotAuthor(a)}
  <2> DEFINE B == BuildReviewConversation
             n == Cardinality(B)
  <2>1. n \in Nat
    BY <1>1, FiniteConversation, FS_CardinalityType
  <2>2. conv' \in [1..n -> B]
    BY <1>3 DEF SetToSeqs
  <2>3. ASSUME NEW b \in B PROVE Remembered(posted, b) /\ IsBotAuthor(posted[b.msgs[1]].author)
    <3>1. PICK r \in discoverThreadRoots : b = ReviewThread(r, discoverThreadRoots)
      BY DEF BuildReviewConversation
    <3>2. QED
      BY <1>1, <3>1, ReadThread
  <2> HIDE DEF B, n
  <2>4. DOMAIN conv' = 1..n /\ \A k \in DOMAIN conv' : conv'[k] \in B
    BY <2>2
  <2>5. \A k \in DOMAIN conv' : Remembered(posted, conv'[k])
    BY <2>3, <2>4
  <2>6. \A k \in DOMAIN conv' : Remembered(posted, conv[k])'
    BY <1>1, <2>5 DEF Remembered
  <2>7. World' /\ bots' \subseteq Person \cup {Bot}
    BY <1>1, <1>3 DEF World
  <2>8. CInv'
    BY <1>1, <2>1, <2>4, <2>6, <2>7 DEF Inv, CInv
  <2>9. ASSUME ~Quoting PROVE Clear'
    <3>1. ToldApart(posted) /\ identities \subseteq {Bot}
      BY <1>1, <2>9, Identities DEF Inv, Clear
    <3>2. bots' \subseteq {Bot} /\ \A k \in DOMAIN conv' : posted[conv'[k].msgs[1]].author = Bot
      BY <1>3, <2>3, <2>4, <3>1 DEF IsBotAuthor
    <3>3. QED
      BY <1>1, <3>1, <3>2 DEF Clear
  <2>10. QED
    BY <2>8, <2>9 DEF Inv
<1>4. QED
  BY <1>2, <1>3 DEF buildConversation

-----------------------------------------------------------------------------
(* A verdict.                                                              *)

\* A verdict on thread k goes to thread k, or nowhere: nowhere only if the AI
\* did not name the thread.
LEMMA Matched ==
    ASSUME Inv, NEW k \in DOMAIN conv, NEW id \in {k, 0}
    PROVE  LET i == matchResolutionThread(id, conv[k].line)
           IN  (i = {k} \/ i = {}) /\ (id = k => i = {k})
<1>1. PICK n \in Nat : DOMAIN conv = 1..n
  BY DEF Inv, CInv
<1>2. CASE id = k
  BY <1>2 DEF matchResolutionThread
<1>3. CASE id = 0
  <2> DEFINE on == {i \in DOMAIN conv : conv[i].line = conv[k].line}
  <2>1. id \notin DOMAIN conv /\ id # k
    BY <1>1, <1>3
  <2>2. IsFiniteSet(on) /\ k \in on
    <3>1. IsFiniteSet(1..n) /\ on \in SUBSET (1..n)
      BY <1>1, FS_Interval
    <3>2. QED
      BY <3>1, FS_Subset
  <2>3. matchResolutionThread(id, conv[k].line) = IF Cardinality(on) = 1 THEN on ELSE {}
    BY <2>1 DEF matchResolutionThread
  <2> HIDE DEF on
  <2>4. Cardinality(on) = 1 => on = {k}
    BY <2>2, FS_Singleton
  <2>5. QED
    BY <2>1, <2>3, <2>4
<1>4. QED
  BY <1>2, <1>3

\* What q has more than p: at most one comment, the bot's, saying s, in the
\* thread of root or, without threads, on its line; of the others only the
\* root may have changed, in its state.
Delivered(p, q, k, s) ==
    LET root == conv[k].msgs[1]
        own(i) == q[i].author = Bot /\ IF shape = "flat" THEN q[i].line = conv[k].line
                                                      ELSE q[i].thread = root
    IN  /\ InThreads(q) /\ Grown(p, q) /\ (~Quoting => ToldApart(q))
        /\ Len(q) \in {Len(p), Len(p) + 1}
        /\ Len(q) > Len(p) => own(Len(q))
        /\ \A i \in DOMAIN p : q[i] # p[i] => i = root

\* The verdict stands in its thread, below all the run had read.
Stands(q, k, s) ==
    \E i \in DOMAIN q :
        /\ q[i].author = Bot /\ q[i].said = s /\ i >= Last(conv[k].msgs)
        /\ IF shape = "flat" THEN q[i].line = conv[k].line ELSE q[i].thread = conv[k].msgs[1]

LEMMA Reading ==
    ASSUME Inv, NEW k \in DOMAIN conv
    PROVE  /\ Last(conv[k].msgs) \in DOMAIN posted /\ conv[k].msgs[1] \in DOMAIN posted
           /\ posted[Last(conv[k].msgs)].thread = conv[k].msgs[1]
           /\ posted[conv[k].msgs[1]].thread = conv[k].msgs[1]
           /\ conv[k].line \in Line /\ posted[conv[k].msgs[1]].line = conv[k].line
           /\ posted[Last(conv[k].msgs)].line = conv[k].line
           /\ conv[k].ThreadID = (IF shape = "flat" THEN 0 ELSE conv[k].msgs[1])
           /\ conv[k].msgs[1] \in Nat /\ conv[k].msgs[1] >= 1
           /\ ~Quoting => posted[conv[k].msgs[1]].author = Bot
<1> DEFINE m == conv[k].msgs
<1>1. /\ m \in Seq(Nat) /\ Len(m) > 0 /\ \A j \in DOMAIN m : m[j] \in DOMAIN posted /\ posted[m[j]].thread = m[1]
      /\ conv[k].line \in Line /\ posted[m[1]].line = conv[k].line
      /\ conv[k].ThreadID = IF shape = "flat" THEN 0 ELSE m[1]
  BY DEF Inv, CInv, Remembered
<1> HIDE DEF m
<1>2. 1 \in DOMAIN m /\ Len(m) \in DOMAIN m
  BY <1>1
<1>3. m[1] \in DOMAIN posted /\ Last(m) \in DOMAIN posted /\ posted[Last(m)].thread = m[1] /\ posted[m[1]].thread = m[1]
  BY <1>1, <1>2 DEF Last
<1>4. m[1] \in Nat /\ m[1] >= 1
  BY <1>3, Posted DEF Inv, CInv
<1>5. posted[Last(m)].line = posted[m[1]].line
  BY <1>3 DEF Inv, CInv, World, InThreads
<1>6. ~Quoting => posted[m[1]].author = Bot
  BY DEF Inv, Clear, m
<1>7. QED
  BY <1>1, <1>3, <1>4, <1>5, <1>6 DEF m

LEMMA Untouched ==
    ASSUME Inv, NEW k \in DOMAIN conv, NEW s \in Status
    PROVE  Delivered(posted, posted, k, s)
<1>1. InThreads(posted) /\ Len(posted) \in Nat /\ (~Quoting => ToldApart(posted))
  BY Posted DEF Inv, CInv, Clear, World
<1>2. Grown(posted, posted)
  BY <1>1 DEF Grown
<1>3. QED
  BY <1>1, <1>2 DEF Delivered

\* The reply is in the thread, or on its line.
LEMMA Replied ==
    ASSUME Inv, NEW k \in DOMAIN conv, NEW s \in Status
    PROVE  Delivered(posted, postResolutionReply(k, s), k, s) /\ Stands(postResolutionReply(k, s), k, s)
<1> DEFINE root == conv[k].msgs[1]
           c == IF conv[k].ThreadID > 0 THEN Answering(Bot, s, conv[k].ThreadID)
                ELSE Opening(Bot, s, conv[k].line)
           q == Append(posted, c)
<1>1. postResolutionReply(k, s) = q
  BY DEF postResolutionReply
<1>2. /\ s \in Said /\ s # "quoting" /\ s # "notice" /\ Bot \in Person \cup {Bot}
      /\ conv[k].line \in Line \cup {0}
  BY Reading, ConversationAssumption DEF Said
<1>3. World /\ InThreads(posted) /\ Len(posted) \in Nat /\ DOMAIN posted = 1..Len(posted)
  BY Posted DEF Inv, CInv, World
<1>4. /\ root \in DOMAIN posted /\ root >= 1 /\ root \in Nat /\ posted[root].thread = root
      /\ posted[root].line = conv[k].line
      /\ conv[k].ThreadID = (IF shape = "flat" THEN 0 ELSE root)
      /\ Last(conv[k].msgs) \in DOMAIN posted
      /\ ~Quoting => posted[root].author = Bot
  BY Reading
<1>5. /\ Fits(posted, c) /\ (~Quoting => Speaks(posted, c))
      /\ c.author = Bot /\ c.said = s
      /\ IF shape = "flat" THEN c.line = conv[k].line ELSE c.thread = root
  <2> HIDE DEF root
  <2>1. CASE shape = "flat"
    <3>1. c = Opening(Bot, s, conv[k].line)
      BY <1>4, <2>1
    <3> HIDE DEF c
    <3>2. /\ Fits(posted, c) /\ c.author = Bot /\ c.said = s /\ c.line = conv[k].line
          /\ c.thread = Len(posted) + 1
      BY <1>2, <1>3, <3>1, Opened
    <3>3. QED
      BY <1>2, <2>1, <3>2 DEF Speaks
  <2>2. CASE shape # "flat"
    <3>1. c = Answering(Bot, s, root)
      BY <1>4, <2>2
    <3> HIDE DEF c
    <3>2. /\ Fits(posted, c) /\ c.author = Bot /\ c.said = s /\ c.thread = root
      BY <1>2, <1>3, <1>4, <3>1, AnsweredIn
    <3>3. QED
      BY <1>2, <1>4, <2>2, <3>2 DEF Speaks
  <2>3. QED
    BY <2>1, <2>2
<1> HIDE DEF c, root
<1>6. /\ InThreads(q) /\ Grown(posted, q) /\ Len(q) = Len(posted) + 1 /\ q[Len(posted) + 1] = c
      /\ \A i \in DOMAIN posted : q[i] = posted[i]
      /\ ToldApart(posted) /\ Speaks(posted, c) => ToldApart(q)
  BY <1>3, <1>5, Appended
<1> HIDE DEF q
<1>7. ~Quoting => ToldApart(q)
  BY <1>5, <1>6 DEF Inv, Clear
<1>8. Delivered(posted, q, k, s)
  BY <1>3, <1>5, <1>6, <1>7 DEF Delivered, root
<1>9. Stands(q, k, s)
  <2>1. Len(posted) + 1 \in DOMAIN q /\ Len(posted) + 1 >= Last(conv[k].msgs)
    BY <1>3, <1>4, <1>6 DEF InThreads
  <2>2. QED
    BY <1>5, <1>6, <2>1 DEF Stands, root
<1>10. QED
  BY <1>1, <1>8, <1>9

\* The newest message of the thread may be the verdict already.
LEMMA Stood ==
    ASSUME Inv, NEW k \in DOMAIN conv, NEW s \in Status, alreadyAnswered(k, s)
    PROVE  Stands(posted, k, s)
<1> DEFINE i == Last(conv[k].msgs)
<1>1. /\ i \in DOMAIN posted /\ posted[i].thread = conv[k].msgs[1] /\ posted[i].line = conv[k].line
  BY Reading
<1>2. posted[i].said = s /\ posted[i].author = Bot
  BY <1>1, Posted DEF alreadyAnswered, Inv, CInv, Comment
<1>3. i \in Nat
  BY <1>1, Posted DEF Inv, CInv
<1>4. i >= i
  BY <1>3
<1>5. QED
  BY <1>1, <1>2, <1>4 DEF Stands

\* To close the thread takes nothing away from it.
LEMMA ClosedToo ==
    ASSUME Inv, NEW k \in DOMAIN conv, NEW s \in Status, NEW p, Delivered(posted, p, k, s)
    PROVE  /\ Delivered(posted, closeResolvedThread(p, k, s), k, s)
           /\ Stands(p, k, s) => Stands(closeResolvedThread(p, k, s), k, s)
<1> DEFINE root == conv[k].msgs[1]
           state == IF s = "resolved" THEN "fixed" ELSE "closed"
           q == [p EXCEPT ![root].state = state]
<1>1. closeResolvedThread(p, k, s) = p \/ (closeResolvedThread(p, k, s) = q /\ shape # "flat")
  BY Reading DEF closeResolvedThread
<1>2. /\ InThreads(p) /\ Grown(posted, p) /\ (~Quoting => ToldApart(p))
      /\ Len(p) \in {Len(posted), Len(posted) + 1} /\ Len(p) \in Nat /\ Len(posted) \in Nat
      /\ DOMAIN p = 1..Len(p)
  BY Posted DEF Delivered, InThreads, Inv, CInv
<1>3. root \in DOMAIN posted /\ (~Quoting => posted[root].author = Bot)
  BY Reading
<1>4. root \in DOMAIN p /\ (~Quoting => p[root].author = Bot)
  BY <1>2, <1>3 DEF Grown
<1>5. state \in State
  BY DEF State
<1>6. Resets(p, q, root, state)
  BY <1>4, <1>5 DEF Resets
<1> HIDE DEF root, state, q
<1>7. /\ InThreads(q) /\ Grown(p, q) /\ Len(q) = Len(p)
      /\ \A i \in DOMAIN p \ {root} : q[i] = p[i]
      /\ ToldApart(p) /\ p[root].author = Bot => ToldApart(q)
  BY <1>2, <1>4, <1>6, Reset
<1>8. Grown(posted, q)
  BY <1>2, <1>7 DEF Grown
<1>9. \A i \in DOMAIN posted : q[i] # posted[i] => i = root
  <2> SUFFICES ASSUME NEW i \in DOMAIN posted, i # root PROVE q[i] = posted[i]
    OBVIOUS
  <2>1. i \in DOMAIN p \ {root}
    BY <1>2 DEF Grown
  <2>2. p[i] = posted[i]
    BY DEF Delivered, root
  <2>3. QED
    BY <1>7, <2>1, <2>2
<1>10. Len(q) > Len(posted) => /\ q[Len(q)].author = Bot
                              /\ IF shape = "flat" THEN q[Len(q)].line = conv[k].line
                                                   ELSE q[Len(q)].thread = root
  <2> SUFFICES ASSUME Len(q) > Len(posted)
               PROVE  /\ q[Len(q)].author = Bot
                      /\ IF shape = "flat" THEN q[Len(q)].line = conv[k].line
                                           ELSE q[Len(q)].thread = root
    OBVIOUS
  <2>1. Len(p) \in DOMAIN p /\ Len(q) = Len(p) /\ Len(p) > Len(posted)
    <3>1. Len(q) = Len(p)
      BY <1>7
    <3>2. Len(p) > Len(posted) /\ Len(p) \in Nat /\ Len(posted) \in Nat
      BY <1>2, <3>1
    <3>3. Len(p) \in 1..Len(p)
      BY <3>2
    <3>4. DOMAIN p = 1..Len(p)
      BY <1>2
    <3>5. QED
      BY <3>1, <3>2, <3>3, <3>4
  <2>2. /\ p[Len(p)].author = Bot
        /\ IF shape = "flat" THEN p[Len(p)].line = conv[k].line ELSE p[Len(p)].thread = root
    BY <2>1 DEF Delivered, root
  <2>3. QED
    BY <1>7, <2>1, <2>2 DEF Grown
<1>11. Delivered(posted, q, k, s)
  BY <1>2, <1>4, <1>7, <1>8, <1>9, <1>10 DEF Delivered, root
<1>12. ASSUME Stands(p, k, s) PROVE Stands(q, k, s)
  <2>1. PICK i \in DOMAIN p :
            /\ p[i].author = Bot /\ p[i].said = s /\ i >= Last(conv[k].msgs)
            /\ IF shape = "flat" THEN p[i].line = conv[k].line ELSE p[i].thread = conv[k].msgs[1]
    BY <1>12 DEF Stands
  <2>2. QED
    BY <1>7, <2>1 DEF Grown, Stands
<1>13. QED
  BY <1>1, <1>11, <1>12

LEMMA Verdict ==
    ASSUME Inv, NEW k \in DOMAIN conv, NEW s \in Status, NEW replied \in BOOLEAN, NEW id \in {k, 0},
           Resolve(k, id, s, replied)
    PROVE  /\ Delivered(posted, posted', k, s) /\ Len(posted') <= MaxComments
           /\ replied /\ id = k => Stands(posted', k, s)
<1> DEFINE i == matchResolutionThread(id, conv[k].line)
           q == IF alreadyAnswered(k, s) THEN posted ELSE postResolutionReply(k, s)
<1>1. (i = {k} \/ i = {}) /\ (id = k => i = {k})
  BY Matched
<1>2. posted' \in IF i = {} THEN {posted}
                  ELSE LET reply == {IF alreadyAnswered(j, s) THEN posted ELSE postResolutionReply(j, s) : j \in i}
                       IN  IF ~replied THEN {posted} \cup reply
                           ELSE reply \cup {closeResolvedThread(p, j, s) : p \in reply, j \in i}
  BY DEF Resolve
<1>3. Delivered(posted, posted, k, s)
  BY Untouched
<1>4. Delivered(posted, q, k, s) /\ Stands(q, k, s)
  BY <1>3, Replied, Stood
<1>5. Delivered(posted, closeResolvedThread(q, k, s), k, s)
      /\ Stands(closeResolvedThread(q, k, s), k, s)
  BY <1>4, ClosedToo
<1>6. CASE i = {}
  <2>1. posted' = posted /\ id # k
    BY <1>1, <1>2, <1>6
  <2>2. Len(posted') <= MaxComments
    BY <2>1 DEF Inv, CInv
  <2>3. QED
    BY <1>3, <2>1, <2>2
<1>7. CASE i = {k}
  <2>1. {IF alreadyAnswered(j, s) THEN posted ELSE postResolutionReply(j, s) : j \in i} = {q}
    BY <1>7
  <2> HIDE DEF i, q
  <2>2. /\ posted' \in {posted, q, closeResolvedThread(q, k, s)}
        /\ replied => posted' \in {q, closeResolvedThread(q, k, s)}
    BY <1>2, <1>7, <2>1
  <2>3. Delivered(posted, posted', k, s) /\ (replied => Stands(posted', k, s))
    BY <1>3, <1>4, <1>5, <2>2
  <2>4. Len(posted') <= MaxComments
    <3>1. Len(posted') \in {Len(posted), Len(posted) + 1}
      BY <2>3 DEF Delivered
    <3>2. Len(posted) < MaxComments /\ Len(posted) \in Nat /\ MaxComments \in Nat
      BY Posted, ConversationAssumption DEF Resolve, Room, Inv, CInv
    <3>3. QED
      BY <3>1, <3>2
  <2>5. QED
    BY <2>3, <2>4
<1>8. QED
  BY <1>1, <1>6, <1>7

-----------------------------------------------------------------------------
(* Every step keeps the invariant.                                         *)

LEMMA Started == Init => Inv
<1> SUFFICES ASSUME Init PROVE Inv
  OBVIOUS
<1>1. InThreads(posted) /\ Len(posted) = 0
  BY DEF Init, InThreads
<1>2. ToldApart(posted)
  BY DEF Init, ToldApart
<1>3. DOMAIN conv = 1..0 /\ 0 \in Nat /\ MaxComments \in Nat
  BY ConversationAssumption DEF Init
<1>4. QED
  BY <1>1, <1>2, <1>3 DEF Init, Inv, CInv, Clear, World

\* What the bot does.
LEMMA Ran ==
    ASSUME Inv, Run
    PROVE  Inv'
<1>1. CASE postReviewingMarker
  BY <1>1, Notices DEF postReviewingMarker
<1>2. CASE buildConversation
  BY <1>2, Read
<1>3. CASE Answered
  <2>1. /\ UNCHANGED <<shape, known, posted>> /\ phase' = "posting" /\ conv' = <<>> /\ bots' = {}
    BY <1>3 DEF Answered
  <2>2. World' /\ (~Quoting => ToldApart(posted'))
    BY <2>1 DEF Inv, CInv, Clear, World
  <2>3. DOMAIN conv' = 1..0 /\ 0 \in Nat
    BY <2>1
  <2>4. QED
    BY <2>1, <2>2, <2>3 DEF Inv, CInv, Clear
<1>4. CASE postReviewCompleteAnnotation
  BY <1>4, Notices DEF postReviewCompleteAnnotation
<1>5. ASSUME NEW k \in DOMAIN conv, NEW s \in Status, NEW replied \in BOOLEAN, NEW id \in {k, 0},
             Resolve(k, id, s, replied)
      PROVE  Inv'
  <2>1. Delivered(posted, posted', k, s) /\ Len(posted') <= MaxComments
    BY <1>5, Verdict
  <2>2. InThreads(posted') /\ Grown(posted, posted') /\ (~Quoting => ToldApart(posted'))
    BY <2>1 DEF Delivered
  <2>3. UNCHANGED <<shape, known, phase, conv, bots>> /\ phase = "answering"
    BY <1>5 DEF Resolve
  <2>4. QED
    BY <2>1, <2>2, <2>3, MoreIsPosted
<1>6. ASSUME NEW line \in Line, Post(line)
      PROVE  Inv'
  <2> DEFINE c == Opening(Bot, "finding", line)
  <2>1. /\ Fits(posted, c) /\ c.author = Bot /\ c.said = "finding" /\ c.thread = Len(posted) + 1
    BY Opened DEF Inv, CInv, World, Said
  <2>2. Room /\ UNCHANGED <<shape, known, phase, conv, bots>> /\ posted' = Append(posted, c)
    BY <1>6 DEF Post
  <2> HIDE DEF c
  <2>3. Speaks(posted, c)
    BY <2>1 DEF Speaks
  <2>4. QED
    BY <2>1, <2>2, <2>3, OneMore DEF Inv, CInv
<1>7. QED
  BY <1>1, <1>2, <1>3, <1>4, <1>5, <1>6 DEF Run

\* What people do.
LEMMA Spoke ==
    ASSUME Inv, People
    PROVE  Inv'
<1>1. PICK p \in Person : \/ \E line \in Line : Remark(p, line)
                          \/ \E i \in DOMAIN posted : Reply(p, i)
                          \/ Mark(p)
  BY DEF People
<1>2. p # Bot /\ p \in Person \cup {Bot} /\ World /\ InThreads(posted)
  BY ConversationAssumption DEF Inv, CInv, World
<1>3. ASSUME NEW c, Fits(posted, c), c.author = p, c.said \in {"text", "discussing"} \/ Quoting,
             Room, posted' = Append(posted, c), UNCHANGED <<shape, known, phase, conv, bots>>
      PROVE  Inv'
  <2>1. ~Quoting => Speaks(posted, c)
    BY <1>2, <1>3 DEF Speaks
  <2>2. QED
    BY <1>3, <2>1, OneMore DEF Inv, CInv
<1>4. ASSUME NEW line \in Line, Remark(p, line) PROVE Inv'
  <2> DEFINE c == Opening(p, "text", line)
  <2>1. Fits(posted, c) /\ c.author = p /\ c.said = "text"
    BY <1>2, Opened, ConversationAssumption DEF Said
  <2>2. Room /\ UNCHANGED <<shape, known, phase, conv, bots>> /\ posted' = Append(posted, c)
    BY <1>4 DEF Remark
  <2> HIDE DEF c
  <2>3. QED
    BY <1>3, <2>1, <2>2
<1>5. ASSUME NEW i \in DOMAIN posted, Reply(p, i) PROVE Inv'
  <2> DEFINE c == Answering(p, "text", i)
  <2>1. Fits(posted, c) /\ c.author = p /\ c.said = "text"
    BY <1>2, AnsweredIn, ConversationAssumption DEF Said
  <2>2. Room /\ UNCHANGED <<shape, known, phase, conv, bots>> /\ posted' = Append(posted, c)
    BY <1>5 DEF Reply
  <2> HIDE DEF c
  <2>3. QED
    BY <1>3, <2>1, <2>2
<1>6. ASSUME Mark(p) PROVE Inv'
  <2>1. PICK said \in {"discussing", "quoting"} :
            (said = "quoting" => Quoting) /\ posted' = Append(posted, Opening(p, said, 0))
    BY <1>6 DEF Mark
  <2> DEFINE c == Opening(p, said, 0)
  <2>2. Fits(posted, c) /\ c.author = p /\ c.said = said
    BY <1>2, Opened, ConversationAssumption DEF Said
  <2>3. Room /\ UNCHANGED <<shape, known, phase, conv, bots>> /\ posted' = Append(posted, c)
    BY <1>6, <2>1 DEF Mark
  <2> HIDE DEF c
  <2>4. QED
    BY <1>3, <2>1, <2>2, <2>3
<1>7. QED
  BY <1>1, <1>4, <1>5, <1>6

LEMMA Inductive == Spec => []Inv
<1>1. Inv /\ [Next]_vars => Inv'
  <2> SUFFICES ASSUME Inv, [Next]_vars PROVE Inv'
    OBVIOUS
  <2>1. CASE Run
    BY <2>1, Ran
  <2>2. CASE People
    BY <2>2, Spoke
  <2>3. CASE UNCHANGED vars
    BY <2>3, NoMore DEF vars, Inv, CInv
  <2>4. QED
    BY <2>1, <2>2, <2>3 DEF Next
<1>2. QED
  BY Started, <1>1, PTL DEF Spec

-----------------------------------------------------------------------------
(* The theorems.                                                           *)

\* The types: what is posted is in threads, in the order it was made, and a run
\* remembers comments that there are, and only until it has answered.
THEOREM Types == Spec => []TypeOK
<1>1. Inv => TypeOK
  <2> SUFFICES ASSUME Inv PROVE TypeOK
    OBVIOUS
  <2>1. World /\ InThreads(posted)
    BY DEF Inv, CInv, World
  <2>2. ASSUME NEW i \in DOMAIN posted
        PROVE  /\ posted[i].author \in Person \cup {Bot} /\ posted[i].said \in Said
               /\ posted[i].line \in Line \cup {0} /\ posted[i].state \in State
               /\ posted[i].thread \in 1..i /\ posted[i].parent \in 0..i - 1
    <3>1. posted[i] \in Comment
      BY <2>1, Posted
    <3>2. posted[i].thread \in 1..i /\ posted[i].parent \in 0..i - 1
      BY <2>1 DEF InThreads
    <3>3. QED
      BY <3>1, <3>2 DEF Comment
  <2>3. \A k \in DOMAIN conv : conv[k].line \in Line /\ Range(conv[k].msgs) \subseteq DOMAIN posted
    BY DEF Inv, CInv, Remembered, Range
  <2>4. QED
    BY <2>1, <2>2, <2>3 DEF TypeOK, Inv, CInv, World
<1>2. QED
  BY Inductive, <1>1, PTL

\* Where nobody quotes a notice, the bot answers and closes only threads that it
\* opened: people's threads are theirs (applyThreadResolutions).
THEOREM OwnThreadsOnly ==
    ASSUME ~Quoting
    PROVE  Spec => []OnlyOwnThreads
<1>1. Inv => OnlyOwnThreads
  BY DEF Inv, Clear, ToldApart, OnlyOwnThreads
<1>2. QED
  BY Inductive, <1>1, PTL

\* Whoever quotes what, and however long the chains of replies are, the code
\* mixes nothing up: what it takes for a thread starts with the comment that
\* opened an inline one, holds comments of that thread only, and has them in the
\* order they were made; and it takes no thread for two.
Excerpts ==
    /\ \A c \in BuildReviewConversation :
        /\ Len(c.msgs) > 0 /\ c.msgs[1] \in DOMAIN posted /\ posted[c.msgs[1]].line = c.line /\ c.line > 0
        /\ \A j \in DOMAIN c.msgs :
              c.msgs[j] \in DOMAIN posted /\ posted[c.msgs[j]].thread = c.msgs[1]
        /\ \A i, j \in DOMAIN c.msgs : i < j => c.msgs[i] < c.msgs[j]
    /\ \A c, d \in BuildReviewConversation : c.msgs[1] = d.msgs[1] => c = d

\* So it is with any history (conversation.go: BuildReviewConversation).
THEOREM NothingMixedUp == Spec => []Excerpts
<1>1. ASSUME World PROVE Excerpts
  <2>1. ASSUME NEW c \in BuildReviewConversation
        PROVE  /\ \E r \in discoverThreadRoots : c = ReviewThread(r, discoverThreadRoots) /\ c.msgs[1] = r.of
               /\ Len(c.msgs) > 0 /\ c.msgs[1] \in DOMAIN posted
               /\ posted[c.msgs[1]].line = c.line /\ c.line > 0
               /\ \A j \in DOMAIN c.msgs :
                     c.msgs[j] \in DOMAIN posted /\ posted[c.msgs[j]].thread = c.msgs[1]
               /\ \A i, j \in DOMAIN c.msgs : i < j => c.msgs[i] < c.msgs[j]
    <3>1. PICK r \in discoverThreadRoots : c = ReviewThread(r, discoverThreadRoots)
      BY DEF BuildReviewConversation
    <3>2. /\ c.msgs \in Seq(Nat) /\ Len(c.msgs) > 0 /\ c.msgs[1] = r.of
          /\ \A j \in DOMAIN c.msgs : c.msgs[j] \in DOMAIN posted /\ posted[c.msgs[j]].thread = r.of
          /\ \A i, j \in DOMAIN c.msgs : i < j => c.msgs[i] < c.msgs[j]
      BY <1>1, <3>1, ThreadRead
    <3>3. Remembered(posted, c)
      BY <1>1, <3>1, ReadThread
    <3>4. 1 \in DOMAIN c.msgs
      BY <3>2
    <3>5. c.line \in Line /\ posted[c.msgs[1]].line = c.line
      BY <3>3 DEF Remembered
    <3>6. c.line > 0
      <4>1. c.line \in Nat /\ c.line # 0
        BY <3>5, ConversationAssumption
      <4>2. QED
        BY <4>1
    <3>7. QED
      BY <3>1, <3>2, <3>4, <3>5, <3>6
  <2>2. ASSUME NEW c \in BuildReviewConversation, NEW d \in BuildReviewConversation,
               c.msgs[1] = d.msgs[1]
        PROVE  c = d
    <3>1. PICK r \in discoverThreadRoots : c = ReviewThread(r, discoverThreadRoots) /\ c.msgs[1] = r.of
      BY <2>1
    <3>2. PICK q \in discoverThreadRoots : d = ReviewThread(q, discoverThreadRoots) /\ d.msgs[1] = q.of
      BY <2>1
    <3>3. Listed(r.of) = r /\ Listed(q.of) = q
      BY <1>1, RootEntry
    <3>4. QED
      BY <2>2, <3>1, <3>2, <3>3
  <2>3. QED
    BY <2>1, <2>2 DEF Excerpts
<1>2. Inv => World
  BY DEF Inv, CInv
<1>3. QED
  BY Inductive, <1>1, <1>2, PTL

\* Where nobody quotes a notice, and providers have threads or chains of replies
\* are no longer than the code follows (maxReplyChainDepth), the conversation
\* put together is the one there was.
THEOREM TrueConversation ==
    ASSUME ~Quoting, "flat" \in Shapes => MaxComments <= maxReplyChainDepth + 1
    PROVE  Spec => []ConversationIsTrue
<1>1. Inv => ConversationIsTrue
  <2> SUFFICES ASSUME Inv PROVE ConversationIsTrue
    OBVIOUS
  <2>1. World /\ ToldApart(posted)
    BY DEF Inv, CInv, Clear
  <2>2. shape # "flat" \/ Len(posted) <= maxReplyChainDepth + 1
    <3>1. /\ Len(posted) \in Nat /\ MaxComments \in Nat /\ Len(posted) <= MaxComments
          /\ shape \in Shapes
      BY <2>1, Posted, ConversationAssumption DEF Inv, CInv, World
    <3>2. QED
      BY <3>1 DEF maxReplyChainDepth
  <2>3. QED
    BY <2>1, <2>2, Together
<1>2. QED
  BY Inductive, <1>1, PTL

\* A verdict goes to the thread it is about, and one that names its thread and
\* is sent stands there, whoever the run takes for the bot
\* (applyThreadResolutions, matchResolutionThread).
THEOREM VerdictsReachTheirThreads == Spec => VerdictReachesItsThread
<1> DEFINE Reaches == \A k \in DOMAIN conv, s \in Status, replied \in BOOLEAN : \A id \in {k, 0} :
        Resolve(k, id, s, replied) =>
            LET root == conv[k].msgs[1]
                own(i) == posted'[i].author = Bot /\
                          IF shape = "flat" THEN posted'[i].line = conv[k].line
                          ELSE posted'[i].thread = root
            IN  /\ Len(posted') > Len(posted) => own(Len(posted'))
                /\ \A i \in DOMAIN posted : posted'[i] # posted[i] => i = root
                /\ replied /\ id = k =>
                      \E i \in DOMAIN posted' :
                         own(i) /\ posted'[i].said = s /\ i >= Last(conv[k].msgs)
<1>1. Inv => Reaches
  <2> SUFFICES ASSUME Inv, NEW k \in DOMAIN conv, NEW s \in Status, NEW replied \in BOOLEAN,
                      NEW id \in {k, 0}, Resolve(k, id, s, replied)
               PROVE  LET root == conv[k].msgs[1]
                          own(i) == posted'[i].author = Bot /\
                                    IF shape = "flat" THEN posted'[i].line = conv[k].line
                                    ELSE posted'[i].thread = root
                      IN  /\ Len(posted') > Len(posted) => own(Len(posted'))
                          /\ \A i \in DOMAIN posted : posted'[i] # posted[i] => i = root
                          /\ replied /\ id = k =>
                                \E i \in DOMAIN posted' :
                                   own(i) /\ posted'[i].said = s /\ i >= Last(conv[k].msgs)
    OBVIOUS
  <2>1. Delivered(posted, posted', k, s) /\ (replied /\ id = k => Stands(posted', k, s))
    BY Verdict
  <2>2. QED
    BY <2>1 DEF Delivered, Stands
<1>2. QED
  BY Inductive, <1>1, PTL DEF VerdictReachesItsThread
=============================================================================
