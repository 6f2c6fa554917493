---------------------------- MODULE QueueProofs -----------------------------
(* Facts about queues of messages that the proofs of the models share.     *)
EXTENDS Queues, Integers, SequencesExt, SequenceTheorems, FiniteSetTheorems,
        WellFoundedInduction, TLAPS

(* A set of numbers that is not empty has a least one.  This stands in for *)
(* the induction rule, which the provers cannot instantiate.               *)
LEMMA LeastNumber ==
    ASSUME NEW T \in SUBSET Nat, T # {}
    PROVE  \E x \in T : \A y \in T : x <= y
<1>1. IsWellFoundedOn(OpToRel(<, Nat), Nat)
    BY NatLessThanWellFounded
<1>2. PICK x \in T : \A y \in T : <<y, x>> \notin OpToRel(<, Nat)
    BY <1>1, WFMin
<1>3. \A y \in T : ~(y < x)
    BY <1>2 DEF OpToRel
<1> QED
    BY <1>3

(* Induction on the naturals, as a fact about sets of numbers. *)
LEMMA Induction ==
    ASSUME NEW T \in SUBSET Nat, 0 \in T, \A n \in T : n + 1 \in T
    PROVE  T = Nat
<1> SUFFICES ASSUME T # Nat PROVE FALSE
    OBVIOUS
<1>1. PICK x \in Nat \ T : \A y \in Nat \ T : x <= y
    BY LeastNumber
<1>2. x - 1 \in Nat /\ x - 1 \in T
    BY <1>1
<1> QED
    BY <1>1, <1>2

----------------------------------------------------------------------------
(* A message at the end of a queue. *)
LEMMA AppendQueue ==
    ASSUME NEW S, NEW q \in Seq(S), NEW a \in S
    PROVE  /\ Append(q, a) \in Seq(S)
           /\ \A m : Queued(m, Append(q, a)) <=> Queued(m, q) \/ m = a
           /\ \A m : Once(m, q) /\ ~(m = a /\ Queued(m, q)) => Once(m, Append(q, a))
           /\ \A m, n : Ahead(m, n, q) /\ m # n /\ ~(m = a /\ Queued(n, q))
                            => Ahead(m, n, Append(q, a))
<1>1. /\ Append(q, a) \in Seq(S)
      /\ DOMAIN Append(q, a) = 1 .. Len(q) + 1 /\ DOMAIN q = 1 .. Len(q) /\ Len(q) \in Nat
      /\ \A i \in 1 .. Len(q) : Append(q, a)[i] = q[i]
      /\ Append(q, a)[Len(q) + 1] = a
    OBVIOUS
<1> DEFINE r == Append(q, a)
<1> HIDE DEF r
<1>2. /\ DOMAIN r = 1 .. Len(q) + 1
      /\ \A i \in 1 .. Len(q) : r[i] = q[i]
      /\ r[Len(q) + 1] = a
    BY <1>1 DEF r
<1>3. \A m : Queued(m, r) <=> Queued(m, q) \/ m = a
    BY <1>1, <1>2 DEF Queued
<1>4. \A m : Once(m, q) /\ ~(m = a /\ Queued(m, q)) => Once(m, r)
    BY <1>1, <1>2 DEF Once, Queued
<1>5. \A m, n : Ahead(m, n, q) /\ m # n /\ ~(m = a /\ Queued(n, q)) => Ahead(m, n, r)
    BY <1>1, <1>2 DEF Ahead, Queued
<1> QED
    BY <1>1, <1>3, <1>4, <1>5 DEF r

(* The queue once its first message was delivered. *)
LEMMA TailQueue ==
    ASSUME NEW S, NEW q \in Seq(S), q # <<>>
    PROVE  /\ Tail(q) \in Seq(S)
           /\ Queued(Head(q), q)
           /\ \A m : Queued(m, Tail(q)) => Queued(m, q)
           /\ \A m : Queued(m, q) => Queued(m, Tail(q)) \/ m = Head(q)
           /\ \A m : Once(m, q) => Once(m, Tail(q)) /\ ~(m = Head(q) /\ Queued(m, Tail(q)))
           /\ \A m, n : Ahead(m, n, q) =>
                Ahead(m, n, Tail(q)) /\ (Head(q) = n => ~Queued(m, q))
<1> DEFINE r == Tail(q)
<1>1. /\ r \in Seq(S)
      /\ DOMAIN r = 1 .. Len(q) - 1 /\ DOMAIN q = 1 .. Len(q) /\ Len(q) \in Nat \ {0}
      /\ \A i \in 1 .. Len(q) - 1 : r[i] = q[i + 1]
      /\ q[1] = Head(q)
    OBVIOUS
<1> HIDE DEF r
<1>2. Queued(Head(q), q) /\ \A m : Queued(m, r) => Queued(m, q)
    BY <1>1 DEF Queued
<1>3. \A m : Queued(m, q) => Queued(m, r) \/ m = Head(q)
    <2> SUFFICES ASSUME NEW m, NEW i \in 1 .. Len(q), q[i] = m, m # Head(q) PROVE Queued(m, r)
        BY <1>1 DEF Queued
    <2>1. i - 1 \in DOMAIN r /\ r[i - 1] = m
        BY <1>1
    <2> QED
        BY <2>1 DEF Queued
<1>a. \A i \in DOMAIN r : i + 1 \in DOMAIN q /\ r[i] = q[i + 1] /\ i \in Nat /\ i + 1 # 1
    BY <1>1
<1>4. \A m : Once(m, q) => Once(m, r) /\ ~(m = Head(q) /\ Queued(m, r))
    <2> SUFFICES ASSUME NEW m, Once(m, q) PROVE Once(m, r) /\ ~(m = Head(q) /\ Queued(m, r))
        OBVIOUS
    <2>1. ASSUME NEW i \in DOMAIN r, NEW j \in DOMAIN r, r[i] = m, r[j] = m PROVE i = j
        <3>1. i + 1 = j + 1
            BY <1>a, <2>1 DEF Once
        <3> QED
            BY <1>a, <3>1
    <2>2. ASSUME NEW i \in DOMAIN r, r[i] = m, m = Head(q) PROVE FALSE
        <3>1. i + 1 = 1
            BY <1>1, <1>a, <2>2 DEF Once
        <3> QED
            BY <1>a, <3>1
    <2> QED
        BY <2>1, <2>2 DEF Once, Queued
<1>5. \A m, n : Ahead(m, n, q) => Ahead(m, n, r) /\ (Head(q) = n => ~Queued(m, q))
    <2> SUFFICES ASSUME NEW m, NEW n, Ahead(m, n, q)
                 PROVE  Ahead(m, n, r) /\ (Head(q) = n => ~Queued(m, q))
        OBVIOUS
    <2>1. ASSUME NEW i \in DOMAIN r, NEW j \in DOMAIN r, r[i] = m, r[j] = n PROVE i < j
        <3>1. i + 1 < j + 1
            BY <1>a, <2>1 DEF Ahead
        <3> QED
            BY <1>a, <3>1
    <2>2. ASSUME NEW i \in DOMAIN q, q[i] = m, Head(q) = n PROVE FALSE
        <3>1. i < 1
            BY <1>1, <2>2 DEF Ahead
        <3> QED
            BY <1>1, <3>1
    <2> QED
        BY <2>1, <2>2 DEF Ahead, Queued
<1> QED
    BY <1>1, <1>2, <1>3, <1>4, <1>5 DEF r

(* Several messages at the end of a queue. *)
LEMMA ConcatQueue ==
    ASSUME NEW S, NEW q \in Seq(S), NEW t \in Seq(S)
    PROVE  /\ q \o t \in Seq(S)
           /\ \A m : Queued(m, q \o t) <=> Queued(m, q) \/ Queued(m, t)
           /\ \A m : Once(m, q) /\ Once(m, t) /\ ~(Queued(m, q) /\ Queued(m, t))
                        => Once(m, q \o t)
           /\ \A m, n : Ahead(m, n, q) /\ Ahead(m, n, t) /\ ~(Queued(n, q) /\ Queued(m, t))
                        => Ahead(m, n, q \o t)
<1> DEFINE r == q \o t
<1>1. /\ r \in Seq(S) /\ DOMAIN r = 1 .. Len(q) + Len(t)
      /\ DOMAIN q = 1 .. Len(q) /\ DOMAIN t = 1 .. Len(t)
      /\ Len(q) \in Nat /\ Len(t) \in Nat
      /\ \A i \in 1 .. Len(q) : r[i] = q[i]
      /\ \A i \in 1 .. Len(t) : r[Len(q) + i] = t[i]
    OBVIOUS
<1>2. \A i \in DOMAIN r : i \in DOMAIN q \/ (i - Len(q) \in DOMAIN t /\ r[i] = t[i - Len(q)])
    <2> SUFFICES ASSUME NEW i \in DOMAIN r, i \notin DOMAIN q
                 PROVE  i - Len(q) \in DOMAIN t /\ r[i] = t[i - Len(q)]
        OBVIOUS
    <2>1. i - Len(q) \in DOMAIN t
        BY <1>1
    <2> HIDE DEF r
    <2>2. r[Len(q) + (i - Len(q))] = t[i - Len(q)]
        BY <1>1, <2>1
    <2> QED
        BY <1>1, <2>1, <2>2
<1> HIDE DEF r
<1>3. \A m : Queued(m, r) <=> Queued(m, q) \/ Queued(m, t)
    <2>1. ASSUME NEW m, Queued(m, t) PROVE Queued(m, r)
        <3>1. PICK i \in DOMAIN t : t[i] = m
            BY <2>1 DEF Queued
        <3>2. Len(q) + i \in DOMAIN r /\ r[Len(q) + i] = m
            BY <1>1, <3>1
        <3> QED
            BY <3>2 DEF Queued
    <2>2. \A m : Queued(m, q) => Queued(m, r)
        BY <1>1 DEF Queued
    <2>3. \A m : Queued(m, r) => Queued(m, q) \/ Queued(m, t)
        BY <1>1, <1>2 DEF Queued
    <2> QED
        BY <2>1, <2>2, <2>3
<1>4. \A m : Once(m, q) /\ Once(m, t) /\ ~(Queued(m, q) /\ Queued(m, t)) => Once(m, r)
    <2> SUFFICES ASSUME NEW m, Once(m, q), Once(m, t), ~(Queued(m, q) /\ Queued(m, t)),
                        NEW i \in DOMAIN r, NEW j \in DOMAIN r, r[i] = m, r[j] = m
                 PROVE  i = j
        BY DEF Once
    <2>1. CASE i \in DOMAIN q /\ j \in DOMAIN q
        BY <1>1, <2>1 DEF Once
    <2>2. CASE i \notin DOMAIN q /\ j \notin DOMAIN q
        <3>1. /\ i - Len(q) \in DOMAIN t /\ t[i - Len(q)] = m
              /\ j - Len(q) \in DOMAIN t /\ t[j - Len(q)] = m
            BY <1>2, <2>2
        <3>2. i - Len(q) = j - Len(q)
            BY <3>1 DEF Once
        <3> QED
            BY <1>1, <3>2
    <2>3. CASE (i \in DOMAIN q) # (j \in DOMAIN q)
        <3>1. Queued(m, q) /\ Queued(m, t)
            BY <1>1, <1>2, <2>3 DEF Queued
        <3> QED
            BY <3>1
    <2> QED
        BY <2>1, <2>2, <2>3
<1>5. \A m, n : Ahead(m, n, q) /\ Ahead(m, n, t) /\ ~(Queued(n, q) /\ Queued(m, t))
                    => Ahead(m, n, r)
    <2> SUFFICES ASSUME NEW m, NEW n, Ahead(m, n, q), Ahead(m, n, t),
                        ~(Queued(n, q) /\ Queued(m, t)),
                        NEW i \in DOMAIN r, NEW j \in DOMAIN r, r[i] = m, r[j] = n
                 PROVE  i < j
        BY DEF Ahead
    <2>1. CASE i \in DOMAIN q /\ j \in DOMAIN q
        BY <1>1, <2>1 DEF Ahead
    <2>2. CASE i \notin DOMAIN q /\ j \notin DOMAIN q
        <3>1. /\ i - Len(q) \in DOMAIN t /\ t[i - Len(q)] = m
              /\ j - Len(q) \in DOMAIN t /\ t[j - Len(q)] = n
            BY <1>2, <2>2
        <3>2. i - Len(q) < j - Len(q)
            BY <3>1 DEF Ahead
        <3> QED
            BY <1>1, <3>2
    <2>3. CASE i \in DOMAIN q /\ j \notin DOMAIN q
        BY <1>1, <2>3
    <2>4. CASE i \notin DOMAIN q /\ j \in DOMAIN q
        <3>1. Queued(n, q) /\ Queued(m, t)
            BY <1>1, <1>2, <2>4 DEF Queued
        <3> QED
            BY <3>1
    <2> QED
        BY <2>1, <2>2, <2>3, <2>4
<1> QED
    BY <1>1, <1>3, <1>4, <1>5 DEF r

----------------------------------------------------------------------------
(* r has messages of q, in their order. *)
Thinned(r, q) ==
    \E f \in [DOMAIN r -> DOMAIN q] :
        /\ \A i \in DOMAIN r : r[i] = q[f[i]]
        /\ \A i, j \in DOMAIN r : i < j => f[i] < f[j]

(* Taking messages out of a queue keeps the order of the others. *)
LEMMA ThinnedQueue ==
    ASSUME NEW S, NEW q \in Seq(S), NEW r \in Seq(S), Thinned(r, q)
    PROVE  /\ \A m : Queued(m, r) => Queued(m, q)
           /\ \A m : Once(m, q) => Once(m, r)
           /\ \A m, n : Ahead(m, n, q) => Ahead(m, n, r)
<1>1. PICK f \in [DOMAIN r -> DOMAIN q] :
            /\ \A i \in DOMAIN r : r[i] = q[f[i]]
            /\ \A i, j \in DOMAIN r : i < j => f[i] < f[j]
    BY DEF Thinned
<1>2. DOMAIN r \subseteq Nat /\ DOMAIN q \subseteq Nat
    OBVIOUS
<1>3. \A m : Queued(m, r) => Queued(m, q)
    BY <1>1 DEF Queued
<1>4. \A i, j \in DOMAIN r : f[i] = f[j] => i = j
    <2> SUFFICES ASSUME NEW i \in DOMAIN r, NEW j \in DOMAIN r, f[i] = f[j], i # j PROVE FALSE
        OBVIOUS
    <2>1. f[i] \in Nat /\ f[j] \in Nat /\ (i < j \/ j < i)
        BY <1>1, <1>2
    <2> QED
        BY <1>1, <2>1
<1>5. \A i, j \in DOMAIN r : f[i] < f[j] => i < j
    <2> SUFFICES ASSUME NEW i \in DOMAIN r, NEW j \in DOMAIN r, f[i] < f[j], ~(i < j)
                 PROVE  FALSE
        OBVIOUS
    <2>1. f[i] \in Nat /\ f[j] \in Nat /\ (i = j \/ j < i)
        BY <1>1, <1>2
    <2> QED
        BY <1>1, <2>1
<1>6. \A m : Once(m, q) => Once(m, r)
    <2> SUFFICES ASSUME NEW m, Once(m, q), NEW i \in DOMAIN r, NEW j \in DOMAIN r,
                        r[i] = m, r[j] = m
                 PROVE  i = j
        BY DEF Once
    <2>1. f[i] = f[j]
        BY <1>1 DEF Once
    <2> QED
        BY <1>4, <2>1
<1>7. \A m, n : Ahead(m, n, q) => Ahead(m, n, r)
    <2> SUFFICES ASSUME NEW m, NEW n, Ahead(m, n, q), NEW i \in DOMAIN r, NEW j \in DOMAIN r,
                        r[i] = m, r[j] = n
                 PROVE  i < j
        BY DEF Ahead
    <2>1. f[i] < f[j]
        BY <1>1 DEF Ahead
    <2> QED
        BY <1>5, <2>1
<1> QED
    BY <1>3, <1>6, <1>7

(* One message less: those before it stay where they are, the others move  *)
(* up.                                                                     *)
LEMMA RemoveAtQueue ==
    ASSUME NEW S, NEW q \in Seq(S), NEW k \in 1 .. Len(q)
    PROVE  /\ RemoveAt(q, k) \in Seq(S) /\ DOMAIN RemoveAt(q, k) = 1 .. Len(q) - 1
           /\ \A i \in 1 .. Len(q) - 1 :
                RemoveAt(q, k)[i] = IF i < k THEN q[i] ELSE q[i + 1]
<1> DEFINE b == SubSeq(q, 1, k - 1)
           t == SubSeq(q, k + 1, Len(q))
           r == b \o t
<1>1. Len(q) \in Nat /\ \A i \in 1 .. Len(q) : q[i] \in S
    OBVIOUS
<1>2. b \in Seq(S) /\ Len(b) = k - 1 /\ \A i \in 1 .. k - 1 : b[i] = q[i]
    <2>1. 1 \in Int /\ k - 1 \in Int /\ \A i \in 1 .. k - 1 : q[i] \in S
        BY <1>1
    <2> QED
        BY <1>1, <2>1, SubSeqProperties
<1>3. t \in Seq(S) /\ Len(t) = Len(q) - k /\ \A i \in 1 .. Len(q) - k : t[i] = q[k + i]
    <2>1. k + 1 \in Int /\ Len(q) \in Int /\ \A i \in k + 1 .. Len(q) : q[i] \in S
        BY <1>1
    <2> HIDE DEF t
    <2>2. /\ t \in Seq(S)
          /\ Len(t) = IF k + 1 <= Len(q) THEN Len(q) - (k + 1) + 1 ELSE 0
          /\ \A i \in 1 .. Len(q) - (k + 1) + 1 : t[i] = q[k + 1 + i - 1]
        BY <2>1, SubSeqProperties DEF t
    <2>3. Len(t) = Len(q) - k
        BY <1>1, <2>2
    <2>4. ASSUME NEW i \in 1 .. Len(q) - k PROVE t[i] = q[k + i]
        <3>1. i \in 1 .. Len(q) - (k + 1) + 1 /\ k + 1 + i - 1 = k + i
            BY <1>1
        <3> QED
            BY <2>2, <3>1
    <2> QED
        BY <2>2, <2>3, <2>4
<1> HIDE DEF b, t
<1>4. /\ r \in Seq(S) /\ Len(r) = Len(b) + Len(t)
      /\ \A i \in 1 .. Len(b) : r[i] = b[i]
      /\ \A i \in 1 .. Len(t) : r[Len(b) + i] = t[i]
    <2>1. b \in Seq(S) /\ t \in Seq(S)
        BY <1>2, <1>3
    <2> QED
        BY <2>1
<1> HIDE DEF r
<1>5. Len(r) = Len(q) - 1 /\ DOMAIN r = 1 .. Len(q) - 1
    BY <1>1, <1>2, <1>3, <1>4
<1>6. ASSUME NEW i \in 1 .. Len(q) - 1, i < k PROVE r[i] = q[i]
    <2>1. i \in 1 .. k - 1
        BY <1>1, <1>6
    <2> QED
        BY <1>2, <1>4, <2>1
<1>7. ASSUME NEW i \in 1 .. Len(q) - 1, ~(i < k) PROVE r[i] = q[i + 1]
    <2>1. i + 1 - k \in 1 .. Len(q) - k
        BY <1>1, <1>7
    <2>2. r[k - 1 + (i + 1 - k)] = q[k + (i + 1 - k)]
        BY <1>2, <1>3, <1>4, <2>1
    <2>3. k - 1 + (i + 1 - k) = i /\ k + (i + 1 - k) = i + 1
        OBVIOUS
    <2> QED
        BY <2>2, <2>3
<1> QED
    BY <1>4, <1>5, <1>6, <1>7 DEF r, b, t, RemoveAt

(* A message that is delivered leaves the others, in their order. *)
LEMMA DeliverQueue ==
    ASSUME NEW S, NEW q \in Seq(S), NEW k \in 1 .. Len(q)
    PROVE  /\ RemoveAt(q, k) \in Seq(S)
           /\ \A m : Queued(m, RemoveAt(q, k)) => Queued(m, q)
           /\ \A m : Once(m, q) => Once(m, RemoveAt(q, k))
           /\ Once(q[k], q) => ~Queued(q[k], RemoveAt(q, k))
<1> DEFINE r == RemoveAt(q, k)
           f == [i \in DOMAIN r |-> IF i < k THEN i ELSE i + 1]
<1>0. DOMAIN q = 1 .. Len(q) /\ Len(q) \in Nat
    OBVIOUS
<1>1. /\ r \in Seq(S) /\ DOMAIN r = 1 .. Len(q) - 1
      /\ \A i \in 1 .. Len(q) - 1 : r[i] = IF i < k THEN q[i] ELSE q[i + 1]
    BY RemoveAtQueue
<1> HIDE DEF r
<1>2. f \in [DOMAIN r -> DOMAIN q]
    BY <1>0, <1>1
<1>3. \A i \in DOMAIN r : r[i] = q[f[i]] /\ f[i] # k
    BY <1>0, <1>1
<1>4. \A i, j \in DOMAIN r : i < j => f[i] < f[j]
    BY <1>0, <1>1
<1> HIDE DEF f
<1>5. Thinned(r, q)
    BY <1>2, <1>3, <1>4 DEF Thinned
<1>6. ASSUME Once(q[k], q), NEW i \in DOMAIN r, r[i] = q[k] PROVE FALSE
    BY <1>0, <1>2, <1>3, <1>6 DEF Once
<1> QED
    BY <1>1, <1>5, <1>6, ThinnedQueue DEF Queued, r

(* One message more: those from its position on move down. *)
LEMMA InsertAtQueue ==
    ASSUME NEW S, NEW q \in Seq(S), NEW a \in S, NEW k \in 1 .. Len(q) + 1
    PROVE  /\ InsertAt(q, k, a) \in Seq(S) /\ DOMAIN InsertAt(q, k, a) = 1 .. Len(q) + 1
           /\ \A i \in 1 .. Len(q) + 1 :
                InsertAt(q, k, a)[i] = IF i < k THEN q[i] ELSE IF i = k THEN a ELSE q[i - 1]
<1> DEFINE b == SubSeq(q, 1, k - 1)
           t == SubSeq(q, k, Len(q))
           c == b \o <<a>>
           r == c \o t
<1>1. Len(q) \in Nat /\ \A i \in 1 .. Len(q) : q[i] \in S
    OBVIOUS
<1>2. b \in Seq(S) /\ Len(b) = k - 1 /\ \A i \in 1 .. k - 1 : b[i] = q[i]
    <2>1. 1 \in Int /\ k - 1 \in Int /\ \A i \in 1 .. k - 1 : q[i] \in S
        BY <1>1
    <2> QED
        BY <1>1, <2>1, SubSeqProperties
<1>3. t \in Seq(S) /\ Len(t) = Len(q) - k + 1 /\ \A i \in 1 .. Len(q) - k + 1 : t[i] = q[k + i - 1]
    <2>1. k \in Int /\ Len(q) \in Int /\ \A i \in k .. Len(q) : q[i] \in S
        BY <1>1
    <2> HIDE DEF t
    <2>2. /\ t \in Seq(S)
          /\ Len(t) = IF k <= Len(q) THEN Len(q) - k + 1 ELSE 0
          /\ \A i \in 1 .. Len(q) - k + 1 : t[i] = q[k + i - 1]
        BY <2>1, SubSeqProperties DEF t
    <2>3. Len(t) = Len(q) - k + 1
        BY <1>1, <2>2
    <2> QED
        BY <2>2, <2>3
<1> HIDE DEF b, t
<1>4. /\ c \in Seq(S) /\ Len(c) = k
      /\ \A i \in 1 .. k - 1 : c[i] = q[i]
      /\ c[k] = a
    <2>1. /\ c \in Seq(S) /\ Len(c) = Len(b) + 1
          /\ \A i \in 1 .. Len(b) : c[i] = b[i]
          /\ c[Len(b) + 1] = a
        BY <1>2
    <2> HIDE DEF c
    <2> QED
        BY <1>2, <2>1
<1> HIDE DEF c
<1>5. /\ r \in Seq(S) /\ Len(r) = Len(c) + Len(t)
      /\ \A i \in 1 .. Len(c) : r[i] = c[i]
      /\ \A i \in 1 .. Len(t) : r[Len(c) + i] = t[i]
    BY <1>3, <1>4
<1> HIDE DEF r
<1>6. DOMAIN r = 1 .. Len(q) + 1
    BY <1>1, <1>3, <1>4, <1>5
<1>7. ASSUME NEW i \in 1 .. Len(q) + 1
      PROVE  r[i] = IF i < k THEN q[i] ELSE IF i = k THEN a ELSE q[i - 1]
    <2>1. CASE i < k
        BY <1>4, <1>5, <2>1
    <2>2. CASE i = k
        BY <1>4, <1>5, <2>2
    <2>3. CASE i > k
        <3>1. i - k \in 1 .. Len(q) - k + 1
            BY <1>1, <2>3
        <3>2. r[k + (i - k)] = q[k + (i - k) - 1]
            BY <1>3, <1>4, <1>5, <3>1
        <3>3. k + (i - k) = i /\ k + (i - k) - 1 = i - 1
            OBVIOUS
        <3> QED
            BY <2>3, <3>2, <3>3
    <2> QED
        BY <2>1, <2>2, <2>3
<1> QED
    BY <1>5, <1>6, <1>7 DEF r, c, b, t, InsertAt

(* MessageCancelFirst: one message less, if there is one. *)
LEMMA RemoveFirstQueue ==
    ASSUME NEW S, NEW q \in Seq(S), NEW a
    PROVE  /\ RemoveFirst(q, a) \in Seq(S)
           /\ \A m : Queued(m, RemoveFirst(q, a)) => Queued(m, q)
           /\ \A m : m # a /\ Queued(m, q) => Queued(m, RemoveFirst(q, a))
           /\ Once(a, q) => ~Queued(a, RemoveFirst(q, a))
           /\ \A m : Once(m, q) => Once(m, RemoveFirst(q, a))
           /\ \A m, n : Ahead(m, n, q) => Ahead(m, n, RemoveFirst(q, a))
<1>0. DOMAIN q = 1 .. Len(q) /\ Len(q) \in Nat
    OBVIOUS
<1>1. CASE ~\E i \in 1 .. Len(q) : q[i] = a
    BY <1>0, <1>1 DEF RemoveFirst, Queued
<1>2. CASE \E i \in 1 .. Len(q) : q[i] = a
    <2> DEFINE I == {i \in 1 .. Len(q) : q[i] = a}
               k == SelectInSeq(q, LAMBDA v : v = a)
               r == RemoveAt(q, k)
    <2>1. \E x \in I : \A y \in I : x <= y
        <3>1. I \in SUBSET Nat /\ I # {}
            BY <1>2
        <3> QED
            BY <3>1, LeastNumber
    <2>2. k = CHOOSE x \in I : \A y \in I : x <= y
        BY <1>2 DEF SelectInSeq, Min
    <2>3. k \in 1 .. Len(q) /\ q[k] = a
        BY <2>1, <2>2
    <2>4. RemoveFirst(q, a) = r
        BY <1>2 DEF RemoveFirst
    <2> HIDE DEF k
    <2>5. /\ r \in Seq(S) /\ DOMAIN r = 1 .. Len(q) - 1
          /\ \A i \in 1 .. Len(q) - 1 : r[i] = IF i < k THEN q[i] ELSE q[i + 1]
        BY <2>3, RemoveAtQueue
    <2> HIDE DEF r
    <2> DEFINE f == [i \in DOMAIN r |-> IF i < k THEN i ELSE i + 1]
    <2>6. Thinned(r, q)
        <3>1. f \in [DOMAIN r -> DOMAIN q]
            BY <1>0, <2>3, <2>5
        <3>2. \A i \in DOMAIN r : r[i] = q[f[i]]
            BY <1>0, <2>3, <2>5
        <3>3. \A i, j \in DOMAIN r : i < j => f[i] < f[j]
            BY <1>0, <2>3, <2>5
        <3> QED
            BY <3>1, <3>2, <3>3 DEF Thinned
    <2>7. ASSUME NEW m, m # a, Queued(m, q) PROVE Queued(m, r)
        <3>1. PICK i \in 1 .. Len(q) : q[i] = m
            BY <1>0, <2>7 DEF Queued
        <3>2. i # k
            BY <2>3, <2>7, <3>1
        <3>3. CASE i < k
            BY <1>0, <2>3, <2>5, <3>1, <3>3, SMTT(30) DEF Queued
        <3>4. CASE k < i
            <4>1. i - 1 \in DOMAIN r /\ ~(i - 1 < k) /\ (i - 1) + 1 = i
                BY <1>0, <2>3, <2>5, <3>4
            <4>2. r[i - 1] = m
                BY <2>5, <3>1, <4>1
            <4> QED
                BY <4>1, <4>2 DEF Queued
        <3> QED
            BY <1>0, <2>3, <3>2, <3>3, <3>4
    <2>8. ASSUME Once(a, q), NEW i \in DOMAIN r, r[i] = a PROVE FALSE
        <3>1. CASE i < k
            <4>1. i = k
                BY <1>0, <2>3, <2>5, <2>8, <3>1 DEF Once
            <4> QED
                BY <1>0, <2>3, <2>5, <3>1, <4>1
        <3>2. CASE ~(i < k)
            <4>1. i + 1 = k
                BY <1>0, <2>3, <2>5, <2>8, <3>2 DEF Once
            <4> QED
                BY <1>0, <2>3, <2>5, <3>2, <4>1
        <3> QED
            BY <3>1, <3>2
    <2>9. /\ \A m : Queued(m, r) => Queued(m, q)
          /\ \A m : Once(m, q) => Once(m, r)
          /\ \A m, n : Ahead(m, n, q) => Ahead(m, n, r)
        BY <2>5, <2>6, ThinnedQueue
    <2> QED
        BY <2>4, <2>5, <2>7, <2>8, <2>9 DEF Queued
<1> QED
    BY <1>1, <1>2
----------------------------------------------------------------------------
(* What CancelAll keeps of the first i messages, from what it keeps of the *)
(* first i - 1.                                                            *)
Keeps(q, T, f, i) ==
    IF i = 0 THEN <<>> ELSE IF q[i] \in T THEN f[i - 1] ELSE Append(f[i - 1], q[i])

(* The function that CancelAll defines by recursion exists. *)
LEMMA KeptExists ==
    ASSUME NEW S, NEW q \in Seq(S), NEW T
    PROVE  \E f : f = [i \in 0 .. Len(q) |-> Keeps(q, T, f, i)]
<1> DEFINE Good(n, f) == \A i \in 0 .. n : i <= Len(q) => f[i] = Keeps(q, T, f, i)
           P == {n \in Nat : \E f \in [0 .. Len(q) -> Seq(S)] : Good(n, f)}
<1>1. Len(q) \in Nat /\ \A i \in 1 .. Len(q) : q[i] \in S
    OBVIOUS
<1>2. 0 \in P
    <2> DEFINE f == [i \in 0 .. Len(q) |-> <<>>]
    <2>1. f \in [0 .. Len(q) -> Seq(S)] /\ Good(0, f)
        BY <1>1 DEF Keeps
    <2> QED
        BY <2>1
<1>3. ASSUME NEW n \in P PROVE n + 1 \in P
    <2>1. PICK f \in [0 .. Len(q) -> Seq(S)] : Good(n, f)
        OBVIOUS
    <2>2. CASE ~(n + 1 <= Len(q))
        <3>1. Good(n + 1, f)
            BY <1>1, <2>1, <2>2
        <3> QED
            BY <3>1
    <2>3. CASE n + 1 <= Len(q)
        <3> DEFINE g == [f EXCEPT ![n + 1] = Keeps(q, T, f, n + 1)]
        <3>1. Keeps(q, T, f, n + 1) \in Seq(S)
            <4>1. n + 1 \in 1 .. Len(q) /\ n \in 0 .. Len(q) /\ (n + 1) - 1 = n /\ n + 1 # 0
                BY <1>1, <2>3
            <4>a. q[n + 1] \in S /\ f[n] \in Seq(S)
                BY <1>1, <4>1
            <4>2. Append(f[n], q[n + 1]) \in Seq(S)
                BY <4>a
            <4> QED
                BY <4>1, <4>a, <4>2 DEF Keeps
        <3>2. g \in [0 .. Len(q) -> Seq(S)]
            BY <3>1
        <3>3. \A i \in 0 .. Len(q) : i # n + 1 => g[i] = f[i]
            OBVIOUS
        <3>4. g[n + 1] = Keeps(q, T, f, n + 1)
            BY <1>1, <2>3
        <3> HIDE DEF g
        <3>5. ASSUME NEW i \in 0 .. n + 1, i <= Len(q) PROVE g[i] = Keeps(q, T, g, i)
            <4>1. i # 0 => i - 1 \in 0 .. Len(q) /\ i - 1 # n + 1
                BY <1>1, <3>5
            <4>2. Keeps(q, T, g, i) = Keeps(q, T, f, i)
                BY <3>3, <4>1 DEF Keeps
            <4>3. CASE i = n + 1
                BY <3>4, <4>2, <4>3
            <4>4. CASE i # n + 1
                <5>1. i \in 0 .. n /\ i \in 0 .. Len(q)
                    BY <1>1, <3>5, <4>4
                <5>2. f[i] = Keeps(q, T, f, i)
                    BY <2>1, <3>5, <5>1
                <5> QED
                    BY <3>3, <4>2, <4>4, <5>1, <5>2
            <4> QED
                BY <4>3, <4>4
        <3>6. Good(n + 1, g)
            BY <3>5
        <3> QED
            BY <3>2, <3>6
    <2> QED
        BY <2>2, <2>3
<1>4. P = Nat
    <2>1. P \in SUBSET Nat
        OBVIOUS
    <2> HIDE DEF P
    <2> QED
        BY <1>2, <1>3, <2>1, Induction
<1>5. PICK f \in [0 .. Len(q) -> Seq(S)] : Good(Len(q), f)
    BY <1>1, <1>4
<1>6. f = [i \in 0 .. Len(q) |-> Keeps(q, T, f, i)]
    BY <1>1, <1>5
<1> QED
    BY <1>6

(* CancelAll goes through the queue and keeps what is not cancelled. *)
LEMMA KeptSteps ==
    ASSUME NEW S, NEW q \in Seq(S), NEW T
    PROVE  \E K : /\ CancelAll(q, T) = K[Len(q)]
                  /\ K[0] = <<>>
                  /\ \A i \in 0 .. Len(q) - 1 :
                        K[i + 1] = IF q[i + 1] \in T THEN K[i] ELSE Append(K[i], q[i + 1])
<1> DEFINE K == CHOOSE f : f = [i \in 0 .. Len(q) |-> Keeps(q, T, f, i)]
<1>1. K = [i \in 0 .. Len(q) |-> Keeps(q, T, K, i)]
    BY KeptExists
<1>2. CancelAll(q, T) = K[Len(q)]
    BY DEF CancelAll, Keeps
<1> HIDE DEF K
<1>3. Len(q) \in Nat
    OBVIOUS
<1>4. K[0] = <<>>
    BY <1>1, <1>3 DEF Keeps
<1>5. ASSUME NEW i \in 0 .. Len(q) - 1
      PROVE  K[i + 1] = IF q[i + 1] \in T THEN K[i] ELSE Append(K[i], q[i + 1])
    <2>1. i + 1 \in 0 .. Len(q) /\ i + 1 # 0 /\ (i + 1) - 1 = i
        BY <1>3
    <2>2. K[i + 1] = Keeps(q, T, K, i + 1)
        BY <1>1, <2>1
    <2> QED
        BY <2>1, <2>2 DEF Keeps
<1> QED
    BY <1>2, <1>4, <1>5

(* MessageCancelAll: none of the cancelled messages is left, and the       *)
(* others stay, in their order.                                            *)
LEMMA CancelAllThins ==
    ASSUME NEW S, NEW q \in Seq(S), NEW T
    PROVE  /\ CancelAll(q, T) \in Seq(S)
           /\ Thinned(CancelAll(q, T), q)
           /\ \A m : Queued(m, CancelAll(q, T)) => m \notin T
           /\ \A m : Queued(m, q) /\ m \notin T => Queued(m, CancelAll(q, T))
<1>1. PICK K : /\ CancelAll(q, T) = K[Len(q)]
               /\ K[0] = <<>>
               /\ \A i \in 0 .. Len(q) - 1 :
                    K[i + 1] = IF q[i + 1] \in T THEN K[i] ELSE Append(K[i], q[i + 1])
    BY KeptSteps
<1>2. CancelAll(q, T) = K[Len(q)]
    BY <1>1
<1>3. Len(q) \in Nat /\ DOMAIN q = 1 .. Len(q) /\ \A i \in 1 .. Len(q) : q[i] \in S
    OBVIOUS
<1>4. K[0] = <<>> /\ \A i \in 0 .. Len(q) - 1 :
            K[i + 1] = IF q[i + 1] \in T THEN K[i] ELSE Append(K[i], q[i + 1])
    BY <1>1
<1> DEFINE Into(n, f) ==
                /\ \A i \in DOMAIN K[n] : K[n][i] = q[f[i]]
                /\ \A i, j \in DOMAIN K[n] : i < j => f[i] < f[j]
           Holds(n) ==
                /\ K[n] \in Seq(S)
                /\ \E f \in [DOMAIN K[n] -> 1 .. n] : Into(n, f)
                /\ \A i \in DOMAIN K[n] : K[n][i] \notin T
                /\ \A j \in 1 .. n : q[j] \notin T => \E i \in DOMAIN K[n] : K[n][i] = q[j]
           P == {n \in Nat : n <= Len(q) => Holds(n)}
<1>5. 0 \in P
    <2>1. DOMAIN K[0] = {}
        BY <1>4
    <2>2. K[0] \in Seq(S) /\ \A j \in 1 .. 0 : FALSE
        BY <1>4
    <2>3. [i \in {} |-> i] \in [DOMAIN K[0] -> 1 .. 0] /\ Into(0, [i \in {} |-> i])
        BY <2>1
    <2> QED
        BY <2>1, <2>2, <2>3
<1>6. ASSUME NEW n \in P, n + 1 <= Len(q) PROVE Holds(n + 1)
    <2>1. n \in Nat /\ n <= Len(q) /\ n \in 0 .. Len(q) - 1 /\ n + 1 \in 1 .. Len(q)
        BY <1>3, <1>6
    <2>2. Holds(n)
        BY <2>1
    <2>3. K[n + 1] = IF q[n + 1] \in T THEN K[n] ELSE Append(K[n], q[n + 1])
        BY <1>4, <2>1
    <2>4. PICK f \in [DOMAIN K[n] -> 1 .. n] : Into(n, f)
        BY <2>2
    <2>5. CASE q[n + 1] \in T
        <3>1. K[n + 1] = K[n]
            BY <2>3, <2>5
        <3>2. f \in [DOMAIN K[n + 1] -> 1 .. n + 1] /\ Into(n + 1, f)
            BY <2>1, <2>4, <3>1
        <3>3. \A j \in 1 .. n + 1 : j \in 1 .. n \/ j = n + 1
            BY <2>1
        <3>4. /\ K[n + 1] \in Seq(S)
              /\ \A i \in DOMAIN K[n + 1] : K[n + 1][i] \notin T
              /\ \A j \in 1 .. n + 1 :
                    q[j] \notin T => \E i \in DOMAIN K[n + 1] : K[n + 1][i] = q[j]
            BY <2>2, <2>5, <3>1, <3>3
        <3> QED
            BY <3>2, <3>4
    <2>6. CASE q[n + 1] \notin T
        <3> DEFINE l == Len(K[n])
                   g == [i \in DOMAIN K[n + 1] |-> IF i = l + 1 THEN n + 1 ELSE f[i]]
        <3>1. K[n] \in Seq(S) /\ q[n + 1] \in S /\ K[n + 1] = Append(K[n], q[n + 1])
            BY <1>3, <2>1, <2>2, <2>3, <2>6
        <3>2. /\ K[n + 1] \in Seq(S) /\ l \in Nat
              /\ DOMAIN K[n] = 1 .. l /\ DOMAIN K[n + 1] = 1 .. l + 1
              /\ \A i \in 1 .. l : K[n + 1][i] = K[n][i]
              /\ K[n + 1][l + 1] = q[n + 1]
            BY <3>1
        <3> HIDE DEF l
        <3>3. \A i \in 1 .. l + 1 : i \in 1 .. l \/ i = l + 1
            BY <3>2
        <3>4. \A i \in 1 .. l : i \in 1 .. l + 1 /\ i # l + 1 /\ f[i] \in 1 .. n
            BY <2>4, <3>2
        <3>5. g \in [DOMAIN K[n + 1] -> 1 .. n + 1]
            BY <2>1, <3>2, <3>3, <3>4
        <3>6. /\ g[l + 1] = n + 1 /\ l + 1 \in DOMAIN K[n + 1]
              /\ \A i \in 1 .. l : g[i] = f[i]
            BY <3>2, <3>4
        <3> HIDE DEF g
        <3>7. ASSUME NEW i \in DOMAIN K[n + 1] PROVE K[n + 1][i] = q[g[i]] /\ K[n + 1][i] \notin T
            <4>1. CASE i \in 1 .. l
                BY <2>2, <2>4, <3>2, <3>6, <4>1
            <4>2. CASE i = l + 1
                BY <2>6, <3>2, <3>6, <4>2
            <4> QED
                BY <3>2, <3>3, <4>1, <4>2
        <3>8. ASSUME NEW i \in DOMAIN K[n + 1], NEW j \in DOMAIN K[n + 1], i < j
              PROVE  g[i] < g[j]
            <4>1. i \in 1 .. l
                BY <3>2, <3>8
            <4>2. CASE j \in 1 .. l
                BY <2>4, <3>2, <3>6, <3>8, <4>1, <4>2
            <4>3. CASE j = l + 1
                BY <2>1, <3>4, <3>6, <4>1, <4>3
            <4> QED
                BY <3>2, <3>3, <4>2, <4>3
        <3>9. ASSUME NEW j \in 1 .. n + 1, q[j] \notin T
              PROVE  \E i \in DOMAIN K[n + 1] : K[n + 1][i] = q[j]
            <4>1. CASE j \in 1 .. n
                <5>1. PICK i \in DOMAIN K[n] : K[n][i] = q[j]
                    BY <2>2, <3>9, <4>1
                <5> QED
                    BY <3>2, <3>4, <5>1
            <4>2. CASE j = n + 1
                BY <3>2, <3>6, <4>2
            <4> QED
                BY <2>1, <4>1, <4>2
        <3> QED
            BY <3>2, <3>5, <3>7, <3>8, <3>9
    <2> QED
        BY <2>5, <2>6
<1>7. P = Nat
    <2>1. P \in SUBSET Nat
        OBVIOUS
    <2>2. ASSUME NEW n \in P PROVE n + 1 \in P
        <3> HIDE DEF Holds
        <3>a. n + 1 \in Nat
            OBVIOUS
        <3>b. n + 1 <= Len(q) => Holds(n + 1)
            <4> HIDE DEF P
            <4> QED
                BY <1>6
        <3>1. n + 1 \in Nat /\ (n + 1 <= Len(q) => Holds(n + 1))
            BY <3>a, <3>b
        <3> QED
            BY <3>1
    <2> HIDE DEF P
    <2> QED
        BY <1>5, <2>1, <2>2, Induction
<1>8. Holds(Len(q))
    <2>1. Len(q) \in P
        BY <1>3, <1>7
    <2> HIDE DEF Holds
    <2> QED
        BY <1>3, <2>1
<1> DEFINE r == CancelAll(q, T)
<1>9. r \in Seq(S) /\ Thinned(r, q) /\ (\A m : Queued(m, r) => m \notin T)
    BY <1>2, <1>3, <1>8 DEF Thinned, Queued
<1>10. \A m : Queued(m, q) /\ m \notin T => Queued(m, r)
    BY <1>2, <1>3, <1>8 DEF Queued
<1> QED
    BY <1>9, <1>10

(* What that means for the messages that are queued. *)
LEMMA CancelAllQueue ==
    ASSUME NEW S, NEW q \in Seq(S), NEW T
    PROVE  /\ CancelAll(q, T) \in Seq(S)
           /\ \A m : Queued(m, CancelAll(q, T)) <=> Queued(m, q) /\ m \notin T
           /\ \A m : Once(m, q) => Once(m, CancelAll(q, T))
           /\ \A m, n : Ahead(m, n, q) => Ahead(m, n, CancelAll(q, T))
<1> DEFINE r == CancelAll(q, T)
<1>1. /\ r \in Seq(S) /\ Thinned(r, q)
      /\ \A m : Queued(m, r) => m \notin T
      /\ \A m : Queued(m, q) /\ m \notin T => Queued(m, r)
    BY CancelAllThins
<1> HIDE DEF r
<1> QED
    BY <1>1, ThinnedQueue DEF r

----------------------------------------------------------------------------
(* How many messages of a set are queued. *)

(* The positions of the messages of a set are finitely many. *)
LEMMA CountIsNat ==
    ASSUME NEW S, NEW q \in Seq(S), NEW T
    PROVE  /\ IsFiniteSet({i \in DOMAIN q : q[i] \in T})
           /\ Count(T, q) \in Nat
           /\ (Count(T, q) = 0) = (\A i \in DOMAIN q : q[i] \notin T)
<1> DEFINE P == {i \in DOMAIN q : q[i] \in T}
<1>1. P \subseteq 1 .. Len(q) /\ Len(q) \in Nat
    OBVIOUS
<1>2. IsFiniteSet(1 .. Len(q))
    BY <1>1, FS_Interval
<1>3. IsFiniteSet(P)
    BY <1>1, <1>2, FS_Subset
<1>4. Cardinality(P) \in Nat /\ (Cardinality(P) = 0 <=> P = {})
    BY <1>3, FS_CardinalityType, FS_EmptySet
<1> QED
    BY <1>3, <1>4 DEF Count

(* It is a number. *)
LEMMA CountType ==
    ASSUME NEW S, NEW q \in Seq(S), NEW T
    PROVE  Count(T, q) \in Nat
    BY CountIsNat

(* A message that is sent counts if it belongs to the set. *)
LEMMA CountAppend ==
    ASSUME NEW S, NEW q \in Seq(S), NEW a \in S, NEW T
    PROVE  Count(T, Append(q, a)) = Count(T, q) + (IF a \in T THEN 1 ELSE 0)
<1> DEFINE r == Append(q, a)
           P == {i \in DOMAIN q : q[i] \in T}
           R == {i \in DOMAIN r : r[i] \in T}
           l == Len(q) + 1
<1>1. /\ DOMAIN r = 1 .. l /\ DOMAIN q = 1 .. Len(q) /\ Len(q) \in Nat
      /\ \A i \in 1 .. Len(q) : r[i] = q[i]
      /\ r[l] = a
    OBVIOUS
<1> HIDE DEF r
<1>2. R = IF a \in T THEN P \cup {l} ELSE P
    BY <1>1
<1>3. IsFiniteSet(P) /\ l \notin P /\ Cardinality(P) \in Nat
    <2>1. l \notin P
        BY <1>1
    <2>2. IsFiniteSet(P) /\ Cardinality(P) \in Nat
        BY CountIsNat DEF Count
    <2> QED
        BY <2>1, <2>2
<1> HIDE DEF P, R, l
<1>4. Cardinality(P \cup {l}) = Cardinality(P) + 1
    BY <1>3, FS_AddElement
<1>5. Cardinality(R) = Cardinality(P) + (IF a \in T THEN 1 ELSE 0)
    BY <1>2, <1>3, <1>4
<1> QED
    BY <1>5 DEF Count, P, R, r

(* Messages that do not belong to the set do not count. *)
LEMMA CountConcat ==
    ASSUME NEW S, NEW q \in Seq(S), NEW t \in Seq(S), NEW T,
           \A i \in DOMAIN t : t[i] \notin T
    PROVE  Count(T, q \o t) = Count(T, q)
<1> DEFINE r == q \o t
           P == {i \in DOMAIN q : q[i] \in T}
           R == {i \in DOMAIN r : r[i] \in T}
<1>1. /\ DOMAIN r = 1 .. Len(q) + Len(t)
      /\ DOMAIN q = 1 .. Len(q) /\ DOMAIN t = 1 .. Len(t)
      /\ Len(q) \in Nat /\ Len(t) \in Nat
      /\ \A i \in 1 .. Len(q) : r[i] = q[i]
      /\ \A i \in 1 .. Len(t) : r[Len(q) + i] = t[i]
    OBVIOUS
<1> HIDE DEF r
<1>2. ASSUME NEW i \in R PROVE i \in P
    <2>1. CASE i \in 1 .. Len(q)
        BY <1>1, <2>1
    <2>2. CASE i \notin 1 .. Len(q)
        <3>1. i - Len(q) \in 1 .. Len(t) /\ Len(q) + (i - Len(q)) = i
            BY <1>1, <2>2
        <3>2. r[i] = t[i - Len(q)]
            BY <1>1, <3>1
        <3> QED
            BY <1>1, <3>1, <3>2
    <2> QED
        BY <2>1, <2>2
<1>3. P \subseteq R
    BY <1>1
<1>4. P = R
    BY <1>2, <1>3
<1> QED
    BY <1>4 DEF Count, r

(* One message less. *)
LEMMA CountRemoveAt ==
    ASSUME NEW S, NEW q \in Seq(S), NEW k \in 1 .. Len(q), NEW T
    PROVE  Count(T, RemoveAt(q, k)) = Count(T, q) - (IF q[k] \in T THEN 1 ELSE 0)
<1> DEFINE r == RemoveAt(q, k)
           P == {i \in DOMAIN q : q[i] \in T}
           R == {i \in DOMAIN r : r[i] \in T}
           F == [i \in R |-> IF i < k THEN i ELSE i + 1]
<1>1. /\ DOMAIN q = 1 .. Len(q) /\ Len(q) \in Nat
      /\ r \in Seq(S) /\ DOMAIN r = 1 .. Len(q) - 1
      /\ \A i \in 1 .. Len(q) - 1 : r[i] = IF i < k THEN q[i] ELSE q[i + 1]
    BY RemoveAtQueue
<1> HIDE DEF r
<1>2. IsFiniteSet(P) /\ IsFiniteSet(R) /\ Cardinality(P) \in Nat
    BY <1>1, CountIsNat DEF Count
<1>3. F \in [R -> P \ {k}] /\ \A i, j \in R : F[i] = F[j] => i = j
    BY <1>1
<1>4. ASSUME NEW j \in P \ {k} PROVE \E i \in R : F[i] = j
    <2>1. CASE j < k
        <3>1. j \in R /\ F[j] = j
            BY <1>1, <2>1
        <3> QED
            BY <3>1
    <2>2. CASE ~(j < k)
        <3>1. j - 1 \in R /\ F[j - 1] = j
            <4>1. j \in 1 .. Len(q) /\ j > k /\ q[j] \in T
                BY <1>1, <2>2
            <4>2. j - 1 \in 1 .. Len(q) - 1 /\ ~(j - 1 < k) /\ (j - 1) + 1 = j
                BY <1>1, <4>1
            <4>3. r[j - 1] = q[j]
                BY <1>1, <4>2
            <4> QED
                BY <1>1, <4>1, <4>2, <4>3
        <3> QED
            BY <3>1
    <2> QED
        BY <2>1, <2>2
<1> HIDE DEF F
<1>5. ExistsBijection(R, P \ {k})
    BY <1>3, <1>4 DEF ExistsBijection, Bijection, Injection, Surjection, IsInjective
<1>6. Cardinality(P \ {k}) = Cardinality(R)
    BY <1>2, <1>5, FS_Bijection
<1>7. Cardinality(P \ {k}) = Cardinality(P) - (IF q[k] \in T THEN 1 ELSE 0)
    <2>1. k \in P <=> q[k] \in T
        BY <1>1
    <2> HIDE DEF P
    <2>2. Cardinality(P \ {k}) = IF k \in P THEN Cardinality(P) - 1 ELSE Cardinality(P)
        BY <1>2, FS_RemoveElement
    <2> QED
        BY <1>2, <2>1, <2>2
<1> QED
    BY <1>6, <1>7 DEF Count, r

(* MessageCancelAll returns how many messages it has cancelled: as many as *)
(* the queue is shorter.                                                   *)
LEMMA CountCancelAll ==
    ASSUME NEW S, NEW q \in Seq(S), NEW T, NEW U, \A i \in DOMAIN q : q[i] \in U => q[i] \in T
    PROVE  Count(T, CancelAll(q, U)) = Count(T, q) - (Len(q) - Len(CancelAll(q, U)))
<1>1. PICK K : /\ CancelAll(q, U) = K[Len(q)]
               /\ K[0] = <<>>
               /\ \A i \in 0 .. Len(q) - 1 :
                    K[i + 1] = IF q[i + 1] \in U THEN K[i] ELSE Append(K[i], q[i + 1])
    BY KeptSteps
<1>2. Len(q) \in Nat /\ DOMAIN q = 1 .. Len(q) /\ \A i \in 1 .. Len(q) : q[i] \in S
    OBVIOUS
<1> DEFINE H(n) == [i \in 1 .. n |-> q[i]]
           Holds(n) == K[n] \in Seq(S) /\ Count(T, K[n]) = Count(T, H(n)) - (n - Len(K[n]))
           P == {n \in Nat : n <= Len(q) => Holds(n)}
<1>3. ASSUME NEW n \in Nat, n <= Len(q) PROVE H(n) \in Seq(S) /\ Len(H(n)) = n
    <2>1. \A i \in 1 .. n : q[i] \in S
        BY <1>2, <1>3
    <2> QED
        BY <2>1
<1>4. ASSUME NEW n \in Nat, n + 1 <= Len(q) PROVE H(n + 1) = Append(H(n), q[n + 1])
    <2>1. /\ H(n) \in Seq(S) /\ Len(H(n)) = n /\ q[n + 1] \in S
          /\ H(n + 1) \in Seq(S) /\ Len(H(n + 1)) = n + 1
        BY <1>2, <1>3, <1>4
    <2> DEFINE r == Append(H(n), q[n + 1])
    <2>2. r \in Seq(S) /\ Len(r) = n + 1
        BY <2>1
    <2>3. ASSUME NEW i \in 1 .. n + 1 PROVE r[i] = H(n + 1)[i]
        <3>1. CASE i = n + 1
            BY <2>1, <3>1
        <3>2. CASE i # n + 1
            <4>1. i \in 1 .. n
                BY <1>4, <3>2
            <4> QED
                BY <2>1, <4>1
        <3> QED
            BY <3>1, <3>2
    <2> HIDE DEF r, H
    <2> QED
        BY <2>1, <2>2, <2>3, SeqEqual DEF r
<1>5. 0 \in P
    <2>1. H(0) = <<>> /\ K[0] = <<>> /\ <<>> \in Seq(S) /\ Len(<<>>) = 0
        BY <1>1
    <2>2. Count(T, <<>>) \in Nat
        BY <2>1, CountType
    <2>3. Holds(0)
        <3> HIDE DEF H
        <3>1. Count(T, K[0]) = Count(T, H(0)) - (0 - Len(K[0]))
            BY <2>1, <2>2
        <3> QED
            BY <2>1, <3>1
    <2> HIDE DEF Holds
    <2> QED
        BY <2>3
<1> HIDE DEF H
<1>6. ASSUME NEW n \in P PROVE n + 1 \in P
    <2>1. n \in Nat /\ n + 1 \in Nat
        OBVIOUS
    <2>2. ASSUME n + 1 <= Len(q) PROVE Holds(n + 1)
        <3>1. n <= Len(q) /\ n \in 0 .. Len(q) - 1 /\ n + 1 \in 1 .. Len(q)
            BY <1>2, <2>1, <2>2
        <3>2. /\ Holds(n) /\ H(n + 1) = Append(H(n), q[n + 1])
              /\ H(n) \in Seq(S) /\ q[n + 1] \in S
            BY <1>2, <1>3, <1>4, <2>1, <2>2, <3>1
        <3>3. K[n + 1] = IF q[n + 1] \in U THEN K[n] ELSE Append(K[n], q[n + 1])
            BY <1>1, <3>1
        <3> HIDE DEF P
        <3> DEFINE c == IF q[n + 1] \in T THEN 1 ELSE 0
        <3>4. /\ Count(T, H(n + 1)) = Count(T, H(n)) + c
              /\ Count(T, H(n)) \in Nat
            <4>1. Count(T, H(n)) \in Nat
                BY <3>2, CountType
            <4>2. Count(T, Append(H(n), q[n + 1])) = Count(T, H(n)) + c
                BY <3>2, CountAppend
            <4> QED
                BY <3>2, <4>1, <4>2
        <3>a. K[n] \in Seq(S) /\ Count(T, K[n]) = Count(T, H(n)) - (n - Len(K[n]))
            BY <3>2
        <3>5. CASE q[n + 1] \in U
            <4>1. q[n + 1] \in T /\ K[n + 1] = K[n]
                BY <1>2, <3>1, <3>3, <3>5
            <4>2. Len(K[n]) \in Nat /\ Count(T, K[n]) \in Nat
                BY <3>2, CountType
            <4>3. c = 1
                BY <4>1
            <4> HIDE DEF c
            <4> DEFINE x == Count(T, H(n))
                       y == Count(T, H(n + 1))
                       l == Len(K[n])
            <4>4. Count(T, K[n]) = x - (n - l) /\ y = x + 1 /\ x \in Nat /\ l \in Nat
                BY <3>4, <3>a, <4>2, <4>3
            <4> HIDE DEF x, y, l
            <4>5. Count(T, K[n]) = y - ((n + 1) - l)
                BY <2>1, <4>2, <4>4
            <4>6. Count(T, K[n + 1]) = Count(T, H(n + 1)) - ((n + 1) - Len(K[n + 1]))
                BY <4>1, <4>5 DEF y, l
            <4> QED
                BY <3>a, <4>1, <4>6
        <3>6. CASE q[n + 1] \notin U
            <4>1. K[n] \in Seq(S) /\ K[n + 1] = Append(K[n], q[n + 1])
                BY <3>2, <3>3, <3>6
            <4>2. /\ K[n + 1] \in Seq(S) /\ Len(K[n + 1]) = Len(K[n]) + 1 /\ Len(K[n]) \in Nat
                  /\ Count(T, K[n]) \in Nat
                BY <3>2, <4>1, CountType
            <4>3. Count(T, K[n + 1]) = Count(T, K[n]) + c
                BY <3>2, <4>1, CountAppend
            <4>4. c \in Nat
                OBVIOUS
            <4> HIDE DEF c
            <4> DEFINE x == Count(T, H(n))
                       y == Count(T, H(n + 1))
                       l == Len(K[n])
            <4>5. /\ Count(T, K[n]) = x - (n - l) /\ y = x + c /\ x \in Nat /\ l \in Nat
                  /\ Count(T, K[n + 1]) = Count(T, K[n]) + c /\ Len(K[n + 1]) = l + 1
                BY <3>4, <3>a, <4>2, <4>3
            <4> HIDE DEF x, y, l
            <4>6. Count(T, K[n + 1]) = y - ((n + 1) - (l + 1))
                BY <2>1, <4>4, <4>5
            <4>7. Count(T, K[n + 1]) = Count(T, H(n + 1)) - ((n + 1) - Len(K[n + 1]))
                BY <4>5, <4>6 DEF y
            <4> QED
                BY <4>2, <4>7
        <3> QED
            BY <3>5, <3>6
    <2> HIDE DEF Holds
    <2> QED
        BY <2>1, <2>2
<1>7. P = Nat
    <2>1. P \in SUBSET Nat
        OBVIOUS
    <2> HIDE DEF P
    <2> QED
        BY <1>5, <1>6, <2>1, Induction
<1>8. Holds(Len(q))
    <2>1. Len(q) \in P
        BY <1>2, <1>7
    <2> HIDE DEF Holds
    <2> QED
        BY <1>2, <2>1
<1>9. H(Len(q)) = q
    <2>1. H(Len(q)) \in Seq(S) /\ Len(H(Len(q))) = Len(q) /\ \A i \in 1 .. Len(q) : H(Len(q))[i] = q[i]
        BY <1>2, <1>3 DEF H
    <2> QED
        BY <2>1, SeqEqual
<1> QED
    BY <1>1, <1>8, <1>9

(* Messages of two sets that have none in common are counted apart. *)
LEMMA CountUnion ==
    ASSUME NEW S, NEW q \in Seq(S), NEW T, NEW U, T \cap U = {}
    PROVE  Count(T \cup U, q) = Count(T, q) + Count(U, q)
<1> DEFINE P == {i \in DOMAIN q : q[i] \in T}
           R == {i \in DOMAIN q : q[i] \in U}
<1>1. IsFiniteSet(P) /\ IsFiniteSet(R)
    BY CountIsNat, ZenonT(40)
<1>2. {i \in DOMAIN q : q[i] \in T \cup U} = P \cup R /\ P \cap R = {}
    OBVIOUS
<1>3. Cardinality(P) \in Nat /\ Cardinality(R) \in Nat
    BY <1>1, FS_CardinalityType
<1> HIDE DEF P, R
<1>4. Cardinality(P \cup R) = Cardinality(P) + Cardinality(R) - Cardinality(P \cap R)
    BY <1>1, FS_Union
<1>5. Cardinality(P \cap R) = 0
    BY <1>2, FS_EmptySet
<1>6. Cardinality(P \cup R) = Cardinality(P) + Cardinality(R)
    BY <1>3, <1>4, <1>5
<1> QED
    BY <1>2, <1>6 DEF Count, P, R

(* Cancelling other messages does not change how many of a set are queued. *)
LEMMA CountCancelOthers ==
    ASSUME NEW S, NEW q \in Seq(S), NEW T, NEW U, T \cap U = {}
    PROVE  Count(T, CancelAll(q, U)) = Count(T, q)
<1> DEFINE r == CancelAll(q, U)
           d == Len(q) - Len(r)
<1>1. r \in Seq(S) /\ \A m : Queued(m, r) => m \notin U
    BY CancelAllQueue
<1>2. Count(U, r) = Count(U, q) - d /\ Count(T \cup U, r) = Count(T \cup U, q) - d
    BY CountCancelAll
<1> HIDE DEF r
<1>3. Count(U, r) = 0
    <2>1. \A i \in DOMAIN r : r[i] \notin U
        BY <1>1 DEF Queued
    <2>2. (Count(U, r) = 0) = (\A i \in DOMAIN r : r[i] \notin U)
        BY <1>1, CountIsNat
    <2> QED
        BY <2>1, <2>2
<1>4. /\ Count(T \cup U, q) = Count(T, q) + Count(U, q)
      /\ Count(T \cup U, r) = Count(T, r) + Count(U, r)
    BY <1>1, CountUnion
<1>5. Count(T, q) \in Nat /\ Count(U, q) \in Nat /\ Count(T, r) \in Nat
    BY <1>1, CountType
<1>6. d \in Int
    BY <1>1
<1> HIDE DEF d
<1> QED
    BY <1>2, <1>3, <1>4, <1>5, <1>6 DEF r

(* Ascending lists numbers of S. *)
LEMMA AscendingQueue ==
    ASSUME NEW n \in Nat, NEW S
    PROVE  Ascending(n, S) \in Seq(S \cap (1 .. n))
<1> DEFINE q == [i \in 1 .. n |-> i]
           r == CancelAll(q, (1 .. n) \ S)
<1>1. q \in Seq(1 .. n) /\ \A i \in DOMAIN q : q[i] \in 1 .. n
    OBVIOUS
<1> HIDE DEF q
<1>2. r \in Seq(1 .. n) /\ \A m : Queued(m, r) => m \notin (1 .. n) \ S
    BY <1>1, CancelAllQueue
<1> HIDE DEF r
<1>3. \A i \in 1 .. Len(r) : r[i] \in S \cap (1 .. n)
    BY <1>2 DEF Queued
<1>4. r \in Seq(S \cap (1 .. n))
    BY <1>2, <1>3
<1> QED
    BY <1>4 DEF r, q, Ascending
=============================================================================
