----------------------------- MODULE MaskingProofs -----------------------------
(***************************************************************************)
(* The masking, for values of every length: what the loops of the handlers *)
(* make of a row is the masked row, unless the row is one of those that    *)
(* they misread.                                                           *)
(*                                                                         *)
(* Masking folds over the characters of a line and of a value.  A fold is  *)
(* a function that is defined by recursion on the sets of its indices:     *)
(* first it is shown to exist (FoldExists), by induction on a set of       *)
(* numbers (SetInduction), then to go from state to state.                 *)
(***************************************************************************)
EXTENDS Work, Sequences, FiniteSetTheorems, TLAPS

-----------------------------------------------------------------------------
(* Induction and folds *)

\* What holds of 0, and of n + 1 if it holds of n, holds of every number: otherwise
\* k + 1 would number the k below a number that is left out with one less of them.
LEMMA SetInduction ==
    ASSUME NEW P \in SUBSET Nat, 0 \in P, \A n \in P : n + 1 \in P
    PROVE  P = Nat
<1> SUFFICES ASSUME NEW m \in Nat, m \notin P PROVE FALSE
  OBVIOUS
<1> DEFINE D == P \cap (0 .. m)
           f == [k \in D |-> k + 1]
<1>1. IsFiniteSet(D)
  <2>1. IsFiniteSet(0 .. m)
    BY FS_Interval
  <2> QED BY <2>1, FS_Subset
<1>2. Cardinality(D) \in Nat
  BY <1>1, FS_CardinalityType
<1>3. \A k \in D : k + 1 \in D \ {0}
  OBVIOUS
<1>4. 0 \in D
  OBVIOUS
<1> HIDE DEF D
<1>5. IsFiniteSet(D \ {0}) /\ Cardinality(D \ {0}) = Cardinality(D) - 1
  BY <1>1, <1>4, FS_RemoveElement
<1>6. f \in Injection(D, D \ {0})
  <2>1. \A k \in D : k \in Nat
    BY DEF D
  <2> QED BY <1>3, <2>1 DEF Injection, IsInjective
<1>7. Cardinality(D) <= Cardinality(D \ {0})
  BY <1>5, <1>6, FS_Injection
<1> QED
  BY <1>2, <1>5, <1>7

\* Folding a step over 1 .. N is well defined: the function by which MapThenFoldSet
\* is defined exists.
IsFold(h, n, b, g) ==
    \A s \in SUBSET (1 .. n) :
        h[s] = IF s = {} THEN b ELSE g[<<M!Max(s), h[s \ {M!Max(s)}]>>]

\* The greatest of the numbers of a set.
LEMMA MaxIs ==
    ASSUME NEW n \in Nat, NEW s \in SUBSET (1 .. n), n \in s PROVE M!Max(s) = n
<1>1. \A y \in s : n >= y
  OBVIOUS
<1>2. \A x \in s : (\A y \in s : x >= y) => x = n
  <2> TAKE x \in s
  <2> HAVE \A y \in s : x >= y
  <2>1. x >= n
    OBVIOUS
  <2>2. x \in Int /\ n >= x
    OBVIOUS
  <2> QED BY <2>1, <2>2
<1> QED
  BY <1>1, <1>2 DEF M!Max

\* Every set of such numbers has a greatest one.
LEMMA MaxIn ==
    ASSUME NEW n \in Nat, NEW s \in SUBSET (1 .. n), s # {} PROVE M!Max(s) \in s
<1> DEFINE Has(m) == \A r \in SUBSET (1 .. m) : r # {} => M!Max(r) \in r
           P == {m \in Nat : Has(m)}
<1>1. Has(0)
  <2>1. 1 .. 0 = {}
    OBVIOUS
  <2> QED BY <2>1
<1>2. ASSUME NEW m \in Nat, Has(m) PROVE Has(m + 1)
  <2> TAKE r \in SUBSET (1 .. m + 1)
  <2> HAVE r # {}
  <2>1. CASE m + 1 \in r
    BY <2>1, MaxIs
  <2>2. CASE m + 1 \notin r
    <3>1. r \in SUBSET (1 .. m)
      BY <2>2
    <3> QED BY <1>2, <3>1
  <2> QED BY <2>1, <2>2
<1> HIDE DEF Has
<1>3. P = Nat
  <2>1. 0 \in P
    BY <1>1
  <2>2. \A m \in P : m + 1 \in P
    BY <1>2
  <2> QED BY <2>1, <2>2, SetInduction
<1>4. Has(n)
  BY <1>3
<1> QED BY <1>4 DEF Has

\* There is a fold of any step over any 1 .. N: from the one over 1 .. n comes the
\* one over 1 .. n + 1.
LEMMA FoldExists ==
    ASSUME NEW N \in Nat, NEW S, NEW b \in S, NEW g \in [(1 .. N) \X S -> S]
    PROVE  \E h \in [SUBSET (1 .. N) -> S] : IsFold(h, N, b, g)
<1> DEFINE Folds(n) == \E h \in [SUBSET (1 .. n) -> S] : IsFold(h, n, b, g)
           P == {n \in Nat : n <= N => Folds(n)}
<1>1. Folds(0)
  <2> DEFINE h == [s \in SUBSET (1 .. 0) |-> b]
  <2>1. 1 .. 0 = {}
    OBVIOUS
  <2>2. IsFold(h, 0, b, g)
    BY <2>1 DEF IsFold
  <2> QED BY <2>2
<1>2. ASSUME NEW n \in Nat, n + 1 <= N, Folds(n) PROVE Folds(n + 1)
  <2>1. PICK h \in [SUBSET (1 .. n) -> S] : IsFold(h, n, b, g)
    BY <1>2
  <2> DEFINE k == [s \in SUBSET (1 .. n + 1) |->
                      IF n + 1 \in s THEN g[<<n + 1, h[s \ {n + 1}]>>] ELSE h[s]]
  <2>2. \A s \in SUBSET (1 .. n + 1) : s \ {n + 1} \in SUBSET (1 .. n)
    OBVIOUS
  <2>3. k \in [SUBSET (1 .. n + 1) -> S]
    <3>1. ASSUME NEW s \in SUBSET (1 .. n + 1), n + 1 \in s
          PROVE  g[<<n + 1, h[s \ {n + 1}]>>] \in S
      <4>1. h[s \ {n + 1}] \in S
        BY <2>2
      <4>2. n + 1 \in 1 .. N
        BY <1>2
      <4> QED BY <4>1, <4>2
    <3>2. ASSUME NEW s \in SUBSET (1 .. n + 1), n + 1 \notin s PROVE h[s] \in S
      <4>1. s = s \ {n + 1}
        BY <3>2
      <4> QED BY <4>1, <2>2
    <3> QED BY <3>1, <3>2
  <2>4. ASSUME NEW s \in SUBSET (1 .. n + 1)
        PROVE  k[s] = IF s = {} THEN b ELSE g[<<M!Max(s), k[s \ {M!Max(s)}]>>]
    <3>1. CASE n + 1 \in s
      <4>1. M!Max(s) = n + 1
        BY <3>1, MaxIs
      <4>2. k[s \ {n + 1}] = h[s \ {n + 1}]
        BY <2>2
      <4> QED BY <3>1, <4>1, <4>2
    <3>2. CASE n + 1 \notin s
      <4>1. s \in SUBSET (1 .. n) /\ k[s] = h[s]
        BY <3>2, <2>2
      <4>2. s \ {M!Max(s)} \in SUBSET (1 .. n)
        BY <4>1
      <4>3. k[s \ {M!Max(s)}] = h[s \ {M!Max(s)}]
        <5>1. n + 1 \notin s \ {M!Max(s)} /\ s \ {M!Max(s)} \in SUBSET (1 .. n + 1)
          BY <3>2
        <5> QED BY <5>1
      <4>4. h[s] = IF s = {} THEN b ELSE g[<<M!Max(s), h[s \ {M!Max(s)}]>>]
        BY <4>1, <2>1 DEF IsFold
      <4> QED BY <4>1, <4>3, <4>4, Zenon
    <3> QED BY <3>1, <3>2
  <2>5. IsFold(k, n + 1, b, g)
    BY <2>4 DEF IsFold
  <2> QED BY <2>3, <2>5
<1> HIDE DEF Folds
<1>3. P = Nat
  <2>1. 0 \in P
    BY <1>1
  <2>2. ASSUME NEW n \in P PROVE n + 1 \in P
    BY <1>2
  <2> QED BY <2>1, <2>2, SetInduction
<1>4. Folds(N)
  BY <1>3
<1> QED BY <1>4 DEF Folds

\* The sets 1 .. k of a fold over 1 .. N, one after the other.
LEMMA Prefixes ==
    ASSUME NEW k \in Nat \ {0}
    PROVE  1 .. k # {} /\ M!Max(1 .. k) = k /\ (1 .. k) \ {k} = 1 .. (k - 1)
<1>1. k \in 1 .. k
  OBVIOUS
<1>2. M!Max(1 .. k) = k
  BY <1>1, MaxIs
<1>3. (1 .. k) \ {k} = 1 .. (k - 1)
  OBVIOUS
<1> QED BY <1>1, <1>2, <1>3

-----------------------------------------------------------------------------
(* Split, Join and FlattenSeq as functions of the sets of their indices: what their
   definitions choose is such a function, if there is one. *)

\* All the characters of rows.
Characters == {"'", "\\", ",", "tab", "t", " COLLATE utf8mb4_0900_ai_ci",
               "SET transaction_timeout", "newline"}
Texts == Seq(Characters)

\* No character.
NoChar == ""

\* The state of the split, its start, and what a character makes of it.
States == [values : Seq(Texts), current : Texts, in_quotes : BOOLEAN, prev : Characters \cup {NoChar}]

Start == [values |-> <<>>, current |-> <<>>, in_quotes |-> FALSE, prev |-> NoChar]

CutOf(s, c) ==
    IF c = M!Sep /\ ~s.in_quotes
    THEN [s EXCEPT !.values = Append(@, s.current), !.current = <<>>, !.prev = c]
    ELSE [s EXCEPT !.current = Append(@, c), !.prev = c,
                   !.in_quotes = (@ # (masking.engine = "mysql" /\ c = "'" /\ s.prev # "\\"))]

\* split('\t') and _split_values fold CutOf over the line.
LEMMA SplitIs ==
    ASSUME NEW text, NEW h,
           h = [s \in SUBSET (DOMAIN text) |->
                   IF s = {} THEN Start ELSE CutOf(h[s \ {M!Max(s)}], text[M!Max(s)])]
    PROVE  \E k : /\ k = [s \in SUBSET (DOMAIN text) |->
                             IF s = {} THEN Start ELSE CutOf(k[s \ {M!Max(s)}], text[M!Max(s)])]
                  /\ M!Split(text) = Append(k[DOMAIN text].values, k[DOMAIN text].current)
BY Zenon DEF M!Split, M!FoldLeft, M!MapThenFoldSet, CutOf, Start, NoChar

\* The type of a state, component by component.
LEMMA StateOf ==
    ASSUME NEW a \in Seq(Texts), NEW b \in Texts, NEW q \in BOOLEAN, NEW p \in Characters \cup {NoChar}
    PROVE  [values |-> a, current |-> b, in_quotes |-> q, prev |-> p] \in States
BY DEF States

\* A character ends a field, or it is appended to the current one.
LEMMA CutState ==
    ASSUME NEW s \in States, NEW c \in Characters
    PROVE  /\ CutOf(s, c) \in States
           /\ c = M!Sep /\ ~s.in_quotes =>
                CutOf(s, c) = [values |-> Append(s.values, s.current), current |-> <<>>,
                               in_quotes |-> FALSE, prev |-> c]
           /\ ~(c = M!Sep /\ ~s.in_quotes) =>
                /\ CutOf(s, c).values = s.values
                /\ CutOf(s, c).current = Append(s.current, c)
                /\ CutOf(s, c).prev = c
                /\ CutOf(s, c).in_quotes <=>
                     (s.in_quotes <=> ~(masking.engine = "mysql" /\ c = "'" /\ s.prev # "\\"))
<1>0. s.values \in Seq(Texts) /\ s.current \in Texts /\ s.in_quotes \in BOOLEAN
  BY DEF States
<1>1. CASE c = M!Sep /\ ~s.in_quotes
  <2>1. s.in_quotes = FALSE
    BY <1>1 DEF States
  <2>2. CutOf(s, c) = [values |-> Append(s.values, s.current), current |-> <<>>,
                               in_quotes |-> FALSE, prev |-> c]
    <3>1. CutOf(s, c) = [s EXCEPT !.values = Append(@, s.current), !.current = <<>>, !.prev = c]
      BY <1>1, Zenon DEF CutOf
    <3> QED BY <2>1, <3>1 DEF States
  <2>3. Append(s.values, s.current) \in Seq(Texts) /\ <<>> \in Texts
    <3>1. \A S : \A a \in Seq(S), b \in S : Append(a, b) \in Seq(S)
      OBVIOUS
    <3>2. <<>> \in Texts
      BY DEF Texts
    <3> QED BY <1>0, <3>1, <3>2
  <2>4. CutOf(s, c) \in States
    BY <2>2, <2>3, StateOf
  <2> QED BY <1>1, <2>2, <2>4
<1>2. CASE ~(c = M!Sep /\ ~s.in_quotes)
  <2> DEFINE toggles == masking.engine = "mysql" /\ c = "'" /\ s.prev # "\\"
  <2>1. CutOf(s, c) = [s EXCEPT !.current = Append(@, c), !.prev = c, !.in_quotes = (@ # toggles)]
    BY <1>2, Zenon DEF CutOf
  <2>2. (s.in_quotes # toggles) \in BOOLEAN
    OBVIOUS
  <2>3. (s.in_quotes # toggles) <=> (s.in_quotes <=> ~toggles)
    BY Zenon DEF States
  <2>4. Append(s.current, c) \in Texts
    BY <1>0 DEF Texts
  <2> HIDE DEF toggles
  <2>5. CutOf(s, c) = [values |-> s.values, current |-> Append(s.current, c), in_quotes |-> (s.in_quotes # toggles), prev |-> c]
    BY <2>1 DEF States
  <2>6. CutOf(s, c) \in States
    BY <1>0, <2>2, <2>4, <2>5, StateOf
  <2>7. /\ CutOf(s, c).values = s.values
        /\ CutOf(s, c).current = Append(s.current, c)
        /\ CutOf(s, c).prev = c
        /\ CutOf(s, c).in_quotes = (s.in_quotes # toggles)
    BY <2>5
  <2>8. CutOf(s, c).in_quotes <=> (s.in_quotes <=> ~toggles)
    BY <2>3, <2>7, Zenon
  <2> QED BY <1>2, <2>6, <2>7, <2>8, Zenon DEF toggles
<1> QED BY <1>1, <1>2

\* The fields are joined from left to right.
LEMMA JoinIs ==
    ASSUME NEW v, NEW h,
           h = [s \in SUBSET (DOMAIN Tail(v)) |->
                   IF s = {} THEN Head(v)
                   ELSE h[s \ {M!Max(s)}] \o <<M!Sep>> \o Tail(v)[M!Max(s)]]
    PROVE  \E k : /\ k = [s \in SUBSET (DOMAIN Tail(v)) |->
                             IF s = {} THEN Head(v)
                             ELSE k[s \ {M!Max(s)}] \o <<M!Sep>> \o Tail(v)[M!Max(s)]]
                  /\ M!Join(v) = k[DOMAIN Tail(v)]
BY Zenon DEF M!Join, M!FoldLeft, M!MapThenFoldSet

\* The text of a value is made of the escaped characters.
LEMMA FlatIs ==
    ASSUME NEW v, Len(v) # 0, NEW h,
           h = [i \in 1 .. Len(v) |-> IF i = 1 THEN v[i] ELSE h[i - 1] \o v[i]]
    PROVE  \E k : /\ k = [i \in 1 .. Len(v) |-> IF i = 1 THEN v[i] ELSE k[i - 1] \o v[i]]
                  /\ M!FlattenSeq(v) = k[Len(v)]
BY Zenon DEF M!FlattenSeq

-----------------------------------------------------------------------------
(* The split, from state to state *)

\* Cutting t takes the state s to the state u.
Reads(s, t, u) ==
    \E st \in [0 .. Len(t) -> States] :
        /\ st[0] = s /\ st[Len(t)] = u
        /\ \A k \in 1 .. Len(t) : st[k] = CutOf(st[k - 1], t[k])

\* The split of a line is a way from Start, and what it ends in.
LEMMA SplitReads ==
    ASSUME NEW text \in Texts
    PROVE  \E u \in States : Reads(Start, text, u) /\ M!Split(text) = Append(u.values, u.current)
<1> DEFINE N == Len(text)
           g == [p \in (1 .. N) \X States |-> CutOf(p[2], text[p[1]])]
<1>1. N \in Nat /\ DOMAIN text = 1 .. N /\ \A k \in 1 .. N : text[k] \in Characters
  BY DEF Texts
<1> HIDE DEF N
<1>2. Start \in States
  <2>1. <<>> \in Seq(Texts) /\ <<>> \in Texts
    BY DEF Texts
  <2> QED BY <2>1, StateOf DEF Start
<1>3. g \in [(1 .. N) \X States -> States]
  <2>1. \A p \in (1 .. N) \X States : CutOf(p[2], text[p[1]]) \in States
    BY <1>1, CutState
  <2> QED BY <2>1
<1>4. PICK h \in [SUBSET (1 .. N) -> States] : IsFold(h, N, Start, g)
  <2> HIDE DEF g
  <2> QED BY <1>1, <1>2, <1>3, FoldExists
<1>5. \A s \in SUBSET (1 .. N) : s # {} => M!Max(s) \in s
  <2> TAKE s \in SUBSET (1 .. N)
  <2> HAVE s # {}
  <2> QED BY <1>1, MaxIn
<1>6. h = [s \in SUBSET (DOMAIN text) |->
              IF s = {} THEN Start ELSE CutOf(h[s \ {M!Max(s)}], text[M!Max(s)])]
  <2>1. ASSUME NEW s \in SUBSET (1 .. N), s # {}
        PROVE  h[s] = CutOf(h[s \ {M!Max(s)}], text[M!Max(s)])
    <3>1. M!Max(s) \in 1 .. N /\ h[s \ {M!Max(s)}] \in States
      BY <1>5, <2>1
    <3>2. h[s] = g[<<M!Max(s), h[s \ {M!Max(s)}]>>]
      BY <1>4, <2>1 DEF IsFold
    <3> QED BY <3>1, <3>2
  <2>2. h[{}] = Start
    BY <1>4 DEF IsFold
  <2> QED BY <1>1, <2>1, <2>2
<1>7. PICK k : /\ k = [s \in SUBSET (DOMAIN text) |->
                          IF s = {} THEN Start ELSE CutOf(k[s \ {M!Max(s)}], text[M!Max(s)])]
               /\ M!Split(text) = Append(k[DOMAIN text].values, k[DOMAIN text].current)
  BY <1>6, SplitIs
<1> DEFINE st == [n \in 0 .. N |-> k[1 .. n]]
           P == {n \in Nat : n <= N => st[n] \in States}
<1>8. st[0] = Start
  <2>1. 1 .. 0 = {}
    OBVIOUS
  <2> QED BY <1>1, <1>7, <2>1
<1>9. \A n \in 1 .. N : st[n] = CutOf(st[n - 1], text[n])
  <2> TAKE n \in 1 .. N
  <2>0. n \in Nat \ {0}
    BY <1>1
  <2>1. 1 .. n # {} /\ M!Max(1 .. n) = n /\ (1 .. n) \ {n} = 1 .. (n - 1)
    BY <2>0, Prefixes
  <2>2. (1 .. n) \in SUBSET (DOMAIN text)
    BY <1>1
  <2>3. k[1 .. n] = CutOf(k[1 .. (n - 1)], text[n])
    BY <1>7, <2>1, <2>2
  <2> QED BY <1>1, <2>3
<1>10. P = Nat
  <2> HIDE DEF st
  <2>1. 0 \in P
    BY <1>2, <1>8
  <2>2. ASSUME NEW n \in P PROVE n + 1 \in P
    <3>1. CASE n + 1 <= N
      <4>1. st[n] \in States /\ n + 1 \in 1 .. N /\ (n + 1) - 1 = n
        BY <1>1, <3>1
      <4>2. st[n + 1] = CutOf(st[n], text[n + 1])
        BY <1>9, <4>1
      <4> QED BY <1>1, <4>1, <4>2, CutState
    <3>2. CASE ~(n + 1 <= N)
      BY <3>2
    <3> QED BY <3>1, <3>2
  <2> QED BY <2>1, <2>2, SetInduction
<1>11. st \in [0 .. N -> States]
  <2>1. \A n \in 0 .. N : st[n] \in States
    <3> HIDE DEF st
    <3> TAKE n \in 0 .. N
    <3>1. n \in P /\ n <= N
      BY <1>1, <1>10
    <3> QED BY <3>1
  <2> QED BY <2>1
<1>12. st[N] = k[DOMAIN text]
  BY <1>1
<1>13. st[N] \in States
  BY <1>1, <1>11
<1> HIDE DEF st
<1>14. Reads(Start, text, st[N])
  BY <1>8, <1>9, <1>11 DEF Reads, N
<1> QED BY <1>7, <1>12, <1>13, <1>14

\* The way of one character.
LEMMA ReadsOne ==
    ASSUME NEW s \in States, NEW c \in Characters PROVE Reads(s, <<c>>, CutOf(s, c))
<1> DEFINE st == [k \in 0 .. 1 |-> IF k = 0 THEN s ELSE CutOf(s, c)]
<1>1. st \in [0 .. 1 -> States]
  BY CutState
<1>2. st[0] = s /\ st[1] = CutOf(s, c)
  OBVIOUS
<1>3. Len(<<c>>) = 1 /\ <<c>>[1] = c
  OBVIOUS
<1> HIDE DEF st
<1>4. \A k \in 1 .. 1 : st[k] = CutOf(st[k - 1], <<c>>[k])
  <2> TAKE k \in 1 .. 1
  <2>1. k = 1 /\ k - 1 = 0
    OBVIOUS
  <2> QED BY <1>2, <1>3, <2>1
<1> QED BY <1>1, <1>2, <1>3, <1>4 DEF Reads

\* Two ways make one.
LEMMA ReadsThen ==
    ASSUME NEW s, NEW t \in Texts, NEW u, NEW r \in Texts, NEW w, Reads(s, t, u), Reads(u, r, w)
    PROVE  Reads(s, t \o r, w)
<1>1. PICK a \in [0 .. Len(t) -> States] :
        a[0] = s /\ a[Len(t)] = u /\ \A k \in 1 .. Len(t) : a[k] = CutOf(a[k - 1], t[k])
  BY DEF Reads
<1>2. PICK b \in [0 .. Len(r) -> States] :
        b[0] = u /\ b[Len(r)] = w /\ \A k \in 1 .. Len(r) : b[k] = CutOf(b[k - 1], r[k])
  BY DEF Reads
<1>3. Len(t) \in Nat /\ Len(r) \in Nat /\ Len(t \o r) = Len(t) + Len(r)
  BY DEF Texts
<1> DEFINE st == [k \in 0 .. Len(t) + Len(r) |-> IF k <= Len(t) THEN a[k] ELSE b[k - Len(t)]]
<1>4. st \in [0 .. Len(t) + Len(r) -> States]
  <2>1. \A k \in 0 .. Len(t) + Len(r) : k <= Len(t) => k \in 0 .. Len(t)
    BY <1>3
  <2>2. \A k \in 0 .. Len(t) + Len(r) : ~(k <= Len(t)) => k - Len(t) \in 0 .. Len(r)
    BY <1>3
  <2> QED BY <2>1, <2>2
<1>5. ASSUME NEW k \in 1 .. Len(t) + Len(r)
      PROVE  st[k] = CutOf(st[k - 1], (t \o r)[k])
  <2>1. CASE k <= Len(t)
    <3>1. k \in 1 .. Len(t) /\ (t \o r)[k] = t[k]
      BY <1>3, <2>1 DEF Texts
    <3>2. st[k] = a[k] /\ st[k - 1] = a[k - 1]
      BY <1>3, <3>1
    <3> QED BY <1>1, <3>1, <3>2
  <2>2. CASE k > Len(t)
    <3>1. k - Len(t) \in 1 .. Len(r) /\ (t \o r)[k] = r[k - Len(t)]
      BY <1>3, <2>2 DEF Texts
    <3>2. st[k] = b[k - Len(t)]
      BY <1>3, <2>2
    <3>3. st[k - 1] = b[(k - Len(t)) - 1]
      <4>1. CASE k - 1 = Len(t)
        <5>1. st[k - 1] = u /\ (k - Len(t)) - 1 = 0
          BY <1>1, <1>3, <4>1
        <5> QED BY <1>2, <5>1
      <4>2. CASE k - 1 # Len(t)
        BY <1>3, <2>2, <4>2
      <4> QED BY <4>1, <4>2
    <3> QED BY <1>2, <3>1, <3>2, <3>3
  <2> QED BY <1>3, <2>1, <2>2
<1>6. st[0] = s
  BY <1>1, <1>3
<1>7. st[Len(t) + Len(r)] = w
  <2>1. CASE Len(r) = 0
    BY <1>1, <1>2, <1>3, <2>1
  <2>2. CASE Len(r) # 0
    BY <1>2, <1>3, <2>2
  <2> QED BY <2>1, <2>2
<1> HIDE DEF st
<1> QED BY <1>3, <1>4, <1>5, <1>6, <1>7 DEF Reads

\* The split is deterministic.
LEMMA ReadsOnce ==
    ASSUME NEW s, NEW t \in Texts, NEW u, NEW w, Reads(s, t, u), Reads(s, t, w) PROVE u = w
<1>1. PICK a \in [0 .. Len(t) -> States] :
        a[0] = s /\ a[Len(t)] = u /\ \A k \in 1 .. Len(t) : a[k] = CutOf(a[k - 1], t[k])
  BY DEF Reads
<1>2. PICK b \in [0 .. Len(t) -> States] :
        b[0] = s /\ b[Len(t)] = w /\ \A k \in 1 .. Len(t) : b[k] = CutOf(b[k - 1], t[k])
  BY DEF Reads
<1>3. Len(t) \in Nat
  BY DEF Texts
<1> DEFINE P == {n \in Nat : n <= Len(t) => a[n] = b[n]}
<1>4. P = Nat
  <2>1. 0 \in P
    BY <1>1, <1>2
  <2>2. ASSUME NEW n \in P PROVE n + 1 \in P
    <3>1. CASE n + 1 <= Len(t)
      <4>1. a[n] = b[n] /\ n + 1 \in 1 .. Len(t) /\ (n + 1) - 1 = n
        BY <1>3, <3>1
      <4>2. a[n + 1] = CutOf(a[n], t[n + 1]) /\ b[n + 1] = CutOf(b[n], t[n + 1])
        BY <1>1, <1>2, <4>1
      <4> QED BY <4>1, <4>2
    <3>2. CASE ~(n + 1 <= Len(t))
      BY <3>2
    <3> QED BY <3>1, <3>2
  <2> QED BY <2>1, <2>2, SetInduction
<1>5. Len(t) \in P
  BY <1>3, <1>4
<1> QED BY <1>1, <1>2, <1>3, <1>5

\* What stands between the separators: without a separator in it, or in quotes of
\* which no other one ends it.
IsField(t) ==
    IF masking.engine = "mysql"
    THEN /\ Len(t) >= 2 /\ t[1] = "'" /\ t[Len(t)] = "'" /\ t[Len(t) - 1] # "\\"
         /\ \A k \in 2 .. Len(t) - 1 : t[k] = "'" => t[k - 1] = "\\"
    ELSE \A k \in 1 .. Len(t) : t[k] # M!Sep

\* The beginnings of a text.
LEMMA Beginnings ==
    ASSUME NEW t \in Texts
    PROVE  /\ Len(t) \in Nat
           /\ \A k \in 1 .. Len(t) : t[k] \in Characters
           /\ SubSeq(t, 1, 0) = <<>> /\ SubSeq(t, 1, Len(t)) = t
           /\ \A k \in 0 .. Len(t) : SubSeq(t, 1, k) \in Texts
           /\ \A k \in 1 .. Len(t) : SubSeq(t, 1, k) = Append(SubSeq(t, 1, k - 1), t[k])
<1> USE DEF Texts
<1>1. Len(t) \in Nat /\ \A k \in 1 .. Len(t) : t[k] \in Characters
  OBVIOUS
<1>2. SubSeq(t, 1, 0) = <<>> /\ SubSeq(t, 1, Len(t)) = t
  OBVIOUS
<1>3. \A k \in 0 .. Len(t) : SubSeq(t, 1, k) \in Texts
  OBVIOUS
<1>4. ASSUME NEW k \in 1 .. Len(t) PROVE SubSeq(t, 1, k) = Append(SubSeq(t, 1, k - 1), t[k])
  OBVIOUS
<1> QED BY <1>1, <1>2, <1>3, <1>4

\* No separator is taken for a quote or a backslash.
LEMMA SepIs ==
    M!Sep \in Characters /\ M!Sep # "'" /\ M!Sep # "\\" /\ NoChar # "\\"
<1>1. M!Sep \in Characters /\ M!Sep # "'" /\ M!Sep # "\\"
  BY DEF M!Sep, Characters
<1>2. NoChar # "\\"
  BY Zenon DEF NoChar
<1> QED BY <1>1, <1>2

\* The state of the cut of a field after k of its characters.
Previous(t, p, k) == IF k = 0 THEN p ELSE t[k]
Quoted(t, k) == masking.engine = "mysql" /\ 0 < k /\ k < Len(t)
At(vs, p, t, k) ==
    [values |-> vs, current |-> SubSeq(t, 1, k), in_quotes |-> Quoted(t, k),
     prev |-> Previous(t, p, k)]

\* These are states.
LEMMA AtState ==
    ASSUME NEW t \in Texts, NEW vs \in Seq(Texts), NEW p \in {NoChar, M!Sep}, NEW k \in 0 .. Len(t)
    PROVE  At(vs, p, t, k) \in States
<1>1. Previous(t, p, k) \in Characters \cup {NoChar}
  <2>1. CASE k = 0
    BY <2>1, SepIs DEF Previous
  <2>2. CASE k # 0
    <3>1. k \in 1 .. Len(t)
      BY <2>2, Beginnings
    <3> QED BY <2>2, <3>1, Beginnings DEF Previous
  <2> QED BY <2>1, <2>2
<1>2. Quoted(t, k) \in BOOLEAN
  BY Zenon DEF Quoted
<1>3. SubSeq(t, 1, k) \in Texts
  BY Beginnings
<1> QED BY <1>1, <1>2, <1>3, StateOf DEF At

\* Each comes from the one before it: in a field, every separator is in quotes, and
\* the quote that ends them is the last character.
LEMMA AtNext ==
    ASSUME NEW t \in Texts, IsField(t), NEW vs \in Seq(Texts), NEW p \in {NoChar, M!Sep},
           NEW k \in 1 .. Len(t)
    PROVE  At(vs, p, t, k) = CutOf(At(vs, p, t, k - 1), t[k])
<1> DEFINE s == At(vs, p, t, k - 1)
<1>1. /\ Len(t) \in Nat /\ k - 1 \in 0 .. Len(t) /\ t[k] \in Characters
      /\ SubSeq(t, 1, k) = Append(SubSeq(t, 1, k - 1), t[k])
  BY Beginnings
<1>2. s \in States /\ At(vs, p, t, k) \in States
  BY <1>1, AtState
<1>3. /\ s.values = vs /\ s.current = SubSeq(t, 1, k - 1)
      /\ s.in_quotes = Quoted(t, k - 1) /\ s.prev = Previous(t, p, k - 1)
  BY Zenon DEF At
<1>4. ~(t[k] = M!Sep /\ ~Quoted(t, k - 1))
  <2>1. CASE masking.engine = "mysql"
    <3>1. ASSUME ~Quoted(t, k - 1) PROVE t[k] = "'"
      <4>1. k = 1 \/ k = Len(t) + 1
        BY <1>1, <2>1, <3>1 DEF Quoted
      <4> QED BY <1>1, <2>1, <4>1 DEF IsField
    <3> QED BY <3>1, SepIs
  <2>2. CASE masking.engine # "mysql"
    BY <2>2 DEF IsField
  <2> QED BY <2>1, <2>2
<1>5. Quoted(t, k) <=>
        (Quoted(t, k - 1) <=>
           ~(masking.engine = "mysql" /\ t[k] = "'" /\ Previous(t, p, k - 1) # "\\"))
  <2>1. CASE masking.engine = "mysql"
    <3>0. Len(t) >= 2 /\ t[1] = "'" /\ t[Len(t)] = "'" /\ t[Len(t) - 1] # "\\"
         /\ \A j \in 2 .. Len(t) - 1 : t[j] = "'" => t[j - 1] = "\\"
      BY <2>1 DEF IsField
    <3>1. CASE k = 1
      <4>1. p # "\\"
        BY SepIs
      <4>2. Previous(t, p, k - 1) = p
        BY <3>1 DEF Previous
      <4>3. ~Quoted(t, k - 1) /\ Quoted(t, k)
        BY <1>1, <2>1, <3>0, <3>1 DEF Quoted
      <4>4. t[k] = "'"
        BY <3>0, <3>1
      <4> QED BY <2>1, <4>1, <4>2, <4>3, <4>4
    <3>2. CASE k = Len(t)
      <4>2. Previous(t, p, k - 1) = t[Len(t) - 1]
        BY <1>1, <3>0, <3>2 DEF Previous
      <4>3. Quoted(t, k - 1) /\ ~Quoted(t, k)
        BY <1>1, <2>1, <3>0, <3>2 DEF Quoted
      <4>4. t[k] = "'"
        BY <3>0, <3>2
      <4> QED BY <2>1, <3>0, <4>2, <4>3, <4>4
    <3>3. CASE k # 1 /\ k # Len(t)
      <4>1. k \in 2 .. Len(t) - 1
        BY <1>1, <3>3
      <4>2. Previous(t, p, k - 1) = t[k - 1]
        BY <1>1, <4>1 DEF Previous
      <4>3. Quoted(t, k - 1) /\ Quoted(t, k)
        BY <1>1, <2>1, <4>1 DEF Quoted
      <4>4. t[k] = "'" => t[k - 1] = "\\"
        BY <3>0, <4>1
      <4> QED BY <2>1, <4>2, <4>3, <4>4
    <3> QED BY <3>1, <3>2, <3>3
  <2>2. CASE masking.engine # "mysql"
    BY <2>2 DEF Quoted
  <2> QED BY <2>1, <2>2
<1> DEFINE u == CutOf(s, t[k])
           a == At(vs, p, t, k)
<1>6. /\ u \in States
      /\ u.values = vs /\ u.current = SubSeq(t, 1, k) /\ u.prev = t[k]
      /\ u.in_quotes <=> (Quoted(t, k - 1) <=>
           ~(masking.engine = "mysql" /\ t[k] = "'" /\ Previous(t, p, k - 1) # "\\"))
  <2> HIDE DEF s
  <2>1. ~(t[k] = M!Sep /\ ~s.in_quotes)
    BY <1>3, <1>4, Zenon
  <2>2. /\ u \in States
        /\ u.values = s.values /\ u.current = Append(s.current, t[k]) /\ u.prev = t[k]
        /\ u.in_quotes <=> (s.in_quotes <=>
             ~(masking.engine = "mysql" /\ t[k] = "'" /\ s.prev # "\\"))
    <3> HIDE DEF u
    <3> QED BY <1>1, <1>2, <2>1, CutState, Zenon DEF u
  <2>3. u.current = SubSeq(t, 1, k)
    BY <1>1, <1>3, <2>2, Zenon
  <2> HIDE DEF u
  <2> QED BY <1>3, <2>2, <2>3, Zenon
<1>7. /\ a.values = vs /\ a.current = SubSeq(t, 1, k) /\ (a.in_quotes <=> Quoted(t, k))
      /\ a.prev = t[k]
  <2>1. Previous(t, p, k) = t[k]
    BY <1>1 DEF Previous
  <2> QED BY <2>1, Zenon DEF At
<1>8. (u.in_quotes <=> a.in_quotes) /\ u.in_quotes \in BOOLEAN /\ a.in_quotes \in BOOLEAN
  <2>1. \A x \in States : x.in_quotes \in BOOLEAN
    BY DEF States
  <2> HIDE DEF u, a
  <2>2. u.in_quotes <=> a.in_quotes
    BY <1>5, <1>6, <1>7, Zenon
  <2> QED BY <1>2, <1>6, <2>1, <2>2, Zenon DEF a
<1>9. u.in_quotes = a.in_quotes
  <2> HIDE DEF u, a
  <2>1. \A x \in BOOLEAN, y \in BOOLEAN : (x <=> y) => x = y
    OBVIOUS
  <2> QED BY <1>8, <2>1, Zenon
<1>10. \A x \in States, y \in States :
         x.values = y.values /\ x.current = y.current /\ x.in_quotes = y.in_quotes
         /\ x.prev = y.prev => x = y
  BY DEF States
<1> HIDE DEF u
<1>11. u = a
  <2>1. a \in States
    BY <1>2
  <2> HIDE DEF a
  <2> QED BY <1>6, <1>7, <1>9, <1>10, <2>1
<1> QED BY <1>11 DEF u

\* From between two fields, a field is read as one.
LEMMA FieldReads ==
    ASSUME NEW t \in Texts, IsField(t), NEW vs \in Seq(Texts), NEW p \in {NoChar, M!Sep}
    PROVE  \E q \in Characters \cup {NoChar} :
             Reads([values |-> vs, current |-> <<>>, in_quotes |-> FALSE, prev |-> p], t,
                   [values |-> vs, current |-> t, in_quotes |-> FALSE, prev |-> q])
<1> DEFINE st == [k \in 0 .. Len(t) |-> At(vs, p, t, k)]
<1>1. Len(t) \in Nat
  BY Beginnings
<1>2. /\ st \in [0 .. Len(t) -> States]
      /\ st[0] = At(vs, p, t, 0) /\ st[Len(t)] = At(vs, p, t, Len(t))
  BY <1>1, AtState
<1>3. \A k \in 1 .. Len(t) : st[k] = CutOf(st[k - 1], t[k])
  <2> TAKE k \in 1 .. Len(t)
  <2>1. k \in 0 .. Len(t) /\ k - 1 \in 0 .. Len(t)
    BY <1>1
  <2> QED BY <2>1, AtNext
<1> HIDE DEF st
<1>4. Reads(At(vs, p, t, 0), t, At(vs, p, t, Len(t)))
  BY <1>2, <1>3 DEF Reads
<1>5. Quoted(t, 0) = FALSE /\ Quoted(t, Len(t)) = FALSE
  BY <1>1 DEF Quoted
<1>6. At(vs, p, t, 0) = [values |-> vs, current |-> <<>>, in_quotes |-> FALSE, prev |-> p]
  BY <1>5, Beginnings, Zenon DEF At, Previous
<1>7. At(vs, p, t, Len(t)) =
        [values |-> vs, current |-> t, in_quotes |-> FALSE, prev |-> Previous(t, p, Len(t))]
  BY <1>5, Beginnings, Zenon DEF At
<1>8. Previous(t, p, Len(t)) \in Characters \cup {NoChar}
  <2>1. Len(t) # 0 => Len(t) \in 1 .. Len(t)
    BY <1>1
  <2> QED BY <2>1, SepIs, Beginnings DEF Previous
<1> QED BY <1>4, <1>6, <1>7, <1>8

-----------------------------------------------------------------------------
(* What the dump writes *)

\* The line of two fields.
LEMMA JoinTwo ==
    ASSUME NEW a \in Texts, NEW b \in Texts PROVE M!Join(<<a, b>>) = (a \o <<M!Sep>>) \o b
<1> DEFINE v == <<a, b>>
           h == [s \in SUBSET {1} |-> IF s = {} THEN a ELSE (a \o <<M!Sep>>) \o b]
<1>1. Head(v) = a /\ Tail(v) = <<b>> /\ DOMAIN Tail(v) = {1} /\ Tail(v)[1] = b
  OBVIOUS
<1>2. M!Max({1}) = 1
  BY MaxIs
<1>3. \A s \in SUBSET {1} : s = {} \/ s = {1}
  OBVIOUS
<1>4. h[{}] = a /\ h[{1}] = (h[{}] \o <<M!Sep>>) \o b
  OBVIOUS
<1> HIDE DEF v
<1>5. h = [s \in SUBSET (DOMAIN Tail(v)) |->
              IF s = {} THEN Head(v) ELSE h[s \ {M!Max(s)}] \o <<M!Sep>> \o Tail(v)[M!Max(s)]]
  <2>1. ASSUME NEW s \in SUBSET {1}
        PROVE  h[s] = IF s = {} THEN a ELSE h[s \ {M!Max(s)}] \o <<M!Sep>> \o Tail(v)[M!Max(s)]
    <3> HIDE DEF h
    <3>1. CASE s = {}
      BY <1>4, <3>1
    <3>2. CASE s = {1}
      <4>1. s \ {M!Max(s)} = {}
        BY <1>2, <3>2
      <4> QED BY <1>1, <1>2, <1>4, <3>2, <4>1
    <3> QED BY <1>3, <3>1, <3>2
  <2> QED BY <1>1, <2>1
<1>6. PICK k : /\ k = [s \in SUBSET (DOMAIN Tail(v)) |->
                          IF s = {} THEN Head(v)
                          ELSE k[s \ {M!Max(s)}] \o <<M!Sep>> \o Tail(v)[M!Max(s)]]
               /\ M!Join(v) = k[DOMAIN Tail(v)]
  <2> HIDE DEF h
  <2> QED BY <1>5, JoinIs
<1>7. k[{}] = a
  BY <1>1, <1>6
<1>8. k[{1}] = (k[{}] \o <<M!Sep>>) \o b
  <2>1. {1} \ {M!Max({1})} = {}
    BY <1>2
  <2> QED BY <1>1, <1>2, <1>6, <2>1
<1> QED BY <1>1, <1>6, <1>7, <1>8 DEF v

\* A value is written character by character.
LEMMA FlatReads ==
    ASSUME NEW N \in Nat, NEW w \in [1 .. N -> Texts]
    PROVE  \E fl \in [0 .. N -> Texts] :
             /\ fl[0] = <<>> /\ fl[N] = M!FlattenSeq(w)
             /\ \A k \in 1 .. N : fl[k] = fl[k - 1] \o w[k]
<1>1. Len(w) = N /\ <<>> \in Texts
  BY DEF Texts
<1>2. \A x \in Texts, y \in Texts : x \o y \in Texts /\ <<>> \o y = y
  BY DEF Texts
<1>3. CASE N = 0
  <2> DEFINE fl == [k \in 0 .. 0 |-> <<>>]
  <2>1. M!FlattenSeq(w) = <<>>
    BY <1>1, <1>3 DEF M!FlattenSeq
  <2>2. fl \in [0 .. N -> Texts] /\ fl[0] = <<>> /\ fl[N] = <<>>
    BY <1>1, <1>3
  <2>3. 1 .. N = {}
    BY <1>3
  <2> QED BY <2>1, <2>2, <2>3
<1>4. CASE N # 0
  <2> DEFINE g == [p \in (1 .. N) \X Texts |-> p[2] \o w[p[1]]]
  <2>1. g \in [(1 .. N) \X Texts -> Texts]
    BY <1>2
  <2>2. PICK h \in [SUBSET (1 .. N) -> Texts] : IsFold(h, N, <<>>, g)
    <3> HIDE DEF g
    <3> QED BY <1>1, <2>1, FoldExists
  <2>3. h[{}] = <<>>
    BY <2>2 DEF IsFold
  <2>4. \A k \in 1 .. N : h[1 .. k] = h[1 .. (k - 1)] \o w[k]
    <3> TAKE k \in 1 .. N
    <3>0. k \in Nat \ {0}
      OBVIOUS
    <3>1. 1 .. k # {} /\ M!Max(1 .. k) = k /\ (1 .. k) \ {k} = 1 .. (k - 1)
      BY <3>0, Prefixes
    <3>2. (1 .. k) \in SUBSET (1 .. N) /\ 1 .. (k - 1) \in SUBSET (1 .. N)
      OBVIOUS
    <3>3. h[1 .. k] = g[<<k, h[1 .. (k - 1)]>>]
      BY <2>2, <3>1, <3>2 DEF IsFold
    <3>4. h[1 .. (k - 1)] \in Texts
      BY <3>2
    <3> QED BY <3>3, <3>4
  <2> DEFINE f == [i \in 1 .. Len(w) |-> h[1 .. i]]
  <2>5. f = [i \in 1 .. Len(w) |-> IF i = 1 THEN w[i] ELSE f[i - 1] \o w[i]]
    <3>1. ASSUME NEW i \in 1 .. N PROVE f[i] = IF i = 1 THEN w[i] ELSE f[i - 1] \o w[i]
      <4>1. CASE i = 1
        <5>1. 1 .. (i - 1) = {}
          BY <4>1
        <5> QED BY <1>1, <1>2, <2>3, <2>4, <4>1, <5>1
      <4>2. CASE i # 1
        <5>1. i - 1 \in 1 .. N
          BY <4>2
        <5> QED BY <1>1, <2>4, <4>2, <5>1
      <4> QED BY <4>1, <4>2
    <3> QED BY <1>1, <3>1
  <2>6. PICK k : /\ k = [i \in 1 .. Len(w) |-> IF i = 1 THEN w[i] ELSE k[i - 1] \o w[i]]
                 /\ M!FlattenSeq(w) = k[Len(w)]
    <3>1. Len(w) # 0
      BY <1>1, <1>4
    <3> HIDE DEF f
    <3> QED BY <2>5, <3>1, FlatIs
  <2> DEFINE fl == [i \in 0 .. N |-> IF i = 0 THEN <<>> ELSE k[i]]
             P == {n \in Nat : n <= N => fl[n] \in Texts}
  <2>7. fl[0] = <<>> /\ fl[N] = M!FlattenSeq(w)
    BY <1>1, <1>4, <2>6
  <2>8. \A i \in 1 .. N : fl[i] = fl[i - 1] \o w[i]
    <3> TAKE i \in 1 .. N
    <3>0. k[i] = (IF i = 1 THEN w[i] ELSE k[i - 1] \o w[i]) /\ fl[i] = k[i] /\ w[i] \in Texts
      <4>1. i \in 1 .. Len(w)
        BY <1>1
      <4>2. k[i] = IF i = 1 THEN w[i] ELSE k[i - 1] \o w[i]
        BY <2>6, <4>1
      <4> QED BY <4>2
    <3>1. CASE i = 1
      <4>1. fl[i - 1] = <<>>
        BY <3>1
      <4> HIDE DEF fl
      <4> QED BY <1>2, <3>0, <3>1, <4>1
    <3>2. CASE i # 1
      <4>1. fl[i - 1] = k[i - 1]
        BY <3>2
      <4> HIDE DEF fl
      <4> QED BY <3>0, <3>2, <4>1
    <3> QED BY <3>1, <3>2
  <2>9. P = Nat
    <3> HIDE DEF fl
    <3>1. 0 \in P
      BY <1>1, <2>7
    <3>2. ASSUME NEW n \in P PROVE n + 1 \in P
      <4>1. CASE n + 1 <= N
        <5>1. fl[n] \in Texts /\ n + 1 \in 1 .. N /\ (n + 1) - 1 = n
          BY <4>1
        <5>2. w[n + 1] \in Texts
          BY <5>1
        <5>3. fl[n + 1] = fl[n] \o w[n + 1]
          BY <2>8, <5>1
        <5>4. fl[n + 1] \in Texts
          BY <1>2, <5>1, <5>2, <5>3, Zenon
        <5> QED BY <5>4
      <4>2. CASE ~(n + 1 <= N)
        BY <4>2
      <4> QED BY <4>1, <4>2
    <3> QED BY <3>1, <3>2, SetInduction
  <2>10. fl \in [0 .. N -> Texts]
    <3>1. \A n \in 0 .. N : fl[n] \in Texts
      <4> HIDE DEF fl
      <4> TAKE n \in 0 .. N
      <4>1. n \in P /\ n <= N
        BY <2>9
      <4> QED BY <4>1
    <3> QED BY <3>1
  <2> HIDE DEF fl
  <2> QED BY <2>7, <2>8, <2>10
<1> QED BY <1>3, <1>4

\* What the dump writes of a value v up to its n-th character.
IsBody(t, v, n) ==
    /\ n = 0 => t = <<>>
    /\ IF masking.engine = "mysql"
       THEN /\ n > 0 => t # <<>> /\ t[Len(t)] = v[n]
            /\ \A j \in 1 .. Len(t) : t[j] = "'" => j > 1 /\ t[j - 1] = "\\"
       ELSE \A j \in 1 .. Len(t) : t[j] # M!Sep

\* The values that the splitting understands.
Readable(v) ==
    CASE masking.engine = "mysql"    -> v # <<>> => v[Len(v)] # "\\"
      [] masking.engine = "mssql"    -> \A k \in 1 .. Len(v) : v[k] # M!Sep
      [] masking.engine = "postgres" -> TRUE

\* What a character is written as: a text,
LEMMA EscapeText == ASSUME NEW c \in Characters PROVE M!Escape(c) \in Texts
<1>1. \A a \in Characters, b \in Characters : <<a>> \in Texts /\ <<a, b>> \in Texts
  BY DEF Texts
<1>2. "\\" \in Characters /\ "t" \in Characters
  BY DEF Characters
<1> QED BY <1>1, <1>2 DEF M!Escape

\* in MySQL a quote after a backslash,
LEMMA EscapeMySQL ==
    ASSUME masking.engine = "mysql", NEW c \in Characters
    PROVE  M!Escape(c) = <<"\\", c>> \/ (M!Escape(c) = <<c>> /\ c # "'")
BY DEF M!Escape

\* in PostgreSQL and MSSQL nothing with a separator.
LEMMA EscapeOther ==
    ASSUME masking.engine \in {"postgres", "mssql"}, NEW c \in Characters,
           masking.engine = "mssql" => c # M!Sep
    PROVE  \A j \in 1 .. Len(M!Escape(c)) : M!Escape(c)[j] # M!Sep
<1>1. M!Sep = "tab"
  BY DEF M!Sep
<1>2. \/ M!Escape(c) = <<"\\", "\\">> \/ M!Escape(c) = <<"\\", "t">>
      \/ M!Escape(c) = <<c>> /\ c # "tab"
  BY <1>1 DEF M!Escape
<1>3. CASE M!Escape(c) = <<"\\", "\\">>
  <2>1. Len(M!Escape(c)) = 2 /\ M!Escape(c)[1] = "\\" /\ M!Escape(c)[2] = "\\"
    BY <1>3
  <2> QED BY <1>1, <2>1
<1>4. CASE M!Escape(c) = <<"\\", "t">>
  <2>1. Len(M!Escape(c)) = 2 /\ M!Escape(c)[1] = "\\" /\ M!Escape(c)[2] = "t"
    BY <1>4
  <2> QED BY <1>1, <2>1
<1>5. CASE M!Escape(c) = <<c>> /\ c # "tab"
  <2>1. Len(M!Escape(c)) = 1 /\ M!Escape(c)[1] = c
    BY <1>5
  <2> QED BY <1>1, <1>5, <2>1
<1> QED BY <1>2, <1>3, <1>4, <1>5

\* One more character leaves the quotes escaped, or the separator out of the text.
LEMMA BodyGrows ==
    ASSUME masking.engine \in {"postgres", "mysql", "mssql"},
           NEW v \in Texts, NEW n \in 1 .. Len(v), NEW t \in Texts, IsBody(t, v, n - 1),
           masking.engine = "mssql" => v[n] # M!Sep
    PROVE  IsBody(t \o M!Escape(v[n]), v, n)
<1> DEFINE e == M!Escape(v[n])
<1>1. Len(v) \in Nat /\ v[n] \in Characters /\ Len(t) \in Nat
  BY Beginnings
<1>2. e \in Texts /\ Len(e) \in Nat
  BY <1>1, EscapeText, Beginnings
<1>3. /\ Len(t \o e) = Len(t) + Len(e)
      /\ \A j \in 1 .. Len(t) : (t \o e)[j] = t[j]
      /\ \A j \in Len(t) + 1 .. Len(t) + Len(e) : (t \o e)[j] = e[j - Len(t)]
  <2> HIDE DEF e
  <2> QED BY <1>2 DEF Texts
<1>4. CASE masking.engine = "mysql"
  <2>0. \A j \in 1 .. Len(t) : t[j] = "'" => j > 1 /\ t[j - 1] = "\\"
    BY <1>4 DEF IsBody
  <2>1. /\ Len(e) \in {1, 2} /\ e[Len(e)] = v[n]
        /\ Len(e) = 1 => v[n] # "'"
        /\ Len(e) = 2 => e[1] = "\\"
    <3>1. CASE e = <<"\\", v[n]>>
      BY <3>1
    <3>2. CASE e = <<v[n]>> /\ v[n] # "'"
      BY <3>2
    <3> QED BY <1>1, <1>4, <3>1, <3>2, EscapeMySQL
  <2> HIDE DEF e
  <2>2. ASSUME NEW j \in 1 .. Len(t) + Len(e), (t \o e)[j] = "'"
        PROVE  j > 1 /\ (t \o e)[j - 1] = "\\"
    <3>1. CASE j \in 1 .. Len(t)
      <4>1. t[j] = "'"
        BY <1>3, <2>2, <3>1
      <4>2. j > 1 /\ t[j - 1] = "\\"
        BY <2>0, <3>1, <4>1
      <4>3. j - 1 \in 1 .. Len(t)
        <5>1. j > 1
          BY <4>2
        <5> QED BY <1>1, <3>1, <5>1
      <4>4. (t \o e)[j - 1] = t[j - 1]
        BY <1>3, <4>3
      <4> QED BY <4>2, <4>4
    <3>2. CASE j \in Len(t) + 1 .. Len(t) + Len(e)
      <4>1. e[j - Len(t)] = "'"
        BY <1>3, <2>2, <3>2
      <4>2. Len(e) = 2 /\ j = Len(t) + 2
        <5>1. j - Len(t) \in 1 .. Len(e)
          BY <1>1, <1>2, <3>2
        <5>2. CASE Len(e) = 1
          BY <2>1, <4>1, <5>1, <5>2
        <5>3. CASE Len(e) = 2
          <6>1. j - Len(t) # 1
            BY <2>1, <4>1, <5>3
          <6> QED BY <1>1, <3>2, <5>1, <5>3, <6>1
        <5> QED BY <2>1, <5>2, <5>3
      <4>3. (t \o e)[Len(t) + 1] = e[1]
        <5>1. (t \o e)[Len(t) + 1] = e[(Len(t) + 1) - Len(t)]
          BY <1>1, <1>3, <4>2
        <5> QED BY <1>1, <5>1
      <4>4. j > 1 /\ j - 1 = Len(t) + 1
        BY <1>1, <4>2
      <4> QED BY <2>1, <4>2, <4>3, <4>4
    <3> QED BY <1>1, <1>2, <3>1, <3>2
  <2>3. (t \o e)[Len(t \o e)] = v[n]
    <3>1. (t \o e)[Len(t) + Len(e)] = e[(Len(t) + Len(e)) - Len(t)]
      BY <1>1, <1>3, <2>1
    <3> QED BY <1>1, <1>3, <2>1, <3>1
  <2>4. n > 0 /\ t \o e # <<>>
    <3>1. n > 0
      BY <1>1
    <3>2. Len(t) + Len(e) > 0
      <4>1. \A x \in Nat, y \in {1, 2} : x + y > 0
        OBVIOUS
      <4> QED BY <1>1, <2>1, <4>1, Zenon
    <3>3. Len(t \o e) > 0
      BY <1>3, <3>2, Zenon
    <3>4. Len(<<>>) = 0
      OBVIOUS
    <3> QED BY <3>1, <3>3, <3>4
  <2>5. IsBody(t \o e, v, n)
    BY <1>3, <1>4, <2>2, <2>3, <2>4 DEF IsBody
  <2> QED BY <2>5 DEF e
<1>5. CASE masking.engine \in {"postgres", "mssql"}
  <2>1. \A j \in 1 .. Len(e) : e[j] # M!Sep
    BY <1>1, <1>5, EscapeOther
  <2>2. \A j \in 1 .. Len(t) : t[j] # M!Sep
    BY <1>5 DEF IsBody
  <2> HIDE DEF e
  <2>3. ASSUME NEW j \in 1 .. Len(t) + Len(e) PROVE (t \o e)[j] # M!Sep
    <3>1. CASE j \in 1 .. Len(t)
      BY <1>3, <2>2, <3>1
    <3>2. CASE j \in Len(t) + 1 .. Len(t) + Len(e)
      <4>1. j - Len(t) \in 1 .. Len(e)
        BY <1>1, <1>2, <3>2
      <4> QED BY <1>3, <2>1, <3>2, <4>1
    <3> QED BY <1>1, <1>2, <3>1, <3>2
  <2>4. IsBody(t \o e, v, n)
    BY <1>3, <1>5, <2>3 DEF IsBody
  <2> QED BY <2>4 DEF e
<1> QED BY <1>4, <1>5

\* A text in quotes.
LEMMA InQuotes ==
    ASSUME NEW x \in Texts
    PROVE  LET y == (<<"'">> \o x) \o <<"'">> IN
           /\ y \in Texts
           /\ Len(y) = Len(x) + 2 /\ y[1] = "'" /\ y[Len(x) + 2] = "'"
           /\ \A k \in 2 .. Len(x) + 1 : y[k] = x[k - 1]
<1> DEFINE q == "'"
           y == (<<q>> \o x) \o <<q>>
<1>1. q \in Characters
  BY DEF Characters
<1> HIDE DEF q
<1>2. /\ y \in Texts
      /\ Len(y) = Len(x) + 2 /\ y[1] = q /\ y[Len(x) + 2] = q
      /\ \A k \in 2 .. Len(x) + 1 : y[k] = x[k - 1]
  BY <1>1 DEF Texts
<1> QED BY <1>2 DEF q

\* The dump writes a field, by induction on the characters of the value.
LEMMA LiteralIsField ==
    ASSUME masking.engine \in {"postgres", "mysql", "mssql"}, NEW v \in Texts, Readable(v)
    PROVE  M!Literal(v) \in Texts /\ IsField(M!Literal(v))
<1> DEFINE N == Len(v)
           w == [i \in DOMAIN v |-> M!Escape(v[i])]
           text == M!FlattenSeq(w)
<1>1. N \in Nat /\ DOMAIN v = 1 .. N /\ \A k \in 1 .. N : v[k] \in Characters
  BY DEF Texts
<1>2. w \in [1 .. N -> Texts] /\ \A k \in 1 .. N : w[k] = M!Escape(v[k])
  BY <1>1, EscapeText
<1> HIDE DEF N, w
<1>3. PICK fl \in [0 .. N -> Texts] :
        /\ fl[0] = <<>> /\ fl[N] = M!FlattenSeq(w)
        /\ \A k \in 1 .. N : fl[k] = fl[k - 1] \o w[k]
  BY <1>1, <1>2, FlatReads
<1> DEFINE P == {n \in Nat : n <= N => IsBody(fl[n], v, n)}
<1>4. P = Nat
  <2>1. 0 \in P
    <3>1. IsBody(<<>>, v, 0)
      <4>1. Len(<<>>) = 0 /\ 1 .. 0 = {}
        OBVIOUS
      <4> QED BY <4>1 DEF IsBody
    <3> QED BY <1>3, <3>1
  <2>2. ASSUME NEW n \in P PROVE n + 1 \in P
    <3>1. CASE n + 1 <= N
      <4>1. /\ n \in Nat /\ IsBody(fl[n], v, n) /\ n \in 0 .. N
            /\ n + 1 \in 1 .. N /\ (n + 1) - 1 = n
        BY <1>1, <3>1
      <4>2. fl[n] \in Texts
        BY <4>1
      <4>3. fl[n + 1] = fl[n] \o M!Escape(v[n + 1])
        <5>1. fl[n + 1] = fl[(n + 1) - 1] \o w[n + 1]
          BY <1>3, <4>1
        <5> QED BY <1>2, <4>1, <5>1
      <4>4. masking.engine = "mssql" => v[n + 1] # M!Sep
        BY <4>1 DEF Readable, N
      <4>5. IsBody(fl[n] \o M!Escape(v[n + 1]), v, n + 1)
        BY <4>1, <4>2, <4>4, BodyGrows DEF N
      <4>6. IsBody(fl[n + 1], v, n + 1)
        BY <4>3, <4>5
      <4> QED BY <4>1, <4>6
    <3>2. CASE ~(n + 1 <= N)
      BY <3>2
    <3> QED BY <3>1, <3>2
  <2> QED BY <2>1, <2>2, SetInduction
<1>5. text \in Texts /\ IsBody(text, v, N)
  <2>1. N \in P /\ N \in 0 .. N
    BY <1>1, <1>4
  <2> QED BY <1>3, <2>1
<1> DEFINE t == (<<"'">> \o text) \o <<"'">>
<1>6. CASE masking.engine = "mysql"
  <2> HIDE DEF text
  <2>1. Len(text) \in Nat /\ \A k \in 1 .. Len(text) : text[k] \in Characters
    BY <1>5, Beginnings
  <2>2. /\ t \in Texts
        /\ Len(t) = Len(text) + 2 /\ t[1] = "'" /\ t[Len(text) + 2] = "'"
        /\ \A k \in 2 .. Len(text) + 1 : t[k] = text[k - 1]
    BY <1>5, InQuotes
  <2> HIDE DEF t
  <2>3. t[Len(t) - 1] # "\\"
    <3>1. CASE N = 0
      <4>1. Len(text) = 0
        BY <1>5, <3>1 DEF IsBody
      <4> QED BY <2>2, <4>1
    <3>2. CASE N # 0
      <4>1. text # <<>> /\ text[Len(text)] = v[N]
        BY <1>1, <1>5, <1>6, <3>2 DEF IsBody
      <4>2. Len(text) # 0
        BY <1>5, <4>1 DEF Texts
      <4>3. t[Len(t) - 1] = text[Len(text)]
        BY <2>1, <2>2, <4>2
      <4>4. v # <<>>
        BY <3>2 DEF N
      <4> QED BY <1>6, <4>1, <4>3, <4>4 DEF Readable, N
    <3> QED BY <3>1, <3>2
  <2>4. ASSUME NEW k \in 2 .. Len(t) - 1, t[k] = "'" PROVE t[k - 1] = "\\"
    <3>1. k - 1 \in 1 .. Len(text) /\ t[k] = text[k - 1]
      BY <2>1, <2>2
    <3>2. k - 1 > 1 /\ text[(k - 1) - 1] = "\\"
      BY <1>5, <1>6, <2>4, <3>1 DEF IsBody
    <3>3. k - 1 \in 2 .. Len(text) + 1
      BY <2>1, <3>1, <3>2
    <3> QED BY <2>2, <3>2, <3>3
  <2>5. IsField(t)
    BY <1>6, <2>1, <2>2, <2>3, <2>4 DEF IsField
  <2>6. M!Literal(v) = t
    BY <1>6 DEF M!Literal, t, text, w
  <2> QED BY <2>2, <2>5, <2>6
<1>7. CASE masking.engine # "mysql"
  <2>1. M!Literal(v) = text
    BY <1>7 DEF M!Literal, w
  <2> HIDE DEF text
  <2>2. IsField(text)
    BY <1>5, <1>7 DEF IsBody, IsField
  <2> QED BY <1>5, <2>1, <2>2
<1> QED BY <1>6, <1>7

-----------------------------------------------------------------------------
(* What the loops make of it *)

\* The split of the line of two fields are the two fields.
LEMMA SplitOfTwo ==
    ASSUME NEW a \in Texts, IsField(a), NEW b \in Texts, IsField(b)
    PROVE  M!Split((a \o <<M!Sep>>) \o b) = <<a, b>>
<1> DEFINE sep == <<M!Sep>>
           S0(q) == [values |-> <<>>, current |-> a, in_quotes |-> FALSE, prev |-> q]
           S1 == [values |-> <<a>>, current |-> <<>>, in_quotes |-> FALSE, prev |-> M!Sep]
           S2(q) == [values |-> <<a>>, current |-> b, in_quotes |-> FALSE, prev |-> q]
           text == (a \o sep) \o b
<1>1. <<>> \in Seq(Texts) /\ <<a>> \in Seq(Texts) /\ Append(<<>>, a) = <<a>>
  OBVIOUS
<1>2. sep \in Texts /\ a \o sep \in Texts /\ text \in Texts
  <2>1. \A c \in Characters : <<c>> \in Texts
    BY DEF Texts
  <2>2. sep \in Texts
    BY <2>1, SepIs
  <2>3. \A x \in Texts, y \in Texts : x \o y \in Texts
    BY DEF Texts
  <2> HIDE DEF sep
  <2> QED BY <2>2, <2>3
<1>3. PICK q \in Characters \cup {NoChar} : Reads(Start, a, S0(q))
  BY <1>1, FieldReads DEF Start
<1>4. Reads(S0(q), sep, S1)
  <2>1. S0(q) \in States
    BY <1>1, StateOf
  <2>2. S0(q).values = <<>> /\ S0(q).current = a /\ S0(q).in_quotes = FALSE
    OBVIOUS
  <2> HIDE DEF S0
  <2>3. CutOf(S0(q), M!Sep) = S1
    <3>1. CutOf(S0(q), M!Sep) = [values |-> Append(S0(q).values, S0(q).current),
                                 current |-> <<>>, in_quotes |-> FALSE, prev |-> M!Sep]
      BY <2>1, <2>2, SepIs, CutState
    <3> QED BY <1>1, <2>2, <3>1
  <2> HIDE DEF S1
  <2> QED BY <2>1, <2>3, SepIs, ReadsOne
<1>5. PICK r \in Characters \cup {NoChar} : Reads(S1, b, S2(r))
  BY <1>1, FieldReads
<1> HIDE DEF S0, S1
<1>6. Reads(Start, text, S2(r))
  <2> HIDE DEF S2, sep
  <2>1. Reads(Start, a \o sep, S1)
    BY <1>2, <1>3, <1>4, ReadsThen
  <2> QED BY <1>2, <1>5, <2>1, ReadsThen
<1>7. PICK u \in States : Reads(Start, text, u) /\ M!Split(text) = Append(u.values, u.current)
  <2> HIDE DEF text
  <2> QED BY <1>2, SplitReads
<1>8. u = S2(r)
  <2> HIDE DEF text, S2
  <2> QED BY <1>2, <1>6, <1>7, ReadsOnce
<1>9. u.values = <<a>> /\ u.current = b
  BY <1>8
<1>10. Append(<<a>>, b) = <<a, b>>
  <2>1. Append(<<a>>, b) = [i \in 1 .. 2 |-> IF i = 2 THEN b ELSE <<a>>[i]]
    OBVIOUS
  <2>2. <<a, b>> = [i \in 1 .. 2 |-> IF i = 2 THEN b ELSE <<a>>[i]]
    OBVIOUS
  <2> QED BY <2>1, <2>2
<1> QED BY <1>7, <1>9, <1>10

\* The splitting finds in a row the fields that the dump has joined.
Literals(values) == [i \in M!Columns |-> M!Literal(values[i])]
SplitsWell(values) == M!Split(M!Join(Literals(values))) = Literals(values)

\* _split_values and split('\t') undo what the dumps write, for values of any length:
\* in MySQL those that do not end in a backslash, in MSSQL those without a tab.
THEOREM ReadableSplits ==
    ASSUME masking.engine \in {"postgres", "mysql", "mssql"}, NEW values,
           \A i \in M!Columns : values[i] \in Texts /\ Readable(values[i])
    PROVE  SplitsWell(values)
<1> DEFINE a == M!Literal(values[1])
           b == M!Literal(values[2])
<1>1. /\ a \in Texts /\ IsField(a)
      /\ b \in Texts /\ IsField(b)
  <2>1. 1 \in M!Columns /\ 2 \in M!Columns
    BY DEF M!Columns
  <2> QED BY <2>1, LiteralIsField
<1>2. Literals(values) = <<a, b>>
  <2>1. M!Columns = 1 .. 2
    BY DEF M!Columns
  <2>2. Literals(values) = [i \in 1 .. 2 |-> M!Literal(values[i])]
    BY <2>1 DEF Literals
  <2> QED BY <2>2
<1> HIDE DEF a, b
<1>3. M!Split(M!Join(<<a, b>>)) = <<a, b>>
  BY <1>1, JoinTwo, SplitOfTwo
<1> QED BY <1>2, <1>3 DEF SplitsWell

\* The rows of which Missplit says nothing have such values.
LEMMA ValueReadable ==
    ASSUME masking.engine \in Engines,
           line \in [M!Columns -> M!Values], ~M!Missplit(line)
    PROVE  \A i \in M!Columns : line[i] \in Texts /\ Readable(line[i])
<1>1. ASSUME NEW i \in M!Columns PROVE line[i] \in Seq(M!Chars) /\ line[i] \in M!Values
  <2>1. line[i] \in M!Values
    OBVIOUS
  <2>2. PICK n \in 0 .. MaxValue : line[i] \in [1 .. n -> M!Chars]
    BY <2>1 DEF M!Values
  <2>3. n \in Nat
    BY WorkAssumption DEF WorkAssumption
  <2> QED BY <2>1, <2>2, <2>3
<1>2. ASSUME NEW i \in M!Columns PROVE line[i] \in Texts
  <2>1. M!Chars \subseteq Characters
    BY SepIs DEF M!Chars, M!Odd, Characters
  <2>2. \A X, Y : X \subseteq Y => Seq(X) \subseteq Seq(Y)
    OBVIOUS
  <2> QED BY <1>1, <2>1, <2>2, Zenon DEF Texts
<1>3. masking.engine \in {"postgres", "mysql", "mssql"}
  BY WorkAssumption DEF WorkAssumption
<1>4. ASSUME NEW i \in M!Columns PROVE Readable(line[i])
  <2> DEFINE v == line[i]
  <2>0. Len(v) \in Nat /\ DOMAIN v = 1 .. Len(v)
    BY <1>2 DEF Texts
  <2>1. CASE masking.engine = "mysql"
    <3>1. ~(v # <<>> /\ M!Last(v) = "\\")
      BY <2>1 DEF M!Missplit
    <3>2. v # <<>> => v[Len(v)] # "\\"
      BY <3>1 DEF M!Last
    <3> HIDE DEF v
    <3>3. Readable(v)
      BY <2>1, <3>2 DEF Readable
    <3> QED BY <3>3 DEF v
  <2>2. CASE masking.engine = "mssql"
    <3>1. M!Sep \notin M!Range(v)
      BY <2>2 DEF M!Missplit
    <3>2. \A k \in 1 .. Len(v) : v[k] # M!Sep
      BY <2>0, <3>1 DEF M!Range
    <3> HIDE DEF v
    <3>3. Readable(v)
      BY <2>2, <3>2 DEF Readable
    <3> QED BY <3>3 DEF v
  <2>3. CASE masking.engine = "postgres"
    BY <2>3 DEF Readable
  <2> QED BY <1>3, <2>1, <2>2, <2>3
<1> QED BY <1>2, <1>4

\* No line break in the values, none in their text: what the file of MSSQL says of a row
\* that is split well is one line.
LEMMA OneLine ==
    ASSUME masking.engine = "mssql", NEW values,
           \A i \in M!Columns : values[i] \in Texts /\ M!Odd \notin M!Range(values[i])
    PROVE  M!Odd \notin M!Range(M!Join(Literals(values)))
<1> DEFINE Plain(t) == t \in Texts /\ \A k \in 1 .. Len(t) : t[k] # M!Odd
<1>0. M!Odd = "newline" /\ M!Sep = "tab"
  BY DEF M!Odd, M!Sep
<1>1. ASSUME NEW a, NEW b, Plain(a), Plain(b) PROVE Plain(a \o b)
  BY <1>1 DEF Texts
<1>2. ASSUME NEW v, Plain(v) PROVE Plain(M!Literal(v))
  <2> DEFINE w == [i \in DOMAIN v |-> M!Escape(v[i])]
             N == Len(v)
  <2>1. N \in Nat /\ DOMAIN v = 1 .. N /\ \A k \in 1 .. N : v[k] \in Characters /\ v[k] # M!Odd
    BY <1>2 DEF Texts
  <2>2. \A k \in 1 .. N : M!Escape(v[k]) = <<v[k]>>
    BY DEF M!Escape
  <2>3. w \in [1 .. N -> Texts] /\ \A k \in 1 .. N : w[k] = <<v[k]>>
    BY <2>1, <2>2, EscapeText
  <2>4. M!Literal(v) = M!FlattenSeq(w)
    BY DEF M!Literal
  <2> HIDE DEF w, N
  <2>5. PICK fl \in [0 .. N -> Texts] :
          /\ fl[0] = <<>> /\ fl[N] = M!FlattenSeq(w)
          /\ \A k \in 1 .. N : fl[k] = fl[k - 1] \o w[k]
    BY <2>1, <2>3, FlatReads
  <2> DEFINE P == {n \in Nat : n <= N => Plain(fl[n])}
  <2>6. P = Nat
    <3>1. 0 \in P
      <4>1. Plain(<<>>)
        BY DEF Texts
      <4> HIDE DEF Plain
      <4> QED BY <2>5, <4>1
    <3>2. ASSUME NEW n \in P PROVE n + 1 \in P
      <4>1. CASE n + 1 <= N
        <5>1. Plain(fl[n]) /\ n + 1 \in 1 .. N /\ (n + 1) - 1 = n
          BY <2>1, <4>1
        <5>2. Plain(w[n + 1])
          <6>1. \A c \in Characters : c # M!Odd => Plain(<<c>>)
            BY DEF Texts
          <6> HIDE DEF Plain
          <6> QED BY <2>1, <2>3, <5>1, <6>1
        <5>3. fl[n + 1] = fl[n] \o w[n + 1]
          BY <2>5, <5>1
        <5> HIDE DEF Plain
        <5>4. Plain(fl[n + 1])
          BY <1>1, <5>1, <5>2, <5>3
        <5> QED BY <5>4
      <4>2. CASE ~(n + 1 <= N)
        BY <4>2
      <4> QED BY <4>1, <4>2
    <3> HIDE DEF Plain
    <3> QED BY <3>1, <3>2, SetInduction
  <2> HIDE DEF Plain
  <2>7. Plain(fl[N])
    <3>1. N \in P
      BY <2>1, <2>6
    <3> QED BY <2>1, <3>1
  <2> QED BY <2>4, <2>5, <2>7
<1> DEFINE a == M!Literal(values[1])
           b == M!Literal(values[2])
<1>3. Plain(a) /\ Plain(b)
  <2>1. ASSUME NEW i \in M!Columns PROVE Plain(values[i])
    BY DEF M!Range, Texts
  <2>2. 1 \in M!Columns /\ 2 \in M!Columns
    BY DEF M!Columns
  <2> HIDE DEF Plain
  <2> QED BY <1>2, <2>1, <2>2
<1>4. Literals(values) = <<a, b>>
  <2>1. M!Columns = 1 .. 2
    BY DEF M!Columns
  <2>2. Literals(values) = [i \in 1 .. 2 |-> M!Literal(values[i])]
    BY <2>1 DEF Literals
  <2> QED BY <2>2
<1> HIDE DEF a, b
<1>5. M!Join(<<a, b>>) = (a \o <<M!Sep>>) \o b
  BY <1>3, JoinTwo
<1>6. Plain((a \o <<M!Sep>>) \o b)
  <2>1. \A c \in Characters : c # M!Odd => Plain(<<c>>)
    BY DEF Texts
  <2>2. M!Sep \in Characters /\ M!Sep # M!Odd
    BY <1>0, SepIs
  <2> HIDE DEF Plain
  <2> QED BY <1>1, <1>3, <2>1, <2>2
<1>7. \A t : Plain(t) => M!Odd \notin M!Range(t)
  BY DEF M!Range, Texts
<1> HIDE DEF Plain
<1> QED BY <1>4, <1>5, <1>6, <1>7

-----------------------------------------------------------------------------
(* The rows of a dump *)

\* There is a row only while its table is loaded, and a table only of a dump.
MaskTypeInv ==
    /\ M!TypeOK
    /\ masking.engine = "none" => loading = "none"
    /\ line # <<>> => loading = "people"

\* The values of an engine are the same while its dump runs.
LEMMA SameValues == masking' = masking => M!Values' = M!Values
  BY DEF M!Values, M!Chars, M!Odd, M!Sep

\* Every step keeps the types of the masking.
LEMMA MaskTypes == MaskTypeInv /\ [M!Next]_(M!vars) => MaskTypeInv'
<1> SUFFICES ASSUME MaskTypeInv, [M!Next]_(M!vars) PROVE MaskTypeInv'
  OBVIOUS
<1> USE DEF MaskTypeInv, M!TypeOK
<1>1. ASSUME NEW e \in Engines, NEW r \in SUBSET M!Columns,
             NEW p \in [M!Columns -> M!Spellings], NEW c \in BOOLEAN, M!Begin(e, r, p, c)
      PROVE  MaskTypeInv'
  BY <1>1, SameValues DEF M!Begin
<1>2. ASSUME NEW m \in BOOLEAN, M!TableBegins(m) PROVE MaskTypeInv'
  BY <1>2, SameValues DEF M!TableBegins
<1>3. ASSUME NEW f \in [M!Columns -> M!Values], M!Row(f) PROVE MaskTypeInv'
  BY <1>3, SameValues DEF M!Row
<1>4. CASE M!RelayRow
  BY <1>4, SameValues DEF M!RelayRow
<1>5. CASE M!RowLikeHeader
  BY <1>5, SameValues DEF M!RowLikeHeader
<1>6. CASE M!TableEnds
  BY <1>6, SameValues DEF M!TableEnds
<1>7. CASE UNCHANGED M!vars
  BY <1>7, SameValues DEF M!vars
<1> HIDE DEF MaskTypeInv, M!TypeOK
<1> QED
  BY <1>1, <1>2, <1>3, <1>4, <1>5, <1>6, <1>7
  DEF M!Next

\* The types hold from the beginning on.
LEMMA MaskInvariant == M!Spec => []MaskTypeInv
<1>1. M!Init => MaskTypeInv
  BY DEF M!Init, MaskTypeInv, M!TypeOK, M!Spellings, M!Columns
<1> QED
  BY <1>1, MaskTypes, PTL DEF M!Spec

\* The loop finds the rules in their places, unless a name hides one or moves it.
LEMMA NamesInPlace ==
    ASSUME M!TypeOK, ~M!Misplaced, NEW i \in M!Columns
    PROVE  i \in DOMAIN M!ColNames /\ M!ColNames[i] \in masking.ruled <=> i \in masking.ruled
<1> DEFINE Parts(j) == CASE masking.spelt[j] = "plain"   -> <<j>>
                         [] masking.spelt[j] = "quoted"  -> <<0>>
                         [] masking.spelt[j] = "comma"   -> <<0, 0>>
                         [] masking.spelt[j] = "dropped" -> <<>>
<1>1. /\ M!ColNames = Parts(1) \o Parts(2) /\ masking.ruled \subseteq {1, 2} /\ i \in {1, 2}
      /\ masking.spelt[1] \in {"plain", "quoted", "comma", "dropped"}
      /\ masking.spelt[2] \in {"plain", "quoted", "comma", "dropped"}
  BY DEF M!ColNames, M!TypeOK, M!Columns, M!Spellings
<1>2. /\ 1 \in masking.ruled => masking.spelt[1] = "plain"
      /\ 2 \in masking.ruled => masking.spelt[2] = "plain" /\ masking.spelt[1] \in {"plain", "quoted"}
  BY <1>1 DEF M!Misplaced, M!Columns
<1>3. Parts(1) \in {<<1>>, <<0>>, <<0, 0>>, <<>>} /\ Parts(2) \in {<<2>>, <<0>>, <<0, 0>>, <<>>}
  BY <1>1
<1>4. /\ 1 \in masking.ruled => Parts(1) = <<1>>
      /\ 2 \in masking.ruled => Parts(2) = <<2>> /\ Parts(1) \in {<<1>>, <<0>>}
  BY <1>1, <1>2
<1> HIDE DEF Parts
<1>5. /\ \A k \in {0, 1, 2} : <<k>> \in Seq({0, 1, 2})
      /\ <<0, 0>> \in Seq({0, 1, 2}) /\ <<>> \in Seq({0, 1, 2})
  <2>1. \A k \in {0, 1, 2} : <<k>> \in Seq({0, 1, 2})
    OBVIOUS
  <2>2. <<0, 0>> \in Seq({0, 1, 2})
    OBVIOUS
  <2>3. <<>> \in Seq({0, 1, 2})
    OBVIOUS
  <2> QED BY <2>1, <2>2, <2>3
<1>6. Parts(1) \in Seq({0, 1, 2}) /\ Parts(2) \in Seq({0, 1, 2})
  BY <1>3, <1>5
<1>7. /\ DOMAIN M!ColNames = 1 .. Len(Parts(1)) + Len(Parts(2))
      /\ \A k \in 1 .. Len(Parts(1)) : M!ColNames[k] = Parts(1)[k]
      /\ \A k \in Len(Parts(1)) + 1 .. Len(Parts(1)) + Len(Parts(2)) :
           M!ColNames[k] = Parts(2)[k - Len(Parts(1))]
  BY <1>1, <1>6
<1>8. /\ Len(<<1>>) = 1 /\ <<1>>[1] = 1 /\ Len(<<2>>) = 1 /\ <<2>>[1] = 2
      /\ Len(<<0>>) = 1 /\ <<0>>[1] = 0 /\ Len(<<>>) = 0
      /\ Len(<<0, 0>>) = 2 /\ <<0, 0>>[1] = 0 /\ <<0, 0>>[2] = 0
  OBVIOUS
<1>9. CASE 2 \in masking.ruled
  <2>1. /\ Len(Parts(1)) = 1 /\ Len(Parts(2)) = 1 /\ Parts(2)[1] = 2
        /\ Parts(1)[1] = IF 1 \in masking.ruled THEN 1 ELSE Parts(1)[1]
        /\ Parts(1)[1] \in {0, 1}
    BY <1>4, <1>8, <1>9
  <2>2. DOMAIN M!ColNames = 1 .. 2 /\ M!ColNames[1] = Parts(1)[1] /\ M!ColNames[2] = 2
    BY <1>7, <2>1
  <2>3. 0 \notin masking.ruled
    BY <1>1
  <2> QED BY <1>1, <1>9, <2>1, <2>2, <2>3
<1>10. CASE 2 \notin masking.ruled
  <2>1. ASSUME 1 \in masking.ruled PROVE 1 \in DOMAIN M!ColNames /\ M!ColNames[1] = 1
    <3>1. Len(Parts(1)) = 1 /\ Parts(1)[1] = 1 /\ Len(Parts(2)) \in Nat
      BY <1>4, <1>6, <1>8, <2>1
    <3> QED BY <1>7, <3>1
  <2>2. ASSUME 2 \in DOMAIN M!ColNames PROVE M!ColNames[2] \in {0, 2}
    <3>1. Len(Parts(1)) \in {0, 1, 2} /\ Len(Parts(2)) \in {0, 1, 2}
      BY <1>3, <1>8
    <3>2. CASE Len(Parts(1)) = 2
      <4>1. Parts(1)[2] = 0
        BY <1>3, <1>8, <3>2
      <4> QED BY <1>7, <3>2, <4>1
    <3>3. CASE Len(Parts(1)) # 2
      <4>1. /\ 2 - Len(Parts(1)) \in 1 .. Len(Parts(2))
            /\ 2 \in Len(Parts(1)) + 1 .. Len(Parts(1)) + Len(Parts(2))
        BY <1>7, <2>2, <3>1, <3>3
      <4>2. \A k \in 1 .. Len(Parts(2)) : Parts(2)[k] \in {0, 2}
        BY <1>3, <1>8
      <4> QED BY <1>7, <4>1, <4>2
    <3> QED BY <3>2, <3>3
  <2>3. 0 \notin masking.ruled
    BY <1>1
  <2>4. ASSUME 1 \notin masking.ruled PROVE masking.ruled = {}
    BY <1>1, <1>10, <2>4
  <2> QED BY <1>1, <1>10, <2>1, <2>2, <2>3, <2>4
<1> QED BY <1>9, <1>10

\* If the splitting finds the fields, what the loops make of headers, names and rows
\* masks every ruled column and changes nothing else.
LEMMA SplitsWellIsMasked ==
    ASSUME MaskTypeInv, masking.ruled # {} => SplitsWell(line), line # <<>>,
           masking.engine = "mssql" /\ masking.ruled # {} =>
             M!Odd \notin M!Range(M!Join(Literals(line))),
           ~M!Misread(line)
    PROVE  M!Relayed(line) = M!Masked(line)
<1>1. ~M!Altered(line)
  BY DEF M!Misread
<1>2. [i \in M!Columns |-> M!Literal(M!Stripped(line[i]))] = Literals(line)
  <2>1. \A i \in M!Columns : M!Stripped(line[i]) = line[i]
    BY <1>1 DEF M!Altered, M!Stripped
  <2> QED BY <2>1 DEF Literals
<1>3. ~(masking.engine = "postgres" /\ M!StartsOdd(line[1]))
  BY <1>1 DEF M!Altered
<1> DEFINE cell(i) == IF i \in masking.ruled THEN M!Fake ELSE Literals(line)[i]
<1>4. M!Masked(line) = M!Join([i \in M!Columns |-> cell(i)])
  BY DEF M!Masked, Literals
<1>5. CASE masking.ruled = {}
  <2>1. M!Relayed(line) = M!Join([i \in M!Columns |-> M!Literal(M!Stripped(line[i]))])
    BY <1>3, <1>5, Zenon DEF M!Relayed
  <2>3. M!Relayed(line) = M!Join(Literals(line))
    BY <1>2, <2>1
  <2>2. [i \in M!Columns |-> cell(i)] = Literals(line)
    BY <1>5 DEF Literals
  <2> QED BY <1>4, <2>2, <2>3
<1>6. CASE masking.ruled # {}
  <2>1. reader = "people" /\ ~M!Misplaced
    BY <1>6 DEF MaskTypeInv, M!Misread
  <2>2. M!Relayed(line) = M!MaskLine(M!Join(Literals(line)))
    BY <1>2, <1>3, <1>6, <2>1 DEF M!Relayed
  <2>3. M!MaskLine(M!Join(Literals(line))) = M!Join([i \in M!Columns |-> cell(i)])
    <3>1. DOMAIN Literals(line) = M!Columns
      BY DEF Literals
    <3>2. \A i \in M!Columns :
            i \in DOMAIN M!ColNames /\ M!ColNames[i] \in masking.ruled <=> i \in masking.ruled
      BY <2>1, NamesInPlace DEF MaskTypeInv
    <3>3. [i \in M!Columns |-> IF i \in DOMAIN M!ColNames /\ M!ColNames[i] \in masking.ruled
                               THEN M!Fake ELSE Literals(line)[i]]
          = [i \in M!Columns |-> cell(i)]
      BY <3>2
    <3> QED BY <1>6, <3>1, <3>3 DEF M!MaskLine, SplitsWell
  <2> QED BY <1>4, <2>2, <2>3
<1> QED BY <1>5, <1>6

\* _relay_lines and _mask_dat_file: every row that the loops do not misread arrives
\* with every ruled column masked and nothing else changed, whatever the engine, the
\* rules, the names and the length of its values.  Misread names the rest: lines that no
\* pattern matches, names in quotes or with a comma, rows like a header, values that
\* the split or the collation strip gets wrong.
THEOREM RowsAreMasked == M!Spec => []MaskedUnlessMisread
<1>1. ASSUME MaskTypeInv, line # <<>>, ~M!Misread(line)
      PROVE  M!Relayed(line) = M!Masked(line)
  <2>1. masking.engine \in Engines /\ line \in [M!Columns -> M!Values]
    BY <1>1 DEF MaskTypeInv, M!TypeOK
  <2>2. masking.engine \in {"postgres", "mysql", "mssql"}
    BY <2>1, WorkAssumption DEF WorkAssumption
  <2>3. ASSUME masking.ruled # {}
        PROVE  /\ SplitsWell(line)
               /\ masking.engine = "mssql" => M!Odd \notin M!Range(M!Join(Literals(line)))
    <3>1. ~M!Missplit(line)
      BY <1>1, <2>3 DEF M!Misread
    <3>2. \A i \in M!Columns : line[i] \in Texts /\ Readable(line[i])
      BY <2>1, <3>1, ValueReadable
    <3>3. SplitsWell(line)
      BY <2>2, <3>2, ReadableSplits
    <3>4. ASSUME masking.engine = "mssql" PROVE M!Odd \notin M!Range(M!Join(Literals(line)))
      <4>1. \A i \in M!Columns : M!Odd \notin M!Range(line[i])
        BY <3>1, <3>4 DEF M!Missplit
      <4> QED BY <3>2, <3>4, <4>1, OneLine
    <3> QED BY <3>3, <3>4
  <2> QED BY <1>1, <2>3, SplitsWellIsMasked
<1>2. MaskTypeInv => MaskedUnlessMisread
  BY <1>1 DEF MaskedUnlessMisread, M!MaskedUnlessMisread
<1> QED BY <1>2, MaskInvariant, PTL

=============================================================================
