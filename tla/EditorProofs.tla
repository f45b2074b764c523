---------------------------- MODULE EditorProofs ----------------------------
(***************************************************************************)
(* Proofs about the editor, for every text, buffer, screen and sequence of *)
(* keys: row, column and position of the cursor agree until one of two     *)
(* keys lets it stray, the cursor is drawn where its byte is, and a text   *)
(* that is not marked as modified is the file's.                           *)
(*                                                                         *)
(* The argument for the cursor goes through two facts: either row, column  *)
(* and position agree, or the cursor's row is not above the last line      *)
(* (AtEnd).  A strayed cursor is in the second case, and j and k, which    *)
(* compute the position anew, bring it back to the first.                  *)
(***************************************************************************)
EXTENDS Editor, FiniteSetTheorems, WellFoundedInduction, TLAPS

Agrees ==
    /\ m_cursor_pos <= m_buffer_size
    /\ m_cursor_row = Newlines(m_buffer, m_cursor_pos)
    /\ m_cursor_col = m_cursor_pos - LineStart(m_buffer, m_cursor_pos)

AtEnd == m_cursor_row >= Newlines(m_buffer, m_buffer_size)

EditorInv ==
    /\ TypeOK
    /\ ~strayed => ~broken /\ Agrees
    /\ ~broken => Agrees \/ AtEnd
    /\ m_mode = "VISUAL" => m_selection_end_row = m_cursor_row
    /\ m_cursor_row < m_screen_row + TERMINAL_HEIGHT - 1
    /\ UnmodifiedIsSaved

-----------------------------------------------------------------------------
(***************************************************************************)
(* Natural numbers: least and greatest elements, and induction without a   *)
(* predicate for a parameter.                                              *)
(***************************************************************************)
LEMMA LeastNat ==
    ASSUME NEW T \in SUBSET Nat, T # {}
    PROVE  \E x \in T : \A y \in T : x <= y
  <1> DEFINE R == OpToRel(<, Nat)
  <1>1. IsWellFoundedOn(R, Nat)
    BY NatLessThanWellFounded, Zenon
  <1>2. \A x, y \in Nat : <<y, x>> \in R <=> y < x
    BY DEF OpToRel
  <1> HIDE DEF R
  <1>3. PICK x \in T : \A y \in T : ~(<<y, x>> \in R)
    BY <1>1, WFMin, Zenon
  <1>4. \A y \in T : ~(y < x)
    BY <1>2, <1>3, Zenon
  <1> QED
    BY <1>4

LEMMA Induct ==
    ASSUME NEW T, 0 \in T, \A n \in Nat : n \in T => n + 1 \in T
    PROVE  \A n \in Nat : n \in T
  <1> SUFFICES ASSUME Nat \ T # {} PROVE FALSE
    OBVIOUS
  <1>1. PICK x \in Nat \ T : \A y \in Nat \ T : x <= y
    BY LeastNat, Zenon
  <1>2. x # 0 /\ x - 1 \in Nat /\ x - 1 \in T
    BY <1>1
  <1> QED
    BY <1>1, <1>2

LEMMA ConcatBytes ==
    ASSUME NEW S, NEW x \in Seq(S), NEW z \in Seq(S)
    PROVE  /\ x \o z \in Seq(S) /\ Len(x \o z) = Len(x) + Len(z)
           /\ \A k \in 1 .. Len(x) + Len(z) : (x \o z)[k] = IF k <= Len(x) THEN x[k] ELSE z[k - Len(x)]
  OBVIOUS

LEMMA SameBytes ==
    ASSUME NEW S, NEW x \in Seq(S), NEW z \in Seq(S), Len(x) = Len(z),
           \A k \in 1 .. Len(x) : x[k] = z[k]
    PROVE  x = z
  OBVIOUS

LEMMA MinFacts ==
    ASSUME NEW S \in SUBSET Nat, S # {}
    PROVE  Min(S) \in S /\ \A y \in S : Min(S) <= y
  BY LeastNat, Zenon DEF Min

LEMMA MinIs ==
    ASSUME NEW S \in SUBSET Nat, NEW x \in S, \A y \in S : x <= y
    PROVE  Min(S) = x
  <1>1. Min(S) \in S /\ Min(S) <= x
    BY MinFacts
  <1>2. Min(S) \in Nat /\ x \in Nat /\ x <= Min(S)
    BY <1>1, Zenon
  <1> QED
    BY <1>1, <1>2

LEMMA MaxFacts ==
    ASSUME NEW n \in Nat, NEW S \in SUBSET (0 .. n), S # {}
    PROVE  Max(S) \in S /\ \A y \in S : Max(S) >= y
  <1>1. {n - x : x \in S} \in SUBSET Nat /\ {n - x : x \in S} # {}
    <2>1. \A x \in S : n - x \in Nat
      OBVIOUS
    <2> QED
      BY <2>1, Zenon
  <1>2. PICK z \in {n - x : x \in S} : \A y \in {n - x : x \in S} : z <= y
    BY <1>1, LeastNat, Zenon
  <1>3. PICK x \in S : z = n - x
    OBVIOUS
  <1>4. \A y \in S : x >= y
    BY <1>2, <1>3
  <1> QED
    BY <1>4, Zenon DEF Max

LEMMA MaxIs ==
    ASSUME NEW n \in Nat, NEW S \in SUBSET (0 .. n), NEW x \in S, \A y \in S : x >= y
    PROVE  Max(S) = x
  <1>1. Max(S) \in S /\ Max(S) >= x
    BY MaxFacts, Zenon
  <1>2. \A y \in S : y \in Nat
    OBVIOUS
  <1>3. Max(S) \in Nat /\ x \in Nat /\ x >= Max(S)
    BY <1>1, <1>2, Zenon
  <1> QED
    BY <1>1, <1>3

-----------------------------------------------------------------------------
(***************************************************************************)
(* Newlines and the starts of lines.                                       *)
(***************************************************************************)
LEMMA NewlinesStep ==
    ASSUME NEW b
    PROVE  /\ Newlines(b, 0) = 0
           /\ \A p \in Nat : /\ Newlines(b, p) \in Nat
                             /\ Newlines(b, p + 1) = Newlines(b, p) + (IF b[p + 1] = NL THEN 1 ELSE 0)
  <1> DEFINE N(p) == {k \in 1 .. p : b[k] = NL}
  <1>1. ASSUME NEW p \in Nat PROVE IsFiniteSet(N(p)) /\ Cardinality(N(p)) \in Nat
    <2>1. IsFiniteSet(1 .. p)
      BY FS_Interval
    <2>2. IsFiniteSet(N(p))
      BY <2>1, FS_Subset
    <2> QED
      BY <2>2, FS_CardinalityType
  <1>2. N(0) = {}
    OBVIOUS
  <1>3. ASSUME NEW p \in Nat
        PROVE  Cardinality(N(p + 1)) = Cardinality(N(p)) + (IF b[p + 1] = NL THEN 1 ELSE 0)
    <2>1. CASE b[p + 1] = NL
      <3>1. N(p + 1) = N(p) \cup {p + 1} /\ p + 1 \notin N(p)
        BY <2>1
      <3> HIDE DEF N
      <3>2. Cardinality(N(p) \cup {p + 1}) = Cardinality(N(p)) + 1
        BY <1>1, <3>1, FS_AddElement, Zenon
      <3> QED
        BY <2>1, <3>1, <3>2
    <2>2. CASE b[p + 1] # NL
      <3>1. N(p + 1) = N(p)
        BY <2>2
      <3> HIDE DEF N
      <3> QED
        BY <1>1, <2>2, <3>1
    <2> QED
      BY <2>1, <2>2
  <1> QED
    BY <1>1, <1>2, <1>3, FS_EmptySet DEF Newlines

\* Texts that begin alike have the same lines there.
LEMMA SamePrefix ==
    ASSUME NEW b, NEW c, NEW p \in Nat, \A k \in 1 .. p : b[k] = c[k]
    PROVE  Newlines(b, p) = Newlines(c, p) /\ LineStart(b, p) = LineStart(c, p)
  <1>1. {k \in 1 .. p : b[k] = NL} = {k \in 1 .. p : c[k] = NL}
    OBVIOUS
  <1> QED
    BY <1>1 DEF Newlines, LineStart

\* The count grows with the position, and by one at each newline.
LEMMA NewlinesGrow ==
    ASSUME NEW b, NEW p \in Nat, NEW q \in Nat, p <= q
    PROVE  /\ Newlines(b, p) <= Newlines(b, q)
           /\ (\A k \in p + 1 .. q : b[k] # NL) <=> Newlines(b, p) = Newlines(b, q)
  <1> DEFINE N(x) == {k \in 1 .. x : b[k] = NL}
  <1>1. IsFiniteSet(1 .. q)
    BY FS_Interval
  <1>2. IsFiniteSet(N(q)) /\ N(p) \in SUBSET N(q)
    BY <1>1, FS_Subset
  <1>3. (\A k \in p + 1 .. q : b[k] # NL) <=> N(p) = N(q)
    OBVIOUS
  <1> HIDE DEF N
  <1>4. Cardinality(N(p)) <= Cardinality(N(q)) /\ (Cardinality(N(q)) = Cardinality(N(p)) => N(q) = N(p))
    BY <1>2, FS_Subset
  <1>5. Newlines(b, p) = Cardinality(N(p)) /\ Newlines(b, q) = Cardinality(N(q))
    BY DEF N, Newlines
  <1> QED
    BY <1>3, <1>4, <1>5, Zenon

LEMMA LineStartFacts ==
    ASSUME NEW b, NEW p \in Nat
    PROVE  /\ LineStart(b, p) \in 0 .. p
           /\ LineStart(b, p) = 0 \/ b[LineStart(b, p)] = NL
           /\ \A k \in LineStart(b, p) + 1 .. p : b[k] # NL
  <1> DEFINE S == {0} \cup {k \in 1 .. p : b[k] = NL}
  <1>1. S \in SUBSET (0 .. p) /\ S # {}
    OBVIOUS
  <1>2. Max(S) \in S /\ \A y \in S : Max(S) >= y
    BY <1>1, MaxFacts, Zenon
  <1>3. LineStart(b, p) = Max(S)
    BY DEF LineStart
  <1> QED
    BY <1>2, <1>3

LEMMA LineStartIs ==
    ASSUME NEW b, NEW p \in Nat, NEW s \in 0 .. p, s = 0 \/ b[s] = NL,
           \A k \in s + 1 .. p : b[k] # NL
    PROVE  LineStart(b, p) = s
  <1> DEFINE S == {0} \cup {k \in 1 .. p : b[k] = NL}
  <1>1. S \in SUBSET (0 .. p) /\ s \in S /\ \A y \in S : s >= y
    OBVIOUS
  <1>2. Max(S) = s
    BY <1>1, MaxIs, Zenon
  <1> QED
    BY <1>2 DEF LineStart

\* The first position of a row is where the line of each of its positions
\* starts.
LEMMA RowStart ==
    ASSUME NEW b, NEW s \in Nat, s = 0 \/ b[s] = NL,
           NEW q \in Nat, Newlines(b, q) = Newlines(b, s)
    PROVE  s <= q /\ LineStart(b, q) = s
  <1>1. s <= q
    <2> SUFFICES ASSUME q < s PROVE FALSE
      OBVIOUS
    <2>1. s \in q + 1 .. s /\ b[s] = NL
      OBVIOUS
    <2> QED
      BY <2>1, NewlinesGrow
  <1>2. \A k \in s + 1 .. q : b[k] # NL
    BY <1>1, NewlinesGrow
  <1> QED
    BY <1>1, <1>2, LineStartIs

-----------------------------------------------------------------------------
(***************************************************************************)
(* Texts after an edit.                                                    *)
(***************************************************************************)
Byte == Char \cup {NL}

\* What memmove does to each byte.
Inserted(c, b, p, ch) ==
    /\ c \in Seq(Byte) /\ Len(c) = Len(b) + 1
    /\ \A k \in 1 .. p : c[k] = b[k]
    /\ c[p + 1] = ch
    /\ \A k \in p + 1 .. Len(b) : c[k + 1] = b[k]

LEMMA InsertedBytes ==
    ASSUME NEW b \in Seq(Byte), NEW p \in 0 .. Len(b), NEW ch \in Byte
    PROVE  Inserted(memmove_up(b, p, ch), b, p, ch)
  <1> DEFINE x == SubSeq(b, 1, p)
             z == SubSeq(b, p + 1, Len(b))
             L == Len(b)
  <1>1. L \in Nat /\ p \in Nat /\ p <= L
    OBVIOUS
  <1>2. x \in Seq(Byte) /\ Len(x) = p /\ \A k \in 1 .. p : x[k] = b[k]
    BY <1>1
  <1>3. z \in Seq(Byte) /\ Len(z) = L - p /\ \A k \in 1 .. L - p : z[k] = b[p + k]
    BY <1>1
  <1>4. <<ch>> \in Seq(Byte) /\ Len(<<ch>>) = 1 /\ <<ch>>[1] = ch
    OBVIOUS
  <1>5. memmove_up(b, p, ch) = (x \o <<ch>>) \o z
    BY Zenon DEF memmove_up
  <1> HIDE DEF x, z
  <1> DEFINE y == x \o <<ch>>
  <1>6. y \in Seq(Byte) /\ Len(y) = p + 1 /\ y[p + 1] = ch /\ \A k \in 1 .. p : y[k] = b[k]
    <2>1. /\ y \in Seq(Byte) /\ Len(y) = Len(x) + Len(<<ch>>)
          /\ \A k \in 1 .. Len(x) + Len(<<ch>>) : y[k] = IF k <= Len(x) THEN x[k] ELSE <<ch>>[k - Len(x)]
      BY <1>2, <1>4, ConcatBytes, Zenon
    <2> HIDE DEF y
    <2>2. Len(y) = p + 1 /\ \A k \in 1 .. p + 1 : y[k] = IF k <= p THEN x[k] ELSE <<ch>>[k - p]
      BY <1>2, <1>4, <2>1
    <2>3. y[p + 1] = <<ch>>[(p + 1) - p] /\ (p + 1) - p = 1
      BY <1>1, <2>2
    <2>4. \A k \in 1 .. p : y[k] = x[k]
      BY <1>1, <2>2
    <2> QED
      BY <1>2, <1>4, <2>1, <2>2, <2>3, <2>4
  <1> HIDE DEF y
  <1> DEFINE c == y \o z
  <1>7. /\ c \in Seq(Byte) /\ Len(c) = L + 1
        /\ \A k \in 1 .. L + 1 : c[k] = IF k <= p + 1 THEN y[k] ELSE z[k - (p + 1)]
    <2>1. /\ c \in Seq(Byte) /\ Len(c) = Len(y) + Len(z)
          /\ \A k \in 1 .. Len(y) + Len(z) : c[k] = IF k <= Len(y) THEN y[k] ELSE z[k - Len(y)]
      BY <1>3, <1>6, ConcatBytes, Zenon
    <2>2. Len(y) + Len(z) = L + 1
      BY <1>1, <1>3, <1>6
    <2> HIDE DEF c
    <2> QED
      BY <1>6, <2>1, <2>2
  <1>8. memmove_up(b, p, ch) = c
    BY <1>5 DEF y
  <1> HIDE DEF c
  <1>9. ASSUME NEW k \in 1 .. p PROVE c[k] = b[k]
    <2>1. k \in 1 .. L + 1 /\ k <= p + 1
      BY <1>1
    <2> QED
      BY <1>6, <1>7, <2>1
  <1>10. c[p + 1] = ch
    <2>1. p + 1 \in 1 .. L + 1
      BY <1>1
    <2> QED
      BY <1>1, <1>6, <1>7, <2>1
  <1>11. ASSUME NEW k \in p + 1 .. L PROVE c[k + 1] = b[k]
    <2>1. /\ k + 1 \in 1 .. L + 1 /\ ~(k + 1 <= p + 1) /\ (k + 1) - (p + 1) = k - p
          /\ k - p \in 1 .. L - p /\ p + (k - p) = k
      BY <1>1
    <2>2. c[k + 1] = z[k - p]
      BY <1>7, <2>1
    <2> QED
      BY <1>3, <2>1, <2>2
  <1> QED
    BY <1>7, <1>8, <1>9, <1>10, <1>11 DEF Inserted

Removed(c, b, p) ==
    /\ c \in Seq(Byte) /\ Len(c) = Len(b) - 1
    /\ \A k \in 1 .. p - 1 : c[k] = b[k]
    /\ \A k \in p .. Len(b) - 1 : c[k] = b[k + 1]

LEMMA RemovedBytes ==
    ASSUME NEW b \in Seq(Byte), NEW p \in 1 .. Len(b)
    PROVE  Removed(memmove_down(b, p - 1, p), b, p)
  <1> DEFINE x == SubSeq(b, 1, p - 1)
             z == SubSeq(b, p + 1, Len(b))
             L == Len(b)
  <1>1. L \in Nat /\ p \in Nat /\ p <= L /\ p >= 1
    OBVIOUS
  <1>2. x \in Seq(Byte) /\ Len(x) = p - 1 /\ \A k \in 1 .. p - 1 : x[k] = b[k]
    BY <1>1
  <1>3. z \in Seq(Byte) /\ Len(z) = L - p /\ \A k \in 1 .. L - p : z[k] = b[p + k]
    BY <1>1
  <1>4. PICK c : c = x \o z
    BY Zenon
  <1>5. memmove_down(b, p - 1, p) = c
    BY <1>4 DEF memmove_down
  <1> HIDE DEF x, z
  <1>6. /\ c \in Seq(Byte) /\ Len(c) = Len(x) + Len(z)
        /\ \A k \in 1 .. Len(x) + Len(z) : c[k] = IF k <= Len(x) THEN x[k] ELSE z[k - Len(x)]
    BY <1>2, <1>3, <1>4, ConcatBytes, Zenon
  <1>7. Len(x) + Len(z) = L - 1
    BY <1>1, <1>2, <1>3
  <1>8. ASSUME NEW k \in 1 .. p - 1 PROVE c[k] = b[k]
    <2>1. k \in 1 .. L - 1 /\ k <= p - 1
      BY <1>1
    <2> QED
      BY <1>2, <1>6, <1>7, <2>1
  <1>9. ASSUME NEW k \in p .. L - 1 PROVE c[k] = b[k + 1]
    <2>1. /\ k \in 1 .. L - 1 /\ ~(k <= p - 1)
          /\ k - (p - 1) \in 1 .. L - p /\ p + (k - (p - 1)) = k + 1
      BY <1>1
    <2>2. c[k] = z[k - (p - 1)]
      BY <1>2, <1>6, <1>7, <2>1
    <2> QED
      BY <1>3, <2>1, <2>2
  <1> QED
    BY <1>5, <1>6, <1>7, <1>8, <1>9 DEF Removed

LEMMA InsertedNewlines ==
    ASSUME NEW b \in Seq(Byte), NEW p \in 0 .. Len(b), NEW ch \in Byte, NEW c, Inserted(c, b, p, ch)
    PROVE  /\ Newlines(c, p) = Newlines(b, p)
           /\ Newlines(c, p + 1) = Newlines(b, p) + (IF ch = NL THEN 1 ELSE 0)
           /\ Newlines(c, Len(c)) = Newlines(b, Len(b)) + (IF ch = NL THEN 1 ELSE 0)
  <1> DEFINE d == IF ch = NL THEN 1 ELSE 0
             L == Len(b)
             T == {n \in Nat : p + n <= L => Newlines(c, p + 1 + n) = Newlines(b, p + n) + d}
  <1>1. L \in Nat /\ p \in Nat /\ p <= L /\ d \in Nat
    OBVIOUS
  <1>2. Newlines(c, p) = Newlines(b, p)
    BY <1>1, SamePrefix DEF Inserted
  <1>3. Newlines(c, p + 1) = Newlines(b, p) + d
    <2>1. Newlines(c, p + 1) = Newlines(c, p) + (IF c[p + 1] = NL THEN 1 ELSE 0)
      BY <1>1, NewlinesStep
    <2>2. c[p + 1] = ch
      BY DEF Inserted
    <2> QED
      BY <1>2, <2>1, <2>2
  <1>4. 0 \in T
    BY <1>1, <1>3
  <1>5. ASSUME NEW n \in T PROVE n + 1 \in T
    <2> SUFFICES ASSUME p + (n + 1) <= L
                 PROVE  Newlines(c, p + 1 + (n + 1)) = Newlines(b, p + (n + 1)) + d
      OBVIOUS
    <2>1. n \in Nat /\ p + 1 + n \in Nat /\ p + n \in Nat /\ p + n + 1 \in p + 1 .. L
      BY <1>1
    <2>2. Newlines(c, p + 1 + n) = Newlines(b, p + n) + d
      BY <1>1
    <2> HIDE DEF T
    <2>3. Newlines(c, (p + 1 + n) + 1) = Newlines(c, p + 1 + n) + (IF c[(p + 1 + n) + 1] = NL THEN 1 ELSE 0)
      BY <2>1, NewlinesStep, Zenon
    <2>4. Newlines(b, (p + n) + 1) = Newlines(b, p + n) + (IF b[(p + n) + 1] = NL THEN 1 ELSE 0)
          /\ Newlines(b, p + n) \in Nat
      BY <2>1, NewlinesStep, Zenon
    <2>5. c[(p + n + 1) + 1] = b[p + n + 1]
      BY <2>1 DEF Inserted
    <2>6. (p + 1 + n) + 1 = p + 1 + (n + 1) /\ (p + n) + 1 = p + (n + 1) /\ (p + n + 1) + 1 = p + 1 + (n + 1)
      BY <1>1, <2>1
    <2> HIDE DEF d
    <2> QED
      BY <1>1, <2>2, <2>3, <2>4, <2>5, <2>6
  <1>6. \A n \in Nat : n \in T
    <2> HIDE DEF T
    <2> QED
      BY <1>4, <1>5, Induct, Zenon
  <1>7. L - p \in Nat /\ p + 1 + (L - p) = Len(c) /\ p + (L - p) = L /\ p + (L - p) <= L
    BY <1>1 DEF Inserted
  <1>8. Newlines(c, p + 1 + (L - p)) = Newlines(b, p + (L - p)) + d
    BY <1>6, <1>7, Zenon
  <1> QED
    BY <1>2, <1>3, <1>7, <1>8

LEMMA RemovedNewlines ==
    ASSUME NEW b \in Seq(Byte), NEW p \in 1 .. Len(b), NEW c, Removed(c, b, p)
    PROVE  /\ Newlines(c, p - 1) = Newlines(b, p - 1)
           /\ Newlines(b, p) = Newlines(b, p - 1) + (IF b[p] = NL THEN 1 ELSE 0)
           /\ Newlines(b, Len(b)) = Newlines(c, Len(c)) + (IF b[p] = NL THEN 1 ELSE 0)
  <1> DEFINE d == IF b[p] = NL THEN 1 ELSE 0
             L == Len(b)
             q == p - 1
             T == {n \in Nat : q + 1 + n <= L => Newlines(b, q + 1 + n) = Newlines(c, q + n) + d}
  <1>1. L \in Nat /\ p \in Nat /\ q \in Nat /\ q + 1 = p /\ p <= L /\ d \in Nat
    OBVIOUS
  <1> HIDE DEF q
  <1>2. Newlines(c, q) = Newlines(b, q)
    BY <1>1, SamePrefix DEF Removed, q
  <1>3. Newlines(b, q + 1) = Newlines(b, q) + d
    BY <1>1, NewlinesStep, Zenon
  <1>4. 0 \in T
    BY <1>1, <1>2, <1>3
  <1>5. ASSUME NEW n \in T PROVE n + 1 \in T
    <2> SUFFICES ASSUME q + 1 + (n + 1) <= L
                 PROVE  Newlines(b, q + 1 + (n + 1)) = Newlines(c, q + (n + 1)) + d
      OBVIOUS
    <2>1. n \in Nat /\ q + 1 + n \in Nat /\ q + n \in Nat /\ q + n + 1 \in p .. L - 1
      BY <1>1
    <2>2. Newlines(b, q + 1 + n) = Newlines(c, q + n) + d
      BY <1>1
    <2> HIDE DEF T
    <2>3. Newlines(b, (q + 1 + n) + 1) = Newlines(b, q + 1 + n) + (IF b[(q + 1 + n) + 1] = NL THEN 1 ELSE 0)
      BY <2>1, NewlinesStep, Zenon
    <2>4. Newlines(c, (q + n) + 1) = Newlines(c, q + n) + (IF c[(q + n) + 1] = NL THEN 1 ELSE 0)
          /\ Newlines(c, q + n) \in Nat
      BY <2>1, NewlinesStep, Zenon
    <2>5. c[q + n + 1] = b[(q + n + 1) + 1]
      BY <2>1 DEF Removed
    <2>6. (q + 1 + n) + 1 = q + 1 + (n + 1) /\ (q + n) + 1 = q + (n + 1) /\ (q + n + 1) + 1 = q + 1 + (n + 1)
      BY <1>1, <2>1
    <2> HIDE DEF d
    <2> QED
      BY <1>1, <2>2, <2>3, <2>4, <2>5, <2>6
  <1>6. \A n \in Nat : n \in T
    <2> HIDE DEF T
    <2> QED
      BY <1>4, <1>5, Induct
  <1>7. L - p \in Nat /\ q + (L - p) = Len(c) /\ q + 1 + (L - p) = L /\ q + 1 + (L - p) <= L
    <2>1. Len(c) = L - 1
      BY DEF Removed
    <2> HIDE DEF L, T, d
    <2> QED
      BY <1>1, <2>1
  <1>8. Newlines(b, q + 1 + (L - p)) = Newlines(c, q + (L - p)) + d
    BY <1>6, <1>7
  <1>9. Newlines(b, p) = Newlines(b, q) + d /\ Newlines(b, L) = Newlines(c, Len(c)) + d
    BY <1>1, <1>3, <1>7, <1>8
  <1> QED
    BY <1>2, <1>9 DEF q

\* Trimmed drops newlines at the end and nothing else.
LEMMA TrimmedBytes ==
    ASSUME NEW b \in Seq(Byte)
    PROVE  /\ Trimmed(b) \in Seq(Byte) /\ Len(Trimmed(b)) \in 0 .. Len(b)
           /\ \A k \in 1 .. Len(Trimmed(b)) : Trimmed(b)[k] = b[k]
           /\ Len(Trimmed(b)) = 0 \/ b[Len(Trimmed(b))] # NL
           /\ \A k \in Len(Trimmed(b)) + 1 .. Len(b) : b[k] = NL
  <1> DEFINE S == {0} \cup {k \in 1 .. Len(b) : b[k] # NL}
  <1>1. S \in SUBSET (0 .. Len(b)) /\ S # {} /\ Len(b) \in Nat
    OBVIOUS
  <1>2. Max(S) \in S /\ \A y \in S : Max(S) >= y
    BY <1>1, MaxFacts, Zenon
  <1>3. PICK n : n = Max(S)
    BY Zenon
  <1>4. n \in 0 .. Len(b) /\ (n = 0 \/ b[n] # NL)
    BY <1>1, <1>2, <1>3
  <1>5. Trimmed(b) = SubSeq(b, 1, n)
    BY <1>3 DEF Trimmed
  <1>6. ASSUME NEW k \in n + 1 .. Len(b) PROVE b[k] = NL
    <2>1. k \in 1 .. Len(b) /\ ~(n >= k)
      BY <1>1, <1>4
    <2> QED
      BY <1>2, <1>3, <2>1
  <1> HIDE DEF S
  <1>7. Len(SubSeq(b, 1, n)) = n /\ SubSeq(b, 1, n) \in Seq(Byte)
        /\ \A k \in 1 .. n : SubSeq(b, 1, n)[k] = b[k]
    BY <1>1, <1>4
  <1> QED
    BY <1>4, <1>5, <1>6, <1>7

LEMMA TrimmedTwice == ASSUME NEW b \in Seq(Byte) PROVE Trimmed(Trimmed(b)) = Trimmed(b)
  <1>1. PICK c : c = Trimmed(b)
    OBVIOUS
  <1>2. c \in Seq(Byte) /\ Len(c) \in Nat /\ (Len(c) = 0 \/ c[Len(c)] # NL)
    BY <1>1, TrimmedBytes
  <1>3. PICK d : d = Trimmed(c)
    OBVIOUS
  <1>4. /\ d \in Seq(Byte) /\ Len(d) \in 0 .. Len(c) /\ \A k \in 1 .. Len(d) : d[k] = c[k]
        /\ \A k \in Len(d) + 1 .. Len(c) : c[k] = NL
    BY <1>2, <1>3, TrimmedBytes
  <1>5. Len(d) = Len(c)
    BY <1>2, <1>4
  <1>6. d = c
    BY <1>2, <1>4, <1>5, SameBytes
  <1> QED
    BY <1>1, <1>3, <1>6

-----------------------------------------------------------------------------
(***************************************************************************)
(* Rows: what get_line_length and update_cursor_pos find.                  *)
(***************************************************************************)
\* Row r of text b starts at s and ends before e; it is not the empty row at
\* the end of the text.
IsRow(b, r, s, e) ==
    /\ s \in Nat /\ e \in Nat /\ s < Len(b) /\ s <= e /\ e <= Len(b)
    /\ Newlines(b, s) = r /\ (s = 0 \/ b[s] = NL)
    /\ \A k \in s + 1 .. e : b[k] # NL
    /\ e = Len(b) \/ b[e + 1] = NL

LEMMA LineLength ==
    ASSUME TypeOK, NEW r \in Nat
    PROVE  \/ /\ \A p \in 0 .. m_buffer_size - 1 : Newlines(m_buffer, p) # r
              /\ get_line_length(r) = SIZE_MAX
           \/ \E s, e \in Nat : /\ IsRow(m_buffer, r, s, e)
                                /\ get_line_length(r) = e - s /\ get_line_length(r) # SIZE_MAX
  <1>1. PICK b, L : b = m_buffer /\ L = m_buffer_size
    OBVIOUS
  <1>2. b \in Seq(Byte) /\ L = Len(b) /\ L \in Nat /\ L < SIZE_MAX /\ SIZE_MAX \in Nat
    <2>1. b \in Seq(Byte) /\ Len(b) < MAX_BUFFER_SIZE /\ L = Len(b)
      BY <1>1 DEF TypeOK, Byte, m_buffer_size
    <2> QED
      BY <2>1, EditorAssumption
  <1> DEFINE P == {p \in 0 .. L - 1 : Newlines(b, p) = r}
             Q(p) == {L} \cup {q \in p .. L - 1 : b[q + 1] = NL}
  <1>3. get_line_length(r) = IF P = {} THEN SIZE_MAX ELSE Min(Q(Min(P))) - Min(P)
    BY <1>1 DEF get_line_length, m_buffer_size
  <1>4. CASE P = {}
    BY <1>1, <1>3, <1>4
  <1>5. CASE P # {}
    <2>1. P \in SUBSET Nat
      BY <1>2
    <2>2. PICK s : s = Min(P)
      BY Zenon
    <2>3. s \in P /\ \A p \in P : s <= p
      BY <1>5, <2>1, <2>2, MinFacts
    <2>4. s \in Nat /\ s <= L - 1 /\ Newlines(b, s) = r
      BY <1>2, <2>3
    <2>5. s = 0 \/ b[s] = NL
      <3> SUFFICES ASSUME s # 0, b[s] # NL PROVE FALSE
        OBVIOUS
      <3>1. s - 1 \in Nat /\ (s - 1) + 1 = s /\ s - 1 \in 0 .. L - 1 /\ ~(s <= s - 1)
        BY <1>2, <2>4
      <3>2. Newlines(b, s) = Newlines(b, s - 1) + 0 /\ Newlines(b, s - 1) \in Nat
        BY <3>1, NewlinesStep
      <3>3. s - 1 \in P
        BY <2>4, <3>1, <3>2
      <3> QED
        BY <2>3, <3>1, <3>3
    <2>6. Q(s) \in SUBSET Nat /\ Q(s) # {}
      BY <1>2, <2>4
    <2>7. PICK e : e = Min(Q(s))
      BY Zenon
    <2>8. e \in Q(s) /\ \A q \in Q(s) : e <= q
      BY <2>6, <2>7, MinFacts
    <2>9. e \in Nat /\ s <= e /\ e <= L /\ (e = L \/ b[e + 1] = NL)
      BY <1>2, <2>4, <2>8
    <2>10. ASSUME NEW k \in s + 1 .. e PROVE b[k] # NL
      <3> SUFFICES ASSUME b[k] = NL PROVE FALSE
        OBVIOUS
      <3>1. k - 1 \in s .. L - 1 /\ (k - 1) + 1 = k /\ ~(e <= k - 1)
        BY <1>2, <2>4, <2>9
      <3>2. k - 1 \in Q(s)
        BY <3>1
      <3> QED
        BY <2>8, <3>1, <3>2
    <2>11. IsRow(b, r, s, e)
      BY <1>2, <2>4, <2>5, <2>9, <2>10 DEF IsRow
    <2>12. get_line_length(r) = e - s
      BY <1>3, <1>5, <2>2, <2>7
    <2>13. e - s # SIZE_MAX
      BY <1>2, <2>4, <2>9
    <2> QED
      BY <1>1, <2>4, <2>9, <2>11, <2>12, <2>13
  <1> QED
    BY <1>4, <1>5

\* A column inside a row is at one position, and update_cursor_pos finds it.
LEMMA PosInRow ==
    ASSUME NEW b \in Seq(Byte), NEW r, NEW s, NEW e, IsRow(b, r, s, e), NEW c \in 0 .. e - s
    PROVE  /\ Newlines(b, s + c) = r /\ LineStart(b, s + c) = s
           /\ update_cursor_pos(b, r, c) = s + c
  <1>1. s \in Nat /\ e \in Nat /\ s < Len(b) /\ s <= e /\ e <= Len(b) /\ Len(b) \in Nat
    BY DEF IsRow
  <1>2. c \in Nat /\ s + c \in Nat /\ s <= s + c /\ s + c <= e
    BY <1>1
  <1>3. Newlines(b, s + c) = r /\ LineStart(b, s + c) = s
    <2>1. \A k \in s + 1 .. s + c : b[k] # NL
      BY <1>1, <1>2 DEF IsRow
    <2>2. Newlines(b, s) = Newlines(b, s + c)
      BY <1>1, <1>2, <2>1, NewlinesGrow
    <2> QED
      BY <1>1, <2>2, <1>2, RowStart DEF IsRow
  <1> DEFINE S == {Len(b)} \cup {p \in 0 .. Len(b) - 1 : /\ Newlines(b, p) = r
                                                         /\ p - LineStart(b, p) = c}
  <1>4. S \in SUBSET Nat
    BY <1>1
  <1>5. s + c \in S
    <2>1. s + c = Len(b) \/ s + c \in 0 .. Len(b) - 1
      BY <1>1, <1>2
    <2>2. (s + c) - s = c
      BY <1>1, <1>2
    <2> QED
      BY <1>3, <2>1, <2>2
  <1>6. ASSUME NEW p \in S PROVE s + c <= p
    <2>1. CASE p = Len(b)
      BY <1>1, <1>2, <2>1
    <2>2. CASE p \in 0 .. Len(b) - 1 /\ Newlines(b, p) = r /\ p - LineStart(b, p) = c
      <3>1. p \in Nat
        BY <1>1, <2>2
      <3>2. LineStart(b, p) = s
        BY <1>1, <2>2, <3>1, RowStart DEF IsRow
      <3> QED
        BY <1>1, <1>2, <2>2, <3>1, <3>2
    <2> QED
      BY <2>1, <2>2
  <1>7. Min(S) = s + c
    BY <1>4, <1>5, <1>6, MinIs
  <1> QED
    BY <1>3, <1>7 DEF update_cursor_pos

\* Position f is the first of row r up to n, or n where there is none.
FoundRow(f, b, n, r) == f = Min({n} \cup {p \in 0 .. n : Newlines(b, p) = r})

\* Every row up to that of a position has a first position.
LEMMA RowFound ==
    ASSUME NEW b, NEW n \in Nat, NEW r \in Nat, r <= Newlines(b, n), NEW f, FoundRow(f, b, n, r)
    PROVE  f \in 0 .. n /\ Newlines(b, f) = r /\ (f = 0 \/ b[f] = NL) /\ LineStart(b, f) = f
  <1> DEFINE T == {p \in Nat : Newlines(b, p) >= r}
             S == {n} \cup {p \in 0 .. n : Newlines(b, p) = r}
  <1>1. T \in SUBSET Nat /\ n \in T
    BY NewlinesStep
  <1>2. PICK x \in T : \A y \in T : x <= y
    BY <1>1, LeastNat, Zenon
  <1>3. x \in Nat /\ x <= n /\ Newlines(b, x) \in Nat /\ Newlines(b, x) >= r
    BY <1>1, <1>2, NewlinesStep
  <1>4. Newlines(b, x) = r /\ (x = 0 \/ b[x] = NL)
    <2>1. CASE x = 0
      BY <1>3, <2>1, NewlinesStep
    <2>2. CASE x # 0
      <3>1. x - 1 \in Nat /\ (x - 1) + 1 = x /\ ~(x <= x - 1)
        BY <1>3, <2>2
      <3>2. /\ Newlines(b, x) = Newlines(b, x - 1) + (IF b[x] = NL THEN 1 ELSE 0)
            /\ Newlines(b, x - 1) \in Nat
        BY <3>1, NewlinesStep
      <3>3. ~(Newlines(b, x - 1) >= r)
        BY <1>2, <3>1
      <3> HIDE DEF T, S
      <3> QED
        BY <1>3, <3>2, <3>3
    <2> QED
      BY <2>1, <2>2
  <1>5. x \in S /\ S \in SUBSET Nat
    BY <1>3, <1>4
  <1>6. ASSUME NEW y \in S PROVE x <= y
    <2>1. y \in Nat /\ (y = n \/ Newlines(b, y) = r)
      OBVIOUS
    <2>2. y \in T
      BY <1>1, <2>1
    <2> QED
      BY <1>2, <2>2
  <1>7. f = x
    BY <1>5, <1>6, MinIs DEF FoundRow
  <1>8. LineStart(b, x) = x
    BY <1>3, <1>4, LineStartIs
  <1> QED
    BY <1>3, <1>4, <1>7, <1>8

-----------------------------------------------------------------------------
(***************************************************************************)
(* The steps.                                                              *)
(***************************************************************************)
LEMMA TextFacts ==
    ASSUME TypeOK
    PROVE  /\ m_buffer \in Seq(Byte) /\ Len(m_buffer) \in Nat /\ m_buffer_size = Len(m_buffer)
           /\ Len(m_buffer) < MAX_BUFFER_SIZE /\ MAX_BUFFER_SIZE < SIZE_MAX
           /\ MAX_BUFFER_SIZE \in Nat /\ SIZE_MAX \in Nat
  <1>1. m_buffer \in Seq(Byte) /\ Len(m_buffer) < MAX_BUFFER_SIZE /\ m_buffer_size = Len(m_buffer)
    BY DEF TypeOK, Byte, m_buffer_size
  <1>2. Len(m_buffer) \in Nat
    BY <1>1
  <1> QED
    BY <1>1, <1>2, EditorAssumption

\* A key counts the drift and does not end it.
LEMMA KeyFacts ==
    ASSUME TypeOK, NEW x, KeyStrays(x)
    PROVE  /\ m_active /\ ~broken /\ drift' \in 0 .. MaxDrift
           /\ strayed' <=> strayed \/ x
  BY EditorAssumption DEF TypeOK, KeyStrays, strayed

\* What is left to show of a key that does not break the editor.
LEMMA KeyStep ==
    ASSUME EditorInv, NEW x, KeyStrays(x), UNCHANGED broken, TypeOK',
           ~strayed /\ ~x => Agrees',
           Agrees' \/ AtEnd',
           m_mode' = "VISUAL" => m_selection_end_row' = m_cursor_row',
           m_cursor_row' < m_screen_row' + TERMINAL_HEIGHT - 1,
           UnmodifiedIsSaved'
    PROVE  EditorInv'
  <1>1. ~broken /\ (strayed' <=> strayed \/ x)
    BY KeyFacts DEF EditorInv
  <1> QED
    BY <1>1, Zenon DEF EditorInv

LEMMA SavedKept ==
    ASSUME UnmodifiedIsSaved, UNCHANGED <<m_buffer, m_active, m_modified, file, broken>>
    PROVE  UnmodifiedIsSaved'
  BY Zenon DEF UnmodifiedIsSaved, Trimmed

LEMMA AgreesKept ==
    ASSUME UNCHANGED <<m_buffer, cursor>>
    PROVE  (Agrees' <=> Agrees) /\ (AtEnd' <=> AtEnd)
  BY DEF cursor, Agrees, AtEnd, Newlines, LineStart, m_buffer_size

\* Esc, i and a, J and K.
LEMMA ModeKeys == ASSUME EditorInv, escape \/ key_insert \/ key_select PROVE EditorInv'
  <1>1. Key /\ UNCHANGED <<m_buffer, cursor, m_screen_row, m_active, m_modified, file, broken>>
    BY DEF escape, key_insert, key_select, Mode
  <1>2. \/ /\ m_mode' \in {"NORMAL", "INSERT"} /\ m_has_selection' = FALSE
           /\ UNCHANGED <<m_selection_start_row, m_selection_end_row>>
        \/ /\ m_mode' = "VISUAL" /\ m_has_selection' = TRUE
           /\ m_selection_start_row' = m_cursor_row /\ m_selection_end_row' = m_cursor_row
    BY DEF escape, key_insert, key_select, switch_to, switch_to_visual_mode
  <1>3. m_cursor_pos' = m_cursor_pos /\ m_cursor_row' = m_cursor_row /\ m_cursor_col' = m_cursor_col
    BY <1>1 DEF cursor
  <1>4. TypeOK /\ UnmodifiedIsSaved /\ (~strayed => Agrees) /\ (~broken => Agrees \/ AtEnd)
        /\ m_cursor_row < m_screen_row + TERMINAL_HEIGHT - 1
    BY DEF EditorInv
  <1>5. ~broken /\ drift' \in 0 .. MaxDrift
    BY <1>1, <1>4, KeyFacts, Zenon DEF Key
  <1>6. TypeOK'
    BY <1>1, <1>2, <1>3, <1>4, <1>5, Zenon DEF TypeOK
  <1>7. UnmodifiedIsSaved'
    BY <1>1, <1>4, SavedKept
  <1>8. (Agrees' <=> Agrees) /\ (AtEnd' <=> AtEnd)
    BY <1>1, AgreesKept
  <1>9. m_mode' = "VISUAL" => m_selection_end_row' = m_cursor_row'
    BY <1>2, <1>3
  <1>10. m_cursor_row' < m_screen_row' + TERMINAL_HEIGHT - 1
    BY <1>1, <1>3, <1>4
  <1>11. KeyStrays(FALSE) /\ UNCHANGED broken
    BY <1>1, Zenon DEF Key
  <1> QED
    BY <1>4, <1>5, <1>6, <1>7, <1>8, <1>9, <1>10, <1>11, KeyStep, Zenon

\* h, l, k and j leave the text alone: the types, and that it is the file's.
LEMMA MoveStep ==
    ASSUME EditorInv, NEW x, KeyStrays(x),
           UNCHANGED <<m_buffer, m_mode, m_has_selection, m_selection_start_row, m_active,
                       m_modified, file, broken>>,
           m_selection_end_row' = IF m_mode = "VISUAL" THEN m_cursor_row' ELSE m_selection_end_row,
           m_cursor_pos' \in Nat, m_cursor_row' \in Nat, m_cursor_col' \in Nat, m_screen_row' \in Nat,
           ~strayed /\ ~x => Agrees',
           Agrees' \/ AtEnd',
           m_cursor_row' < m_screen_row' + TERMINAL_HEIGHT - 1
    PROVE  EditorInv'
  <1>1. TypeOK /\ UnmodifiedIsSaved /\ drift' \in 0 .. MaxDrift
    BY KeyFacts DEF EditorInv
  <1>2. m_selection_end_row' \in Nat
    BY <1>1 DEF TypeOK
  <1>3. TypeOK'
    BY <1>1, <1>2 DEF TypeOK
  <1>4. UnmodifiedIsSaved'
    BY <1>1, SavedKept
  <1>5. m_mode' = "VISUAL" => m_selection_end_row' = m_cursor_row'
    OBVIOUS
  <1> QED
    BY <1>3, <1>4, <1>5, KeyStep

\* Agreement after a step that leaves the text alone.
LEMMA AgreesAt ==
    ASSUME UNCHANGED m_buffer
    PROVE  /\ Agrees' <=> /\ m_cursor_pos' <= Len(m_buffer)
                          /\ m_cursor_row' = Newlines(m_buffer, m_cursor_pos')
                          /\ m_cursor_col' = m_cursor_pos' - LineStart(m_buffer, m_cursor_pos')
           /\ AtEnd' <=> m_cursor_row' >= Newlines(m_buffer, Len(m_buffer))
  BY DEF Agrees, AtEnd, Newlines, LineStart, m_buffer_size

\* A byte that is no newline is in the line of the byte before it.
LEMMA NextInLine ==
    ASSUME NEW b, NEW p \in Nat, b[p + 1] # NL
    PROVE  Newlines(b, p + 1) = Newlines(b, p) /\ LineStart(b, p + 1) = LineStart(b, p)
  <1>1. PICK s : s = LineStart(b, p)
    OBVIOUS
  <1>2. s \in 0 .. p /\ (s = 0 \/ b[s] = NL) /\ \A k \in s + 1 .. p : b[k] # NL
    BY <1>1, LineStartFacts
  <1>3. s \in 0 .. p + 1 /\ \A k \in s + 1 .. p + 1 : b[k] # NL
    BY <1>2
  <1>4. LineStart(b, p + 1) = s
    BY <1>2, <1>3, LineStartIs
  <1>5. Newlines(b, p + 1) = Newlines(b, p)
    BY NewlinesStep
  <1> QED
    BY <1>1, <1>4, <1>5

LEMMA LeftKey == ASSUME EditorInv, key_h PROVE EditorInv'
  <1>1. /\ TypeOK /\ (~strayed => Agrees) /\ (Agrees \/ AtEnd)
        /\ m_cursor_row < m_screen_row + TERMINAL_HEIGHT - 1
    BY KeyFacts, Zenon DEF EditorInv, key_h, Mode, Key
  <1>2. PICK b, p, r, c : b = m_buffer /\ p = m_cursor_pos /\ r = m_cursor_row /\ c = m_cursor_col
    OBVIOUS
  <1>3. p \in Nat /\ r \in Nat /\ c \in Nat /\ c > 0 /\ m_mode = "NORMAL" /\ KeyStrays(FALSE)
    BY <1>1, <1>2, Zenon DEF TypeOK, key_h, Mode, Key
  <1>4. /\ m_cursor_pos' = (p - 1) % (SIZE_MAX + 1) /\ m_cursor_row' = r /\ m_cursor_col' = c - 1
        /\ UNCHANGED <<m_buffer, m_screen_row, m_mode, m_has_selection, m_selection_start_row,
                       m_selection_end_row, m_active, m_modified, file, broken>>
    BY <1>2 DEF key_h, SetCursor, selection
  <1>5. b \in Seq(Byte) /\ Len(b) \in Nat /\ Len(b) < SIZE_MAX /\ SIZE_MAX \in Nat
    BY <1>1, <1>2, TextFacts
  <1>6. (p - 1) % (SIZE_MAX + 1) \in Nat
    BY <1>3, <1>5
  <1>7. ASSUME Agrees PROVE Agrees'
    <2>1. p <= Len(b) /\ r = Newlines(b, p) /\ c = p - LineStart(b, p)
      BY <1>2, <1>7 DEF Agrees, m_buffer_size
    <2>2. LineStart(b, p) \in 0 .. p /\ \A k \in LineStart(b, p) + 1 .. p : b[k] # NL
      BY <1>3, LineStartFacts
    <2>3. p > 0 /\ p - 1 \in Nat /\ b[p] # NL
      BY <1>3, <2>1, <2>2
    <2>4. PICK q \in Nat : q = p - 1
      BY <2>3
    <2>5. p = q + 1 /\ (p - 1) % (SIZE_MAX + 1) = q
      BY <1>3, <1>5, <2>1, <2>4
    <2>6. Newlines(b, q + 1) = Newlines(b, q) /\ LineStart(b, q + 1) = LineStart(b, q)
      BY <2>3, <2>5, NextInLine
    <2>7. LineStart(b, q) \in 0 .. q
      BY LineStartFacts
    <2>8. q <= Len(b) /\ r = Newlines(b, q) /\ c - 1 = q - LineStart(b, q)
      BY <1>3, <1>5, <2>1, <2>5, <2>6, <2>7
    <2> QED
      BY <1>2, <1>4, <2>5, <2>8, AgreesAt
  <1>8. AtEnd => AtEnd'
    BY <1>2, <1>4, AgreesAt DEF AtEnd, m_buffer_size
  <1>9. m_cursor_row' < m_screen_row' + TERMINAL_HEIGHT - 1 /\ m_screen_row' \in Nat
    BY <1>1, <1>2, <1>4 DEF TypeOK
  <1>10. m_cursor_pos' \in Nat /\ m_cursor_row' \in Nat /\ m_cursor_col' \in Nat
    BY <1>3, <1>4, <1>6
  <1>11. m_selection_end_row' = IF m_mode = "VISUAL" THEN m_cursor_row' ELSE m_selection_end_row
    BY <1>3, <1>4
  <1> QED
    BY <1>1, <1>3, <1>4, <1>7, <1>8, <1>9, <1>10, <1>11, MoveStep, Zenon

\* l on a line that has no byte and no newline after it is the key that strays.
LEMMA RightKey == ASSUME EditorInv, key_l PROVE EditorInv'
  <1>1. PICK b, p, r, c, n : /\ b = m_buffer /\ p = m_cursor_pos /\ r = m_cursor_row
                             /\ c = m_cursor_col /\ n = get_line_length(m_cursor_row)
    OBVIOUS
  <1>2. KeyStrays(n = SIZE_MAX) /\ c < n /\ m_mode = "NORMAL"
    BY <1>1 DEF key_l
  <1>3. /\ TypeOK /\ (~strayed => Agrees) /\ (Agrees \/ AtEnd)
        /\ m_cursor_row < m_screen_row + TERMINAL_HEIGHT - 1
    BY <1>2, KeyFacts DEF EditorInv
  <1>4. p \in Nat /\ r \in Nat /\ c \in Nat
    BY <1>1, <1>3 DEF TypeOK
  <1>5. /\ m_cursor_pos' = (p + 1) % (SIZE_MAX + 1) /\ m_cursor_row' = r /\ m_cursor_col' = c + 1
        /\ UNCHANGED <<m_buffer, m_screen_row, m_mode, m_has_selection, m_selection_start_row,
                       m_selection_end_row, m_active, m_modified, file, broken>>
    BY <1>1 DEF key_l, SetCursor, selection
  <1>6. b \in Seq(Byte) /\ Len(b) \in Nat /\ Len(b) < SIZE_MAX /\ SIZE_MAX \in Nat
    BY <1>1, <1>3, TextFacts
  <1>7. (p + 1) % (SIZE_MAX + 1) \in Nat
    BY <1>4, <1>6
  <1>8. AtEnd => AtEnd'
    BY <1>1, <1>5, AgreesAt DEF AtEnd, m_buffer_size
  <1>9. ASSUME Agrees PROVE (n # SIZE_MAX => Agrees') /\ (Agrees' \/ AtEnd')
    <2>1. p <= Len(b) /\ r = Newlines(b, p) /\ c = p - LineStart(b, p)
      BY <1>1, <1>9 DEF Agrees, m_buffer_size
    <2>2. \/ n = SIZE_MAX /\ \A q \in 0 .. Len(b) - 1 : Newlines(b, q) # r
          \/ n # SIZE_MAX /\ \E s, e \in Nat : IsRow(b, r, s, e) /\ n = e - s
      BY <1>1, <1>3, <1>4, LineLength DEF m_buffer_size
    <2>3. CASE n = SIZE_MAX /\ \A q \in 0 .. Len(b) - 1 : Newlines(b, q) # r
      <3>1. p = Len(b)
        BY <1>4, <1>6, <2>1, <2>3
      <3>2. AtEnd
        BY <1>1, <1>4, <2>1, <3>1 DEF AtEnd, m_buffer_size
      <3> QED
        BY <1>8, <2>3, <3>2
    <2>4. CASE n # SIZE_MAX /\ \E s, e \in Nat : IsRow(b, r, s, e) /\ n = e - s
      <3>1. PICK s \in Nat, e \in Nat : IsRow(b, r, s, e) /\ n = e - s
        BY <2>4
      <3>2. /\ s <= e /\ e <= Len(b) /\ Newlines(b, s) = r /\ (s = 0 \/ b[s] = NL)
            /\ \A k \in s + 1 .. e : b[k] # NL
        BY <3>1 DEF IsRow
      <3>3. s <= p /\ LineStart(b, p) = s
        BY <1>4, <2>1, <3>2, RowStart
      <3>4. p + 1 <= e /\ p + 1 \in s + 1 .. e
        BY <1>2, <1>4, <2>1, <3>1, <3>3
      <3>5. b[p + 1] # NL /\ p + 1 <= Len(b) /\ (p + 1) % (SIZE_MAX + 1) = p + 1
        BY <1>4, <1>6, <3>2, <3>4
      <3>6. Newlines(b, p + 1) = r /\ LineStart(b, p + 1) = s
        BY <1>4, <2>1, <3>3, <3>5, NextInLine
      <3>7. c + 1 = (p + 1) - s
        BY <1>4, <2>1, <3>3
      <3> QED
        BY <1>1, <1>5, <3>5, <3>6, <3>7, AgreesAt
    <2> QED
      BY <2>2, <2>3, <2>4
  <1>10. m_cursor_row' < m_screen_row' + TERMINAL_HEIGHT - 1 /\ m_screen_row' \in Nat
    BY <1>1, <1>3, <1>5 DEF TypeOK
  <1>11. m_cursor_pos' \in Nat /\ m_cursor_row' \in Nat /\ m_cursor_col' \in Nat
    BY <1>4, <1>5, <1>7
  <1>12. m_selection_end_row' = IF m_mode = "VISUAL" THEN m_cursor_row' ELSE m_selection_end_row
    BY <1>2, <1>5
  <1> QED
    BY <1>2, <1>3, <1>5, <1>8, <1>9, <1>10, <1>11, <1>12, MoveStep, Zenon

\* k and j go to a row that has a byte or a newline, and find the position.
LEMMA RowKeys == ASSUME EditorInv, key_up \/ key_down PROVE EditorInv'
  <1>1. PICK r : r = IF key_up THEN m_cursor_row - 1 ELSE m_cursor_row + 1
    OBVIOUS
  <1>2. /\ TypeOK /\ Key /\ m_cursor_row < m_screen_row + TERMINAL_HEIGHT - 1
        /\ r \in Nat /\ GoTo(r, get_line_length(r))
        /\ \/ r <= m_cursor_row /\ m_screen_row' = IF r < m_screen_row THEN r ELSE m_screen_row
           \/ m_screen_row' = ScrollDown(r)
    BY <1>1 DEF EditorInv, key_up, key_down, TypeOK, GoTo, SetCursor
  <1>3. PICK b, c, n : /\ b = m_buffer /\ n = get_line_length(r)
                       /\ c = IF m_cursor_col > n THEN n ELSE m_cursor_col
    OBVIOUS
  <1>4. /\ n # SIZE_MAX
        /\ m_cursor_pos' = update_cursor_pos(b, r, c) /\ m_cursor_row' = r /\ m_cursor_col' = c
        /\ m_selection_end_row' = IF m_mode = "VISUAL" THEN m_cursor_row' ELSE m_selection_end_row
        /\ UNCHANGED <<m_buffer, m_mode, m_has_selection, m_selection_start_row, m_active,
                       m_modified, file, broken>>
    BY <1>2, <1>3 DEF GoTo, SetCursor
  <1>5. PICK s \in Nat, e \in Nat : IsRow(b, r, s, e) /\ n = e - s
    BY <1>2, <1>3, <1>4, LineLength
  <1>6. s <= e /\ e <= Len(b) /\ b \in Seq(Byte) /\ Len(b) \in Nat
    BY <1>2, <1>3, <1>5, TextFacts DEF IsRow
  <1>7. c \in 0 .. e - s /\ c \in Nat
    BY <1>2, <1>3, <1>5, <1>6 DEF TypeOK
  <1>8. Newlines(b, s + c) = r /\ LineStart(b, s + c) = s /\ m_cursor_pos' = s + c
    BY <1>4, <1>5, <1>6, <1>7, PosInRow
  <1>9. s + c <= Len(b) /\ c = (s + c) - s /\ s + c \in Nat
    BY <1>5, <1>6, <1>7
  <1>10. Agrees'
    BY <1>3, <1>4, <1>8, <1>9, AgreesAt
  <1>11. m_screen_row' \in Nat /\ m_cursor_row' < m_screen_row' + TERMINAL_HEIGHT - 1
    <2>1. m_screen_row \in Nat /\ m_cursor_row \in Nat /\ TERMINAL_HEIGHT \in Nat /\ TERMINAL_HEIGHT >= 2
      BY <1>2, EditorAssumption DEF TypeOK
    <2>2. CASE r <= m_cursor_row /\ m_screen_row' = IF r < m_screen_row THEN r ELSE m_screen_row
      BY <1>2, <1>4, <2>1, <2>2
    <2>3. CASE m_screen_row' = ScrollDown(r)
      BY <1>2, <1>4, <2>1, <2>3 DEF ScrollDown
    <2> QED
      BY <1>2, <2>2, <2>3
  <1>12. m_cursor_pos' \in Nat /\ m_cursor_row' \in Nat /\ m_cursor_col' \in Nat
    BY <1>2, <1>4, <1>7, <1>8, <1>9
  <1> QED
    BY <1>2, <1>4, <1>10, <1>11, <1>12, MoveStep, Zenon DEF Key

\* The cursor (p, r, c) in text b: as Agrees and AtEnd say of the variables.
AgreesIn(b, p, r, c) == p <= Len(b) /\ r = Newlines(b, p) /\ c = p - LineStart(b, p)
AtEndIn(b, r) == r >= Newlines(b, Len(b))

LEMMA AgreesAfter ==
    /\ Agrees' <=> AgreesIn(m_buffer', m_cursor_pos', m_cursor_row', m_cursor_col')
    /\ AtEnd' <=> AtEndIn(m_buffer', m_cursor_row')
  BY DEF Agrees, AtEnd, AgreesIn, AtEndIn, Newlines, LineStart, m_buffer_size

LEMMA AgreesNow ==
    /\ Agrees <=> AgreesIn(m_buffer, m_cursor_pos, m_cursor_row, m_cursor_col)
    /\ AtEnd <=> AtEndIn(m_buffer, m_cursor_row)
  BY DEF Agrees, AtEnd, AgreesIn, AtEndIn, m_buffer_size

\* An edit in insert mode: outside the buffer the cursor has strayed before.
LEMMA EditStep ==
    ASSUME EditorInv, Mode("INSERT"), NEW b, NEW p, NEW r, NEW c, NEW s, Edit(b, p, r, c, s),
           Inside => /\ b \in Seq(Byte) /\ Len(b) < MAX_BUFFER_SIZE
                     /\ p \in Nat /\ r \in Nat /\ c \in Nat /\ s \in Nat
                     /\ r < s + TERMINAL_HEIGHT - 1
                     /\ Agrees => AgreesIn(b, p, r, c)
                     /\ AtEnd => AtEndIn(b, r)
    PROVE  EditorInv'
  <1>1. /\ TypeOK /\ ~broken /\ (~strayed => Agrees) /\ (Agrees \/ AtEnd)
        /\ m_cursor_row < m_screen_row + TERMINAL_HEIGHT - 1
        /\ KeyStrays(FALSE) /\ drift' \in 0 .. MaxDrift /\ (strayed' <=> strayed)
        /\ m_mode = "INSERT"
    BY KeyFacts, Zenon DEF EditorInv, Mode, Key
  <1>2. CASE Inside
    <2>1. /\ m_buffer' = b /\ m_cursor_pos' = p /\ m_cursor_row' = r /\ m_cursor_col' = c
          /\ m_screen_row' = s /\ m_modified' = TRUE
          /\ UNCHANGED <<m_mode, selection, m_active, file, broken>>
      BY <1>2 DEF Edit, SetCursor
    <2>2. b \in Seq(Char \cup {NL}) /\ Len(b) < MAX_BUFFER_SIZE
      BY <1>2 DEF Byte
    <2>3. TypeOK'
      BY <1>1, <1>2, <2>1, <2>2 DEF TypeOK, selection
    <2>4. (Agrees => Agrees') /\ (AtEnd => AtEnd')
      BY <1>2, <2>1, AgreesAfter
    <2>5. UnmodifiedIsSaved'
      BY <2>1 DEF UnmodifiedIsSaved
    <2>6. m_cursor_row' < m_screen_row' + TERMINAL_HEIGHT - 1 /\ m_mode' # "VISUAL"
      BY <1>1, <1>2, <2>1
    <2>7. UNCHANGED broken
      BY <2>1
    <2> QED
      BY <1>1, <2>3, <2>4, <2>5, <2>6, <2>7, KeyStep, Zenon
  <1>3. CASE ~Inside
    <2>1. /\ broken' = TRUE
          /\ UNCHANGED <<m_buffer, cursor, m_screen_row, m_mode, selection, m_active, m_modified, file>>
      BY <1>3 DEF Edit
    <2>2. strayed
      BY <1>1, <1>3 DEF Inside, Agrees
    <2>3. TypeOK'
      BY <1>1, <2>1 DEF TypeOK, selection, cursor
    <2>4. UnmodifiedIsSaved'
      BY <2>1 DEF UnmodifiedIsSaved
    <2>5. m_cursor_row' < m_screen_row' + TERMINAL_HEIGHT - 1 /\ m_mode' # "VISUAL"
      BY <1>1, <2>1 DEF cursor
    <2> QED
      BY <1>1, <2>1, <2>2, <2>3, <2>4, <2>5, Zenon DEF EditorInv
  <1> QED
    BY <1>2, <1>3

\* A character typed: its line has one more byte, the cursor goes behind it.
LEMMA TypeChar == ASSUME EditorInv, NEW ch \in Char, type_char(ch) PROVE EditorInv'
  <1>1. /\ Mode("INSERT") /\ Len(m_buffer) < MAX_BUFFER_SIZE - 1
        /\ Edit(memmove_up(m_buffer, m_cursor_pos, ch), m_cursor_pos + 1, m_cursor_row,
                m_cursor_col + 1, m_screen_row)
    BY DEF type_char, m_buffer_size
  <1>2. PICK b, d, p, r, c, s : /\ b = m_buffer /\ d = memmove_up(m_buffer, m_cursor_pos, ch)
                                /\ p = m_cursor_pos /\ r = m_cursor_row /\ c = m_cursor_col
                                /\ s = m_screen_row
    OBVIOUS
  <1>3. TypeOK /\ r < s + TERMINAL_HEIGHT - 1
    BY <1>2 DEF EditorInv
  <1>4. /\ p \in Nat /\ r \in Nat /\ c \in Nat /\ s \in Nat /\ b \in Seq(Byte)
        /\ Len(b) \in Nat /\ Len(b) < MAX_BUFFER_SIZE - 1 /\ MAX_BUFFER_SIZE \in Nat
    BY <1>1, <1>2, <1>3, TextFacts DEF TypeOK
  <1>5. ch \in Byte /\ ch # NL
    BY EditorAssumption DEF Byte
  <1>6. ASSUME Inside
        PROVE  /\ d \in Seq(Byte) /\ Len(d) < MAX_BUFFER_SIZE
               /\ Agrees => AgreesIn(d, p + 1, r, c + 1)
               /\ AtEnd => AtEndIn(d, r)
    <2>1. p \in 0 .. Len(b)
      BY <1>2, <1>4, <1>6 DEF Inside, m_buffer_size
    <2>2. Inserted(d, b, p, ch)
      BY <1>2, <1>4, <1>5, <2>1, InsertedBytes
    <2>3. d \in Seq(Byte) /\ Len(d) = Len(b) + 1 /\ d[p + 1] = ch /\ \A k \in 1 .. p : d[k] = b[k]
      BY <2>2 DEF Inserted
    <2>4. Newlines(d, p + 1) = Newlines(b, p) /\ Newlines(d, Len(d)) = Newlines(b, Len(b))
      BY <1>4, <1>5, <2>1, <2>2, InsertedNewlines, NewlinesStep
    <2>5. LineStart(d, p + 1) = LineStart(d, p) /\ LineStart(d, p) = LineStart(b, p)
      <3>1. d[p + 1] # NL
        BY <1>5, <2>3
      <3>2. LineStart(d, p + 1) = LineStart(d, p)
        BY <1>4, <3>1, NextInLine, Zenon
      <3>3. LineStart(d, p) = LineStart(b, p)
        BY <1>4, <2>3, SamePrefix, Zenon
      <3> QED
        BY <3>2, <3>3
    <2>6. LineStart(b, p) \in 0 .. p
      BY <1>4, LineStartFacts
    <2>7. Agrees => AgreesIn(d, p + 1, r, c + 1)
      BY <1>2, <1>4, <2>3, <2>4, <2>5, <2>6, AgreesNow DEF AgreesIn
    <2>8. AtEnd => AtEndIn(d, r)
      BY <1>2, <2>4, AgreesNow DEF AtEndIn
    <2> QED
      BY <1>4, <2>3, <2>7, <2>8
  <1>7. p + 1 \in Nat /\ c + 1 \in Nat
    BY <1>4
  <1>8. Edit(d, p + 1, r, c + 1, s)
    BY <1>1, <1>2
  <1> QED
    BY <1>1, <1>3, <1>4, <1>6, <1>7, <1>8, EditStep

\* A newline typed: the cursor goes to the start of the line that it makes.
LEMMA TypeNewline == ASSUME EditorInv, type_newline PROVE EditorInv'
  <1>1. /\ Mode("INSERT") /\ Len(m_buffer) < MAX_BUFFER_SIZE - 1
        /\ Edit(memmove_up(m_buffer, m_cursor_pos, NL), m_cursor_pos + 1, m_cursor_row + 1, 0,
                ScrollDown(m_cursor_row + 1))
    BY DEF type_newline, m_buffer_size, screen_after_newline
  <1>2. PICK b, d, p, r, s : /\ b = m_buffer /\ d = memmove_up(m_buffer, m_cursor_pos, NL)
                             /\ p = m_cursor_pos /\ r = m_cursor_row
                             /\ s = ScrollDown(m_cursor_row + 1)
    OBVIOUS
  <1>3. TypeOK
    BY DEF EditorInv
  <1>4. /\ p \in Nat /\ r \in Nat /\ b \in Seq(Byte)
        /\ Len(b) \in Nat /\ Len(b) < MAX_BUFFER_SIZE - 1 /\ MAX_BUFFER_SIZE \in Nat
    BY <1>1, <1>2, <1>3, TextFacts DEF TypeOK
  <1>5. s \in Nat /\ r + 1 < s + TERMINAL_HEIGHT - 1
    BY <1>2, <1>3, EditorAssumption DEF ScrollDown, TypeOK
  <1>6. ASSUME Inside
        PROVE  /\ d \in Seq(Byte) /\ Len(d) < MAX_BUFFER_SIZE
               /\ Agrees => AgreesIn(d, p + 1, r + 1, 0)
               /\ AtEnd => AtEndIn(d, r + 1)
    <2>1. p \in 0 .. Len(b) /\ NL \in Byte
      BY <1>2, <1>4, <1>6 DEF Inside, m_buffer_size, Byte
    <2>2. Inserted(d, b, p, NL)
      BY <1>2, <1>4, <2>1, InsertedBytes
    <2>3. d \in Seq(Byte) /\ Len(d) = Len(b) + 1 /\ d[p + 1] = NL
      BY <2>2 DEF Inserted
    <2>4. Newlines(d, p + 1) = Newlines(b, p) + 1 /\ Newlines(d, Len(d)) = Newlines(b, Len(b)) + 1
      BY <1>4, <2>1, <2>2, InsertedNewlines
    <2>5. Newlines(b, Len(b)) \in Nat /\ Newlines(b, p) \in Nat
      BY <1>4, NewlinesStep, Zenon
    <2>6. p + 1 \in 0 .. p + 1 /\ p + 1 \in Nat /\ \A k \in p + 1 + 1 .. p + 1 : d[k] # NL
      BY <1>4
    <2>7. LineStart(d, p + 1) = p + 1
      BY <2>3, <2>6, LineStartIs
    <2>8. Agrees => AgreesIn(d, p + 1, r + 1, 0)
      BY <1>2, <1>4, <2>3, <2>4, <2>7, AgreesNow DEF AgreesIn
    <2>9. AtEnd => AtEndIn(d, r + 1)
      BY <1>2, <1>4, <2>4, <2>5, AgreesNow DEF AtEndIn
    <2> QED
      BY <1>4, <2>3, <2>8, <2>9
  <1>7. p + 1 \in Nat /\ r + 1 \in Nat
    BY <1>4
  <1>8. Edit(d, p + 1, r + 1, 0, s)
    BY <1>1, <1>2
  <1> QED
    BY <1>1, <1>4, <1>5, <1>6, <1>7, <1>8, EditStep

\* Backspace at a newline joins two lines; there is a row to take away, for a
\* strayed cursor is not above the last line.
LEMMA Backspace == ASSUME EditorInv, backspace PROVE EditorInv'
  <1>1. PICK b, d, p, q, r, c, s :
            /\ b = m_buffer /\ d = (IF Inside THEN memmove_down(m_buffer, m_cursor_pos - 1, m_cursor_pos) ELSE m_buffer)
            /\ p = m_cursor_pos /\ q = m_cursor_pos - 1
            /\ r = m_cursor_row /\ c = m_cursor_col /\ s = m_screen_row
    OBVIOUS
  <1>2. /\ Mode("INSERT") /\ p > 0
        /\ IF Inside /\ b[p] = NL THEN Edit(d, q, r - 1, q - LineStart(d, q), s)
           ELSE Edit(d, q, r, IF c > 0 THEN c - 1 ELSE 0, s)
    BY <1>1 DEF backspace, column_after_join
  <1>3. TypeOK /\ r < s + TERMINAL_HEIGHT - 1 /\ ~broken /\ (Agrees \/ AtEnd)
    BY <1>1, <1>2, KeyFacts, Zenon DEF EditorInv, Mode, Key
  <1>4. /\ p \in Nat /\ r \in Nat /\ c \in Nat /\ s \in Nat /\ b \in Seq(Byte)
        /\ Len(b) \in Nat /\ Len(b) < MAX_BUFFER_SIZE /\ MAX_BUFFER_SIZE \in Nat
    BY <1>1, <1>3, TextFacts DEF TypeOK
  <1>5. q \in Nat /\ p = q + 1 /\ TERMINAL_HEIGHT \in Nat
    BY <1>1, <1>2, <1>4, EditorAssumption
  <1>6. LineStart(d, q) \in 0 .. q /\ q - LineStart(d, q) \in Nat
    BY <1>5, LineStartFacts
  <1>7. ASSUME Inside
        PROVE  /\ d \in Seq(Byte) /\ Len(d) = Len(b) - 1 /\ Len(d) < MAX_BUFFER_SIZE /\ q <= Len(d)
               /\ LineStart(d, q) = LineStart(b, q) /\ Newlines(d, q) = Newlines(b, q)
               /\ Newlines(b, p) = Newlines(b, q) + (IF b[p] = NL THEN 1 ELSE 0)
               /\ Newlines(b, Len(b)) = Newlines(d, Len(d)) + (IF b[p] = NL THEN 1 ELSE 0)
               /\ Newlines(b, q) \in Nat /\ Newlines(d, Len(d)) \in Nat
               /\ Newlines(b, p) <= Newlines(b, Len(b))
    <2>1. p \in 1 .. Len(b)
      BY <1>1, <1>2, <1>4, <1>7 DEF Inside, m_buffer_size
    <2>2. Removed(d, b, p)
      BY <1>1, <1>4, <1>7, <2>1, RemovedBytes
    <2>3. d \in Seq(Byte) /\ Len(d) = Len(b) - 1 /\ \A k \in 1 .. q : d[k] = b[k]
      BY <1>1, <2>2 DEF Removed
    <2>4. Len(d) < MAX_BUFFER_SIZE /\ q <= Len(d) /\ Len(d) \in Nat
      BY <1>4, <1>5, <2>1, <2>3
    <2>5. LineStart(d, q) = LineStart(b, q) /\ Newlines(d, q) = Newlines(b, q)
      BY <1>5, <2>3, SamePrefix
    <2>6. /\ Newlines(b, p) = Newlines(b, p - 1) + (IF b[p] = NL THEN 1 ELSE 0)
          /\ Newlines(b, Len(b)) = Newlines(d, Len(d)) + (IF b[p] = NL THEN 1 ELSE 0)
      BY <1>4, <2>1, <2>2, RemovedNewlines
    <2>7. Newlines(b, q) \in Nat /\ Newlines(d, Len(d)) \in Nat
      BY <1>5, <2>4, NewlinesStep, Zenon
    <2>8. Newlines(b, p) <= Newlines(b, Len(b))
      BY <1>4, <2>1, NewlinesGrow
    <2>9. p - 1 = q
      BY <1>5
    <2> QED
      BY <2>3, <2>4, <2>5, <2>6, <2>7, <2>8, <2>9
  <1>8. CASE Inside /\ b[p] = NL
    <2>1. (Agrees => AgreesIn(b, p, r, c)) /\ (AtEnd => AtEndIn(b, r))
      BY <1>1, AgreesNow
    <2>2. r >= Newlines(b, p)
      BY <1>3, <1>4, <1>7, <1>8, <2>1 DEF AgreesIn, AtEndIn
    <2>3. r - 1 \in Nat /\ r - 1 < s + TERMINAL_HEIGHT - 1
      BY <1>3, <1>4, <1>5, <1>7, <1>8, <2>2
    <2>4. Agrees => AgreesIn(d, q, r - 1, q - LineStart(d, q))
      BY <1>4, <1>7, <1>8, <2>1 DEF AgreesIn
    <2>5. AtEnd => AtEndIn(d, r - 1)
      BY <1>4, <1>7, <1>8, <2>1 DEF AtEndIn
    <2>6. Edit(d, q, r - 1, q - LineStart(d, q), s)
      BY <1>2, <1>8
    <2>7. d \in Seq(Byte) /\ Len(d) < MAX_BUFFER_SIZE
      BY <1>7, <1>8
    <2> QED
      BY <1>2, <1>4, <1>5, <1>6, <2>3, <2>4, <2>5, <2>6, <2>7, EditStep
  <1>9. CASE ~(Inside /\ b[p] = NL)
    <2>1. PICK e : e = IF c > 0 THEN c - 1 ELSE 0
      OBVIOUS
    <2>2. e \in Nat /\ Edit(d, q, r, e, s)
      BY <1>2, <1>4, <1>9, <2>1
    <2>3. ASSUME Inside, Agrees PROVE AgreesIn(d, q, r, e)
      <3>1. p <= Len(b) /\ r = Newlines(b, p) /\ c = p - LineStart(b, p)
        BY <1>1, <2>3, AgreesNow DEF AgreesIn
      <3>2. LineStart(b, p) = LineStart(b, q)
        BY <1>5, <1>9, <2>3, NextInLine
      <3>3. LineStart(d, q) = LineStart(b, q) /\ Newlines(d, q) = Newlines(b, p) /\ q <= Len(d)
        BY <1>7, <1>9, <2>3
      <3>4. e = q - LineStart(d, q)
        BY <1>5, <1>6, <2>1, <3>1, <3>2, <3>3
      <3> QED
        BY <3>1, <3>3, <3>4 DEF AgreesIn
    <2>4. ASSUME Inside, AtEnd PROVE AtEndIn(d, r)
      <3>1. r >= Newlines(b, Len(b))
        BY <1>1, <2>4, AgreesNow DEF AtEndIn
      <3> QED
        BY <1>7, <1>9, <2>4, <3>1 DEF AtEndIn
    <2>5. Inside => d \in Seq(Byte) /\ Len(d) < MAX_BUFFER_SIZE
      BY <1>7
    <2> QED
      BY <1>2, <1>3, <1>4, <1>5, <2>2, <2>3, <2>4, <2>5, EditStep
  <1> QED
    BY <1>8, <1>9

\* s in normal mode: the byte at the cursor goes, the cursor stays.
LEMMA CutKey == ASSUME EditorInv, key_s PROVE EditorInv'
  <1>1. PICK b, p, r : b = m_buffer /\ p = m_cursor_pos /\ r = m_cursor_row
    OBVIOUS
  <1>2. /\ KeyStrays(FALSE) /\ m_mode' = "INSERT" /\ m_has_selection' = FALSE
        /\ UNCHANGED <<cursor, m_selection_start_row, m_selection_end_row, m_screen_row, m_active,
                       file, broken>>
        /\ IF p < Len(b) THEN m_buffer' = memmove_down(b, p, p + 1) /\ m_modified' = TRUE
           ELSE UNCHANGED <<m_buffer, m_modified>>
    BY <1>1, Zenon DEF key_s, Mode, Key, switch_to, m_buffer_size
  <1>3. /\ TypeOK /\ UnmodifiedIsSaved /\ (~strayed => Agrees) /\ (Agrees \/ AtEnd)
        /\ m_cursor_row < m_screen_row + TERMINAL_HEIGHT - 1 /\ drift' \in 0 .. MaxDrift
    BY <1>2, KeyFacts, Zenon DEF EditorInv
  <1>4. m_cursor_pos' = p /\ m_cursor_row' = r /\ m_cursor_col' = m_cursor_col
    BY <1>1, <1>2 DEF cursor
  <1>5. /\ p \in Nat /\ r \in Nat /\ b \in Seq(Byte)
        /\ Len(b) \in Nat /\ Len(b) < MAX_BUFFER_SIZE /\ MAX_BUFFER_SIZE \in Nat
    BY <1>1, <1>3, TextFacts DEF TypeOK
  <1>6. /\ m_buffer' \in Seq(Char \cup {NL}) /\ Len(m_buffer') < MAX_BUFFER_SIZE /\ m_modified' \in BOOLEAN
        /\ UnmodifiedIsSaved' /\ (Agrees => Agrees') /\ (AtEnd => AtEnd')
    <2>1. CASE p < Len(b)
      <3>1. PICK d : d = memmove_down(b, p, p + 1)
        OBVIOUS
      <3>2. p + 1 \in 1 .. Len(b) /\ (p + 1) - 1 = p
        BY <1>5, <2>1
      <3>3. Removed(d, b, p + 1)
        BY <1>5, <3>1, <3>2, RemovedBytes
      <3>4. d \in Seq(Byte) /\ Len(d) = Len(b) - 1 /\ \A k \in 1 .. p : d[k] = b[k]
        BY <3>2, <3>3 DEF Removed
      <3>5. Len(d) \in Nat /\ Len(d) < MAX_BUFFER_SIZE /\ p <= Len(d)
        BY <1>5, <2>1, <3>4
      <3>6. Newlines(d, p) = Newlines(b, p) /\ LineStart(d, p) = LineStart(b, p)
        BY <1>5, <3>4, SamePrefix
      <3>7. Newlines(b, Len(b)) = Newlines(d, Len(d)) + (IF b[p + 1] = NL THEN 1 ELSE 0)
        BY <1>5, <3>2, <3>3, RemovedNewlines
      <3>8. Newlines(d, Len(d)) \in Nat
        BY <3>5, NewlinesStep
      <3>9. m_buffer' = d /\ m_modified' = TRUE
        BY <1>2, <2>1, <3>1
      <3>10. Agrees => Agrees'
        BY <1>1, <1>4, <1>5, <2>1, <3>4, <3>6, <3>9, AgreesNow, AgreesAfter DEF AgreesIn
      <3>11. AtEnd => AtEnd'
        BY <1>1, <1>4, <1>5, <3>7, <3>8, <3>9, AgreesNow, AgreesAfter DEF AtEndIn
      <3>12. d \in Seq(Char \cup {NL}) /\ Len(d) < MAX_BUFFER_SIZE
        BY <3>4, <3>5 DEF Byte
      <3>13. UnmodifiedIsSaved'
        BY <3>9 DEF UnmodifiedIsSaved
      <3> QED
        BY <3>9, <3>10, <3>11, <3>12, <3>13
    <2>2. CASE ~(p < Len(b))
      <3>1. UNCHANGED <<m_buffer, m_modified>>
        BY <1>2, <2>2
      <3>2. UnmodifiedIsSaved'
        BY <1>2, <1>3, <3>1, SavedKept
      <3>3. (Agrees => Agrees') /\ (AtEnd => AtEnd')
        BY <1>2, <3>1, AgreesKept
      <3> QED
        BY <1>3, <3>1, <3>2, <3>3 DEF TypeOK
    <2> QED
      BY <2>1, <2>2
  <1>7. TypeOK'
    BY <1>2, <1>3, <1>4, <1>5, <1>6, <1>1, Zenon DEF TypeOK
  <1>8. m_cursor_row' < m_screen_row' + TERMINAL_HEIGHT - 1 /\ m_mode' # "VISUAL"
    BY <1>1, <1>2, <1>3, <1>4
  <1> QED
    BY <1>2, <1>3, <1>6, <1>7, <1>8, KeyStep, Zenon

\* What UnmodifiedIsSaved says of a file whose content is known.
SavedIn(b, f) == f # Unknown => Trimmed(b) = IF f = None THEN <<>> ELSE Trimmed(f.bytes)

LEMMA SavedCases ==
    /\ UnmodifiedIsSaved <=> (m_active /\ ~m_modified /\ ~broken => SavedIn(m_buffer, file))
    /\ UnmodifiedIsSaved' <=> (m_active' /\ ~m_modified' /\ ~broken' => SavedIn(m_buffer', file'))
  <1>1. Unknown # None
    BY DEF Unknown, None
  <1>2. UnmodifiedIsSaved <=> (m_active /\ ~m_modified /\ ~broken => SavedIn(m_buffer, file))
    <2>1. CASE file = Unknown
      BY <1>1, <2>1 DEF UnmodifiedIsSaved, SavedIn
    <2>2. CASE file = None
      BY <1>1, <2>2 DEF UnmodifiedIsSaved, SavedIn
    <2>3. CASE file # Unknown /\ file # None
      BY <2>3 DEF UnmodifiedIsSaved, SavedIn
    <2> QED
      BY <2>1, <2>2, <2>3
  <1>3. UnmodifiedIsSaved' <=> (m_active' /\ ~m_modified' /\ ~broken' => SavedIn(m_buffer', file'))
    <2>1. CASE file' = Unknown
      BY <1>1, <2>1 DEF UnmodifiedIsSaved, SavedIn
    <2>2. CASE file' = None
      BY <1>1, <2>2 DEF UnmodifiedIsSaved, SavedIn, Trimmed
    <2>3. CASE file' # Unknown /\ file' # None
      BY <2>3, Zenon DEF UnmodifiedIsSaved, SavedIn, Trimmed
    <2> QED
      BY <2>1, <2>2, <2>3
  <1> QED
    BY <1>2, <1>3

\* Ctrl-S with the cursor behind the last line that has a byte is the other
\* key that strays: the row stays, and no line is below it.
LEMMA Save == ASSUME EditorInv, save PROVE EditorInv'
  <1>1. PICK b, t, p, r, c : /\ b = m_buffer /\ t = Trimmed(m_buffer) /\ p = m_cursor_pos
                             /\ r = m_cursor_row /\ c = m_cursor_col
    OBVIOUS
  <1>2. /\ KeyStrays(p > Len(t)) /\ m_mode = "NORMAL" /\ m_buffer' = t
        /\ \/ /\ file' = Known(t) /\ m_modified' = FALSE
              /\ m_cursor_pos' = IF p > Len(t) THEN update_cursor_pos(t, r, c) ELSE p
           \/ file' \in {file, Unknown} /\ m_modified' = m_modified /\ m_cursor_pos' = p
        /\ UNCHANGED <<m_cursor_row, m_cursor_col, m_screen_row, m_mode, m_has_selection,
                       m_selection_start_row, m_selection_end_row, m_active, broken>>
    BY <1>1 DEF save, save_ok, save_fails, selection
  <1>3. /\ TypeOK /\ UnmodifiedIsSaved /\ (~strayed => Agrees) /\ (Agrees \/ AtEnd)
        /\ m_cursor_row < m_screen_row + TERMINAL_HEIGHT - 1 /\ drift' \in 0 .. MaxDrift
        /\ m_active /\ ~broken
    BY <1>2, KeyFacts DEF EditorInv
  <1>4. /\ p \in Nat /\ r \in Nat /\ c \in Nat /\ b \in Seq(Byte)
        /\ Len(b) \in Nat /\ Len(b) < MAX_BUFFER_SIZE /\ MAX_BUFFER_SIZE \in Nat
    BY <1>1, <1>3, TextFacts DEF TypeOK
  <1>5. t \in Seq(Byte) /\ Len(t) \in 0 .. Len(b) /\ \A k \in 1 .. Len(t) : t[k] = b[k]
    BY <1>1, <1>4, TrimmedBytes
  <1>6. Len(t) \in Nat /\ Len(t) <= Len(b) /\ Len(t) < MAX_BUFFER_SIZE
    BY <1>4, <1>5
  <1>7. update_cursor_pos(t, r, c) \in Nat
    <2> DEFINE S == {Len(t)} \cup {q \in 0 .. Len(t) - 1 : /\ Newlines(t, q) = r
                                                           /\ q - LineStart(t, q) = c}
    <2>1. S \in SUBSET Nat /\ S # {}
      BY <1>6
    <2>2. Min(S) \in S
      BY <2>1, MinFacts
    <2>3. update_cursor_pos(t, r, c) = Min(S)
      BY DEF update_cursor_pos
    <2> HIDE DEF S
    <2> QED
      BY <2>1, <2>2, <2>3, Zenon
  <1>8. m_cursor_pos' \in Nat /\ m_modified' \in BOOLEAN
    BY <1>2, <1>3, <1>4, <1>7, Zenon DEF TypeOK
  <1>9. t \in Seq(Char \cup {NL}) /\ Len(t) < MAX_BUFFER_SIZE
    BY <1>5, <1>6 DEF Byte
  <1>10. TypeOK'
    BY <1>2, <1>3, <1>8, <1>9 DEF TypeOK
  <1>11. Newlines(t, Len(t)) = Newlines(b, Len(t))
    BY <1>5, <1>6, SamePrefix
  <1>12. ASSUME Agrees, ~(p > Len(t)) PROVE Agrees'
    <2>1. p <= Len(t) /\ m_cursor_pos' = p /\ \A k \in 1 .. p : t[k] = b[k]
      BY <1>2, <1>4, <1>5, <1>6, <1>12
    <2>2. Newlines(t, p) = Newlines(b, p) /\ LineStart(t, p) = LineStart(b, p)
      BY <1>4, <2>1, SamePrefix
    <2> QED
      BY <1>1, <1>2, <1>12, <2>1, <2>2, AgreesNow, AgreesAfter DEF AgreesIn
  <1>13. ASSUME Agrees, p > Len(t) PROVE AtEnd'
    <2>1. r = Newlines(b, p)
      BY <1>1, <1>13, AgreesNow DEF AgreesIn
    <2>2. Newlines(b, Len(t)) <= Newlines(b, p) /\ Newlines(b, Len(t)) \in Nat
      BY <1>4, <1>6, <1>13, NewlinesGrow, NewlinesStep
    <2> QED
      BY <1>1, <1>2, <1>4, <1>11, <2>1, <2>2, AgreesAfter DEF AtEndIn
  <1>14. ASSUME AtEnd PROVE AtEnd'
    <2>1. r >= Newlines(b, Len(b))
      BY <1>1, <1>14, AgreesNow DEF AtEndIn
    <2>2. /\ Newlines(b, Len(t)) <= Newlines(b, Len(b))
          /\ Newlines(b, Len(t)) \in Nat /\ Newlines(b, Len(b)) \in Nat
      BY <1>4, <1>6, NewlinesGrow, NewlinesStep
    <2>3. r >= Newlines(t, Len(t))
      BY <1>4, <1>11, <2>1, <2>2
    <2> QED
      BY <1>1, <1>2, <2>3, AgreesAfter DEF AtEndIn
  <1>15. UnmodifiedIsSaved'
    <2>1. Trimmed(t) = Trimmed(b)
      BY <1>1, <1>4, TrimmedTwice
    <2>2. Known(t) # None /\ Known(t).bytes = t
      BY DEF Known, None
    <2>3. CASE file' = Known(t)
      BY <1>2, <2>2, <2>3, SavedCases DEF SavedIn
    <2>4. CASE file' \in {file, Unknown} /\ m_modified' = m_modified
      BY <1>1, <1>2, <1>3, <2>1, <2>4, SavedCases DEF SavedIn
    <2> QED
      BY <1>2, <2>3, <2>4
  <1>16. m_cursor_row' < m_screen_row' + TERMINAL_HEIGHT - 1 /\ m_mode' # "VISUAL"
    BY <1>2, <1>3
  <1>17. UNCHANGED broken
    BY <1>2
  <1>18. (~strayed /\ ~(p > Len(t)) => Agrees') /\ (Agrees' \/ AtEnd')
    BY <1>3, <1>12, <1>13, <1>14
  <1> QED
    BY <1>2, <1>10, <1>15, <1>16, <1>17, <1>18, KeyStep, Zenon

\* Text d is b with the bytes m + 1 to n taken out.
IsCut(d, b, m, n) ==
    d \in Seq(Byte) /\ Len(d) = m + (Len(b) - n) /\ \A k \in 1 .. m : d[k] = b[k]

LEMMA CutBytes ==
    ASSUME NEW b \in Seq(Byte), NEW m \in Nat, NEW n \in Nat, m <= n, n <= Len(b)
    PROVE  IsCut(memmove_down(b, m, n), b, m, n)
  <1>1. PICK x, z : x = SubSeq(b, 1, m) /\ z = SubSeq(b, n + 1, Len(b))
    BY Zenon
  <1>2. x \in Seq(Byte) /\ Len(x) = m /\ \A k \in 1 .. m : x[k] = b[k]
    BY <1>1
  <1>3. z \in Seq(Byte) /\ Len(z) = Len(b) - n
    BY <1>1
  <1>4. /\ x \o z \in Seq(Byte) /\ Len(x \o z) = Len(x) + Len(z)
        /\ \A k \in 1 .. Len(x) + Len(z) : (x \o z)[k] = IF k <= Len(x) THEN x[k] ELSE z[k - Len(x)]
    BY <1>2, <1>3, ConcatBytes, Zenon
  <1>5. PICK d : d = x \o z
    BY Zenon
  <1>6. /\ d \in Seq(Byte) /\ Len(d) = Len(x) + Len(z)
        /\ \A k \in 1 .. Len(x) + Len(z) : d[k] = IF k <= Len(x) THEN x[k] ELSE z[k - Len(x)]
    BY <1>4, <1>5, Zenon
  <1>7. ASSUME NEW k \in 1 .. m PROVE d[k] = b[k]
    <2>1. Len(z) \in Nat /\ k \in 1 .. Len(x) + Len(z) /\ k <= Len(x)
      BY <1>2, <1>3
    <2> QED
      BY <1>2, <1>6, <2>1
  <1>8. IsCut(d, b, m, n)
    BY <1>2, <1>3, <1>6, <1>7 DEF IsCut
  <1> QED
    BY <1>1, <1>5, <1>8 DEF memmove_down

\* The newline behind ep, up to which delete_selection takes the bytes out.
EndsAt(ep, b, L, sp) == ep = L \/ (ep \in sp .. L - 1 /\ b[ep + 1] = NL)

LEMMA FoundFacts ==
    ASSUME NEW b, NEW L \in Nat, NEW a, NEW f, FoundRow(f, b, L, a)
    PROVE  /\ f \in 0 .. L /\ (f = L \/ Newlines(b, f) = a)
           /\ LineStart(b, f) \in Nat /\ LineStart(b, f) <= f
  <1> DEFINE S == {L} \cup {p \in 0 .. L : Newlines(b, p) = a}
  <1>1. S \in SUBSET Nat /\ S # {}
    OBVIOUS
  <1>2. f \in S
    BY <1>1, MinFacts DEF FoundRow
  <1>3. f \in 0 .. L /\ (f = L \/ Newlines(b, f) = a)
    BY <1>2
  <1> HIDE DEF S
  <1>4. LineStart(b, f) \in 0 .. f /\ f \in Nat
    BY <1>3, LineStartFacts
  <1> QED
    BY <1>3, <1>4

LEMMA DeletedRange ==
    ASSUME NEW b, NEW L \in Nat, NEW a \in Nat, NEW f, FoundRow(f, b, L, a),
           NEW sp, sp = LineStart(b, f), NEW ep, EndsAt(ep, b, L, sp)
    PROVE  /\ a <= Newlines(b, L) => Newlines(b, sp) = a /\ LineStart(b, sp) = sp
           /\ a > Newlines(b, L) => ep = L /\ Newlines(b, sp) < a
  <1>1. f \in Nat /\ f <= L /\ (f = L \/ Newlines(b, f) = a) /\ sp \in Nat /\ sp <= f
    BY FoundFacts
  <1>2. \A k \in sp + 1 .. f : b[k] # NL
    BY <1>1, LineStartFacts
  <1>3. ASSUME a <= Newlines(b, L) PROVE Newlines(b, sp) = a /\ LineStart(b, sp) = sp
    <2>1. Newlines(b, f) = a /\ LineStart(b, f) = f
      BY <1>3, RowFound
    <2> QED
      BY <2>1
  <1>4. ASSUME a > Newlines(b, L) PROVE ep = L /\ Newlines(b, sp) < a
    <2>1. ASSUME NEW p \in 0 .. L PROVE Newlines(b, p) \in Nat /\ Newlines(b, p) <= Newlines(b, L)
      <3>1. p \in Nat /\ p <= L
        OBVIOUS
      <3> QED
        BY <3>1, NewlinesStep, NewlinesGrow
    <2>2. Newlines(b, L) \in Nat
      BY NewlinesStep, Zenon
    <2>3. f = L
      BY <1>1, <1>4, <2>1, <2>2
    <2>4. ep = L
      <3>1. SUFFICES ASSUME ep \in sp .. L - 1, b[ep + 1] = NL PROVE FALSE
        BY DEF EndsAt
      <3>2. ep + 1 \in sp + 1 .. L
        BY <1>1, <3>1
      <3> QED
        BY <1>2, <2>3, <3>1, <3>2
    <2>5. sp \in 0 .. L
      BY <1>1
    <2>6. Newlines(b, sp) \in Nat /\ Newlines(b, sp) <= Newlines(b, L)
      BY <2>1, <2>5
    <2> QED
      BY <1>4, <2>2, <2>4, <2>6
  <1> QED
    BY <1>3, <1>4

\* s in visual mode.  The selection ends at the cursor's row, so it starts at a
\* row of the text unless the cursor has strayed.
LEMMA DeleteSelection == ASSUME EditorInv, delete_selection PROVE EditorInv'
  <1>1. PICK b, L, r, ss, se : /\ b = m_buffer /\ L = Len(m_buffer) /\ r = m_cursor_row
                               /\ ss = m_selection_start_row /\ se = m_selection_end_row
    BY Zenon
  <1>2. PICK a, z : a = Min({ss, se}) /\ z = Max({ss, se})
    OBVIOUS
  <1>3. PICK f : FoundRow(f, b, L, a)
    BY DEF FoundRow
  <1>4. PICK sp : sp = LineStart(b, f)
    OBVIOUS
  <1>5. PICK ep : ep = last_deleted(sp, z - a + 1)
    OBVIOUS
  <1>6. /\ Mode("VISUAL")
        /\ IF ep > sp
           THEN /\ m_buffer' = memmove_down(b, sp, ep)
                /\ SetCursor(sp, a, 0) /\ m_modified' = TRUE
           ELSE UNCHANGED <<m_buffer, cursor, m_modified>>
        /\ switch_to("INSERT")
        /\ UNCHANGED <<m_screen_row, m_active, file, broken>>
    BY <1>1, <1>2, <1>3, <1>4, <1>5, Zenon DEF delete_selection, m_buffer_size, FoundRow
  <1>7. KeyStrays(FALSE) /\ m_mode = "VISUAL"
    BY <1>6, Zenon DEF Mode, Key
  <1>8. /\ TypeOK /\ UnmodifiedIsSaved /\ (~strayed => Agrees) /\ (Agrees \/ AtEnd)
        /\ r < m_screen_row + TERMINAL_HEIGHT - 1 /\ drift' \in 0 .. MaxDrift /\ se = r
    BY <1>1, <1>7, KeyFacts, Zenon DEF EditorInv
  <1>9. /\ r \in Nat /\ ss \in Nat /\ se \in Nat /\ b \in Seq(Byte) /\ L = Len(b) /\ L \in Nat
        /\ L < MAX_BUFFER_SIZE /\ MAX_BUFFER_SIZE \in Nat
    BY <1>1, <1>8, TextFacts DEF TypeOK
  <1>10. a \in Nat /\ a <= r
    <2>1. {ss, se} \in SUBSET Nat /\ {ss, se} # {}
      BY <1>9
    <2>2. a \in {ss, se} /\ \A y \in {ss, se} : a <= y
      BY <1>2, <2>1, MinFacts
    <2> QED
      BY <1>8, <1>9, <2>2
  <1>11. sp \in Nat /\ sp <= L
    BY <1>3, <1>4, <1>9, FoundFacts
  <1>12. EndsAt(ep, b, L, sp)
    <2> DEFINE S == {L} \cup {q \in sp .. L - 1 :
                        b[q + 1] = NL /\ Newlines(b, q) - Newlines(b, sp) = (z - a + 1) - 1}
    <2>1. ep = Min(S)
      BY <1>1, <1>5 DEF last_deleted, m_buffer_size
    <2>2. S \in SUBSET Nat /\ S # {}
      BY <1>9, <1>11
    <2>3. ep \in S
      BY <2>1, <2>2, MinFacts, Zenon
    <2> QED
      BY <2>3 DEF EndsAt
  <1>13. /\ a <= Newlines(b, L) => Newlines(b, sp) = a /\ LineStart(b, sp) = sp
         /\ a > Newlines(b, L) => ep = L /\ Newlines(b, sp) < a
    BY <1>3, <1>4, <1>9, <1>10, <1>12, DeletedRange
  <1> DEFINE Goal == /\ m_buffer' \in Seq(Char \cup {NL}) /\ Len(m_buffer') < MAX_BUFFER_SIZE
                     /\ m_cursor_pos' \in Nat /\ m_cursor_row' \in Nat /\ m_cursor_col' \in Nat
                     /\ m_cursor_row' <= r /\ m_modified' \in BOOLEAN
                     /\ UnmodifiedIsSaved' /\ (Agrees => Agrees') /\ (Agrees' \/ AtEnd')
  <1>14. ASSUME ep > sp PROVE Goal
    <2>1. ep \in Nat /\ sp <= ep /\ ep <= L
      BY <1>9, <1>11, <1>12, <1>14 DEF EndsAt
    <2>2. PICK d : d = memmove_down(b, sp, ep)
      OBVIOUS
    <2>3. IsCut(d, b, sp, ep)
      BY <1>9, <1>11, <2>1, <2>2, CutBytes
    <2>4. d \in Seq(Byte) /\ Len(d) = sp + (L - ep) /\ \A k \in 1 .. sp : d[k] = b[k]
      BY <1>9, <2>3 DEF IsCut
    <2>5. Len(d) \in Nat /\ sp <= Len(d) /\ Len(d) < MAX_BUFFER_SIZE
      BY <1>9, <1>11, <2>1, <2>4
    <2>6. /\ m_buffer' = d /\ m_cursor_pos' = sp /\ m_cursor_row' = a /\ m_cursor_col' = 0
          /\ m_modified' = TRUE
      BY <1>6, <1>14, <2>2 DEF SetCursor
    <2>7. Newlines(d, sp) = Newlines(b, sp) /\ LineStart(d, sp) = LineStart(b, sp)
      BY <1>11, <2>4, SamePrefix
    <2>8. Newlines(b, L) \in Nat
      BY <1>9, NewlinesStep
    <2>9. ASSUME a <= Newlines(b, L) PROVE Agrees'
      <3>1. 0 = sp - sp
        BY <1>11
      <3> QED
        BY <1>13, <2>5, <2>6, <2>7, <2>9, <3>1, AgreesAfter DEF AgreesIn
    <2>10. ASSUME a > Newlines(b, L) PROVE AtEnd'
      <3>1. Len(d) = sp
        BY <1>9, <1>11, <1>13, <2>4, <2>10
      <3>2. Newlines(d, Len(d)) < a /\ Newlines(d, Len(d)) \in Nat
        BY <1>13, <2>5, <2>7, <2>10, <3>1, NewlinesStep
      <3> QED
        BY <1>10, <2>6, <3>2, AgreesAfter DEF AtEndIn
    <2>11. ASSUME Agrees PROVE a <= Newlines(b, L)
      <3>1. PICK p : p = m_cursor_pos
        OBVIOUS
      <3>2. p \in Nat /\ p <= L /\ r = Newlines(b, p)
        BY <1>1, <1>8, <2>11, <3>1, AgreesNow DEF AgreesIn, TypeOK
      <3>3. Newlines(b, p) <= Newlines(b, L)
        BY <1>9, <3>2, NewlinesGrow
      <3> QED
        BY <1>9, <1>10, <2>8, <3>2, <3>3
    <2>12. a <= Newlines(b, L) \/ a > Newlines(b, L)
      BY <1>10, <2>8
    <2>13. d \in Seq(Char \cup {NL}) /\ Len(d) < MAX_BUFFER_SIZE
      BY <2>4, <2>5 DEF Byte
    <2>14. UnmodifiedIsSaved'
      BY <2>6 DEF UnmodifiedIsSaved
    <2> QED
      BY <1>10, <1>11, <2>6, <2>9, <2>10, <2>11, <2>12, <2>13, <2>14
  <1>15. ASSUME ~(ep > sp) PROVE Goal
    <2>1. UNCHANGED <<m_buffer, cursor, m_modified>>
      BY <1>6, <1>15
    <2>2. UnmodifiedIsSaved'
      BY <1>6, <1>8, <2>1, SavedKept
    <2>3. (Agrees' <=> Agrees) /\ (AtEnd' <=> AtEnd)
      BY <2>1, AgreesKept
    <2>4. m_cursor_row' <= r
      BY <1>1, <1>9, <2>1 DEF cursor
    <2> QED
      BY <1>8, <2>1, <2>2, <2>3, <2>4 DEF TypeOK, cursor
  <1>16. Goal
    BY <1>14, <1>15
  <1> HIDE DEF Goal
  <1>17. /\ m_mode' = "INSERT" /\ m_has_selection' = FALSE
         /\ UNCHANGED <<m_selection_start_row, m_selection_end_row, m_screen_row, m_active, file, broken>>
    BY <1>6 DEF switch_to
  <1>18. TypeOK'
    BY <1>8, <1>16, <1>17, Zenon DEF TypeOK, Goal
  <1>19. m_cursor_row' < m_screen_row' + TERMINAL_HEIGHT - 1
    <2>1. m_cursor_row' \in Nat /\ m_cursor_row' <= r
      BY <1>16 DEF Goal
    <2>2. m_screen_row \in Nat /\ TERMINAL_HEIGHT \in Nat
      BY <1>8, EditorAssumption DEF TypeOK
    <2> QED
      BY <1>8, <1>9, <1>17, <2>1, <2>2
  <1>20. UnmodifiedIsSaved' /\ (Agrees => Agrees') /\ (Agrees' \/ AtEnd')
    BY <1>16 DEF Goal
  <1> QED
    BY <1>7, <1>8, <1>17, <1>18, <1>19, <1>20, KeyStep, Zenon

\* A file that is opened, or a name that has none, and the editor closed.
LEMMA OpenClose ==
    ASSUME EditorInv, (\E f \in {None} \cup {Known(b) : b \in File} : open(f)) \/ close
    PROVE  EditorInv'
  <1>1. /\ m_cursor_pos' = 0 /\ m_cursor_row' = 0 /\ m_cursor_col' = 0 /\ m_screen_row' = 0
        /\ m_mode' = "NORMAL" /\ m_modified' = FALSE /\ m_active' \in BOOLEAN /\ drift' = 0
        /\ ~broken /\ UNCHANGED <<selection, broken>>
    BY Zenon DEF open, close, SetCursor
  <1>2. /\ m_buffer' \in Seq(Byte) /\ Len(m_buffer') < MAX_BUFFER_SIZE
        /\ m_active' => SavedIn(m_buffer', file')
    <2>1. <<>> \in Seq(Byte) /\ Len(<<>>) < MAX_BUFFER_SIZE
      BY EditorAssumption
    <2>2. CASE close
      BY <2>1, <2>2 DEF close
    <2>3. CASE open(None)
      <3>1. m_buffer' = <<>> /\ file' = None
        BY <2>3 DEF open
      <3>2. PICK e \in Seq(Byte) : e = <<>> /\ Len(e) = 0
        BY <2>1, Zenon
      <3>3. Trimmed(e) \in Seq(Byte) /\ Len(Trimmed(e)) \in 0 .. Len(e)
        BY TrimmedBytes
      <3>4. Trimmed(e) = <<>>
        BY <3>2, <3>3
      <3> QED
        BY <2>1, <3>1, <3>2, <3>4 DEF SavedIn
    <2>4. ASSUME NEW b \in File, open(Known(b))
          PROVE  m_buffer' \in Seq(Byte) /\ Len(m_buffer') < MAX_BUFFER_SIZE /\ SavedIn(m_buffer', file')
      <3>1. Known(b) # None /\ Known(b).bytes = b
        BY DEF Known, None
      <3>2. m_buffer' = b /\ file' = Known(b) /\ Len(b) < MAX_BUFFER_SIZE
        BY <2>4, <3>1 DEF open
      <3>3. b \in Seq(Byte)
        BY EditorAssumption DEF Byte
      <3> QED
        BY <3>1, <3>2, <3>3 DEF SavedIn
    <2> QED
      BY <2>2, <2>3, <2>4
  <1>3. Newlines(m_buffer', 0) = 0 /\ LineStart(m_buffer', 0) \in 0 .. 0
    BY NewlinesStep, LineStartFacts
  <1>4. Len(m_buffer') \in Nat
    BY <1>2
  <1>5. Agrees'
    BY <1>1, <1>3, <1>4, AgreesAfter DEF AgreesIn
  <1>6. UnmodifiedIsSaved'
    BY <1>2, SavedCases
  <1>7. TypeOK'
    <2>1. TypeOK /\ 0 \in 0 .. MaxDrift
      BY EditorAssumption DEF EditorInv
    <2> QED
      BY <1>1, <1>2, <2>1, Zenon DEF TypeOK, selection, Byte
  <1>8. m_cursor_row' < m_screen_row' + TERMINAL_HEIGHT - 1
    BY <1>1, EditorAssumption
  <1>9. ~broken' /\ m_mode' # "VISUAL"
    BY <1>1
  <1> QED
    BY <1>5, <1>6, <1>7, <1>8, <1>9, Zenon DEF EditorInv

LEMMA EditorInit == Init => EditorInv
  <1> SUFFICES ASSUME Init PROVE EditorInv
    OBVIOUS
  <1>1. TypeOK
    <2>1. /\ m_buffer \in Seq(Char \cup {NL}) /\ Len(m_buffer) < MAX_BUFFER_SIZE
          /\ m_cursor_pos \in Nat /\ m_cursor_row \in Nat /\ m_cursor_col \in Nat /\ m_screen_row \in Nat
          /\ m_selection_start_row \in Nat /\ m_selection_end_row \in Nat /\ drift \in 0 .. MaxDrift
      BY EditorAssumption DEF Init
    <2> QED
      BY <2>1, Zenon DEF Init, TypeOK
  <1>2. ~broken /\ m_mode # "VISUAL" /\ ~m_active
    BY DEF Init
  <1>3. Newlines(m_buffer, 0) = 0 /\ LineStart(m_buffer, 0) \in 0 .. 0
    BY NewlinesStep, LineStartFacts
  <1>4. Agrees
    BY <1>3 DEF Init, Agrees, m_buffer_size
  <1>5. m_cursor_row < m_screen_row + TERMINAL_HEIGHT - 1
    BY EditorAssumption DEF Init
  <1>6. UnmodifiedIsSaved
    BY <1>2 DEF UnmodifiedIsSaved
  <1> QED
    BY <1>1, <1>4, <1>5, <1>6, <1>2, Zenon DEF EditorInv

LEMMA EditorStep == EditorInv /\ [Next]_vars => EditorInv'
  <1> SUFFICES ASSUME EditorInv, [Next]_vars PROVE EditorInv'
    OBVIOUS
  <1>1. CASE UNCHANGED vars
    <2>1. /\ UNCHANGED <<m_buffer, cursor, m_screen_row, m_mode, m_active, m_modified, file, drift, broken>>
          /\ UNCHANGED <<m_has_selection, m_selection_start_row, m_selection_end_row>>
      BY <1>1 DEF vars, selection
    <2>2. UnmodifiedIsSaved' /\ (Agrees' <=> Agrees)
      BY <2>1, SavedKept, AgreesKept DEF EditorInv
    <2>3. AtEnd' <=> AtEnd
      BY <2>1, AgreesKept
    <2>4. TypeOK' /\ (strayed' <=> strayed)
      BY <2>1 DEF EditorInv, TypeOK, cursor, strayed
    <2>5. m_cursor_row' = m_cursor_row
      BY <2>1 DEF cursor
    <2> QED
      BY <2>1, <2>2, <2>3, <2>4, <2>5 DEF EditorInv
  <1>2. CASE (\E f \in {None} \cup {Known(b) : b \in File} : open(f)) \/ close
    BY <1>2, OpenClose
  <1>3. CASE escape \/ key_insert \/ key_select
    BY <1>3, ModeKeys
  <1>4. CASE key_up \/ key_down
    BY <1>4, RowKeys
  <1>5. CASE \E ch \in Char : type_char(ch)
    BY <1>5, TypeChar
  <1> QED
    BY <1>1, <1>2, <1>3, <1>4, <1>5, Save, CutKey, LeftKey, RightKey, Backspace, TypeNewline,
       DeleteSelection, Zenon DEF Next

LEMMA AlwaysEditorInv == Spec => []EditorInv
  BY EditorInit, EditorStep, PTL DEF Spec

-----------------------------------------------------------------------------
\* Row, column and position say the same and lie inside the buffer, so that no
\* memmove of process_keypress leaves it, unless l on an empty last line or a
\* save that trims the cursor's line let the cursor stray; and even then the
\* row that a backspace takes away is there.
THEOREM CursorAlwaysAgrees == Spec => []CursorAgrees
  <1>1. EditorInv => CursorAgrees
    <2> SUFFICES ASSUME EditorInv PROVE CursorAgrees
      OBVIOUS
    <2>1. PICK b, p, r, L : b = m_buffer /\ p = m_cursor_pos /\ r = m_cursor_row /\ L = m_buffer_size
      OBVIOUS
    <2>2. TypeOK /\ (~strayed => ~broken /\ Agrees) /\ (~broken => Agrees \/ AtEnd)
      BY DEF EditorInv
    <2>3. p \in Nat /\ r \in Nat /\ L \in Nat
      BY <2>1, <2>2, TextFacts DEF TypeOK
    <2>4. PICK q : q = Min({p, L})
      OBVIOUS
    <2>5. q \in Nat /\ q <= p /\ q <= L /\ (p <= L => q = p)
      <3>1. {p, L} \in SUBSET Nat /\ {p, L} # {}
        BY <2>3
      <3>2. q \in {p, L} /\ \A y \in {p, L} : q <= y
        BY <2>4, <3>1, MinFacts
      <3> QED
        BY <2>3, <3>2
    <2>6. ASSUME ~broken PROVE r >= Newlines(b, q)
      <3>1. CASE Agrees
        <4>1. p <= L /\ r = Newlines(b, p)
          BY <2>1, <3>1 DEF Agrees
        <4> QED
          BY <2>3, <2>5, <4>1
      <3>2. CASE AtEnd
        <4>1. r >= Newlines(b, L)
          BY <2>1, <3>2 DEF AtEnd
        <4>2. Newlines(b, q) <= Newlines(b, L) /\ Newlines(b, q) \in Nat /\ Newlines(b, L) \in Nat
          BY <2>3, <2>5, NewlinesGrow, NewlinesStep
        <4> QED
          BY <2>3, <4>1, <4>2
      <3> QED
        BY <2>2, <2>6, <3>1, <3>2
    <2>7. ~broken => m_cursor_row >= Newlines(m_buffer, Min({m_cursor_pos, m_buffer_size}))
      BY <2>1, <2>4, <2>6
    <2> QED
      BY <2>2, <2>7 DEF CursorAgrees, Agrees
  <1> QED
    BY <1>1, AlwaysEditorInv, PTL

\* A text that is not marked as modified is the file's, newlines at the end
\* apart: every key that changes the text marks it, and a save that clears the
\* mark has written the trimmed text.
THEOREM UnmodifiedAlwaysSaved == Spec => []UnmodifiedIsSaved
  <1>1. EditorInv => UnmodifiedIsSaved
    BY DEF EditorInv
  <1> QED
    BY <1>1, AlwaysEditorInv, PTL

-----------------------------------------------------------------------------
(***************************************************************************)
(* Where the bytes are drawn.                                              *)
(***************************************************************************)
\* The function g gives the cells of the positions from s to n, as render does.
IsDrawing(b, s, n, g) ==
    g = [q \in s .. n |-> IF q = s THEN <<LINE_NUMBER_WIDTH + 1, 0>> ELSE AfterByte(g[q - 1], b[q])]

LEMMA DrawingExists ==
    ASSUME NEW b, NEW s \in Nat
    PROVE  \A n \in Nat : \E g : IsDrawing(b, s, s + n, g)
  <1> DEFINE T == {n \in Nat : \E g : IsDrawing(b, s, s + n, g)}
  <1>1. 0 \in T
    <2>1. PICK g : g = [q \in s .. s + 0 |-> <<LINE_NUMBER_WIDTH + 1, 0>>]
      BY Zenon
    <2>2. \A q \in s .. s + 0 : q = s
      OBVIOUS
    <2>3. IsDrawing(b, s, s + 0, g)
      BY <2>1, <2>2 DEF IsDrawing
    <2> QED
      BY <2>3
  <1>2. ASSUME NEW n \in Nat, n \in T PROVE n + 1 \in T
    <2>1. PICK m \in Nat : m = s + n
      OBVIOUS
    <2>2. PICK f : IsDrawing(b, s, m, f)
      BY <1>2, <2>1
    <2>3. PICK g : g = [q \in s .. m + 1 |-> IF q = m + 1 THEN AfterByte(f[m], b[m + 1]) ELSE f[q]]
      BY Zenon
    <2>4. \A q \in s .. m : f[q] = IF q = s THEN <<LINE_NUMBER_WIDTH + 1, 0>>
                                   ELSE AfterByte(f[q - 1], b[q])
      BY <2>2, Zenon DEF IsDrawing
    <2>5. s <= m /\ (\A q \in s .. m : g[q] = f[q]) /\ g[m + 1] = AfterByte(f[m], b[m + 1])
      BY <2>1, <2>3
    <2>6. ASSUME NEW q \in s .. m + 1
          PROVE  g[q] = IF q = s THEN <<LINE_NUMBER_WIDTH + 1, 0>> ELSE AfterByte(g[q - 1], b[q])
      <3>1. CASE q = m + 1
        <4>1. q # s /\ q - 1 = m /\ m \in s .. m
          BY <2>5, <3>1
        <4> QED
          BY <2>5, <3>1, <4>1
      <3>2. CASE q \in s + 1 .. m
        <4>1. q \in s .. m /\ q - 1 \in s .. m /\ q # s
          BY <3>2
        <4> QED
          BY <2>4, <2>5, <4>1
      <3>3. CASE q = s
        <4>1. s \in s .. m
          BY <2>5
        <4> QED
          BY <2>4, <2>5, <3>3, <4>1
      <3> QED
        BY <2>5, <3>1, <3>2, <3>3
    <2>7. g = [q \in s .. m + 1 |-> g[q]]
      BY <2>3
    <2>8. IsDrawing(b, s, m + 1, g)
      BY <2>6, <2>7, Zenon DEF IsDrawing
    <2>9. s + (n + 1) = m + 1 /\ n + 1 \in Nat
      BY <2>1
    <2> QED
      BY <2>8, <2>9
  <1> HIDE DEF T
  <1>3. \A n \in Nat : n \in T
    BY <1>1, <1>2, Induct
  <1> QED
    BY <1>3 DEF T

\* The cell of position q when every line up to it fits the width.
Cell(b, sr, q) == <<LINE_NUMBER_WIDTH + 1 + (q - LineStart(b, q)), Newlines(b, q) - sr>>

\* A byte in a line that fits is not the one at which render wraps.
LEMMA ByteFits ==
    ASSUME TypeOK, NEW q \in Nat, q < m_buffer_size, m_buffer[q + 1] # NL,
           get_line_length(Newlines(m_buffer, q))
               \in 0 .. TERMINAL_WIDTH - LINE_NUMBER_WIDTH - 2 \cup {SIZE_MAX}
    PROVE  LINE_NUMBER_WIDTH + 1 + (q - LineStart(m_buffer, q)) + 1 < TERMINAL_WIDTH
  <1>1. PICK b, L, r : b = m_buffer /\ L = m_buffer_size /\ r = Newlines(m_buffer, q)
    OBVIOUS
  <1>2. b \in Seq(Byte) /\ L = Len(b) /\ L \in Nat /\ r \in Nat /\ q \in 0 .. L - 1
    <2>1. b \in Seq(Byte) /\ L = Len(b) /\ L \in Nat /\ q < L
      BY <1>1, TextFacts
    <2>2. r \in Nat
      BY <1>1, NewlinesStep
    <2> QED
      BY <2>1, <2>2
  <1>3. PICK s \in Nat, e \in Nat : /\ IsRow(b, r, s, e) /\ get_line_length(r) = e - s
                                    /\ get_line_length(r) # SIZE_MAX
    BY <1>1, <1>2, LineLength
  <1>4. e - s <= TERMINAL_WIDTH - LINE_NUMBER_WIDTH - 2
    BY <1>1, <1>3
  <1>5. /\ Newlines(b, s) = r /\ (s = 0 \/ b[s] = NL) /\ s <= e
        /\ e = L \/ b[e + 1] = NL
    BY <1>2, <1>3 DEF IsRow
  <1>6. s <= q /\ LineStart(b, q) = s
    BY <1>1, <1>5, RowStart
  <1>7. \A k \in s + 1 .. q : b[k] # NL
    BY <1>6, LineStartFacts
  <1>8. q + 1 <= e
    <2> SUFFICES ASSUME e <= q PROVE FALSE
      OBVIOUS
    <2>1. e # L /\ b[e + 1] = NL
      BY <1>2, <1>5
    <2>2. e + 1 \in s + 1 .. q \/ e + 1 = q + 1
      BY <1>5, <1>6
    <2> QED
      BY <1>1, <1>7, <2>1, <2>2
  <1>9. LINE_NUMBER_WIDTH + 1 + (q - s) + 1 < TERMINAL_WIDTH
    BY <1>4, <1>6, <1>8, EditorAssumption
  <1> QED
    BY <1>1, <1>6, <1>9

\* The first byte shown is the first of the screen's row, when the cursor is
\* not above it.
LEMMA FirstShown ==
    ASSUME TypeOK, Agrees, m_cursor_row >= m_screen_row
    PROVE  /\ first_shown \in Nat /\ first_shown <= m_cursor_pos
           /\ Newlines(m_buffer, first_shown) = m_screen_row
           /\ LineStart(m_buffer, first_shown) = first_shown
  <1>1. PICK b, L, p, r, sr : /\ b = m_buffer /\ L = m_buffer_size /\ p = m_cursor_pos
                              /\ r = m_cursor_row /\ sr = m_screen_row
    OBVIOUS
  <1>2. L \in Nat /\ p \in Nat /\ p <= L /\ sr \in Nat /\ r >= sr /\ r = Newlines(b, p)
    BY <1>1, TextFacts DEF TypeOK, Agrees
  <1>3. r \in Nat /\ Newlines(b, L) \in Nat /\ r <= Newlines(b, L)
    BY <1>2, NewlinesStep, NewlinesGrow
  <1>4. sr <= Newlines(b, L)
    BY <1>2, <1>3
  <1>5. PICK x : FoundRow(x, b, L, sr)
    BY DEF FoundRow
  <1>6. x \in 0 .. L /\ Newlines(b, x) = sr /\ (x = 0 \/ b[x] = NL) /\ LineStart(b, x) = x
    BY <1>2, <1>4, <1>5, RowFound
  <1> DEFINE S == {0} \cup {k \in 1 .. L : b[k] = NL /\ Newlines(b, k) <= sr}
  <1>7. S \in SUBSET (0 .. L) /\ x \in S
    BY <1>2, <1>6
  <1>8. ASSUME NEW y \in S PROVE x >= y
    <2> SUFFICES ASSUME y > x PROVE FALSE
      BY <1>2, <1>6, <1>7
    <2>1. y \in Nat /\ x \in Nat /\ b[y] = NL /\ Newlines(b, y) <= sr /\ y \in x + 1 .. y
      BY <1>2, <1>6
    <2>2. Newlines(b, x) <= Newlines(b, y) /\ Newlines(b, x) # Newlines(b, y)
      BY <2>1, NewlinesGrow
    <2>3. Newlines(b, y) \in Nat
      BY <2>1, NewlinesStep
    <2> HIDE DEF S
    <2> QED
      BY <1>2, <1>6, <2>1, <2>2, <2>3
  <1> HIDE DEF S
  <1>9. Max(S) = x
    BY <1>2, <1>7, <1>8, MaxIs
  <1>10. first_shown = x
    BY <1>1, <1>9 DEF first_shown, S
  <1>11. x <= p
    <2> SUFFICES ASSUME p < x PROVE FALSE
      BY <1>2, <1>6
    <2>1. x \in Nat /\ b[x] = NL /\ x \in p + 1 .. x /\ p <= x
      BY <1>2, <1>6
    <2>2. Newlines(b, p) <= Newlines(b, x) /\ Newlines(b, p) # Newlines(b, x)
      BY <1>2, <2>1, NewlinesGrow
    <2> QED
      BY <1>2, <1>3, <1>6, <2>2
  <1> QED
    BY <1>1, <1>2, <1>6, <1>10, <1>11

\* render draws the byte at the cursor where its row and column say.
LEMMA DrawnAt ==
    ASSUME TypeOK, Agrees, m_cursor_row >= m_screen_row,
           \A r \in 0 .. m_cursor_row :
              get_line_length(r) \in 0 .. TERMINAL_WIDTH - LINE_NUMBER_WIDTH - 2 \cup {SIZE_MAX}
    PROVE  /\ render(m_cursor_pos) = Cell(m_buffer, m_screen_row, m_cursor_pos)
           /\ LINE_NUMBER_WIDTH + 1 + m_cursor_col < TERMINAL_WIDTH
  <1>1. PICK b, L, p, r, sr, s : /\ b = m_buffer /\ L = m_buffer_size /\ p = m_cursor_pos
                                 /\ r = m_cursor_row /\ sr = m_screen_row /\ s = first_shown
    OBVIOUS
  <1>2. /\ L \in Nat /\ p \in Nat /\ p <= L /\ sr \in Nat /\ r \in Nat /\ r = Newlines(b, p)
        /\ m_cursor_col = p - LineStart(b, p)
    BY <1>1, TextFacts DEF TypeOK, Agrees
  <1>3. s \in Nat /\ s <= p /\ Newlines(b, s) = sr /\ LineStart(b, s) = s
    BY <1>1, FirstShown
  <1>4. PICK g : IsDrawing(b, s, L, g) /\ render(p) = g[p]
    <2> DEFINE g == CHOOSE h : h = [q \in first_shown .. m_buffer_size |->
                                      IF q = first_shown THEN <<LINE_NUMBER_WIDTH + 1, 0>>
                                      ELSE AfterByte(h[q - 1], m_buffer[q])]
    <2>1. render(p) = g[p]
      BY Zenon DEF render
    <2>2. L - s \in Nat /\ s + (L - s) = L
      BY <1>2, <1>3
    <2>3. \E h : IsDrawing(b, s, L, h)
      BY <1>3, <2>2, DrawingExists, Zenon
    <2>4. \E h : h = [q \in first_shown .. m_buffer_size |->
                        IF q = first_shown THEN <<LINE_NUMBER_WIDTH + 1, 0>>
                        ELSE AfterByte(h[q - 1], m_buffer[q])]
      BY <1>1, <2>3, Zenon DEF IsDrawing
    <2> HIDE DEF g
    <2>5. g = [q \in first_shown .. m_buffer_size |->
                 IF q = first_shown THEN <<LINE_NUMBER_WIDTH + 1, 0>>
                 ELSE AfterByte(g[q - 1], m_buffer[q])]
      BY <2>4, Zenon DEF g
    <2>6. IsDrawing(b, s, L, g)
      BY <1>1, <2>5, Zenon DEF IsDrawing
    <2> QED
      BY <2>1, <2>6
  <1>5. \A q \in s .. L : g[q] = IF q = s THEN <<LINE_NUMBER_WIDTH + 1, 0>>
                                 ELSE AfterByte(g[q - 1], b[q])
    BY <1>4, Zenon DEF IsDrawing
  <1>6. LINE_NUMBER_WIDTH \in Nat /\ TERMINAL_WIDTH \in Nat /\ LINE_NUMBER_WIDTH + 1 < TERMINAL_WIDTH
    BY EditorAssumption
  <1> DEFINE Fits(q) == /\ g[q] = Cell(b, sr, q)
                        /\ LINE_NUMBER_WIDTH + 1 + (q - LineStart(b, q)) < TERMINAL_WIDTH
             T == {n \in Nat : s + n <= p => Fits(s + n)}
  <1>7. 0 \in T
    <2>1. s \in s .. L /\ s + 0 = s /\ s - s = 0 /\ sr - sr = 0
      BY <1>2, <1>3
    <2>2. g[s] = <<LINE_NUMBER_WIDTH + 1, 0>>
      BY <1>5, <2>1
    <2>3. Cell(b, sr, s) = <<LINE_NUMBER_WIDTH + 1 + 0, 0>>
      BY <1>3, <2>1 DEF Cell
    <2>4. Fits(s)
      BY <1>3, <1>6, <2>1, <2>2, <2>3
    <2> QED
      BY <2>1, <2>4
  <1>8. ASSUME NEW n \in Nat, n \in T, s + (n + 1) <= p PROVE Fits(s + (n + 1))
    <2>1. PICK q \in Nat : q = s + n
      BY <1>3
    <2>2. s + (n + 1) = q + 1 /\ q < L /\ q + 1 <= p /\ q <= p /\ s <= q /\ q + 1 \in s .. L
      BY <1>2, <1>3, <1>8, <2>1
    <2>3. g[q] = Cell(b, sr, q) /\ LINE_NUMBER_WIDTH + 1 + (q - LineStart(b, q)) < TERMINAL_WIDTH
      BY <1>8, <2>1, <2>2
    <2> HIDE DEF T
    <2>4. g[q + 1] = AfterByte(g[q], b[q + 1])
      <3>1. q + 1 # s /\ (q + 1) - 1 = q
        BY <1>3, <2>2
      <3> QED
        BY <1>5, <2>2, <3>1
    <2>5. PICK c, m, w : c = q - LineStart(b, q) /\ m = Newlines(b, q) /\ w = LINE_NUMBER_WIDTH + 1 + c
      OBVIOUS
    <2>6. LineStart(b, q) \in 0 .. q /\ c \in Nat /\ m \in Nat /\ w \in Nat
      BY <1>6, <2>5, LineStartFacts, NewlinesStep
    <2>7. g[q][1] = w /\ g[q][2] = m - sr
      BY <2>3, <2>5 DEF Cell
    <2>8. CASE b[q + 1] = NL
      <3>1. LineStart(b, q + 1) = q + 1
        <4>1. q + 1 \in Nat /\ q + 1 \in 0 .. q + 1 /\ \A k \in q + 1 + 1 .. q + 1 : b[k] # NL
          OBVIOUS
        <4> QED
          BY <2>8, <4>1, LineStartIs
      <3>2. Newlines(b, q + 1) = m + 1
        BY <2>5, <2>8, NewlinesStep
      <3>3. g[q + 1] = <<LINE_NUMBER_WIDTH + 1, (m - sr) + 1>>
        BY <2>4, <2>7, <2>8 DEF AfterByte
      <3>4. Cell(b, sr, q + 1) = <<LINE_NUMBER_WIDTH + 1 + ((q + 1) - (q + 1)), (m + 1) - sr>>
        BY <3>1, <3>2 DEF Cell
      <3>5. LINE_NUMBER_WIDTH + 1 + ((q + 1) - (q + 1)) = LINE_NUMBER_WIDTH + 1 /\ (m + 1) - sr = (m - sr) + 1
        BY <1>2, <1>6, <2>6
      <3> QED
        BY <1>6, <2>2, <3>1, <3>3, <3>4, <3>5
    <2>9. CASE b[q + 1] # NL
      <3>1. Newlines(b, q + 1) = m /\ LineStart(b, q + 1) = LineStart(b, q)
        BY <2>5, <2>9, NextInLine
      <3>2. m \in 0 .. r
        BY <1>2, <2>2, <2>5, <2>6, NewlinesGrow
      <3>3. w + 1 < TERMINAL_WIDTH
        BY <1>1, <2>2, <2>5, <2>9, <3>2, ByteFits
      <3>4. g[q + 1] = <<w + 1, m - sr>>
        BY <1>6, <2>4, <2>6, <2>7, <2>9, <3>3 DEF AfterByte
      <3>5. LINE_NUMBER_WIDTH + 1 + ((q + 1) - LineStart(b, q)) = w + 1
        BY <1>6, <2>5, <2>6
      <3>6. Cell(b, sr, q + 1) = <<w + 1, m - sr>>
        BY <3>1, <3>5 DEF Cell
      <3> QED
        BY <2>2, <3>1, <3>3, <3>4, <3>5, <3>6
    <2> QED
      BY <2>8, <2>9
  <1>9. \A n \in Nat : n \in T => n + 1 \in T
    BY <1>8
  <1>10. p - s \in Nat /\ s + (p - s) = p
    BY <1>2, <1>3
  <1> HIDE DEF T, Fits
  <1>11. p - s \in T
    BY <1>7, <1>9, <1>10, Induct
  <1>12. Fits(p)
    BY <1>2, <1>10, <1>11 DEF T
  <1> QED
    BY <1>1, <1>2, <1>4, <1>12 DEF Fits

\* The cursor never leaves the window at the bottom; and while no line up to
\* the cursor's fills the width and the row is not above the window, the
\* hardware cursor of update_cursor is at the cell where render draws the byte
\* at m_cursor_pos.
THEOREM CursorAlwaysOnItsByte == Spec => []CursorOnItsByte
  <1>1. EditorInv => CursorOnItsByte
    <2> SUFFICES ASSUME EditorInv PROVE CursorOnItsByte
      OBVIOUS
    <2>1. m_cursor_row < m_screen_row + TERMINAL_HEIGHT - 1 /\ TypeOK
      BY DEF EditorInv
    <2>2. ASSUME ~strayed, m_cursor_row >= m_screen_row,
                 \A r \in 0 .. m_cursor_row :
                    get_line_length(r) \in 0 .. TERMINAL_WIDTH - LINE_NUMBER_WIDTH - 2 \cup {SIZE_MAX}
          PROVE  update_cursor = render(m_cursor_pos)
      <3>1. Agrees
        BY <2>2 DEF EditorInv
      <3>2. PICK c, r, sr, w : /\ c = m_cursor_col /\ r = m_cursor_row /\ sr = m_screen_row
                               /\ w = c + LINE_NUMBER_WIDTH + 1
        OBVIOUS
      <3>3. /\ render(m_cursor_pos) = Cell(m_buffer, sr, m_cursor_pos)
            /\ LINE_NUMBER_WIDTH + 1 + c < TERMINAL_WIDTH
        BY <2>1, <2>2, <3>1, <3>2, DrawnAt
      <3>4. /\ c \in Nat /\ r \in Nat /\ sr \in Nat /\ LINE_NUMBER_WIDTH \in Nat
            /\ TERMINAL_WIDTH \in Nat /\ TERMINAL_HEIGHT \in Nat
        BY <2>1, <3>2, EditorAssumption DEF TypeOK
      <3>5. w \in Nat /\ w = LINE_NUMBER_WIDTH + 1 + c /\ TERMINAL_WIDTH - 1 \in Nat /\ w <= TERMINAL_WIDTH - 1
        BY <3>2, <3>3, <3>4
      <3>6. Min({w, TERMINAL_WIDTH - 1}) = w
        <4>1. {w, TERMINAL_WIDTH - 1} \in SUBSET Nat /\ w \in {w, TERMINAL_WIDTH - 1}
              /\ \A y \in {w, TERMINAL_WIDTH - 1} : w <= y
          BY <3>5
        <4> QED
          BY <4>1, MinIs
      <3>7. r - sr \in 0 .. TERMINAL_HEIGHT - 2
        BY <2>1, <2>2, <3>2, <3>4
      <3>8. update_cursor = <<w, r - sr>>
        BY <3>2, <3>6, <3>7 DEF update_cursor
      <3>9. Cell(m_buffer, sr, m_cursor_pos) = <<w, r - sr>>
        BY <3>1, <3>2, <3>5 DEF Cell, Agrees
      <3> QED
        BY <3>3, <3>8, <3>9
    <2> QED
      BY <2>1, <2>2 DEF CursorOnItsByte
  <1> QED
    BY <1>1, AlwaysEditorInv, PTL
=============================================================================
