--------------------------- MODULE DispatchProofs ---------------------------
(***************************************************************************)
(* Theorems about Dispatch: the checks of process_data are exact, for      *)
(* fields of every size, every limit on names and every buffer.            *)
(***************************************************************************)
EXTENDS Dispatch, TLAPS, FiniteSetTheorems, SequenceTheorems,
        WellFoundedInduction

(* A field of the struct, behind index at, into which n bytes were copied. *)
IsField(mem, at, buf, from, n) ==
    \A k \in 1..FieldSize : mem[at + k] = Copied(buf, from, n)[k]

(* A struct as the checks see it: the two names in their fields, whatever  *)
(* lies behind them, and a NUL at the end.                                 *)
IsStruct(mem, buf) ==
    /\ mem \in Seq(Nat)
    /\ Len(mem) >= 2 * FieldSize + 1
    /\ mem[Len(mem)] = 0
    /\ IsField(mem, 0, buf, Data, username_len(buf))
    /\ IsField(mem, FieldSize, buf, Data + username_len(buf), password_len(buf))

(* The characters of n cells of the buffer, and of n bytes of memory.      *)
CellsPrintable(buf, from, n) == \A k \in 0..n - 1 : Cell(buf, from + k) \in Printable
BytesPrintable(mem, at, n)   == \A k \in 0..n - 1 : mem[at + k] \in Printable

-----------------------------------------------------------------------------
(* If there is a NUL at all there is a first one: strlen ends.             *)
LEMMA FirstNul ==
    ASSUME NEW mem, NEW at \in Nat, NEW b \in Nat, mem[at + b] = 0
    PROVE  \E n \in 0..b : mem[at + n] = 0 /\ \A k \in 0..n - 1 : mem[at + k] # 0
  <1> DEFINE Z == {n \in 0..b : mem[at + n] = 0}
             T == {0..n : n \in Z}
             R == StrictSubsetOrdering(0..b)
  <1>1. IsWellFoundedOn(R, SUBSET (0..b))
    <2>1. IsFiniteSet(0..b)
      BY FS_Interval
    <2> QED
      BY <2>1, FS_StrictSubsetOrderingWellFounded, FS_FiniteSubsetsOfFinite
  <1>2. T \subseteq SUBSET (0..b) /\ T # {}
    <2>1. b \in Z
      OBVIOUS
    <2>2. \A n \in Z : 0..n \subseteq 0..b
      OBVIOUS
    <2> QED
      BY <2>1, <2>2
  <1>3. PICK x \in T : \A y \in T : ~(<<y, x>> \in R)
    <2> HIDE DEF T, R
    <2> QED
      BY <1>1, <1>2, WFMin
  <1>4. PICK n \in Z : x = 0..n
    BY DEF T
  <1>5. ASSUME NEW k \in 0..n - 1 PROVE mem[at + k] # 0
    <2> SUFFICES ASSUME mem[at + k] = 0 PROVE FALSE
      OBVIOUS
    <2>1. k \in Z /\ n \in 0..b /\ k < n
      BY <1>4
    <2>2. 0..k \in T
      BY <2>1
    <2>3. 0..k \subseteq 0..n /\ 0..k # 0..n
      <3>1. n \in 0..n /\ n \notin 0..k
        BY <2>1
      <3> QED
        BY <2>1, <3>1
    <2>4. <<0..k, 0..n>> \in R
      BY <2>1, <2>3 DEF StrictSubsetOrdering
    <2> QED
      BY <1>3, <1>4, <2>2, <2>4
  <1> QED
    BY <1>4, <1>5

(* strlen in memory that ends in a NUL.                                    *)
LEMMA StrlenFound ==
    ASSUME NEW mem \in Seq(Nat), NEW at \in 1..Len(mem), mem[Len(mem)] = 0
    PROVE  /\ strlen(mem, at) \in 0..Len(mem) - at
           /\ mem[at + strlen(mem, at)] = 0
           /\ \A k \in 0..strlen(mem, at) - 1 : mem[at + k] # 0
  <1> DEFINE b == Len(mem) - at
  <1>1. at \in Nat /\ b \in Nat /\ mem[at + b] = 0
    <2>1. Len(mem) \in Nat /\ at + (Len(mem) - at) = Len(mem)
      OBVIOUS
    <2> QED
      BY <2>1
  <1> HIDE DEF b
  <1>2. \E n \in 0..b : mem[at + n] = 0 /\ \A k \in 0..n - 1 : mem[at + k] # 0
    BY <1>1, FirstNul
  <1> QED
    BY <1>2 DEF strlen, b

(* There is only one first NUL.                                            *)
LEMMA StrlenIs ==
    ASSUME NEW mem \in Seq(Nat), NEW at \in 1..Len(mem), mem[Len(mem)] = 0,
           NEW n \in 0..Len(mem) - at, mem[at + n] = 0,
           \A k \in 0..n - 1 : mem[at + k] # 0
    PROVE  strlen(mem, at) = n
  <1> DEFINE l == strlen(mem, at)
  <1>1. /\ l \in 0..Len(mem) - at /\ mem[at + l] = 0
        /\ \A k \in 0..l - 1 : mem[at + k] # 0
    BY StrlenFound
  <1> HIDE DEF l
  <1>2. n \in Nat /\ l \in Nat
    BY <1>1
  <1>3. ~(l < n) /\ ~(n < l)
    BY <1>1, <1>2
  <1> QED
    BY <1>2, <1>3 DEF l

(* A name passes is_ascii and the comparison of its length exactly if its  *)
(* announced characters are printable and a NUL follows them.              *)
LEMMA GoodMeans ==
    ASSUME NEW mem \in Seq(Nat), NEW at \in 1..Len(mem), mem[Len(mem)] = 0,
           NEW n \in 0..Len(mem) - at
    PROVE  GoodString(mem, at, n) <=> BytesPrintable(mem, at, n) /\ mem[at + n] = 0
  <1>1. ASSUME GoodString(mem, at, n)
        PROVE  BytesPrintable(mem, at, n) /\ mem[at + n] = 0
    <2>1. strlen(mem, at) = n /\ is_ascii(mem, at)
      BY <1>1 DEF GoodString
    <2>2. mem[at + strlen(mem, at)] = 0
      BY StrlenFound
    <2> QED
      BY <2>1, <2>2 DEF is_ascii, BytesPrintable
  <1>2. ASSUME BytesPrintable(mem, at, n), mem[at + n] = 0
        PROVE  GoodString(mem, at, n)
    <2>1. \A k \in 0..n - 1 : mem[at + k] # 0
      <3> SUFFICES ASSUME NEW k \in 0..n - 1 PROVE mem[at + k] # 0
        OBVIOUS
      <3>1. mem[at + k] \in 32..126
        BY <1>2 DEF BytesPrintable, Printable
      <3>2. 0 \notin 32..126
        OBVIOUS
      <3> QED
        BY <3>1, <3>2
    <2>2. strlen(mem, at) = n
      BY <1>2, <2>1, StrlenIs
    <2> QED
      BY <1>2, <2>2 DEF GoodString, is_ascii, BytesPrintable
  <1> QED
    BY <1>1, <1>2

-----------------------------------------------------------------------------
(* Every read of the buffer, within it or beyond, gives a natural number.  *)
LEMMA CellType ==
    ASSUME NEW buf \in Seq(Nat), NEW k \in Nat
    PROVE  Cell(buf, k) \in Nat
  <1>1. CASE k < Len(buf)
    <2>1. k + 1 \in 1..Len(buf)
      BY <1>1
    <2> QED
      BY <1>1, <2>1 DEF Cell
  <1>2. CASE ~(k < Len(buf))
    BY <1>2 DEF Cell
  <1> QED
    BY <1>1, <1>2

(* The header of a buffer.                                                 *)
LEMMA HeaderType ==
    ASSUME NEW buf \in Seq(Nat)
    PROVE  opcode(buf) \in Nat /\ username_len(buf) \in Nat /\ password_len(buf) \in Nat
  BY CellType DEF opcode, username_len, password_len

(* What memcpy leaves in a field.                                          *)
LEMMA CopiedField ==
    ASSUME NEW buf \in Seq(Nat), NEW from \in Nat, NEW n \in Nat
    PROVE  LET f == Copied(buf, from, n)
           IN  /\ f \in Seq(Nat) /\ Len(f) = FieldSize
               /\ \A k \in 1..FieldSize :
                     f[k] = IF k <= n THEN Cell(buf, from + k - 1) ELSE 0
  <1> DEFINE f == Copied(buf, from, n)
  <1>1. FieldSize \in Nat
    BY SizesAssumption
  <1>2. \A k \in 1..FieldSize : f[k] = IF k <= n THEN Cell(buf, from + k - 1) ELSE 0
    BY DEF Copied
  <1>3. ASSUME NEW k \in 1..FieldSize PROVE f[k] \in Nat
    <2>1. from + k - 1 \in Nat
      BY <1>1
    <2>2. Cell(buf, from + k - 1) \in Nat
      BY <2>1, CellType
    <2> HIDE DEF f
    <2>3. f[k] = Cell(buf, from + k - 1) \/ f[k] = 0
      BY <1>2
    <2> QED
      BY <2>2, <2>3
  <1>4. f = [k \in 1..FieldSize |-> f[k]]
    BY DEF Copied
  <1>5. f \in [1..FieldSize -> Nat]
    BY <1>3, <1>4
  <1> HIDE DEF f
  <1>6. f \in Seq(Nat) /\ Len(f) = FieldSize
    BY <1>1, <1>5
  <1> QED
    BY <1>2, <1>6 DEF f

(* The bytes of a field that were copied are cells of the buffer; the rest *)
(* of it is zero.                                                          *)
LEMMA FieldPrintable ==
    ASSUME NEW buf \in Seq(Nat), NEW from \in Nat, NEW n \in 0..FieldSize,
           NEW mem, NEW at \in Nat, IsField(mem, at, buf, from, n)
    PROVE  /\ BytesPrintable(mem, at + 1, n) <=> CellsPrintable(buf, from, n)
           /\ n < FieldSize => mem[at + 1 + n] = 0
  <1>1. FieldSize \in Nat /\ n \in Nat
    BY SizesAssumption
  <1>2. \A k \in 1..FieldSize :
           mem[at + k] = IF k <= n THEN Cell(buf, from + k - 1) ELSE 0
    BY <1>1, CopiedField DEF IsField
  <1>3. ASSUME NEW k \in 0..n - 1 PROVE mem[at + 1 + k] = Cell(buf, from + k)
    <2>1. k + 1 \in 1..FieldSize /\ k + 1 <= n
      BY <1>1
    <2> DEFINE h == k + 1
    <2>2. mem[at + h] = Cell(buf, from + h - 1)
      BY <1>2, <2>1
    <2>3. at + h = at + 1 + k /\ from + h - 1 = from + k
      BY <1>1
    <2>4. mem[at + h] = mem[at + 1 + k] /\ Cell(buf, from + h - 1) = Cell(buf, from + k)
      BY <2>3
    <2> HIDE DEF h
    <2> QED
      BY <2>2, <2>4
  <1>4. ASSUME n < FieldSize PROVE mem[at + 1 + n] = 0
    <2>1. n + 1 \in 1..FieldSize /\ ~(n + 1 <= n) /\ at + (n + 1) = at + 1 + n
      BY <1>1, <1>4
    <2>2. mem[at + (n + 1)] = 0
      BY <1>2, <2>1
    <2> QED
      BY <2>1, <2>2
  <1>5. BytesPrintable(mem, at + 1, n) <=> CellsPrintable(buf, from, n)
    BY <1>3 DEF BytesPrintable, CellsPrintable
  <1> QED
    BY <1>4, <1>5

(* The two names of a struct are good exactly if all announced characters  *)
(* are printable and neither of them runs on into what lies behind it.     *)
LEMMA BothGoodMeans ==
    ASSUME NEW buf \in Seq(Nat), NEW mem, IsStruct(mem, buf),
           username_len(buf) <= FieldSize, password_len(buf) <= FieldSize
    PROVE  BothGood(buf, mem) <=>
             /\ CellsPrintable(buf, Data, username_len(buf))
             /\ CellsPrintable(buf, Data + username_len(buf), password_len(buf))
             /\ username_len(buf) = FieldSize => password_len(buf) = 0
             /\ password_len(buf) = FieldSize => mem[2 * FieldSize + 1] = 0
  <1> DEFINE u == username_len(buf)
             p == password_len(buf)
             F == FieldSize
             L == Len(mem)
  <1>1. F \in Nat /\ u \in 0..F /\ p \in 0..F /\ Data \in Nat /\ Data + u \in Nat
    BY SizesAssumption, HeaderType DEF Data
  <1>2. /\ mem \in Seq(Nat) /\ L \in Nat /\ L >= 2 * F + 1 /\ mem[L] = 0
        /\ 1 \in 1..L /\ F + 1 \in 1..L /\ u \in 0..L - 1 /\ p \in 0..L - (F + 1)
    BY <1>1 DEF IsStruct
  <1>3. IsField(mem, 0, buf, Data, u) /\ IsField(mem, F, buf, Data + u, p)
    BY DEF IsStruct
  <1>4. BothGood(buf, mem) <=> GoodString(mem, 1, u) /\ GoodString(mem, F + 1, p)
    BY DEF BothGood
  <1> HIDE DEF u, p, F, L
  <1>5. GoodString(mem, 1, u) <=> BytesPrintable(mem, 1, u) /\ mem[1 + u] = 0
    BY <1>2, GoodMeans DEF L
  <1>6. GoodString(mem, F + 1, p) <=> BytesPrintable(mem, F + 1, p) /\ mem[F + 1 + p] = 0
    BY <1>2, GoodMeans DEF L
  <1>7. /\ BytesPrintable(mem, 1, u) <=> CellsPrintable(buf, Data, u)
        /\ u < F => mem[1 + u] = 0
    <2>1. /\ BytesPrintable(mem, 0 + 1, u) <=> CellsPrintable(buf, Data, u)
          /\ u < F => mem[0 + 1 + u] = 0
      BY <1>1, <1>3, FieldPrintable DEF F
    <2> QED
      BY <2>1
  <1>8. /\ BytesPrintable(mem, F + 1, p) <=> CellsPrintable(buf, Data + u, p)
        /\ p < F => mem[F + 1 + p] = 0
    BY <1>1, <1>3, FieldPrintable DEF F
  <1>9. p = F => F + 1 + p = 2 * F + 1
    BY <1>1
  <1>10. ASSUME BytesPrintable(mem, F + 1, p), mem[F + 1 + p] = 0
         PROVE  mem[1 + u] = 0 <=> (u = F => p = 0)
    <2>1. CASE u < F
      BY <1>1, <1>7, <2>1
    <2>2. CASE u = F /\ p = 0
      <3>1. F + 1 + p = 1 + u
        BY <1>1, <2>2
      <3> QED
        BY <1>10, <2>2, <3>1
    <2>3. CASE u = F /\ p # 0
      <3>1. 0 \in 0..p - 1 /\ F + 1 + 0 = 1 + u
        BY <1>1, <2>3
      <3>2. mem[1 + u] \in 32..126
        BY <1>10, <3>1 DEF BytesPrintable, Printable
      <3>3. 0 \notin 32..126
        OBVIOUS
      <3> QED
        BY <2>3, <3>2, <3>3
    <2> QED
      BY <1>1, <2>1, <2>2, <2>3
  <1>11. mem[F + 1 + p] = 0 <=> (p = F => mem[2 * F + 1] = 0)
    BY <1>1, <1>8, <1>9
  <1> QED
    BY <1>4, <1>5, <1>6, <1>7, <1>8, <1>10, <1>11 DEF u, p, F

-----------------------------------------------------------------------------
(* The structs for two names: both fields, then t, which ends in a NUL.    *)
LEMMA StructWith ==
    ASSUME NEW buf \in Seq(Nat), NEW t \in Seq(Nat), Len(t) >= 1, t[Len(t)] = 0
    PROVE  LET mem == BothNames(buf) \o t
           IN  IsStruct(mem, buf) /\ mem[2 * FieldSize + 1] = t[1]
  <1> DEFINE A == Copied(buf, Data, username_len(buf))
             B == Copied(buf, Data + username_len(buf), password_len(buf))
             F == FieldSize
  <1>1. /\ F \in Nat /\ username_len(buf) \in Nat /\ password_len(buf) \in Nat
        /\ Data \in Nat /\ Data + username_len(buf) \in Nat
    BY SizesAssumption, HeaderType DEF Data
  <1>2. A \in Seq(Nat) /\ Len(A) = F /\ B \in Seq(Nat) /\ Len(B) = F
    BY <1>1, CopiedField
  <1>3. BothNames(buf) = A \o B
    BY DEF BothNames
  <1> HIDE DEF A, B, F
  <1> DEFINE ab  == A \o B
             mem == ab \o t
  <1>4. /\ ab \in Seq(Nat) /\ Len(ab) = 2 * F
        /\ \A k \in 1..F : ab[k] = A[k] /\ ab[F + k] = B[k]
    <2>1. /\ ab \in Seq(Nat) /\ Len(ab) = Len(A) + Len(B)
          /\ \A k \in 1..Len(A) + Len(B) :
                ab[k] = IF k <= Len(A) THEN A[k] ELSE B[k - Len(A)]
      BY <1>2, ConcatProperties
    <2> HIDE DEF ab
    <2>2. ASSUME NEW k \in 1..F PROVE ab[k] = A[k] /\ ab[F + k] = B[k]
      <3> DEFINE h == F + k
      <3>1. k \in 1..F + F /\ h \in 1..F + F /\ k <= F
        BY <1>1
      <3>2. ~(h <= F) /\ h - F = k
        BY <1>1
      <3> HIDE DEF h
      <3>3. ab[h] = B[h - F] /\ ab[k] = A[k]
        BY <1>2, <2>1, <3>1, <3>2
      <3> QED
        BY <3>2, <3>3 DEF h
    <2>3. Len(ab) = 2 * F
      BY <1>1, <1>2, <2>1
    <2> QED
      BY <2>1, <2>2, <2>3
  <1> HIDE DEF ab
  <1>5. /\ mem \in Seq(Nat) /\ Len(mem) = 2 * F + Len(t) /\ Len(t) \in Nat
        /\ \A k \in 1..2 * F : mem[k] = ab[k]
        /\ \A k \in 1..Len(t) : mem[2 * F + k] = t[k]
    <2> DEFINE l == 2 * F
    <2>1. l \in Nat /\ Len(t) \in Nat /\ Len(ab) = l
      BY <1>1, <1>4
    <2>2. /\ mem \in Seq(Nat) /\ Len(mem) = Len(ab) + Len(t)
          /\ \A k \in 1..Len(ab) + Len(t) :
                mem[k] = IF k <= Len(ab) THEN ab[k] ELSE t[k - Len(ab)]
      BY <1>4, ConcatProperties
    <2> HIDE DEF l, mem
    <2>3. \A k \in 1..l : mem[k] = ab[k]
      BY <2>1, <2>2
    <2>4. ASSUME NEW k \in 1..Len(t) PROVE mem[l + k] = t[k]
      <3>1. l + k \in 1..l + Len(t) /\ ~(l + k <= l) /\ l + k - l = k
        BY <2>1
      <3> QED
        BY <2>1, <2>2, <3>1
    <2> QED
      BY <2>1, <2>2, <2>3, <2>4 DEF l
  <1> HIDE DEF mem
  <1>6. mem[Len(mem)] = 0 /\ mem[2 * F + 1] = t[1] /\ Len(mem) >= 2 * F + 1
    <2>1. 1 \in 1..Len(t) /\ Len(t) \in 1..Len(t)
      BY <1>5
    <2>2. mem[2 * F + 1] = t[1] /\ mem[2 * F + Len(t)] = t[Len(t)]
      BY <1>5, <2>1
    <2>3. Len(mem) >= 2 * F + 1
      BY <1>1, <1>5
    <2> QED
      BY <1>5, <2>2, <2>3
  <1>7. \A k \in 1..F : mem[0 + k] = A[k] /\ mem[F + k] = B[k]
    <2> SUFFICES ASSUME NEW k \in 1..F PROVE mem[0 + k] = A[k] /\ mem[F + k] = B[k]
      OBVIOUS
    <2>1. k \in 1..2 * F /\ F + k \in 1..2 * F /\ 0 + k = k
      BY <1>1
    <2> QED
      BY <1>4, <1>5, <2>1
  <1>8. IsField(mem, 0, buf, Data, username_len(buf))
    BY <1>7 DEF IsField, A, F
  <1>9. IsField(mem, F, buf, Data + username_len(buf), password_len(buf))
    BY <1>7 DEF IsField, B, F
  <1>10. IsStruct(mem, buf)
    BY <1>5, <1>6, <1>8, <1>9 DEF IsStruct, F
  <1>11. mem = BothNames(buf) \o t
    BY <1>3 DEF mem, ab
  <1> QED
    BY <1>6, <1>10, <1>11 DEF F

(* The struct of a login.                                                  *)
LEMMA LoginStruct ==
    ASSUME NEW buf \in Seq(Nat)
    PROVE  LET mem == BothNames(buf) \o <<0>>
           IN  IsStruct(mem, buf) /\ mem[2 * FieldSize + 1] = 0
  <1> DEFINE t == <<0>>
  <1>1. t \in Seq(Nat) /\ Len(t) = 1 /\ t[1] = 0
    OBVIOUS
  <1> HIDE DEF t
  <1>2. /\ IsStruct(BothNames(buf) \o t, buf)
        /\ (BothNames(buf) \o t)[2 * FieldSize + 1] = t[1]
    <2>1. Len(t) >= 1 /\ t[Len(t)] = 0
      BY <1>1
    <2> QED
      BY <1>1, <2>1, StructWith
  <1> QED
    BY <1>1, <1>2 DEF t

(* The struct of a link to be added: behind the names lies the weight.     *)
LEMMA LinkStruct ==
    ASSUME NEW buf \in Seq(Nat)
    PROVE  LET mem == BothNames(buf) \o Weight(buf) \o <<0>>
           IN  IsStruct(mem, buf) /\ mem[2 * FieldSize + 1] = Weight(buf)[1]
  <1> DEFINE w == Weight(buf)
             t == w \o <<0>>
  <1>1. w \in Seq(Nat) /\ Len(w) = 2
    <2> DEFINE at == Data + username_len(buf) + password_len(buf)
    <2>1. at \in Nat /\ at + 1 \in Nat
      BY HeaderType DEF Data
    <2>2. Cell(buf, at) \in Nat /\ Cell(buf, at + 1) \in Nat
      BY <2>1, CellType
    <2> HIDE DEF at
    <2>3. <<Cell(buf, at + 1), Cell(buf, at)>> \in Seq(Nat)
      BY <2>2
    <2>4. w = <<Cell(buf, at + 1), Cell(buf, at)>>
      BY DEF Weight, at
    <2> QED
      BY <2>3, <2>4
  <1> HIDE DEF w
  <1>2. t \in Seq(Nat) /\ Len(t) = 3 /\ t[1] = w[1] /\ t[3] = 0
    <2>1. <<0>> \in Seq(Nat) /\ Len(<<0>>) = 1 /\ <<0>>[1] = 0
      OBVIOUS
    <2> DEFINE z == <<0>>
    <2>2. z \in Seq(Nat) /\ Len(z) = 1 /\ z[1] = 0 /\ t = w \o z
      BY <2>1
    <2> HIDE DEF t, z
    <2>3. /\ t \in Seq(Nat) /\ Len(t) = Len(w) + Len(z)
          /\ \A k \in 1..Len(w) + Len(z) :
                t[k] = IF k <= Len(w) THEN w[k] ELSE z[k - Len(w)]
      BY <1>1, <2>2, ConcatProperties
    <2>4. t[1] = w[1] /\ t[3] = z[3 - 2]
      BY <1>1, <2>2, <2>3
    <2> QED
      BY <1>1, <2>2, <2>3, <2>4
  <1>3. BothNames(buf) \in Seq(Nat)
    <2>1. /\ username_len(buf) \in Nat /\ password_len(buf) \in Nat
          /\ Data \in Nat /\ Data + username_len(buf) \in Nat
      BY HeaderType DEF Data
    <2>2. /\ Copied(buf, Data, username_len(buf)) \in Seq(Nat)
          /\ Copied(buf, Data + username_len(buf), password_len(buf)) \in Seq(Nat)
      BY <2>1, CopiedField
    <2> QED
      BY <2>2 DEF BothNames
  <1>4. BothNames(buf) \o w \o <<0>> = BothNames(buf) \o t
    <2>1. <<0>> \in Seq(Nat)
      OBVIOUS
    <2> QED
      BY <1>1, <1>3, <2>1, ConcatAssociative
  <1> HIDE DEF t
  <1>5. /\ IsStruct(BothNames(buf) \o t, buf)
        /\ (BothNames(buf) \o t)[2 * FieldSize + 1] = t[1]
    <2>1. Len(t) >= 1 /\ t[Len(t)] = 0
      BY <1>2
    <2> QED
      BY <1>2, <2>1, StructWith
  <1> QED
    BY <1>2, <1>4, <1>5 DEF w

-----------------------------------------------------------------------------
(* All announced characters of two names, one name after the other.        *)
LEMMA TwoNames ==
    ASSUME NEW buf \in Seq(Nat), NEW u \in Nat, NEW p \in Nat
    PROVE  (\A k \in 1..u + p : Cell(buf, Data + k - 1) \in Printable)
             <=> CellsPrintable(buf, Data, u) /\ CellsPrintable(buf, Data + u, p)
  <1>1. ASSUME \A k \in 1..u + p : Cell(buf, Data + k - 1) \in Printable
        PROVE  CellsPrintable(buf, Data, u) /\ CellsPrintable(buf, Data + u, p)
    <2>1. ASSUME NEW k \in 0..u - 1 PROVE Cell(buf, Data + k) \in Printable
      <3>1. k + 1 \in 1..u + p /\ Data + (k + 1) - 1 = Data + k
        BY DEF Data
      <3> QED
        BY <1>1, <3>1
    <2>2. ASSUME NEW k \in 0..p - 1 PROVE Cell(buf, Data + u + k) \in Printable
      <3>1. u + k + 1 \in 1..u + p /\ Data + (u + k + 1) - 1 = Data + u + k
        BY DEF Data
      <3> QED
        BY <1>1, <3>1
    <2> QED
      BY <2>1, <2>2 DEF CellsPrintable
  <1>2. ASSUME CellsPrintable(buf, Data, u), CellsPrintable(buf, Data + u, p),
               NEW k \in 1..u + p
        PROVE  Cell(buf, Data + k - 1) \in Printable
    <2>1. CASE k <= u
      <3>1. k - 1 \in 0..u - 1 /\ Data + (k - 1) = Data + k - 1
        BY <2>1 DEF Data
      <3>2. Cell(buf, Data + (k - 1)) \in Printable
        BY <1>2, <3>1 DEF CellsPrintable
      <3> QED
        BY <3>1, <3>2
    <2>2. CASE ~(k <= u)
      <3>1. k - u - 1 \in 0..p - 1 /\ Data + u + (k - u - 1) = Data + k - 1
        BY <2>2 DEF Data
      <3>2. Cell(buf, Data + u + (k - u - 1)) \in Printable
        BY <1>2, <3>1 DEF CellsPrintable
      <3> QED
        BY <3>1, <3>2
    <2> QED
      BY <2>1, <2>2
  <1> QED
    BY <1>1, <1>2

(* What WellFormed asks of a request with two names and of one with one.   *)
LEMMA WellFormedMeans ==
    ASSUME NEW buf \in Seq(Nat)
    PROVE  /\ opcode(buf) \notin UserDelOpcodes =>
                (WellFormed(buf) <=>
                   /\ LengthsFit(buf)
                   /\ CellsPrintable(buf, Data, username_len(buf))
                   /\ CellsPrintable(buf, Data + username_len(buf), password_len(buf)))
           /\ opcode(buf) \in UserDelOpcodes =>
                (WellFormed(buf) <=>
                   /\ username_len(buf) <= MAX_NAME_SIZE
                   /\ CellsPrintable(buf, Data, username_len(buf)))
  <1> DEFINE u == username_len(buf)
             p == password_len(buf)
             n == Names(buf)
  <1>1. u \in Nat /\ p \in Nat
    BY HeaderType
  <1>2. ASSUME opcode(buf) \notin UserDelOpcodes
        PROVE  WellFormed(buf) <=>
                   /\ LengthsFit(buf)
                   /\ CellsPrintable(buf, Data, u)
                   /\ CellsPrintable(buf, Data + u, p)
    <2>1. n = <<u, p>>
      BY <1>2 DEF Names
    <2>2. Len(n) = 2 /\ DOMAIN n = {1, 2} /\ n[1] = u /\ n[2] = p
      BY <2>1
    <2> HIDE DEF n
    <2>3. (\A x \in DOMAIN n : n[x] <= MAX_NAME_SIZE) <=> LengthsFit(buf)
      BY <2>2 DEF LengthsFit
    <2>4. (IF Len(n) = 1 THEN n[1] ELSE n[1] + n[2]) = u + p
      BY <2>2
    <2>5. WellFormed(buf) <=>
             /\ \A x \in DOMAIN n : n[x] <= MAX_NAME_SIZE
             /\ \A k \in 1..u + p : Cell(buf, Data + k - 1) \in Printable
      BY <2>4 DEF WellFormed, n
    <2> HIDE DEF u, p
    <2>6. (\A k \in 1..u + p : Cell(buf, Data + k - 1) \in Printable)
             <=> CellsPrintable(buf, Data, u) /\ CellsPrintable(buf, Data + u, p)
      BY <1>1, TwoNames
    <2> QED
      BY <2>3, <2>5, <2>6
  <1>3. ASSUME opcode(buf) \in UserDelOpcodes
        PROVE  WellFormed(buf) <=> u <= MAX_NAME_SIZE /\ CellsPrintable(buf, Data, u)
    <2>1. n = <<u>>
      BY <1>3 DEF Names
    <2>2. Len(n) = 1 /\ DOMAIN n = {1} /\ n[1] = u
      BY <2>1
    <2> HIDE DEF n
    <2>3. (\A x \in DOMAIN n : n[x] <= MAX_NAME_SIZE) <=> u <= MAX_NAME_SIZE
      BY <2>2
    <2>4. (IF Len(n) = 1 THEN n[1] ELSE n[1] + n[2]) = u
      BY <2>2
    <2>5. WellFormed(buf) <=>
             /\ \A x \in DOMAIN n : n[x] <= MAX_NAME_SIZE
             /\ \A k \in 1..u : Cell(buf, Data + k - 1) \in Printable
      BY <2>4 DEF WellFormed, n
    <2> HIDE DEF u, p
    <2>6. (\A k \in 1..u + 0 : Cell(buf, Data + k - 1) \in Printable)
             <=> CellsPrintable(buf, Data, u) /\ CellsPrintable(buf, Data + u, 0)
      BY <1>1, TwoNames
    <2>7. u + 0 = u /\ CellsPrintable(buf, Data + u, 0)
      BY <1>1 DEF CellsPrintable
    <2> QED
      BY <2>3, <2>5, <2>6, <2>7
  <1> QED
    BY <1>2, <1>3

-----------------------------------------------------------------------------
(* Which lengths the two checks of a name leave room for.                  *)
LEMMA RoomMeans ==
    ASSUME NEW buf \in Seq(Nat)
    PROVE  /\ opcode(buf) \in UserDelOpcodes => RoomForNul(buf)
           /\ opcode(buf) \in LoginOpcodes =>
                (RoomForNul(buf)
                   <=> (username_len(buf) = FieldSize => password_len(buf) = 0))
           /\ opcode(buf) \in LinkAddOpcodes =>
                (RoomForNul(buf)
                   <=> /\ username_len(buf) = FieldSize => password_len(buf) = 0
                       /\ password_len(buf) = FieldSize => Weight(buf)[1] = 0)
  <1> DEFINE n == Names(buf)
  <1>1. /\ opcode(buf) \in UserDelOpcodes => Len(n) = 1
        /\ opcode(buf) \notin UserDelOpcodes => Len(n) = 2
    BY DEF Names
  <1> HIDE DEF n
  <1>2. RoomForNul(buf) <=>
           /\ Len(n) = 2 /\ username_len(buf) = FieldSize => password_len(buf) = 0
           /\ opcode(buf) \in LinkAddOpcodes /\ password_len(buf) = FieldSize
                => Weight(buf)[1] = 0
    BY DEF RoomForNul, n
  <1>3. /\ opcode(buf) \in UserDelOpcodes => opcode(buf) \notin LinkAddOpcodes
        /\ opcode(buf) \in LoginOpcodes =>
             opcode(buf) \notin LinkAddOpcodes /\ opcode(buf) \notin UserDelOpcodes
        /\ opcode(buf) \in LinkAddOpcodes => opcode(buf) \notin UserDelOpcodes
    BY DEF LoginOpcodes, UserDelOpcodes, LinkAddOpcodes
  <1> QED
    BY <1>1, <1>2, <1>3

(* validate_type1_command and validate_type3_command.                      *)
LEMMA TwoNamesExact ==
    ASSUME NEW buf \in Seq(Nat)
    PROVE  /\ ValidLogin(buf) <=>
                /\ LengthsFit(buf)
                /\ CellsPrintable(buf, Data, username_len(buf))
                /\ CellsPrintable(buf, Data + username_len(buf), password_len(buf))
                /\ username_len(buf) = FieldSize => password_len(buf) = 0
           /\ ValidLinkAdd(buf) <=>
                /\ LengthsFit(buf)
                /\ CellsPrintable(buf, Data, username_len(buf))
                /\ CellsPrintable(buf, Data + username_len(buf), password_len(buf))
                /\ username_len(buf) = FieldSize => password_len(buf) = 0
                /\ password_len(buf) = FieldSize => Weight(buf)[1] = 0
  <1>1. LengthsFit(buf) =>
           username_len(buf) <= FieldSize /\ password_len(buf) <= FieldSize
    BY SizesAssumption, HeaderType DEF LengthsFit
  <1> DEFINE login == BothNames(buf) \o <<0>>
             link  == BothNames(buf) \o Weight(buf) \o <<0>>
  <1>2. IsStruct(login, buf) /\ login[2 * FieldSize + 1] = 0
    BY LoginStruct
  <1>3. IsStruct(link, buf) /\ link[2 * FieldSize + 1] = Weight(buf)[1]
    BY LinkStruct
  <1>4. /\ ValidLogin(buf) <=> LengthsFit(buf) /\ BothGood(buf, login)
        /\ ValidLinkAdd(buf) <=> LengthsFit(buf) /\ BothGood(buf, link)
    BY DEF ValidLogin, ValidLinkAdd
  <1> HIDE DEF login, link
  <1>5. LengthsFit(buf) =>
          (BothGood(buf, login) <=>
             /\ CellsPrintable(buf, Data, username_len(buf))
             /\ CellsPrintable(buf, Data + username_len(buf), password_len(buf))
             /\ username_len(buf) = FieldSize => password_len(buf) = 0)
    <2>1. LengthsFit(buf) =>
            (BothGood(buf, login) <=>
               /\ CellsPrintable(buf, Data, username_len(buf))
               /\ CellsPrintable(buf, Data + username_len(buf), password_len(buf))
               /\ username_len(buf) = FieldSize => password_len(buf) = 0
               /\ password_len(buf) = FieldSize => login[2 * FieldSize + 1] = 0)
      BY <1>1, <1>2, BothGoodMeans
    <2> QED
      BY <1>2, <2>1
  <1>6. LengthsFit(buf) =>
          (BothGood(buf, link) <=>
             /\ CellsPrintable(buf, Data, username_len(buf))
             /\ CellsPrintable(buf, Data + username_len(buf), password_len(buf))
             /\ username_len(buf) = FieldSize => password_len(buf) = 0
             /\ password_len(buf) = FieldSize => Weight(buf)[1] = 0)
    <2>1. LengthsFit(buf) =>
            (BothGood(buf, link) <=>
               /\ CellsPrintable(buf, Data, username_len(buf))
               /\ CellsPrintable(buf, Data + username_len(buf), password_len(buf))
               /\ username_len(buf) = FieldSize => password_len(buf) = 0
               /\ password_len(buf) = FieldSize => link[2 * FieldSize + 1] = 0)
      BY <1>1, <1>3, BothGoodMeans
    <2> QED
      BY <1>3, <2>1
  <1> QED
    BY <1>4, <1>5, <1>6

(* validate_type2_command.                                                 *)
LEMMA OneNameExact ==
    ASSUME NEW buf \in Seq(Nat)
    PROVE  ValidUserDel(buf) <=>
             /\ username_len(buf) <= MAX_NAME_SIZE
             /\ CellsPrintable(buf, Data, username_len(buf))
  <1> DEFINE u == username_len(buf)
             F == FieldSize
             A == Copied(buf, Data, u)
             mem == A \o <<0>>
  <1> SUFFICES ASSUME u <= MAX_NAME_SIZE
               PROVE  GoodString(mem, 1, u) <=> CellsPrintable(buf, Data, u)
    BY DEF ValidUserDel
  <1>1. F \in Nat /\ u \in 0..F /\ Data \in Nat /\ 0 \in Nat
    BY SizesAssumption, HeaderType DEF Data
  <1>2. A \in Seq(Nat) /\ Len(A) = F
    <2> HIDE DEF u
    <2>1. u \in Nat
      BY <1>1
    <2> QED
      BY <1>1, <2>1, CopiedField
  <1>3. /\ mem \in Seq(Nat) /\ Len(mem) = F + 1
        /\ mem[Len(mem)] = 0 /\ \A k \in 1..F : mem[k] = A[k]
    <2> DEFINE z == <<0>>
    <2>1. z \in Seq(Nat) /\ Len(z) = 1 /\ z[1] = 0 /\ mem = A \o z
      OBVIOUS
    <2> HIDE DEF mem, z, A, F
    <2>2. /\ mem \in Seq(Nat) /\ Len(mem) = Len(A) + Len(z)
          /\ \A k \in 1..Len(A) + Len(z) :
                mem[k] = IF k <= Len(A) THEN A[k] ELSE z[k - Len(A)]
      BY <1>2, <2>1, ConcatProperties
    <2>3. \A k \in 1..F : mem[k] = A[k]
      BY <1>1, <1>2, <2>1, <2>2
    <2>4. F + 1 \in 1..F + 1 /\ ~(F + 1 <= F) /\ F + 1 - F = 1
      BY <1>1
    <2>5. mem[F + 1] = z[1]
      BY <1>2, <2>1, <2>2, <2>4
    <2> QED
      BY <1>2, <2>1, <2>2, <2>3, <2>5
  <1>4. IsField(mem, 0, buf, Data, u)
    <2> HIDE DEF mem
    <2>1. \A k \in 1..F : 0 + k = k
      OBVIOUS
    <2> QED
      BY <1>3, <2>1 DEF IsField
  <1> HIDE DEF mem, u, F, A
  <1>5. /\ BytesPrintable(mem, 0 + 1, u) <=> CellsPrintable(buf, Data, u)
        /\ u < F => mem[0 + 1 + u] = 0
    BY <1>1, <1>4, FieldPrintable DEF F
  <1>6. GoodString(mem, 1, u) <=> BytesPrintable(mem, 1, u) /\ mem[1 + u] = 0
    <2>1. 1 \in 1..Len(mem) /\ u \in 0..Len(mem) - 1
      BY <1>1, <1>3
    <2> QED
      BY <1>3, <2>1, GoodMeans
  <1>7. mem[1 + u] = 0
    <2>1. CASE u < F
      BY <1>5, <2>1
    <2>2. CASE u = F
      <3>1. 1 + u = Len(mem)
        BY <1>1, <1>3, <2>2
      <3> QED
        BY <1>3, <3>1
    <2> QED
      BY <1>1, <2>1, <2>2
  <1> QED
    BY <1>5, <1>6, <1>7

(* process_data, whose checks are over when a name is accepted: whatever   *)
(* the buffer holds and however short it is, it passes the request on      *)
(* exactly if its opcode is one that the server knows, its lengths are     *)
(* allowed, every announced character is printable, and each name has its  *)
(* NUL where strlen looks for it.                                          *)
THEOREM ChecksAreExact == \A buf \in Seq(Nat) : ExactFor(buf)
  <1> SUFFICES ASSUME NEW buf \in Seq(Nat) PROVE ExactFor(buf)
    OBVIOUS
  <1>1. CASE opcode(buf) \in LoginOpcodes
    <2>1. opcode(buf) \notin UserDelOpcodes /\ opcode(buf) \notin LinkAddOpcodes
      BY <1>1 DEF LoginOpcodes, UserDelOpcodes, LinkAddOpcodes
    <2>2. process_data(buf) = "valid" <=> ValidLogin(buf)
      BY <1>1, <2>1 DEF process_data
    <2> QED
      BY <1>1, <2>1, <2>2, TwoNamesExact, WellFormedMeans, RoomMeans DEF ExactFor
  <1>2. CASE opcode(buf) \in UserDelOpcodes
    <2>1. opcode(buf) \notin LoginOpcodes /\ opcode(buf) \notin LinkAddOpcodes
      BY <1>2 DEF LoginOpcodes, UserDelOpcodes, LinkAddOpcodes
    <2>2. process_data(buf) = "valid" <=> ValidUserDel(buf)
      BY <1>2, <2>1 DEF process_data
    <2> QED
      BY <1>2, <2>1, <2>2, OneNameExact, WellFormedMeans, RoomMeans DEF ExactFor
  <1>3. CASE opcode(buf) \in LinkAddOpcodes
    <2>1. opcode(buf) \notin LoginOpcodes /\ opcode(buf) \notin UserDelOpcodes
      BY <1>3 DEF LoginOpcodes, UserDelOpcodes, LinkAddOpcodes
    <2>2. process_data(buf) = "valid" <=> ValidLinkAdd(buf)
      BY <1>3, <2>1 DEF process_data
    <2> QED
      BY <1>3, <2>1, <2>2, TwoNamesExact, WellFormedMeans, RoomMeans DEF ExactFor
  <1>4. CASE opcode(buf) \notin LoginOpcodes \cup UserDelOpcodes \cup LinkAddOpcodes
    <2>1. process_data(buf) = "ignored"
      BY <1>4 DEF process_data
    <2> QED
      BY <1>4, <2>1 DEF ExactFor
  <1> QED
    BY <1>1, <1>2, <1>3, <1>4
=============================================================================
