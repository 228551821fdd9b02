--------------------------- MODULE ProgramsProofs ---------------------------
(***************************************************************************)
(* Theorems about two of the programs of MCPrograms: merge_sort is correct *)
(* and stable on arrays of any length and any ints, and the request checks *)
(* are exact in both versions of the server.                               *)
(***************************************************************************)
EXTENDS MCPrograms, TLAPS, FiniteSetTheorems, SequenceTheorems

Frame == [start : Index, end : Index, at : {"test", "right", "copy", "merge"}]

(* Where a call splits its segment, and the half that it has given to the  *)
(* call it waits for.                                                      *)
Mid(f)  == f.start + (f.end - f.start) \div 2
From(f) == IF f.at = "right" THEN f.start ELSE Mid(f) + 1
To(f)   == IF f.at = "right" THEN Mid(f) ELSE f.end

(* The stack: each call waits for the one above it to sort a half, and all *)
(* calls above that stay within that half.                                 *)
Stack(cs) ==
    /\ cs \in Seq(Frame)
    /\ \A c \in 1..Len(cs) : cs[c].start <= cs[c].end
    /\ \A c \in 1..Len(cs) : cs[c].at # "test" => cs[c].start < cs[c].end
    /\ \A c \in 2..Len(cs) : cs[c].at \in {"right", "copy"}
    /\ \A c \in 2..Len(cs) : /\ cs[c - 1].start = From(cs[c])
                             /\ cs[c - 1].end = To(cs[c])
    /\ \A c \in 2..Len(cs), d \in 1..Len(cs) :
          d < c => From(cs[c]) <= cs[d].start /\ cs[d].end <= To(cs[c])
    /\ cs # <<>> => cs[Len(cs)].start = 0 /\ cs[Len(cs)].end = N - 1

(* A segment of the array v that no merge has reached yet, one that is in  *)
(* order, and one that is sorted: in order and made of its own elements.   *)
Fresh(v, a, b)   == \A x \in a..b : v[x].from = x
Ordered(v, a, b) == \A x, y \in a..b : x < y => Before(v[x], v[y])
Done(v, a, b) ==
    /\ Ordered(v, a, b)
    /\ \A x \in a..b : v[x].from \in a..b
    /\ \A n \in a..b : \E x \in a..b : v[x].from = n

(* What the calls know of their halves.                                    *)
Segments(v, cs) ==
    \A c \in 1..Len(cs) :
       /\ cs[c].at = "test" => Fresh(v, cs[c].start, cs[c].end)
       /\ cs[c].at = "right" =>
             /\ Fresh(v, Mid(cs[c]) + 1, cs[c].end)
             /\ c = 1 => Done(v, cs[c].start, Mid(cs[c]))
       /\ cs[c].at = "copy" =>
             /\ Done(v, cs[c].start, Mid(cs[c]))
             /\ c = 1 => Done(v, Mid(cs[c]) + 1, cs[c].end)

(* The copied halves L of s..m and R of m + 1..e: sorted.                  *)
Halves(L, R, s, m, e) ==
    /\ Len(L) = m - s + 1 /\ Len(R) = e - m
    /\ Ordered(L, 1, Len(L)) /\ Ordered(R, 1, Len(R))
    /\ \A x \in 1..Len(L) : L[x].from \in s..m
    /\ \A x \in 1..Len(R) : R[x].from \in m + 1..e
    /\ \A n \in s..m : \E x \in 1..Len(L) : L[x].from = n
    /\ \A n \in m + 1..e : \E x \in 1..Len(R) : R[x].from = n

(* What a merge has written, when it has taken p elements of L and q of R: *)
(* it is in order, comes before all that waits, and is what was taken.     *)
Written(v, s, e, L, R, p, q, h) ==
    /\ h = s + p + q
    /\ Ordered(v, s, h - 1)
    /\ \A x \in s..h - 1, y \in p + 1..Len(L) : Before(v[x], L[y])
    /\ \A x \in s..h - 1, y \in q + 1..Len(R) : Before(v[x], R[y])
    /\ \A x \in s..h - 1 : v[x].from \in s..e
    /\ \A x \in 1..p : \E y \in s..h - 1 : v[y].from = L[x].from
    /\ \A x \in 1..q : \E y \in s..h - 1 : v[y].from = R[x].from

(* The inductive invariant.                                                *)
SortInv ==
    /\ TypeOK
    /\ Stack(calls)
    /\ Segments(values, calls)
    /\ Merging => /\ Halves(left, right, Top.start, Mid(Top), Top.end)
                  /\ Written(values, Top.start, Top.end, left, right, i, j, k)
    /\ calls = <<>> => Done(values, 0, N - 1)

-----------------------------------------------------------------------------
(* A segment of two or more is split into two that are not empty.          *)
LEMMA MidWithin ==
    ASSUME NEW f \in Frame
    PROVE  /\ f.start \in Int /\ f.end \in Int /\ Mid(f) \in Int
           /\ 0 <= f.start /\ f.end <= N - 1
           /\ f.start < f.end => f.start <= Mid(f) /\ Mid(f) < f.end
  <1>1. f.start \in 0..N - 1 /\ f.end \in 0..N - 1 /\ N \in Nat
    BY NAssumption DEF Frame, Index
  <1> QED
    BY <1>1 DEF Mid

(* What is on top of the stack after a call and after a return.            *)
LEMMA PushedFrames ==
    ASSUME NEW cs \in Seq(Frame), cs # <<>>, NEW g \in Frame, NEW f \in Frame
    PROVE  LET ds == <<g, f>> \o Tail(cs)
           IN  /\ ds \in Seq(Frame) /\ Len(ds) = Len(cs) + 1
               /\ Len(cs) \in Nat /\ Len(cs) >= 1
               /\ ds # <<>> /\ ds[1] = g /\ ds[2] = f
               /\ \A c \in 3..Len(cs) + 1 : ds[c] = cs[c - 1] /\ c - 1 \in 2..Len(cs)
  <1> DEFINE ds == <<g, f>> \o Tail(cs)
  <1>1. /\ Tail(cs) \in Seq(Frame) /\ Len(Tail(cs)) = Len(cs) - 1
        /\ Len(cs) \in Nat /\ Len(cs) >= 1
        /\ \A c \in 1..Len(cs) - 1 : Tail(cs)[c] = cs[c + 1]
    OBVIOUS
  <1>2. <<g, f>> \in Seq(Frame) /\ Len(<<g, f>>) = 2
    OBVIOUS
  <1>3. ds \in Seq(Frame) /\ Len(ds) = Len(cs) + 1
    BY <1>1, <1>2
  <1>4. ds[1] = g /\ ds[2] = f
    BY <1>1, <1>2
  <1>5. ASSUME NEW c \in 3..Len(cs) + 1
        PROVE  ds[c] = cs[c - 1] /\ c - 1 \in 2..Len(cs)
    <2>1. c - 2 \in 1..Len(cs) - 1 /\ c - 1 \in 2..Len(cs) /\ c - 2 + 1 = c - 1
      BY <1>1
    <2>2. ds[c] = Tail(cs)[c - 2]
      BY <1>1, <1>2
    <2>3. Tail(cs)[c - 2] = cs[c - 2 + 1]
      BY <1>1, <2>1
    <2> QED
      BY <2>1, <2>2, <2>3
  <1>6. ds # <<>>
    BY <1>1, <1>3
  <1> QED
    BY <1>1, <1>3, <1>4, <1>5, <1>6

(* What is left of the stack.                                              *)
LEMMA PoppedFrames ==
    ASSUME NEW cs \in Seq(Frame), cs # <<>>
    PROVE  LET ds == Tail(cs)
           IN  /\ ds \in Seq(Frame) /\ Len(ds) = Len(cs) - 1
               /\ Len(cs) \in Nat /\ Len(cs) >= 1
               /\ ds # <<>> => Len(ds) >= 1
               /\ ds = <<>> => Len(cs) = 1
               /\ \A c \in 1..Len(cs) - 1 : ds[c] = cs[c + 1] /\ c + 1 \in 2..Len(cs)
  <1>1. /\ Tail(cs) \in Seq(Frame) /\ Len(Tail(cs)) = Len(cs) - 1
        /\ Len(cs) \in Nat /\ Len(cs) >= 1
        /\ \A c \in 1..Len(cs) - 1 : Tail(cs)[c] = cs[c + 1]
    OBVIOUS
  <1>2. \A c \in 1..Len(cs) - 1 : c + 1 \in 2..Len(cs)
    BY <1>1
  <1>3. Tail(cs) # <<>> => Len(Tail(cs)) >= 1
    BY <1>1
  <1>4. Tail(cs) = <<>> => Len(cs) = 1
    <2> DEFINE t == Tail(cs)
    <2>1. Len(t) = Len(cs) - 1 /\ Len(cs) \in Nat
      BY <1>1
    <2> HIDE DEF t
    <2>2. t = <<>> => Len(t) = 0
      OBVIOUS
    <2>3. t = <<>> => Len(cs) = 1
      BY <2>1, <2>2
    <2> QED
      BY <2>3 DEF t
  <1> QED
    BY <1>1, <1>2, <1>3, <1>4

(* A call that gives one of its halves to another keeps the stack.         *)
LEMMA PushStack ==
    ASSUME NEW cs, Stack(cs), cs # <<>>, cs[1].start < cs[1].end,
           NEW at \in {"right", "copy"}, NEW f, f = [cs[1] EXCEPT !.at = at],
           NEW g, g = Call(From(f), To(f)),
           NEW ds, ds = <<g, f>> \o Tail(cs)
    PROVE  Stack(ds) /\ f \in Frame /\ g \in Frame
  <1>1. /\ cs \in Seq(Frame) /\ cs[1] \in Frame /\ Len(cs) \in Nat /\ Len(cs) >= 1
        /\ 1 \in 1..Len(cs)
    BY DEF Stack
  <1>2. /\ f \in Frame /\ f.start = cs[1].start /\ f.end = cs[1].end /\ f.at = at
        /\ Mid(f) = Mid(cs[1])
    BY <1>1 DEF Frame, Mid
  <1>3. /\ f.start \in Int /\ f.end \in Int /\ Mid(f) \in Int
        /\ 0 <= f.start /\ f.end <= N - 1 /\ f.start <= Mid(f) /\ Mid(f) < f.end
    BY <1>2, MidWithin
  <1>4. /\ From(f) \in Int /\ To(f) \in Int
        /\ f.start <= From(f) /\ From(f) <= To(f) /\ To(f) <= f.end
    BY <1>2, <1>3 DEF From, To
  <1>5. g.start = From(f) /\ g.end = To(f) /\ g.at = "test"
    BY DEF Call
  <1>6. g \in Frame
    BY <1>3, <1>4, NAssumption DEF Frame, Call, Index
  <1>7. /\ ds \in Seq(Frame) /\ Len(ds) = Len(cs) + 1 /\ ds # <<>>
        /\ ds[1] = g /\ ds[2] = f
        /\ \A c \in 3..Len(cs) + 1 : ds[c] = cs[c - 1] /\ c - 1 \in 2..Len(cs)
    BY <1>1, <1>2, <1>6, PushedFrames
  <1>8. ASSUME NEW c \in 1..Len(ds)
        PROVE  c = 1 \/ c = 2 \/ c \in 3..Len(cs) + 1
    BY <1>1, <1>7
  <1>9. ASSUME NEW c \in 1..Len(ds)
        PROVE  /\ ds[c].start <= ds[c].end
               /\ ds[c].at # "test" => ds[c].start < ds[c].end
    <2>1. CASE c = 1
      BY <1>4, <1>5, <1>7, <2>1
    <2>2. CASE c = 2
      <3>1. f.start < f.end /\ f.start <= f.end
        BY <1>3
      <3> QED
        BY <1>7, <2>2, <3>1
    <2>3. CASE c \in 3..Len(cs) + 1
      <3>1. ds[c] = cs[c - 1] /\ c - 1 \in 1..Len(cs)
        BY <1>7, <2>3
      <3> QED
        BY <3>1 DEF Stack
    <2> QED
      BY <1>8, <2>1, <2>2, <2>3
  <1>10. ASSUME NEW c \in 2..Len(ds)
         PROVE  /\ ds[c].at \in {"right", "copy"}
                /\ ds[c - 1].start = From(ds[c]) /\ ds[c - 1].end = To(ds[c])
    <2>1. CASE c = 2
      <3>1. ds[c - 1] = g /\ ds[c] = f
        BY <1>7, <2>1
      <3> QED
        BY <1>2, <1>5, <3>1
    <2>2. CASE c \in 3..Len(cs) + 1
      <3>1. ds[c] = cs[c - 1] /\ c - 1 \in 2..Len(cs)
        BY <1>7, <2>2
      <3>2. ds[c - 1].start = cs[c - 1 - 1].start /\ ds[c - 1].end = cs[c - 1 - 1].end
        <4>1. CASE c = 3
          <5>1. c - 1 = 2 /\ c - 1 - 1 = 1
            BY <4>1
          <5>2. ds[2].start = cs[1].start /\ ds[2].end = cs[1].end
            BY <1>2, <1>7
          <5> QED
            BY <5>1, <5>2
        <4>2. CASE c # 3
          <5>1. c - 1 \in 3..Len(cs) + 1
            BY <1>1, <2>2, <4>2
          <5> QED
            BY <1>7, <5>1
        <4> QED
          BY <4>1, <4>2
      <3> QED
        BY <3>1, <3>2 DEF Stack
    <2>3. c = 2 \/ c \in 3..Len(cs) + 1
      BY <1>1, <1>7
    <2> QED
      BY <2>1, <2>2, <2>3
  <1>11. ASSUME NEW d \in 1..Len(ds), d # 1
         PROVE  /\ d - 1 \in 1..Len(cs)
                /\ ds[d].start = cs[d - 1].start /\ ds[d].end = cs[d - 1].end
    <2>1. CASE d = 2
      <3>1. d - 1 = 1
        BY <2>1
      <3>2. ds[2].start = cs[1].start /\ ds[2].end = cs[1].end
        BY <1>2, <1>7
      <3> QED
        BY <1>1, <2>1, <3>1, <3>2
    <2>2. CASE d \in 3..Len(cs) + 1
      BY <1>7, <2>2
    <2> QED
      BY <1>8, <1>11, <2>1, <2>2
  <1>12. ASSUME NEW c \in 2..Len(ds), NEW d \in 1..Len(ds), d < c
         PROVE  From(ds[c]) <= ds[d].start /\ ds[d].end <= To(ds[c])
    <2>1. CASE c = 2
      <3>1. d = 1
        BY <1>12, <2>1
      <3> QED
        BY <1>4, <1>5, <1>7, <2>1, <3>1
    <2>2. CASE c # 2 /\ d # 1
      <3>1. ds[c] = cs[c - 1] /\ c - 1 \in 2..Len(cs)
        BY <1>1, <1>7, <2>2
      <3>2. d - 1 \in 1..Len(cs) /\ d - 1 < c - 1
        BY <1>1, <1>11, <1>12, <2>2
      <3>3. From(cs[c - 1]) <= cs[d - 1].start /\ cs[d - 1].end <= To(cs[c - 1])
        BY <3>1, <3>2 DEF Stack
      <3> QED
        BY <1>11, <2>2, <3>1, <3>3
    <2>3. CASE c # 2 /\ d = 1
      <3>1. ds[c] = cs[c - 1] /\ c - 1 \in 2..Len(cs) /\ 1 < c - 1
        BY <1>1, <1>7, <2>3
      <3>2. From(cs[c - 1]) <= cs[1].start /\ cs[1].end <= To(cs[c - 1])
        BY <1>1, <3>1 DEF Stack
      <3>3. From(cs[c - 1]) \in Int /\ To(cs[c - 1]) \in Int
        <4>1. cs[c - 1] \in Frame
          BY <1>1, <3>1
        <4> QED
          BY <4>1, MidWithin DEF From, To
      <3> DEFINE h == cs[c - 1]
      <3>4. /\ From(h) <= f.start /\ f.end <= To(h)
            /\ From(h) \in Int /\ To(h) \in Int
        BY <1>2, <3>2, <3>3
      <3> HIDE DEF h
      <3>5. From(h) <= From(f) /\ To(f) <= To(h)
        BY <1>3, <1>4, <3>4
      <3>6. ds[c] = h
        BY <3>1 DEF h
      <3> QED
        BY <1>5, <1>7, <2>3, <3>5, <3>6
    <2> QED
      BY <2>1, <2>2, <2>3
  <1>13. ds[Len(ds)].start = 0 /\ ds[Len(ds)].end = N - 1
    <2>1. Len(ds) \in 1..Len(ds) /\ Len(ds) # 1 /\ Len(ds) - 1 = Len(cs)
      BY <1>1, <1>7
    <2>2. cs[Len(cs)].start = 0 /\ cs[Len(cs)].end = N - 1
      BY DEF Stack
    <2>3. /\ ds[Len(ds)].start = cs[Len(ds) - 1].start
          /\ ds[Len(ds)].end = cs[Len(ds) - 1].end
      BY <1>11, <2>1
    <2> QED
      BY <2>1, <2>2, <2>3
  <1>14. /\ \A c \in 1..Len(ds) : ds[c].start <= ds[c].end
         /\ \A c \in 1..Len(ds) : ds[c].at # "test" => ds[c].start < ds[c].end
    BY <1>9, Zenon
  <1>15. \A c \in 2..Len(ds) : ds[c].at \in {"right", "copy"}
    BY <1>10
  <1>16. \A c \in 2..Len(ds) : /\ ds[c - 1].start = From(ds[c])
                               /\ ds[c - 1].end = To(ds[c])
    BY <1>10, Zenon
  <1>17. \A c \in 2..Len(ds), d \in 1..Len(ds) :
            d < c => From(ds[c]) <= ds[d].start /\ ds[d].end <= To(ds[c])
    BY <1>12, Zenon
  <1>18. Stack(ds)
    BY <1>7, <1>13, <1>14, <1>15, <1>16, <1>17, Zenon DEF Stack
  <1> QED
    BY <1>2, <1>6, <1>18

(* A return keeps it, too.                                                 *)
LEMMA PopStack ==
    ASSUME NEW cs, Stack(cs), cs # <<>>
    PROVE  Stack(Tail(cs))
  <1> DEFINE ds == Tail(cs)
  <1>1. /\ ds \in Seq(Frame) /\ Len(ds) = Len(cs) - 1
        /\ Len(cs) \in Nat /\ Len(cs) >= 1
        /\ ds # <<>> => Len(ds) >= 1
        /\ \A c \in 1..Len(cs) - 1 : ds[c] = cs[c + 1] /\ c + 1 \in 2..Len(cs)
    BY PoppedFrames DEF Stack
  <1> HIDE DEF ds
  <1>2. ASSUME NEW c \in 1..Len(ds)
        PROVE  /\ ds[c].start <= ds[c].end
               /\ ds[c].at # "test" => ds[c].start < ds[c].end
    <2>1. ds[c] = cs[c + 1] /\ c + 1 \in 1..Len(cs)
      BY <1>1
    <2> QED
      BY <2>1 DEF Stack
  <1>3. ASSUME NEW c \in 2..Len(ds)
        PROVE  /\ ds[c].at \in {"right", "copy"}
               /\ ds[c - 1].start = From(ds[c]) /\ ds[c - 1].end = To(ds[c])
    <2>1. ds[c] = cs[c + 1] /\ c + 1 \in 2..Len(cs) /\ ds[c - 1] = cs[c + 1 - 1]
      BY <1>1
    <2> QED
      BY <2>1 DEF Stack
  <1>4. ASSUME NEW c \in 2..Len(ds), NEW d \in 1..Len(ds), d < c
        PROVE  From(ds[c]) <= ds[d].start /\ ds[d].end <= To(ds[c])
    <2>1. /\ ds[c] = cs[c + 1] /\ c + 1 \in 2..Len(cs)
          /\ ds[d] = cs[d + 1] /\ d + 1 \in 1..Len(cs) /\ d + 1 < c + 1
      BY <1>1, <1>4
    <2> QED
      BY <2>1 DEF Stack
  <1>5. ASSUME ds # <<>> PROVE ds[Len(ds)].start = 0 /\ ds[Len(ds)].end = N - 1
    <2>1. Len(ds) \in 1..Len(cs) - 1 /\ Len(ds) + 1 = Len(cs)
      BY <1>1, <1>5
    <2>2. ds[Len(ds)] = cs[Len(cs)]
      BY <1>1, <2>1
    <2> QED
      BY <2>2 DEF Stack
  <1>6. Stack(ds)
    BY <1>1, <1>2, <1>3, <1>4, <1>5 DEF Stack
  <1> QED
    BY <1>6 DEF ds

-----------------------------------------------------------------------------
(* What is fresh is fresh in both halves.                                  *)
LEMMA FreshParts ==
    ASSUME NEW v, NEW a \in Int, NEW m \in Int, NEW b \in Int, a <= m, m < b,
           Fresh(v, a, b)
    PROVE  Fresh(v, a, m) /\ Fresh(v, m + 1, b)
  BY DEF Fresh

(* The calls keep what they know when one of them calls another ...        *)
LEMMA PushSegments ==
    ASSUME NEW cs, Stack(cs), cs # <<>>, cs[1].start < cs[1].end,
           NEW at \in {"right", "copy"}, NEW f, f = [cs[1] EXCEPT !.at = at],
           NEW g, g = Call(From(f), To(f)),
           NEW ds, ds = <<g, f>> \o Tail(cs),
           at = "right" => cs[1].at = "test", at = "copy" => cs[1].at = "right",
           NEW v, Segments(v, cs)
    PROVE  Segments(v, ds)
  <1>1. /\ cs \in Seq(Frame) /\ cs[1] \in Frame /\ Len(cs) \in Nat /\ 1 \in 1..Len(cs)
    BY DEF Stack
  <1>2. /\ f.start = cs[1].start /\ f.end = cs[1].end /\ f.at = at
        /\ Mid(f) = Mid(cs[1])
    BY <1>1 DEF Frame, Mid
  <1>3. f \in Frame /\ g \in Frame
    BY PushStack
  <1>4. /\ f.start \in Int /\ f.end \in Int /\ Mid(f) \in Int
        /\ f.start <= Mid(f) /\ Mid(f) < f.end
    BY <1>2, <1>3, MidWithin
  <1>5. /\ Len(ds) = Len(cs) + 1 /\ ds[1] = g /\ ds[2] = f
        /\ \A c \in 3..Len(cs) + 1 : ds[c] = cs[c - 1] /\ c - 1 \in 2..Len(cs)
    BY <1>1, <1>3, PushedFrames
  <1>6. g.start = From(f) /\ g.end = To(f) /\ g.at = "test"
    BY DEF Call
  <1>7. /\ cs[1].at = "test" => Fresh(v, f.start, f.end)
        /\ cs[1].at = "right" => /\ Fresh(v, Mid(f) + 1, f.end)
                                 /\ Done(v, f.start, Mid(f))
    BY <1>1, <1>2 DEF Segments
  <1>8. /\ Fresh(v, From(f), To(f))
        /\ at = "right" => Fresh(v, Mid(f) + 1, f.end)
        /\ at = "copy" => Done(v, f.start, Mid(f))
    <2>1. CASE at = "right"
      <3>1. Fresh(v, f.start, f.end) /\ From(f) = f.start /\ To(f) = Mid(f)
        BY <1>2, <1>7, <2>1 DEF From, To
      <3>2. Fresh(v, f.start, Mid(f)) /\ Fresh(v, Mid(f) + 1, f.end)
        BY <1>4, <3>1, FreshParts
      <3> QED
        BY <2>1, <3>1, <3>2
    <2>2. CASE at = "copy"
      BY <1>2, <1>7, <2>2 DEF From, To
    <2> QED
      BY <2>1, <2>2
  <1> SUFFICES ASSUME NEW c \in 1..Len(ds)
               PROVE  /\ ds[c].at = "test" => Fresh(v, ds[c].start, ds[c].end)
                      /\ ds[c].at = "right" =>
                           /\ Fresh(v, Mid(ds[c]) + 1, ds[c].end)
                           /\ c = 1 => Done(v, ds[c].start, Mid(ds[c]))
                      /\ ds[c].at = "copy" =>
                           /\ Done(v, ds[c].start, Mid(ds[c]))
                           /\ c = 1 => Done(v, Mid(ds[c]) + 1, ds[c].end)
    BY DEF Segments
  <1>9. CASE c = 1
    BY <1>5, <1>6, <1>8, <1>9
  <1>10. CASE c = 2
    <2>1. ds[c] = f /\ f.at # "test" /\ c # 1
      BY <1>2, <1>5, <1>10
    <2>2. /\ f.at = "right" => Fresh(v, Mid(f) + 1, f.end)
          /\ f.at = "copy" => Done(v, f.start, Mid(f))
      BY <1>2, <1>8
    <2> QED
      BY <2>1, <2>2, Zenon
  <1>11. CASE c \in 3..Len(cs) + 1
    <2>1. ds[c] = cs[c - 1] /\ c - 1 \in 1..Len(cs) /\ c # 1
      BY <1>5, <1>11
    <2> QED
      BY <2>1 DEF Segments
  <1>12. c = 1 \/ c = 2 \/ c \in 3..Len(cs) + 1
    BY <1>1, <1>5
  <1> QED
    BY <1>9, <1>10, <1>11, <1>12

(* ... and learn that their half is sorted when it returns.                *)
LEMMA PopSegments ==
    ASSUME NEW cs, Stack(cs), cs # <<>>, NEW v, Segments(v, cs),
           Done(v, cs[1].start, cs[1].end)
    PROVE  /\ Segments(v, Tail(cs))
           /\ Tail(cs) = <<>> => Done(v, 0, N - 1)
  <1> DEFINE ds == Tail(cs)
  <1>1. /\ Len(ds) = Len(cs) - 1 /\ Len(cs) \in Nat /\ Len(cs) >= 1
        /\ ds = <<>> => Len(cs) = 1
        /\ \A c \in 1..Len(cs) - 1 : ds[c] = cs[c + 1] /\ c + 1 \in 2..Len(cs)
    BY PoppedFrames DEF Stack
  <1> HIDE DEF ds
  <1>2. ds = <<>> => Done(v, 0, N - 1)
    BY <1>1 DEF Stack
  <1>3. ASSUME NEW c \in 1..Len(ds)
        PROVE  /\ ds[c].at = "test" => Fresh(v, ds[c].start, ds[c].end)
               /\ ds[c].at = "right" =>
                    /\ Fresh(v, Mid(ds[c]) + 1, ds[c].end)
                    /\ c = 1 => Done(v, ds[c].start, Mid(ds[c]))
               /\ ds[c].at = "copy" =>
                    /\ Done(v, ds[c].start, Mid(ds[c]))
                    /\ c = 1 => Done(v, Mid(ds[c]) + 1, ds[c].end)
    <2>1. ds[c] = cs[c + 1] /\ c + 1 \in 1..Len(cs) /\ c + 1 \in 2..Len(cs)
      BY <1>1
    <2>2. /\ ds[c].at = "test" => Fresh(v, ds[c].start, ds[c].end)
          /\ ds[c].at = "right" => Fresh(v, Mid(ds[c]) + 1, ds[c].end)
          /\ ds[c].at = "copy" => Done(v, ds[c].start, Mid(ds[c]))
      BY <2>1 DEF Segments
    <2>3. CASE c = 1
      <3>1. 2 \in 2..Len(cs) /\ 2 - 1 = 1 /\ ds[1] = cs[2]
        BY <2>1, <2>3
      <3>2. cs[1].start = From(cs[2]) /\ cs[1].end = To(cs[2])
        BY <3>1 DEF Stack
      <3>3. Done(v, From(ds[1]), To(ds[1]))
        BY <3>1, <3>2
      <3> QED
        BY <2>2, <2>3, <3>3 DEF From, To
    <2> QED
      BY <2>2, <2>3
  <1>4. Segments(v, ds)
    BY <1>3 DEF Segments
  <1> QED
    BY <1>2, <1>4 DEF ds

(* A segment stays fresh or done if none of its elements is written.       *)
LEMMA SameSegment ==
    ASSUME NEW v, NEW w, NEW a, NEW b, \A x \in a..b : w[x] = v[x]
    PROVE  /\ Fresh(v, a, b) => Fresh(w, a, b)
           /\ Done(v, a, b) => Done(w, a, b)
  <1>1. Fresh(v, a, b) => Fresh(w, a, b)
    BY DEF Fresh
  <1>2. Ordered(v, a, b) => Ordered(w, a, b)
    BY DEF Ordered
  <1>3. Done(v, a, b) => Done(w, a, b)
    BY <1>2 DEF Done
  <1> QED
    BY <1>1, <1>3

(* What a merge writes is in no segment that a waiting call knows.         *)
LEMMA WriteSegments ==
    ASSUME NEW cs, Stack(cs), cs # <<>>, cs[1].at = "merge",
           NEW v, Segments(v, cs), NEW x \in cs[1].start..cs[1].end, NEW w,
           \A y \in Index : y # x => w[y] = v[y]
    PROVE  Segments(w, cs)
  <1>1. /\ cs \in Seq(Frame) /\ Len(cs) \in Nat /\ 1 \in 1..Len(cs)
    BY DEF Stack
  <1> SUFFICES ASSUME NEW c \in 1..Len(cs)
               PROVE  /\ cs[c].at = "test" => Fresh(w, cs[c].start, cs[c].end)
                      /\ cs[c].at = "right" =>
                           /\ Fresh(w, Mid(cs[c]) + 1, cs[c].end)
                           /\ c = 1 => Done(w, cs[c].start, Mid(cs[c]))
                      /\ cs[c].at = "copy" =>
                           /\ Done(w, cs[c].start, Mid(cs[c]))
                           /\ c = 1 => Done(w, Mid(cs[c]) + 1, cs[c].end)
    BY DEF Segments
  <1>2. CASE c = 1
    BY <1>2
  <1>3. CASE c # 1
    <2>1. c \in 2..Len(cs) /\ 1 < c
      BY <1>1, <1>3
    <2>2. /\ cs[c].at \in {"right", "copy"}
          /\ From(cs[c]) <= cs[1].start /\ cs[1].end <= To(cs[c])
      BY <1>1, <2>1 DEF Stack
    <2>3. /\ cs[c].start \in Int /\ cs[c].end \in Int /\ Mid(cs[c]) \in Int
          /\ cs[1].start \in Int /\ cs[1].end \in Int
      BY <1>1, MidWithin
    <2>4. From(cs[c]) \in Int /\ To(cs[c]) \in Int
      BY <2>3 DEF From, To
    <2>5. x \in Int /\ From(cs[c]) <= x /\ x <= To(cs[c])
      BY <2>2, <2>3, <2>4
    <2>8. /\ Mid(cs[c]) + 1..cs[c].end \subseteq Index
          /\ cs[c].start..Mid(cs[c]) \subseteq Index
      <3>1. 0 <= cs[c].start /\ cs[c].end <= N - 1
        BY <1>1, MidWithin
      <3>2. cs[c].start < cs[c].end
        BY <2>2 DEF Stack
      <3>3. cs[c].start <= Mid(cs[c]) /\ Mid(cs[c]) < cs[c].end
        BY <1>1, <3>2, MidWithin
      <3> QED
        BY <2>3, <3>1, <3>3, NAssumption DEF Index
    <2>6. CASE cs[c].at = "right"
      <3>1. x <= Mid(cs[c])
        BY <2>5, <2>6 DEF To
      <3>2. \A y \in Mid(cs[c]) + 1..cs[c].end : w[y] = v[y]
        BY <2>3, <2>5, <2>8, <3>1
      <3>3. Fresh(v, Mid(cs[c]) + 1, cs[c].end)
        BY <2>6 DEF Segments
      <3> QED
        BY <1>3, <2>6, <3>2, <3>3, SameSegment
    <2>7. CASE cs[c].at = "copy"
      <3>1. x >= Mid(cs[c]) + 1
        BY <2>3, <2>5, <2>7 DEF From
      <3>2. \A y \in cs[c].start..Mid(cs[c]) : w[y] = v[y]
        BY <2>3, <2>5, <2>8, <3>1
      <3>3. Done(v, cs[c].start, Mid(cs[c]))
        BY <2>7 DEF Segments
      <3> QED
        BY <1>3, <2>7, <3>2, <3>3, SameSegment
    <2> QED
      BY <2>2, <2>6, <2>7
  <1> QED
    BY <1>2, <1>3

-----------------------------------------------------------------------------
(* An array is a sequence.                                                 *)
LEMMA ArraySeq ==
    ASSUME NEW S, NEW n \in Nat, NEW u \in [1..n -> S]
    PROVE  u \in Seq(S) /\ Len(u) = n
  OBVIOUS

(* u is a copy of n elements of v, those after o.                          *)
CopyOf(u, v, o, n) == \A x \in 1..n : u[x] = v[o + x]

(* A copied half is sorted as the segment was.                             *)
LEMMA CopyDone ==
    ASSUME NEW v, NEW o \in Int, NEW n \in Nat, Done(v, o + 1, o + n),
           NEW u, CopyOf(u, v, o, n)
    PROVE  /\ Ordered(u, 1, n)
           /\ \A x \in 1..n : u[x].from \in o + 1..o + n
           /\ \A f \in o + 1..o + n : \E x \in 1..n : u[x].from = f
  <1> USE DEF CopyOf
  <1>1. \A x \in 1..n : o + x \in o + 1..o + n
    OBVIOUS
  <1>2. Ordered(u, 1, n)
    <2> SUFFICES ASSUME NEW x \in 1..n, NEW y \in 1..n, x < y
                 PROVE  Before(u[x], u[y])
      BY DEF Ordered
    <2>1. o + x \in o + 1..o + n /\ o + y \in o + 1..o + n /\ o + x < o + y
      OBVIOUS
    <2>2. Before(v[o + x], v[o + y])
      BY <2>1 DEF Done, Ordered
    <2> QED
      BY <2>2
  <1>3. \A x \in 1..n : u[x].from \in o + 1..o + n
    BY <1>1 DEF Done
  <1>4. ASSUME NEW f \in o + 1..o + n PROVE \E x \in 1..n : u[x].from = f
    <2>1. PICK y \in o + 1..o + n : v[y].from = f
      BY DEF Done
    <2>2. y - o \in 1..n /\ o + (y - o) = y
      OBVIOUS
    <2>3. u[y - o] = v[o + (y - o)]
      BY <2>2
    <2> QED
      BY <2>1, <2>2, <2>3
  <1> QED
    BY <1>2, <1>3, <1>4

(* a comes before all that waits in S once p of it have been taken.        *)
Ahead(a, S, p) == \A y \in p + 1..Len(S) : Before(a, S[y])

(* w is v with a written at h.                                             *)
WrittenAt(w, v, h, a, s, e) ==
    w[h] = a /\ \A x \in s..e : x # h => w[x] = v[x]

(* The merge writes a, the first that waits, and goes on with the rest.    *)
LEMMA TakeOne ==
    ASSUME NEW v, NEW s \in Int, NEW e \in Int, NEW L, NEW R,
           NEW p \in Nat, NEW q \in Nat, NEW h,
           Written(v, s, e, L, R, p, q, h),
           NEW a, a.from \in s..e,
           NEW w, h \in s..e, WrittenAt(w, v, h, a, s, e),
           NEW p2, NEW q2,
           \/ p2 = p + 1 /\ q2 = q /\ a = L[p + 1] /\ p + 1 <= Len(L)
           \/ p2 = p /\ q2 = q + 1 /\ a = R[q + 1] /\ q + 1 <= Len(R),
           Len(L) \in Nat, Len(R) \in Nat, Ahead(a, L, p2), Ahead(a, R, q2)
    PROVE  Written(w, s, e, L, R, p2, q2, h + 1)
  <1>1. h = s + p + q /\ h \in Int /\ s <= h /\ h + 1 - 1 = h
    BY DEF Written
  <1>2. p2 \in Nat /\ q2 \in Nat /\ h + 1 = s + p2 + q2 /\ p <= p2 /\ q <= q2
    <2>1. CASE p2 = p + 1 /\ q2 = q
      BY <1>1, <2>1
    <2>2. CASE p2 = p /\ q2 = q + 1
      BY <1>1, <2>2
    <2> QED
      BY <2>1, <2>2
  <1>0. w[h] = a /\ \A x \in s..e : x # h => w[x] = v[x]
    BY DEF WrittenAt
  <1>3. \A x \in s..h : x = h \/ (x \in s..h - 1 /\ w[x] = v[x])
    BY <1>0, <1>1
  <1>4. \A x \in s..h - 1 : Before(v[x], a)
    <2>1. CASE a = L[p + 1] /\ p + 1 <= Len(L)
      <3>1. p + 1 \in p + 1..Len(L)
        BY <2>1
      <3> QED
        BY <2>1, <3>1 DEF Written
    <2>2. CASE a = R[q + 1] /\ q + 1 <= Len(R)
      <3>1. q + 1 \in q + 1..Len(R)
        BY <2>2
      <3> QED
        BY <2>2, <3>1 DEF Written
    <2> QED
      BY <2>1, <2>2
  <1>5. Ordered(w, s, h)
    <2> SUFFICES ASSUME NEW x \in s..h, NEW y \in s..h, x < y
                 PROVE  Before(w[x], w[y])
      BY DEF Ordered
    <2>1. x \in s..h - 1 /\ w[x] = v[x]
      BY <1>0, <1>1
    <2>2. CASE y = h
      BY <1>0, <1>4, <2>1, <2>2
    <2>3. CASE y # h
      <3>1. y \in s..h - 1 /\ w[y] = v[y]
        BY <1>3, <2>3
      <3> QED
        BY <2>1, <3>1 DEF Written, Ordered
    <2> QED
      BY <2>2, <2>3
  <1>6. ASSUME NEW x \in s..h
        PROVE  /\ \A y \in p2 + 1..Len(L) : Before(w[x], L[y])
               /\ \A y \in q2 + 1..Len(R) : Before(w[x], R[y])
               /\ w[x].from \in s..e
    <2>1. CASE x = h
      BY <1>0, <2>1 DEF Ahead
    <2>2. CASE x # h
      <3>1. x \in s..h - 1 /\ w[x] = v[x]
        BY <1>3, <2>2
      <3>2. /\ \A y \in p2 + 1..Len(L) : y \in p + 1..Len(L)
            /\ \A y \in q2 + 1..Len(R) : y \in q + 1..Len(R)
        BY <1>2
      <3> QED
        BY <3>1, <3>2 DEF Written
    <2> QED
      BY <2>1, <2>2
  <1>7. /\ h \in s..h /\ w[h] = a
        /\ \A y \in s..h - 1 : y \in s..h /\ w[y] = v[y]
    BY <1>0, <1>1
  <1>8. ASSUME NEW x \in 1..p2 PROVE \E y \in s..h : w[y].from = L[x].from
    <2>1. CASE x \in 1..p
      <3>1. PICK y \in s..h - 1 : v[y].from = L[x].from
        BY <2>1 DEF Written
      <3> QED
        BY <1>7, <3>1
    <2>2. CASE x \notin 1..p
      <3>1. x = p + 1 /\ a = L[p + 1]
        BY <2>2
      <3> QED
        BY <1>7, <3>1
    <2> QED
      BY <2>1, <2>2
  <1>9. ASSUME NEW x \in 1..q2 PROVE \E y \in s..h : w[y].from = R[x].from
    <2>1. CASE x \in 1..q
      <3>1. PICK y \in s..h - 1 : v[y].from = R[x].from
        BY <2>1 DEF Written
      <3> QED
        BY <1>7, <3>1
    <2>2. CASE x \notin 1..q
      <3>1. x = q + 1 /\ a = R[q + 1]
        BY <2>2
      <3> QED
        BY <1>7, <3>1
    <2> QED
      BY <2>1, <2>2
  <1> QED
    BY <1>1, <1>2, <1>5, <1>6, <1>8, <1>9 DEF Written

(* When all is taken, what is written is the whole segment, sorted.        *)
LEMMA AllWritten ==
    ASSUME NEW v, NEW s \in Int, NEW m \in Int, NEW e \in Int, NEW L, NEW R, NEW h,
           Halves(L, R, s, m, e), s <= m, m < e,
           Written(v, s, e, L, R, Len(L), Len(R), h)
    PROVE  Done(v, s, e)
  <1>1. h - 1 = e
    <2>1. Len(L) = m - s + 1 /\ Len(R) = e - m
      BY Zenon DEF Halves
    <2>2. h = s + Len(L) + Len(R)
      BY Zenon DEF Written
    <2> QED
      BY <2>1, <2>2
  <1>2. Ordered(v, s, e) /\ \A x \in s..e : v[x].from \in s..e
    BY <1>1 DEF Written
  <1>3. ASSUME NEW n \in s..e PROVE \E y \in s..e : v[y].from = n
    <2>1. CASE n \in s..m
      <3>1. PICK x \in 1..Len(L) : L[x].from = n
        BY <2>1 DEF Halves
      <3> QED
        BY <1>1, <3>1 DEF Written
    <2>2. CASE n \notin s..m
      <3>1. n \in m + 1..e
        BY <2>2
      <3>2. PICK x \in 1..Len(R) : R[x].from = n
        BY <3>1 DEF Halves
      <3> QED
        BY <1>1, <3>2 DEF Written
    <2> QED
      BY <2>1, <2>2
  <1> QED
    BY <1>2, <1>3 DEF Done

-----------------------------------------------------------------------------
(* The running call.                                                       *)
LEMMA Running ==
    ASSUME SortInv, calls # <<>>
    PROVE  /\ calls \in Seq(Frame) /\ Len(calls) \in Nat /\ Len(calls) >= 1
           /\ Top \in Frame /\ mid = Mid(Top)
           /\ Top.start \in Int /\ Top.end \in Int /\ Mid(Top) \in Int
           /\ 0 <= Top.start /\ Top.start <= Top.end /\ Top.end <= N - 1
           /\ Top.at # "test" => Top.start < Top.end
           /\ Top.start < Top.end => Top.start <= Mid(Top) /\ Mid(Top) < Top.end
  <1>1. /\ calls \in Seq(Frame) /\ Len(calls) \in Nat /\ 1 \in 1..Len(calls)
        /\ calls[1] \in Frame
    BY DEF SortInv, Stack
  <1>2. /\ calls[1].start <= calls[1].end
        /\ calls[1].at # "test" => calls[1].start < calls[1].end
    BY <1>1 DEF SortInv, Stack
  <1> QED
    BY <1>1, <1>2, MidWithin DEF Top, mid, Mid

(* The first call is to sort the whole array, which is as it came.         *)
LEMMA InitInv == Init => SortInv
  <1> SUFFICES ASSUME Init PROVE SortInv
    OBVIOUS
  <1>1. PICK keys \in [Index -> Keys] :
           values = [x \in Index |-> [key |-> keys[x], from |-> x]]
    BY DEF Init
  <1>2. values \in [Index -> Elements] /\ \A x \in Index : values[x].from = x
    BY <1>1 DEF Elements
  <1>3. /\ calls = <<Call(0, N - 1)>> /\ left = <<>> /\ right = <<>>
        /\ i = 0 /\ j = 0 /\ k = 0
    BY DEF Init
  <1> DEFINE f == Call(0, N - 1)
  <1>4. f \in Frame /\ f.start = 0 /\ f.end = N - 1 /\ f.at = "test" /\ 0 <= N - 1
    BY NAssumption DEF Call, Frame, Index
  <1> HIDE DEF f
  <1>5. /\ calls \in Seq(Frame) /\ Len(calls) = 1 /\ calls[1] = f /\ calls # <<>>
    BY <1>3, <1>4 DEF f
  <1>6. Stack(calls)
    BY <1>4, <1>5 DEF Stack
  <1>7. Segments(values, calls)
    <2>1. Fresh(values, 0, N - 1)
      BY <1>2 DEF Fresh, Index
    <2> QED
      BY <1>4, <1>5, <2>1 DEF Segments
  <1>8. TypeOK
    BY <1>2, <1>3, <1>5, NAssumption DEF TypeOK, Frame
  <1> QED
    BY <1>4, <1>5, <1>6, <1>7, <1>8 DEF SortInv, Merging, Top

(* A call of merge_sort by itself.                                         *)
LEMMA RecurseInv ==
    ASSUME SortInv, calls # <<>>, Top.start < Top.end,
           NEW at \in {"right", "copy"}, NEW f, f = [Top EXCEPT !.at = at],
           Recurse(From(f), To(f), at),
           at = "right" => Top.at = "test", at = "copy" => Top.at = "right",
           UNCHANGED <<values, merging>>
    PROVE  SortInv'
  <1> DEFINE g == Call(From(f), To(f))
  <1>1. /\ Stack(calls) /\ Segments(values, calls) /\ calls[1].start < calls[1].end
        /\ f = [calls[1] EXCEPT !.at = at]
        /\ at = "right" => calls[1].at = "test"
        /\ at = "copy" => calls[1].at = "right"
    BY DEF SortInv, Top
  <1>2. calls' = <<g, f>> \o Tail(calls) /\ g = Call(From(f), To(f))
    BY DEF Recurse
  <1> HIDE DEF g
  <1>3. Stack(calls') /\ f \in Frame /\ g \in Frame
    BY <1>1, <1>2, PushStack
  <1>4. Segments(values, calls')
    BY <1>1, <1>2, PushSegments
  <1>5. calls' # <<>> /\ calls'[1] = g /\ calls \in Seq(Frame)
    BY <1>1, <1>2, <1>3, PushedFrames DEF Stack
  <1>6. g.at = "test"
    BY DEF Call, g
  <1>7. /\ values' = values /\ left' = left /\ right' = right
        /\ i' = i /\ j' = j /\ k' = k
    BY DEF merging
  <1>8. TypeOK'
    BY <1>3, <1>7 DEF SortInv, TypeOK, Stack, Frame
  <1> QED
    BY <1>3, <1>4, <1>5, <1>6, <1>7, <1>8 DEF SortInv, Merging, Top

(* A return of merge_sort.                                                 *)
LEMMA ReturnInv ==
    ASSUME SortInv, calls # <<>>, Done(values, Top.start, Top.end),
           Return, TypeOK', values' = values
    PROVE  SortInv'
  <1>1. Stack(calls) /\ Segments(values, calls) /\ Top = calls[1]
    BY DEF SortInv, Top
  <1>2. calls' = Tail(calls)
    BY DEF Return
  <1>3. Stack(calls')
    BY <1>1, <1>2, PopStack
  <1>4. Segments(values, calls') /\ (calls' = <<>> => Done(values, 0, N - 1))
    BY <1>1, <1>2, PopSegments
  <1>5. ~Merging'
    <2> SUFFICES ASSUME calls' # <<>> PROVE calls'[1].at # "merge"
      BY DEF Merging, Top
    <2>1. /\ calls \in Seq(Frame) /\ Len(calls') = Len(calls) - 1
          /\ Len(calls) \in Nat /\ Len(calls') >= 1
          /\ \A c \in 1..Len(calls) - 1 : calls'[c] = calls[c + 1] /\ c + 1 \in 2..Len(calls)
      BY <1>1, <1>2, PoppedFrames DEF Stack
    <2>2. calls'[1] = calls[2] /\ 2 \in 2..Len(calls)
      BY <2>1
    <2>3. calls[2].at \in {"right", "copy"}
      BY <1>1, <2>2 DEF Stack
    <2> QED
      BY <2>2, <2>3
  <1> QED
    BY <1>3, <1>4, <1>5 DEF SortInv

(* if (start < end), and its first statement; a segment of one is sorted.  *)
LEMMA TestBoundsInv == SortInv /\ TestBounds => SortInv'
  <1> SUFFICES ASSUME SortInv, TestBounds PROVE SortInv'
    OBVIOUS
  <1>1. /\ calls # <<>> /\ Top.at = "test" /\ UNCHANGED <<values, merging>>
    BY DEF TestBounds
  <1>2. /\ Top \in Frame /\ mid = Mid(Top) /\ Top.start \in Int /\ Top.end \in Int
        /\ Top.start <= Top.end /\ calls \in Seq(Frame)
    BY <1>1, Running
  <1>3. CASE Top.start < Top.end /\ Recurse(Top.start, mid, "right")
    <2> DEFINE f == [Top EXCEPT !.at = "right"]
    <2>1. From(f) = Top.start /\ To(f) = mid
      BY <1>2 DEF From, To, Mid, Frame
    <2>2. Recurse(From(f), To(f), "right")
      BY <1>3, <2>1
    <2> HIDE DEF f
    <2> QED
      BY <1>1, <1>3, <2>2, RecurseInv DEF f
  <1>4. CASE Top.start >= Top.end /\ Return
    <2>1. Top.start = Top.end
      BY <1>2, <1>4
    <2>2. Fresh(values, Top.start, Top.end)
      <3>1. 1 \in 1..Len(calls) /\ Top = calls[1]
        BY <1>1, Running DEF Top
      <3> QED
        BY <1>1, <3>1 DEF SortInv, Segments
    <2>3. Done(values, Top.start, Top.end)
      BY <1>2, <2>1, <2>2 DEF Done, Fresh, Ordered
    <2>4. TypeOK'
      <3>1. calls' \in Seq(Frame)
        BY <1>1, <1>2, <1>4 DEF Return
      <3> QED
        BY <1>1, <3>1 DEF SortInv, TypeOK, merging, Frame
    <2> QED
      BY <1>1, <1>4, <2>3, <2>4, ReturnInv
  <1> QED
    BY <1>3, <1>4 DEF TestBounds

(* The second half's turn.                                                 *)
LEMMA SortRightInv == SortInv /\ SortRight => SortInv'
  <1> SUFFICES ASSUME SortInv, SortRight PROVE SortInv'
    OBVIOUS
  <1>1. /\ calls # <<>> /\ Top.at = "right" /\ UNCHANGED <<values, merging>>
        /\ Recurse(mid + 1, Top.end, "copy")
    BY DEF SortRight
  <1>2. /\ Top \in Frame /\ mid = Mid(Top) /\ Top.start < Top.end
    BY <1>1, Running
  <1> DEFINE f == [Top EXCEPT !.at = "copy"]
  <1>3. From(f) = mid + 1 /\ To(f) = Top.end
    BY <1>2 DEF From, To, Mid, Frame
  <1>4. Recurse(From(f), To(f), "copy")
    BY <1>1, <1>3
  <1> HIDE DEF f
  <1> QED
    BY <1>1, <1>2, <1>4, RecurseInv DEF f

(* The merge begins: the halves are copied.                                *)
LEMMA CopyHalvesInv == SortInv /\ CopyHalves => SortInv'
  <1> SUFFICES ASSUME SortInv, CopyHalves PROVE SortInv'
    OBVIOUS
  <1> DEFINE s == Top.start
             m == Mid(Top)
             e == Top.end
             f == [calls[1] EXCEPT !.at = "merge"]
  <1>1. /\ calls # <<>> /\ Top.at = "copy" /\ values' = values
        /\ left' = [x \in 1..m - s + 1 |-> values[s + x - 1]]
        /\ right' = [x \in 1..e - m |-> values[m + x]]
        /\ i' = 0 /\ j' = 0 /\ k' = s
        /\ calls' = [calls EXCEPT ![1] = f]
    BY Running DEF CopyHalves, Top
  <1>2. /\ calls \in Seq(Frame) /\ Len(calls) \in Nat /\ Len(calls) >= 1
        /\ Top \in Frame /\ s \in Int /\ e \in Int /\ m \in Int
        /\ 0 <= s /\ s <= m /\ m < e /\ e <= N - 1 /\ Top = calls[1]
    BY <1>1, Running DEF Top
  <1>3. /\ f \in Frame /\ f.start = s /\ f.end = e /\ f.at = "merge" /\ Mid(f) = m
    BY <1>2 DEF Frame, Mid
  <1> HIDE DEF f
  <1>4. /\ calls' \in Seq(Frame) /\ Len(calls') = Len(calls) /\ calls'[1] = f
        /\ calls' # <<>> /\ \A c \in 2..Len(calls) : calls'[c] = calls[c]
    BY <1>1, <1>2, <1>3
  <1>5. Stack(calls')
    <2>1. \A c \in 1..Len(calls) :
             /\ calls'[c].start = calls[c].start /\ calls'[c].end = calls[c].end
             /\ c # 1 => calls'[c] = calls[c]
      BY <1>2, <1>3, <1>4
    <2>2. \A c \in 1..Len(calls') : calls'[c].start <= calls'[c].end
      BY <1>4, <2>1 DEF SortInv, Stack
    <2>3. \A c \in 1..Len(calls') : calls'[c].at # "test" => calls'[c].start < calls'[c].end
      <3> SUFFICES ASSUME NEW c \in 1..Len(calls), calls'[c].at # "test"
                   PROVE  calls[c].start < calls[c].end
        BY <1>4, <2>1
      <3>1. CASE c = 1
        BY <1>1, <1>2, <3>1, Running
      <3>2. CASE c # 1
        BY <2>1, <3>2 DEF SortInv, Stack
      <3> QED
        BY <3>1, <3>2
    <2>4. \A c \in 2..Len(calls') : calls'[c].at \in {"right", "copy"}
      BY <1>4 DEF SortInv, Stack
    <2>5. ASSUME NEW c \in 2..Len(calls')
          PROVE  /\ calls'[c - 1].start = From(calls'[c])
                 /\ calls'[c - 1].end = To(calls'[c])
      <3>1. c - 1 \in 1..Len(calls) /\ c \in 2..Len(calls) /\ calls'[c] = calls[c]
        BY <1>2, <1>4
      <3> QED
        BY <2>1, <3>1 DEF SortInv, Stack
    <2>6. ASSUME NEW c \in 2..Len(calls'), NEW d \in 1..Len(calls'), d < c
          PROVE  From(calls'[c]) <= calls'[d].start /\ calls'[d].end <= To(calls'[c])
      <3>1. c \in 2..Len(calls) /\ d \in 1..Len(calls) /\ calls'[c] = calls[c]
        BY <1>4
      <3> QED
        BY <2>1, <2>6, <3>1 DEF SortInv, Stack
    <2>7. calls'[Len(calls')].start = 0 /\ calls'[Len(calls')].end = N - 1
      <3>1. Len(calls) \in 1..Len(calls)
        BY <1>2
      <3> QED
        BY <1>1, <1>4, <2>1, <3>1 DEF SortInv, Stack
    <2> QED
      BY <1>4, <2>2, <2>3, <2>4, <2>5, <2>6, <2>7 DEF Stack
  <1>6. Segments(values, calls')
    <2> SUFFICES ASSUME NEW c \in 1..Len(calls')
                 PROVE  /\ calls'[c].at = "test" =>
                              Fresh(values, calls'[c].start, calls'[c].end)
                        /\ calls'[c].at = "right" =>
                             /\ Fresh(values, Mid(calls'[c]) + 1, calls'[c].end)
                             /\ c = 1 => Done(values, calls'[c].start, Mid(calls'[c]))
                        /\ calls'[c].at = "copy" =>
                             /\ Done(values, calls'[c].start, Mid(calls'[c]))
                             /\ c = 1 => Done(values, Mid(calls'[c]) + 1, calls'[c].end)
      BY DEF Segments
    <2>1. CASE c = 1
      BY <1>3, <1>4, <2>1
    <2>2. CASE c # 1
      <3>1. calls'[c] = calls[c] /\ c \in 1..Len(calls)
        BY <1>2, <1>4, <2>2
      <3> QED
        BY <2>2, <3>1 DEF SortInv, Segments
    <2> QED
      BY <2>1, <2>2
  <1>7. Done(values, s, m) /\ Done(values, m + 1, e)
    <2>1. 1 \in 1..Len(calls)
      BY <1>2
    <2> QED
      BY <1>1, <1>2, <2>1 DEF SortInv, Segments
  <1>8. /\ left' \in Seq(Elements) /\ Len(left') = m - s + 1
        /\ \A x \in 1..m - s + 1 : left'[x] = values[s - 1 + x]
    <2>1. m - s + 1 \in Nat
      BY <1>2
    <2>2. \A x \in 1..m - s + 1 : s + x - 1 \in Index /\ s + x - 1 = s - 1 + x
      BY <1>2, NAssumption DEF Index
    <2>3. values \in [Index -> Elements]
      BY DEF SortInv, TypeOK
    <2>4. left' \in [1..m - s + 1 -> Elements]
      BY <1>1, <2>2, <2>3
    <2>5. left' \in Seq(Elements) /\ Len(left') = m - s + 1
      BY <2>1, <2>4, ArraySeq
    <2>6. \A x \in 1..m - s + 1 : left'[x] = values[s + x - 1]
      BY <1>1
    <2> QED
      BY <2>2, <2>5, <2>6
  <1>9. /\ right' \in Seq(Elements) /\ Len(right') = e - m
        /\ \A x \in 1..e - m : right'[x] = values[m + x]
    <2>1. e - m \in Nat
      BY <1>2
    <2>2. \A x \in 1..e - m : m + x \in Index
      BY <1>2, NAssumption DEF Index
    <2>3. values \in [Index -> Elements]
      BY DEF SortInv, TypeOK
    <2>4. right' \in [1..e - m -> Elements]
      BY <1>1, <2>2, <2>3
    <2>5. right' \in Seq(Elements) /\ Len(right') = e - m
      BY <2>1, <2>4, ArraySeq
    <2>6. \A x \in 1..e - m : right'[x] = values[m + x]
      BY <1>1
    <2> QED
      BY <2>5, <2>6
  <1> HIDE DEF s, m, e
  <1>10. /\ Ordered(left', 1, Len(left'))
         /\ \A x \in 1..Len(left') : left'[x].from \in s..m
         /\ \A n \in s..m : \E x \in 1..Len(left') : left'[x].from = n
    <2> DEFINE o == s - 1
               n == m - s + 1
    <2>1. o \in Int /\ n \in Nat /\ o + 1 = s /\ o + n = m /\ Len(left') = n
      BY <1>2, <1>8
    <2>2. CopyOf(left', values, o, n)
      BY <1>8 DEF CopyOf
    <2> HIDE DEF o, n
    <2>3. Done(values, o + 1, o + n)
      BY <1>7, <2>1
    <2>4. /\ Ordered(left', 1, n)
          /\ \A x \in 1..n : left'[x].from \in o + 1..o + n
          /\ \A y \in o + 1..o + n : \E x \in 1..n : left'[x].from = y
      BY <2>1, <2>2, <2>3, CopyDone
    <2> QED
      BY <2>1, <2>4
  <1>11. /\ Ordered(right', 1, Len(right'))
         /\ \A x \in 1..Len(right') : right'[x].from \in m + 1..e
         /\ \A n \in m + 1..e : \E x \in 1..Len(right') : right'[x].from = n
    <2> DEFINE n == e - m
    <2>1. m \in Int /\ n \in Nat /\ m + n = e /\ Len(right') = n
      BY <1>2, <1>9
    <2>2. CopyOf(right', values, m, n)
      BY <1>9 DEF CopyOf
    <2> HIDE DEF n
    <2>3. Done(values, m + 1, m + n)
      BY <1>7, <2>1
    <2>4. /\ Ordered(right', 1, n)
          /\ \A x \in 1..n : right'[x].from \in m + 1..m + n
          /\ \A y \in m + 1..m + n : \E x \in 1..n : right'[x].from = y
      <3>1. ASSUME NEW u, NEW v, CopyOf(u, v, m, n), Done(v, m + 1, m + n)
            PROVE  /\ Ordered(u, 1, n)
                   /\ \A x \in 1..n : u[x].from \in m + 1..m + n
                   /\ \A y \in m + 1..m + n : \E x \in 1..n : u[x].from = y
        BY <2>1, <3>1, CopyDone
      <3> QED
        BY <2>2, <2>3, <3>1, Zenon
    <2> QED
      BY <2>1, <2>4
  <1>12. Halves(left', right', s, m, e)
    BY <1>8, <1>9, <1>10, <1>11 DEF Halves
  <1>13. Written(values, s, e, left', right', 0, 0, s)
    BY <1>2 DEF Written, Ordered
  <1>14. TypeOK'
    <2>1. k' \in 0..N /\ i' \in 0..Len(left') /\ j' \in 0..Len(right')
      BY <1>1, <1>2, <1>8, <1>9, NAssumption
    <2> QED
      BY <1>1, <1>4, <1>8, <1>9, <2>1 DEF SortInv, TypeOK, Frame
  <1>15. Top'.start = s /\ Top'.end = e /\ Mid(Top)' = m
    BY <1>3, <1>4 DEF Top, Mid
  <1> QED
    BY <1>1, <1>4, <1>5, <1>6, <1>12, <1>13, <1>14, <1>15 DEF SortInv

(* Writing an element keeps what every call knows and the types.           *)
LEMMA WriteKeeps ==
    ASSUME SortInv, Merging, k \in Top.start..Top.end, NEW a \in Elements,
           values' = [values EXCEPT ![k] = a], calls' = calls
    PROVE  /\ Segments(values', calls) /\ values' \in [Index -> Elements]
           /\ k \in Index /\ k + 1 \in 0..N
           /\ values'[k] = a
           /\ \A x \in Top.start..Top.end : x # k => values'[x] = values[x]
  <1>1. /\ calls # <<>> /\ Top.at = "merge" /\ Top = calls[1]
    BY DEF Merging, Top
  <1>2. /\ Top.start \in Int /\ Top.end \in Int /\ 0 <= Top.start /\ Top.end <= N - 1
    BY <1>1, Running
  <1>3. Top.start..Top.end \subseteq Index /\ k + 1 \in 0..N
    BY <1>2, NAssumption DEF Index
  <1>4. values \in [Index -> Elements]
    BY DEF SortInv, TypeOK
  <1>5. /\ values' \in [Index -> Elements] /\ values'[k] = a
        /\ \A x \in Index : x # k => values'[x] = values[x]
    BY <1>3, <1>4
  <1>6. Segments(values', calls)
    BY <1>1, <1>5, WriteSegments DEF SortInv
  <1> QED
    BY <1>3, <1>5, <1>6

(* An element is a key and an index.                                       *)
LEMMA ElementTypes ==
    ASSUME NEW a \in Elements
    PROVE  a.key \in Int /\ a.from \in Int
  <1>1. a.key \in Keys /\ a.from \in 0..N - 1
    BY DEF Elements, Index
  <1>2. a.key \in Int
    BY <1>1, KeysAssumption, Zenon
  <1>3. a.from \in Int
    BY <1>1, NAssumption
  <1> QED
    BY <1>2, <1>3

(* What the running merge works on.                                        *)
LEMMA MergeFacts ==
    ASSUME SortInv, Merging
    PROVE  /\ calls # <<>> /\ Top.start \in Int /\ Top.end \in Int /\ Mid(Top) \in Int
           /\ Top.start <= Mid(Top) /\ Mid(Top) < Top.end
           /\ left \in Seq(Elements) /\ right \in Seq(Elements)
           /\ Len(left) \in Nat /\ Len(right) \in Nat
           /\ i \in Nat /\ i <= Len(left) /\ j \in Nat /\ j <= Len(right)
           /\ Halves(left, right, Top.start, Mid(Top), Top.end)
           /\ Written(values, Top.start, Top.end, left, right, i, j, k)
           /\ k = Top.start + i + j
           /\ Len(left) + Len(right) = Top.end - Top.start + 1
           /\ \A e \in Elements : e.key \in Int /\ e.from \in Int
  <1>1. /\ calls # <<>> /\ Top.at = "merge"
    BY DEF Merging
  <1>2. /\ Top.start \in Int /\ Top.end \in Int /\ Mid(Top) \in Int
        /\ Top.start <= Mid(Top) /\ Mid(Top) < Top.end
    BY <1>1, Running
  <1>3. /\ left \in Seq(Elements) /\ right \in Seq(Elements)
        /\ i \in 0..Len(left) /\ j \in 0..Len(right)
    BY DEF SortInv, TypeOK
  <1>4. /\ Halves(left, right, Top.start, Mid(Top), Top.end)
        /\ Written(values, Top.start, Top.end, left, right, i, j, k)
    BY DEF SortInv
  <1>5. k = Top.start + i + j
    BY <1>4 DEF Written
  <1>6. Len(left) + Len(right) = Top.end - Top.start + 1
    <2>1. Len(left) = Mid(Top) - Top.start + 1 /\ Len(right) = Top.end - Mid(Top)
      BY <1>4, Zenon DEF Halves
    <2> QED
      BY <1>2, <2>1
  <1>7. \A e \in Elements : e.key \in Int /\ e.from \in Int
    BY ElementTypes
  <1> QED
    BY <1>1, <1>2, <1>3, <1>4, <1>5, <1>6, <1>7

(* The next element is the left half's.                                    *)
LEMMA TakeLeftInv == SortInv /\ TakeLeft => SortInv'
  <1> SUFFICES ASSUME SortInv, TakeLeft PROVE SortInv'
    OBVIOUS
  <1> DEFINE s == Top.start
             m == Mid(Top)
             e == Top.end
             a == left[i + 1]
  <1>1. /\ Merging /\ LeftFirst /\ values' = [values EXCEPT ![k] = a]
        /\ i' = i + 1 /\ k' = k + 1 /\ j' = j
        /\ calls' = calls /\ left' = left /\ right' = right
    BY DEF TakeLeft
  <1>2. /\ calls # <<>> /\ s \in Int /\ e \in Int /\ m \in Int /\ s <= m /\ m < e
        /\ left \in Seq(Elements) /\ right \in Seq(Elements)
        /\ Len(left) \in Nat /\ Len(right) \in Nat
        /\ i \in Nat /\ i <= Len(left) /\ j \in Nat /\ j <= Len(right)
        /\ Halves(left, right, s, m, e) /\ Written(values, s, e, left, right, i, j, k)
        /\ k = s + i + j /\ Len(left) + Len(right) = e - s + 1
        /\ \A x \in Elements : x.key \in Int /\ x.from \in Int
    BY <1>1, MergeFacts
  <1> HIDE DEF s, m, e
  <1>3. /\ i < Len(left) /\ i + 1 \in 1..Len(left) /\ a \in Elements
        /\ j < Len(right) => a.key <= right[j + 1].key
    BY <1>1, <1>2 DEF LeftFirst
  <1>4. k \in s..e
    BY <1>2, <1>3
  <1>5. /\ Segments(values', calls) /\ values' \in [Index -> Elements]
        /\ k + 1 \in 0..N /\ values'[k] = a
        /\ \A x \in s..e : x # k => values'[x] = values[x]
    BY <1>1, <1>3, <1>4, WriteKeeps DEF s, e
  <1>6. a.from \in s..m /\ a.from \in s..e /\ a.key \in Int /\ a.from \in Int
    <2>1. \A x \in 1..Len(left) : left[x].from \in s..m
      BY <1>2, Zenon DEF Halves
    <2>2. a.from \in s..m
      BY <1>3, <2>1
    <2>3. \A x \in s..m : x \in s..e
      BY <1>2
    <2> QED
      BY <1>3, <2>2, <2>3, ElementTypes
  <1>7. \A y \in i + 1 + 1..Len(left) : Before(a, left[y])
    BY <1>2, <1>3 DEF Halves, Ordered
  <1>8. ASSUME NEW y \in j + 1..Len(right) PROVE Before(a, right[y])
    <2>1. /\ j + 1 \in 1..Len(right) /\ y \in 1..Len(right) /\ j < Len(right)
          /\ j + 1 < y \/ y = j + 1
      BY <1>2
    <2>2. /\ right[j + 1] \in Elements /\ right[y] \in Elements
          /\ right[j + 1].key \in Int /\ right[y].key \in Int /\ right[y].from \in Int
      BY <1>2, <2>1, ElementTypes
    <2>3. right[j + 1].key <= right[y].key
      <3>1. CASE y = j + 1
        BY <1>2, <2>2, <3>1
      <3>2. CASE j + 1 < y
        <4>1. Before(right[j + 1], right[y])
          BY <1>2, <2>1, <3>2 DEF Halves, Ordered
        <4> QED
          BY <2>2, <4>1 DEF Before
      <3> QED
        BY <2>1, <3>1, <3>2
    <2>4. a.key <= right[y].key
      <3>1. a.key <= right[j + 1].key
        BY <1>3, <2>1
      <3> HIDE DEF a
      <3> QED
        BY <1>6, <2>2, <2>3, <3>1
    <2>5. a.from < right[y].from
      <3>1. \A x \in 1..Len(right) : right[x].from \in m + 1..e
        BY <1>2, Zenon DEF Halves
      <3>2. right[y].from \in m + 1..e
        BY <2>1, <3>1
      <3>3. m \in Int /\ e \in Int /\ s \in Int
        BY <1>2
      <3> HIDE DEF a
      <3> QED
        BY <1>6, <3>2, <3>3
    <2> HIDE DEF a
    <2> QED
      BY <1>6, <2>2, <2>4, <2>5 DEF Before
  <1> HIDE DEF a
  <1>9. Written(values', s, e, left, right, i + 1, j, k + 1)
    <2>1. \/ i + 1 = i + 1 /\ j = j /\ a = left[i + 1] /\ i + 1 <= Len(left)
          \/ i + 1 = i /\ j = j + 1 /\ a = right[j + 1] /\ j + 1 <= Len(right)
      BY <1>2, <1>3 DEF a
    <2>2. /\ Ahead(a, left, i + 1) /\ Ahead(a, right, j)
          /\ WrittenAt(values', values, k, a, s, e)
      BY <1>5, <1>7, <1>8 DEF Ahead, WrittenAt
    <2>3. /\ s \in Int /\ e \in Int /\ i \in Nat /\ j \in Nat /\ a.from \in s..e
          /\ Len(left) \in Nat /\ Len(right) \in Nat
          /\ Written(values, s, e, left, right, i, j, k)
      BY <1>2, <1>6
    <2> QED
      BY <1>4, <2>1, <2>2, <2>3, TakeOne
  <1>10. TypeOK'
    BY <1>1, <1>2, <1>3, <1>5 DEF SortInv, TypeOK
  <1> QED
    BY <1>1, <1>2, <1>5, <1>9, <1>10 DEF SortInv, Top, s, m, e

(* The next element is the right half's.                                   *)
LEMMA TakeRightInv == SortInv /\ TakeRight => SortInv'
  <1> SUFFICES ASSUME SortInv, TakeRight PROVE SortInv'
    OBVIOUS
  <1> DEFINE s == Top.start
             m == Mid(Top)
             e == Top.end
             a == right[j + 1]
  <1>1. /\ Merging /\ ~LeftFirst /\ j < Len(right)
        /\ values' = [values EXCEPT ![k] = a]
        /\ j' = j + 1 /\ k' = k + 1 /\ i' = i
        /\ calls' = calls /\ left' = left /\ right' = right
    BY DEF TakeRight
  <1>2. /\ calls # <<>> /\ s \in Int /\ e \in Int /\ m \in Int /\ s <= m /\ m < e
        /\ left \in Seq(Elements) /\ right \in Seq(Elements)
        /\ Len(left) \in Nat /\ Len(right) \in Nat
        /\ i \in Nat /\ i <= Len(left) /\ j \in Nat /\ j <= Len(right)
        /\ Halves(left, right, s, m, e) /\ Written(values, s, e, left, right, i, j, k)
        /\ k = s + i + j /\ Len(left) + Len(right) = e - s + 1
        /\ \A x \in Elements : x.key \in Int /\ x.from \in Int
    BY <1>1, MergeFacts
  <1> HIDE DEF s, m, e
  <1>3. /\ j + 1 \in 1..Len(right) /\ a \in Elements
        /\ i < Len(left) => ~(left[i + 1].key <= a.key)
    BY <1>1, <1>2 DEF LeftFirst
  <1>4. k \in s..e
    BY <1>1, <1>2
  <1>5. /\ Segments(values', calls) /\ values' \in [Index -> Elements]
        /\ k + 1 \in 0..N /\ values'[k] = a
        /\ \A x \in s..e : x # k => values'[x] = values[x]
    BY <1>1, <1>3, <1>4, WriteKeeps DEF s, e
  <1>6. a.from \in s..e /\ a.key \in Int
    <2>1. \A x \in 1..Len(right) : right[x].from \in m + 1..e
      BY <1>2, Zenon DEF Halves
    <2>2. a.from \in m + 1..e
      BY <1>3, <2>1
    <2>3. \A x \in m + 1..e : x \in s..e
      BY <1>2
    <2> QED
      BY <1>3, <2>2, <2>3, ElementTypes
  <1>7. \A y \in j + 1 + 1..Len(right) : Before(a, right[y])
    BY <1>2, <1>3 DEF Halves, Ordered
  <1>8. ASSUME NEW y \in i + 1..Len(left) PROVE Before(a, left[y])
    <2>1. /\ i + 1 \in 1..Len(left) /\ y \in 1..Len(left) /\ i < Len(left)
          /\ i + 1 < y \/ y = i + 1
      BY <1>2
    <2>2. /\ left[i + 1] \in Elements /\ left[y] \in Elements
          /\ left[i + 1].key \in Int /\ left[y].key \in Int
      BY <1>2, <2>1, ElementTypes
    <2>3. left[i + 1].key <= left[y].key
      <3>1. CASE y = i + 1
        BY <1>2, <2>2, <3>1
      <3>2. CASE i + 1 < y
        <4>1. Before(left[i + 1], left[y])
          BY <1>2, <2>1, <3>2 DEF Halves, Ordered
        <4> QED
          BY <2>2, <4>1 DEF Before
      <3> QED
        BY <2>1, <3>1, <3>2
    <2>4. a.key < left[y].key
      <3>1. ~(left[i + 1].key <= a.key)
        BY <1>3, <2>1
      <3> HIDE DEF a
      <3> QED
        BY <1>6, <2>2, <2>3, <3>1
    <2> QED
      BY <2>4 DEF Before
  <1> HIDE DEF a
  <1>9. Written(values', s, e, left, right, i, j + 1, k + 1)
    <2>1. \/ i = i + 1 /\ j + 1 = j /\ a = left[i + 1] /\ i + 1 <= Len(left)
          \/ i = i /\ j + 1 = j + 1 /\ a = right[j + 1] /\ j + 1 <= Len(right)
      BY <1>2, <1>3 DEF a
    <2>2. /\ Ahead(a, left, i) /\ Ahead(a, right, j + 1)
          /\ WrittenAt(values', values, k, a, s, e)
      BY <1>5, <1>7, <1>8 DEF Ahead, WrittenAt
    <2>3. /\ s \in Int /\ e \in Int /\ i \in Nat /\ j \in Nat /\ a.from \in s..e
          /\ Len(left) \in Nat /\ Len(right) \in Nat
          /\ Written(values, s, e, left, right, i, j, k)
      BY <1>2, <1>6
    <2> QED
      BY <1>4, <2>1, <2>2, <2>3, TakeOne
  <1>10. TypeOK'
    <2>1. j' \in 0..Len(right') /\ i' \in 0..Len(left') /\ k' \in 0..N
      BY <1>1, <1>2, <1>5
    <2> QED
      BY <1>1, <1>5, <2>1 DEF SortInv, TypeOK
  <1> QED
    BY <1>1, <1>2, <1>5, <1>9, <1>10 DEF SortInv, Top, s, m, e

(* The merge is over and the call returns: its segment is sorted.          *)
LEMMA MergeReturnsInv == SortInv /\ MergeReturns => SortInv'
  <1> SUFFICES ASSUME SortInv, MergeReturns PROVE SortInv'
    OBVIOUS
  <1>1. /\ Merging /\ i = Len(left) /\ j = Len(right) /\ Return
        /\ left' = <<>> /\ right' = <<>> /\ i' = 0 /\ j' = 0 /\ k' = 0
        /\ values' = values
    BY DEF MergeReturns
  <1>2. /\ calls # <<>> /\ Top.start \in Int /\ Top.end \in Int /\ Mid(Top) \in Int
        /\ Top.start <= Mid(Top) /\ Mid(Top) < Top.end
        /\ Halves(left, right, Top.start, Mid(Top), Top.end)
        /\ Written(values, Top.start, Top.end, left, right, i, j, k)
    BY <1>1, MergeFacts
  <1>3. Done(values, Top.start, Top.end)
    BY <1>1, <1>2, AllWritten
  <1>4. TypeOK'
    <2>1. calls' \in Seq(Frame)
      BY <1>1, <1>2, Running DEF Return
    <2> QED
      BY <1>1, <2>1, NAssumption DEF SortInv, TypeOK, Frame
  <1> QED
    BY <1>1, <1>2, <1>3, <1>4, ReturnInv

-----------------------------------------------------------------------------
(* Every step keeps the invariant.                                         *)
THEOREM Invariance == Spec => []SortInv
  <1>1. SortInv /\ [Next]_sortVars => SortInv'
    <2> SUFFICES ASSUME SortInv, [Next]_sortVars PROVE SortInv'
      OBVIOUS
    <2>1. CASE UNCHANGED sortVars
      BY <2>1 DEF sortVars, merging, SortInv, TypeOK, Merging, Top
    <2> QED
      BY <2>1, TestBoundsInv, SortRightInv, CopyHalvesInv, TakeLeftInv,
         TakeRightInv, MergeReturnsInv DEF Next
  <1> QED
    BY InitInv, <1>1, PTL DEF Spec

(* Every index of merge_sort and merge is within its array.                *)
THEOREM TypeCorrect == Spec => []TypeOK
  BY Invariance, PTL DEF SortInv

(* What the invariant says of the halves.                                  *)
LEMMA HalvesFromInv == SortInv => HalvesSorted
  <1> SUFFICES ASSUME SortInv, NEW c \in DOMAIN calls
               PROVE  LET f == calls[c]
                          m == f.start + (f.end - f.start) \div 2
                      IN  /\ f.at \in {"right", "copy"} /\ c = 1 => SortedFrom(f.start, m)
                          /\ f.at = "copy" /\ c = 1 => SortedFrom(m + 1, f.end)
                          /\ f.at = "copy" /\ c > 1 => SortedFrom(f.start, m)
    BY DEF HalvesSorted
  <1>1. c \in 1..Len(calls)
    BY DEF SortInv, Stack
  <1>2. /\ calls[c].at = "right" /\ c = 1 => Done(values, calls[c].start, Mid(calls[c]))
        /\ calls[c].at = "copy" =>
             /\ Done(values, calls[c].start, Mid(calls[c]))
             /\ c = 1 => Done(values, Mid(calls[c]) + 1, calls[c].end)
    BY <1>1 DEF SortInv, Segments
  <1>3. \A a, b : Done(values, a, b) => SortedFrom(a, b)
    BY DEF Done, Ordered, SortedFrom
  <1> QED
    BY <1>2, <1>3 DEF Mid

(* What is written and what waits make up the segment of the merge.        *)
LEMMA ExactFromInv == SortInv => MergeExact
  <1> SUFFICES ASSUME SortInv, Merging PROVE MergeExact
    BY DEF MergeExact
  <1> DEFINE s == Top.start
             m == Mid(Top)
             e == Top.end
             W == {values[x].from : x \in s..k - 1}
             A == {left[x].from : x \in i + 1..Len(left)}
             B == {right[x].from : x \in j + 1..Len(right)}
  <1>1. /\ s \in Int /\ e \in Int /\ m \in Int /\ s <= m /\ m < e
        /\ Len(left) \in Nat /\ Len(right) \in Nat /\ i \in Nat /\ j \in Nat
        /\ Halves(left, right, s, m, e) /\ Written(values, s, e, left, right, i, j, k)
        /\ k = s + i + j
    BY MergeFacts
  <1> HIDE DEF s, m, e
  <1>2. W \cup A \cup B \subseteq s..e
    <2>1. W \subseteq s..e
      BY <1>1 DEF Written
    <2>2. A \subseteq s..m
      <3>1. \A x \in 1..Len(left) : left[x].from \in s..m
        BY <1>1, Zenon DEF Halves
      <3>2. \A x \in i + 1..Len(left) : x \in 1..Len(left)
        BY <1>1
      <3> QED
        BY <3>1, <3>2
    <2>3. B \subseteq m + 1..e
      <3>1. \A x \in 1..Len(right) : right[x].from \in m + 1..e
        BY <1>1, Zenon DEF Halves
      <3>2. \A x \in j + 1..Len(right) : x \in 1..Len(right)
        BY <1>1
      <3> QED
        BY <3>1, <3>2
    <2>4. s..m \subseteq s..e /\ m + 1..e \subseteq s..e
      BY <1>1
    <2> HIDE DEF W, A, B
    <2> QED
      BY <2>1, <2>2, <2>3, <2>4
  <1>3. ASSUME NEW n \in s..e PROVE n \in W \cup A \cup B
    <2>1. CASE n \in s..m
      <3>1. PICK x \in 1..Len(left) : left[x].from = n
        BY <1>1, <2>1 DEF Halves
      <3>2. CASE x \in 1..i
        <4>1. PICK y \in s..k - 1 : values[y].from = n
          BY <1>1, <3>1, <3>2 DEF Written
        <4> QED
          BY <4>1
      <3>3. CASE x \notin 1..i
        <4>1. x \in i + 1..Len(left)
          BY <1>1, <3>3
        <4> QED
          BY <3>1, <4>1
      <3> QED
        BY <3>2, <3>3
    <2>2. CASE n \notin s..m
      <3>1. n \in m + 1..e
        BY <1>1, <2>2
      <3>2. PICK x \in 1..Len(right) : right[x].from = n
        BY <1>1, <3>1 DEF Halves
      <3>3. CASE x \in 1..j
        <4>1. PICK y \in s..k - 1 : values[y].from = n
          BY <1>1, <3>2, <3>3 DEF Written
        <4> QED
          BY <4>1
      <3>4. CASE x \notin 1..j
        <4>1. x \in j + 1..Len(right)
          BY <1>1, <3>4
        <4> QED
          BY <3>2, <4>1
      <3> QED
        BY <3>3, <3>4
    <2> QED
      BY <2>1, <2>2
  <1>4. W \cup A \cup B = s..e
    BY <1>2, <1>3
  <1>5. Cardinality(s..e) = e - s + 1
    BY <1>1, FS_Interval
  <1>6. SortedFrom(s, k - 1)
    BY <1>1 DEF Written, Ordered, SortedFrom
  <1> QED
    BY <1>1, <1>4, <1>5, <1>6 DEF MergeExact, s, e

(* merge_sort of src/mergesort.c sorts: on arrays of any length and any    *)
(* ints its indices stay in bounds, its halves are sorted when they are    *)
(* merged, a merge loses and doubles nothing, and in the end the array is  *)
(* sorted, made of the elements that were there, and stable.               *)
THEOREM SortCorrect == Spec => []SortSound
  <1>1. SortInv => SortsStably
    <2> SUFFICES ASSUME SortInv, calls = <<>>
                 PROVE  /\ SortedFrom(0, N - 1)
                        /\ {values[x].from : x \in Index} = Index
      BY DEF SortsStably
    <2>1. Done(values, 0, N - 1)
      BY DEF SortInv
    <2> QED
      BY <2>1 DEF Done, Ordered, SortedFrom, Index
  <1>2. SortInv => SortSound
    BY <1>1, HalvesFromInv, ExactFromInv DEF SortInv, SortSound
  <1> QED
    BY Invariance, <1>2, PTL

-----------------------------------------------------------------------------
(* The request checks: DispatchProofs for each of the two limits on names. *)
LibraryProofs == INSTANCE DispatchProofs WITH MAX_NAME_SIZE <- FieldSize - 1
OlderProofs   == INSTANCE DispatchProofs WITH MAX_NAME_SIZE <- FieldSize

(* What the proofs say of the library's checks is about those of the run, *)
(* operator by operator.                                                  *)
LEMMA SameLibraryProofs == \A buf : LibraryProofs!ExactFor(buf) <=> Library!ExactFor(buf)
  <1>1. \A buf, a : LibraryProofs!Cell(buf, a) = Library!Cell(buf, a)
    BY DEF LibraryProofs!Cell, Library!Cell
  <1>2. /\ \A buf : LibraryProofs!opcode(buf) = Library!opcode(buf)
        /\ \A buf : LibraryProofs!username_len(buf) = Library!username_len(buf)
        /\ \A buf : LibraryProofs!password_len(buf) = Library!password_len(buf)
        /\ LibraryProofs!Data = Library!Data
        /\ LibraryProofs!LoginOpcodes = Library!LoginOpcodes
        /\ LibraryProofs!UserDelOpcodes = Library!UserDelOpcodes
        /\ LibraryProofs!LinkAddOpcodes = Library!LinkAddOpcodes
        /\ LibraryProofs!Printable = Library!Printable
    BY <1>1 DEF LibraryProofs!opcode, Library!opcode, LibraryProofs!username_len,
       Library!username_len, LibraryProofs!password_len, Library!password_len,
       LibraryProofs!Data, Library!Data, LibraryProofs!LoginOpcodes,
       Library!LoginOpcodes, LibraryProofs!UserDelOpcodes, Library!UserDelOpcodes,
       LibraryProofs!LinkAddOpcodes, Library!LinkAddOpcodes, LibraryProofs!Printable,
       Library!Printable
  <1>3. \A buf, a, n : LibraryProofs!Copied(buf, a, n) = Library!Copied(buf, a, n)
    BY <1>1 DEF LibraryProofs!Copied, Library!Copied
  <1>4. \A mem, at : LibraryProofs!strlen(mem, at) = Library!strlen(mem, at)
    BY DEF LibraryProofs!strlen, Library!strlen
  <1>5. /\ \A mem, at : LibraryProofs!is_ascii(mem, at) <=> Library!is_ascii(mem, at)
        /\ \A mem, at, n : LibraryProofs!GoodString(mem, at, n) <=> Library!GoodString(mem, at, n)
    BY <1>2, <1>4 DEF LibraryProofs!is_ascii, Library!is_ascii,
       LibraryProofs!GoodString, Library!GoodString
  <1>6. /\ \A buf : LibraryProofs!LengthsFit(buf) <=> Library!LengthsFit(buf)
        /\ \A buf : LibraryProofs!BothNames(buf) = Library!BothNames(buf)
    BY <1>2, <1>3 DEF LibraryProofs!LengthsFit, Library!LengthsFit,
       LibraryProofs!BothNames, Library!BothNames
  <1>7. \A buf, mem : LibraryProofs!BothGood(buf, mem) <=> Library!BothGood(buf, mem)
    BY <1>2, <1>5 DEF LibraryProofs!BothGood, Library!BothGood
  <1>8. \A buf : LibraryProofs!Weight(buf) = Library!Weight(buf)
    BY <1>1, <1>2 DEF LibraryProofs!Weight, Library!Weight
  <1>9. /\ \A buf : LibraryProofs!ValidLogin(buf) <=> Library!ValidLogin(buf)
        /\ \A buf : LibraryProofs!ValidUserDel(buf) <=> Library!ValidUserDel(buf)
        /\ \A buf : LibraryProofs!ValidLinkAdd(buf) <=> Library!ValidLinkAdd(buf)
    BY <1>2, <1>3, <1>5, <1>6, <1>7, <1>8 DEF LibraryProofs!ValidLogin,
       Library!ValidLogin, LibraryProofs!ValidUserDel, Library!ValidUserDel,
       LibraryProofs!ValidLinkAdd, Library!ValidLinkAdd
  <1>10. \A buf : LibraryProofs!process_data(buf) = Library!process_data(buf)
    BY <1>2, <1>9 DEF LibraryProofs!process_data, Library!process_data
  <1>11. \A buf : LibraryProofs!Names(buf) = Library!Names(buf)
    BY <1>2 DEF LibraryProofs!Names, Library!Names
  <1>12. \A buf : LibraryProofs!WellFormed(buf) <=> Library!WellFormed(buf)
    BY <1>1, <1>2, <1>11 DEF LibraryProofs!WellFormed, Library!WellFormed
  <1>13. \A buf : LibraryProofs!RoomForNul(buf) <=> Library!RoomForNul(buf)
    BY <1>2, <1>8, <1>11 DEF LibraryProofs!RoomForNul, Library!RoomForNul
  <1> QED
    BY <1>2, <1>10, <1>12, <1>13 DEF LibraryProofs!ExactFor, Library!ExactFor

(* And so for the older copy.                                              *)
LEMMA SameOlderProofs == \A buf : OlderProofs!ExactFor(buf) <=> Older!ExactFor(buf)
  <1>1. \A buf, a : OlderProofs!Cell(buf, a) = Older!Cell(buf, a)
    BY DEF OlderProofs!Cell, Older!Cell
  <1>2. /\ \A buf : OlderProofs!opcode(buf) = Older!opcode(buf)
        /\ \A buf : OlderProofs!username_len(buf) = Older!username_len(buf)
        /\ \A buf : OlderProofs!password_len(buf) = Older!password_len(buf)
        /\ OlderProofs!Data = Older!Data
        /\ OlderProofs!LoginOpcodes = Older!LoginOpcodes
        /\ OlderProofs!UserDelOpcodes = Older!UserDelOpcodes
        /\ OlderProofs!LinkAddOpcodes = Older!LinkAddOpcodes
        /\ OlderProofs!Printable = Older!Printable
    BY <1>1 DEF OlderProofs!opcode, Older!opcode, OlderProofs!username_len,
       Older!username_len, OlderProofs!password_len, Older!password_len,
       OlderProofs!Data, Older!Data, OlderProofs!LoginOpcodes, Older!LoginOpcodes,
       OlderProofs!UserDelOpcodes, Older!UserDelOpcodes, OlderProofs!LinkAddOpcodes,
       Older!LinkAddOpcodes, OlderProofs!Printable, Older!Printable
  <1>3. \A buf, a, n : OlderProofs!Copied(buf, a, n) = Older!Copied(buf, a, n)
    BY <1>1 DEF OlderProofs!Copied, Older!Copied
  <1>4. \A mem, at : OlderProofs!strlen(mem, at) = Older!strlen(mem, at)
    BY DEF OlderProofs!strlen, Older!strlen
  <1>5. /\ \A mem, at : OlderProofs!is_ascii(mem, at) <=> Older!is_ascii(mem, at)
        /\ \A mem, at, n : OlderProofs!GoodString(mem, at, n) <=> Older!GoodString(mem, at, n)
    BY <1>2, <1>4 DEF OlderProofs!is_ascii, Older!is_ascii, OlderProofs!GoodString,
       Older!GoodString
  <1>6. /\ \A buf : OlderProofs!LengthsFit(buf) <=> Older!LengthsFit(buf)
        /\ \A buf : OlderProofs!BothNames(buf) = Older!BothNames(buf)
    BY <1>2, <1>3 DEF OlderProofs!LengthsFit, Older!LengthsFit, OlderProofs!BothNames,
       Older!BothNames
  <1>7. \A buf, mem : OlderProofs!BothGood(buf, mem) <=> Older!BothGood(buf, mem)
    BY <1>2, <1>5 DEF OlderProofs!BothGood, Older!BothGood
  <1>8. \A buf : OlderProofs!Weight(buf) = Older!Weight(buf)
    BY <1>1, <1>2 DEF OlderProofs!Weight, Older!Weight
  <1>9. /\ \A buf : OlderProofs!ValidLogin(buf) <=> Older!ValidLogin(buf)
        /\ \A buf : OlderProofs!ValidUserDel(buf) <=> Older!ValidUserDel(buf)
        /\ \A buf : OlderProofs!ValidLinkAdd(buf) <=> Older!ValidLinkAdd(buf)
    BY <1>2, <1>3, <1>5, <1>6, <1>7, <1>8 DEF OlderProofs!ValidLogin, Older!ValidLogin,
       OlderProofs!ValidUserDel, Older!ValidUserDel, OlderProofs!ValidLinkAdd,
       Older!ValidLinkAdd
  <1>10. \A buf : OlderProofs!process_data(buf) = Older!process_data(buf)
    BY <1>2, <1>9 DEF OlderProofs!process_data, Older!process_data
  <1>11. \A buf : OlderProofs!Names(buf) = Older!Names(buf)
    BY <1>2 DEF OlderProofs!Names, Older!Names
  <1>12. \A buf : OlderProofs!WellFormed(buf) <=> Older!WellFormed(buf)
    BY <1>1, <1>2, <1>11 DEF OlderProofs!WellFormed, Older!WellFormed
  <1>13. \A buf : OlderProofs!RoomForNul(buf) <=> Older!RoomForNul(buf)
    BY <1>2, <1>8, <1>11 DEF OlderProofs!RoomForNul, Older!RoomForNul
  <1> QED
    BY <1>2, <1>10, <1>12, <1>13 DEF OlderProofs!ExactFor, Older!ExactFor

BufferGiven == buffer \in Buffers

(* A buffer is a sequence of naturals.                                     *)
LEMMA BuffersAre == Buffers \subseteq Seq(Nat)
  <1>1. ASSUME NEW op \in Nat, NEW u \in Nat, NEW p \in Nat, NEW n \in Nat, NEW d \in [1..n -> Bytes]
        PROVE  <<op, u, p>> \o d \in Seq(Nat)
    <2>1. d \in Seq(Nat)
      <3>1. d \in [1..n -> Nat]
        BY RequestsAssumption
      <3> QED
        BY <3>1
    <2>2. <<op, u, p>> \in Seq(Nat)
      OBVIOUS
    <2> QED
      BY <2>1, <2>2
  <1>2. ASSUME NEW b \in Headed PROVE b \in Seq(Nat)
    <2>1. PICK op \in {1, 4, 9, 13}, u \in 0..FieldSize + 1, p \in 0..FieldSize + 1,
               d \in Bodies : b = Request(op, u, p, d)
      BY <1>2 DEF Headed
    <2>2. PICK n \in 0..MaxData : d \in [1..n -> Bytes]
      BY <2>1 DEF Bodies
    <2>3. op \in Nat /\ u \in Nat /\ p \in Nat /\ n \in Nat
      BY <2>1, <2>2, RequestsAssumption
    <2>4. <<op, u, p>> \o d \in Seq(Nat)
      BY <1>1, <2>2, <2>3
    <2> QED
      BY <2>1, <2>4 DEF Request
  <1>3. Headless \subseteq Seq(Nat)
    <2>1. <<>> \in Seq(Nat) /\ <<1>> \in Seq(Nat) /\ <<9, 1>> \in Seq(Nat)
      OBVIOUS
    <2> QED
      BY <2>1 DEF Headless
  <1> QED
    BY <1>2, <1>3 DEF Buffers

(* The checks of both versions are exact, for fields of every size and any *)
(* bytes: of the run's inputs they let the well-formed ones through that   *)
(* have room for their terminators.                                        *)
THEOREM RequestsJudgedExactly == ProgramsSpec => []ChecksExact
  <1>1. ProgramsInit => BufferGiven
    <2>1. <<>> \in Buffers
      BY DEF Buffers, Headless
    <2> QED
      BY <2>1 DEF ProgramsInit, BufferGiven
  <1>2. BufferGiven /\ [ProgramsNext]_allVars => BufferGiven'
    BY DEF BufferGiven, ProgramsNext, StepTree, StepSort, Judge, Finished, allVars, requestVars
  <1>3. BufferGiven => ChecksExact
    <2>1. SUFFICES ASSUME BufferGiven PROVE ChecksExact
      OBVIOUS
    <2>2. buffer \in Seq(Nat)
      BY <2>1, BuffersAre DEF BufferGiven
    <2>3. /\ FieldSize \in Nat /\ FieldSize - 1 \in Nat
          /\ FieldSize - 1 <= FieldSize /\ FieldSize <= FieldSize
      BY RequestsAssumption
    <2>4. LibraryProofs!ExactFor(buffer)
      BY <2>2, <2>3, LibraryProofs!ChecksAreExact
    <2>5. OlderProofs!ExactFor(buffer)
      BY <2>2, <2>3, OlderProofs!ChecksAreExact
    <2> QED
      BY <2>4, <2>5, SameLibraryProofs, SameOlderProofs DEF ChecksExact
  <1> QED
    BY <1>1, <1>2, <1>3, PTL DEF ProgramsSpec
=============================================================================
