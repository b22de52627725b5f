----------------------------- MODULE DiagramProofs -----------------------------
(***************************************************************************)
(* The paths of a diagram, arrow by arrow: what the proofs that a machine  *)
(* follows its diagram need to know of Paths.                              *)
(***************************************************************************)
EXTENDS StateDiagrams, TLAPS

\* The ways of one arrow, and those of one more arrow through logic.
Starts(d) == {Hop(a) : a \in {b \in d.arrows : b[1] \in d.seq}}
Longer(d, short) ==
  short \union
    UNION {{Onward(p, a) : a \in {b \in d.arrows : b[1] = p.to}} :
           p \in {q \in short : q.to \notin d.seq}}

\* There is a way from s to t that meets the labels in L.
HasPath(d, s, L, t) == \E p \in Paths(d) : p.from = s /\ p.to = t /\ p.labels = L

\* Paths is what its recursion comes to.
LEMMA PathsUnrolled ==
  ASSUME NEW d
  PROVE  Paths(d) = {p \in Longer(d, Longer(d, Longer(d, Starts(d)))) : p.to \in d.seq}
<1> DEFINE F(f) == [n \in 0 .. MaxLogic |->
                      IF n = 0 THEN Starts(d) ELSE Longer(d, f[n - 1])]
           g == CHOOSE f : f = F(f)
<1>1. Paths(d) = {p \in g[MaxLogic] : p.to \in d.seq}
  BY DEF Paths, Starts, Longer
<1>2. g = F(g)
  <2> DEFINE s1 == Longer(d, Starts(d))
             s2 == Longer(d, s1)
             s3 == Longer(d, s2)
             h == [n \in 0 .. 3 |-> IF n = 0 THEN Starts(d) ELSE IF n = 1 THEN s1
                                    ELSE IF n = 2 THEN s2 ELSE s3]
  <2>1. h[0] = Starts(d) /\ h[1] = s1 /\ h[2] = s2 /\ h[3] = s3
    OBVIOUS
  <2>2. \A n \in 0 .. 3 : h[n] = IF n = 0 THEN Starts(d) ELSE Longer(d, h[n - 1])
    <3>1. \A n \in 0 .. 3 : n = 0 \/ n = 1 \/ n = 2 \/ n = 3
      OBVIOUS
    <3> HIDE DEF h
    <3>2. /\ h[1] = Longer(d, h[0]) /\ h[2] = Longer(d, h[1]) /\ h[3] = Longer(d, h[2])
      BY <2>1
    <3>3. 1 - 1 = 0 /\ 2 - 1 = 1 /\ 3 - 1 = 2
      OBVIOUS
    <3> QED BY <2>1, <3>1, <3>2, <3>3
  <2>3. h = F(h)
    BY <2>2 DEF MaxLogic
  <2> QED BY <2>3
<1>3. g[0] = Starts(d) /\ \A n \in 1 .. 3 : g[n] = Longer(d, g[n - 1])
  <2> HIDE DEF g
  <2>1. \A n \in 0 .. 3 : F(g)[n] = IF n = 0 THEN Starts(d) ELSE Longer(d, g[n - 1])
    BY DEF MaxLogic
  <2> HIDE DEF F
  <2>2. \A n \in 0 .. 3 : g[n] = IF n = 0 THEN Starts(d) ELSE Longer(d, g[n - 1])
    BY <1>2, <2>1
  <2> QED BY <2>2
<1> HIDE DEF g
<1>4. g[1] = Longer(d, g[0]) /\ g[2] = Longer(d, g[1]) /\ g[3] = Longer(d, g[2])
  <2>1. 1 \in 1 .. 3 /\ 2 \in 1 .. 3 /\ 3 \in 1 .. 3
    OBVIOUS
  <2>2. 1 - 1 = 0 /\ 2 - 1 = 1 /\ 3 - 1 = 2
    OBVIOUS
  <2> QED BY <1>3, <2>1, <2>2
<1> QED BY <1>1, <1>3, <1>4 DEF MaxLogic

\* Two states that an arrow joins.
LEMMA OneArrow ==
  ASSUME NEW d, NEW s, NEW t, NEW l, s \in d.seq, t \in d.seq, <<s, l, t>> \in d.arrows
  PROVE  HasPath(d, s, {l}, t)
<1> DEFINE a == <<s, l, t>>
           p == Hop(a)
<1>1. p = [from |-> s, labels |-> {l}, to |-> t]
  BY DEF Hop
<1>2. p \in Starts(d)
  BY DEF Starts
<1> HIDE DEF p
<1>3. p \in Longer(d, Longer(d, Longer(d, Starts(d))))
  BY <1>2 DEF Longer
<1> QED BY <1>1, <1>3, PathsUnrolled DEF HasPath

LEMMA PathExtended ==
  ASSUME NEW d, NEW short, NEW p \in short, p.to \notin d.seq,
         NEW a \in d.arrows, a[1] = p.to
  PROVE  Onward(p, a) \in Longer(d, short)
BY DEF Longer

\* Two states with logic between them.
LEMMA TwoArrows ==
  ASSUME NEW d, NEW s, NEW c, NEW t, NEW l, NEW m,
         s \in d.seq, c \notin d.seq, t \in d.seq,
         <<s, l, c>> \in d.arrows, <<c, m, t>> \in d.arrows
  PROVE  HasPath(d, s, {l, m}, t)
<1> DEFINE a == <<s, l, c>>
           b == <<c, m, t>>
           p == Hop(a)
           q == Onward(p, b)
<1>1. p = [from |-> s, labels |-> {l}, to |-> c]
  BY DEF Hop
<1>2. p \in Starts(d)
  BY DEF Starts
<1> HIDE DEF p
<1>3. q = [from |-> s, labels |-> {l, m}, to |-> t]
  BY <1>1 DEF Onward
<1>4. q \in Longer(d, Starts(d))
  BY <1>1, <1>2, PathExtended
<1> HIDE DEF q
<1>5. q \in Longer(d, Longer(d, Longer(d, Starts(d))))
  BY <1>4 DEF Longer
<1> QED BY <1>3, <1>5, PathsUnrolled DEF HasPath

\* Two states with two stages of logic between them.
LEMMA ThreeArrows ==
  ASSUME NEW d, NEW s, NEW c, NEW e, NEW t, NEW l, NEW m, NEW n,
         s \in d.seq, c \notin d.seq, e \notin d.seq, t \in d.seq,
         <<s, l, c>> \in d.arrows, <<c, m, e>> \in d.arrows, <<e, n, t>> \in d.arrows
  PROVE  HasPath(d, s, {l, m, n}, t)
<1> DEFINE p == Hop(<<s, l, c>>)
           q == Onward(p, <<c, m, e>>)
           r == Onward(q, <<e, n, t>>)
<1>1. p = [from |-> s, labels |-> {l}, to |-> c]
  BY DEF Hop
<1>2. p \in Starts(d)
  BY DEF Starts
<1> HIDE DEF p
<1>3. q = [from |-> s, labels |-> {l} \union {m}, to |-> e]
  BY <1>1 DEF Onward
<1>4. q \in Longer(d, Starts(d))
  BY <1>1, <1>2, PathExtended
<1> HIDE DEF q
<1>5. r = [from |-> s, labels |-> ({l} \union {m}) \union {n}, to |-> t]
  BY <1>3 DEF Onward
<1>6. r \in Longer(d, Longer(d, Starts(d)))
  BY <1>3, <1>4, PathExtended
<1> HIDE DEF r
<1>7. r \in Longer(d, Longer(d, Longer(d, Starts(d))))
  BY <1>6 DEF Longer
<1> QED BY <1>5, <1>7, PathsUnrolled DEF HasPath

===============================================================================
