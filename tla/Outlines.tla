------------------------------- MODULE Outlines -------------------------------
(***************************************************************************)
(* Outlines of programs that are sequences of steps, as the programs of    *)
(* SamplePrograms are.  Rule(a, x, b, p) says that a step x may be taken   *)
(* when a is known, that b is known after it, and that it is followed by   *)
(* the steps p, before those that came after x: by none, except where x is *)
(* an `if' or a `while'.  An outline of a program from a to c is a set of  *)
(* what is known with what is left to do, which has a with the program,    *)
(* what follows by the rule from all that it has, and nothing but c where  *)
(* nothing is left.  Outlines are put together as programs are: one after  *)
(* the other, and for a loop one for each turn.  The parts of ForEach are  *)
(* joined by induction over their number: over a set of numbers, with the  *)
(* least one outside of it.                                                *)
(***************************************************************************)
EXTENDS Integers, Sequences, WellFoundedInduction, TLAPS

CONSTANT Rule(_, _, _, _)

IsSteps(s) == s \in Seq({s[i] : i \in DOMAIN s})
\* What is known and left to do, closed under the steps to be taken.
Follows(G, g) ==
  \E b, p : IsSteps(p) /\ Rule(g[1], Head(g[2]), b, p) /\ <<b, p \o Tail(g[2])>> \in G
Closed(G) == \A g \in G : IsSteps(g[2]) /\ (g[2] # <<>> => Follows(G, g))
EndsIn(G, c) == \A g \in G : g[2] = <<>> => g[1] = c
Outline(a, s, c) == \E G : Closed(G) /\ EndsIn(G, c) /\ <<a, s>> \in G

\* A sequence over any set is a sequence of steps.
LEMMA SeqIsSteps == ASSUME NEW S, NEW s \in Seq(S) PROVE IsSteps(s)
<1> DEFINE R == {s[j] : j \in DOMAIN s}
<1>1. Len(s) \in Nat /\ DOMAIN s = 1 .. Len(s) /\ s = [i \in 1 .. Len(s) |-> s[i]]
  OBVIOUS
<1>2. \A i \in 1 .. Len(s) : s[i] \in R
  BY <1>1
<1> HIDE DEF R
<1>3. s \in Seq(R)
  BY <1>1, <1>2
<1> QED
  BY <1>3 DEF IsSteps, R

\* What the provers need of a sequence of steps.
LEMMA IsStepsProps ==
  ASSUME NEW s, IsSteps(s)
  PROVE  Len(s) \in Nat /\ DOMAIN s = 1 .. Len(s) /\ s = [i \in 1 .. Len(s) |-> s[i]]
BY DEF IsSteps

\* Two sequences of steps, one after the other.
LEMMA ConcatIs ==
  ASSUME NEW s, NEW t, IsSteps(s), IsSteps(t)
  PROVE  /\ IsSteps(s \o t) /\ Len(s \o t) = Len(s) + Len(t)
         /\ \A i \in 1 .. Len(s) : (s \o t)[i] = s[i]
         /\ \A i \in 1 .. Len(t) : (s \o t)[Len(s) + i] = t[i]
<1> DEFINE S == {s[i] : i \in DOMAIN s}
           T == {t[i] : i \in DOMAIN t}
           r == s \o t
<1>1. s \in Seq(S) /\ t \in Seq(T) BY DEF IsSteps
<1> HIDE DEF S, T
<1>2. s \in Seq(S \cup T) /\ t \in Seq(S \cup T) BY <1>1
<1>3. /\ r \in Seq(S \cup T) /\ Len(r) = Len(s) + Len(t)
      /\ \A i \in 1 .. Len(s) : r[i] = s[i]
      /\ \A i \in 1 .. Len(t) : r[Len(s) + i] = t[i]
  BY <1>2
<1> HIDE DEF r
<1>4. IsSteps(r)
  BY <1>3, SeqIsSteps
<1> QED BY <1>3, <1>4 DEF r

\* One step.
LEMMA SingleStep == ASSUME NEW x PROVE IsSteps(<<x>>) /\ <<x>> # <<>> /\ Head(<<x>>) = x /\ Tail(<<x>>) = <<>>
<1>1. \A S : x \in S => <<x>> \in Seq(S) OBVIOUS
<1>2. x \in {<<x>>[i] : i \in DOMAIN <<x>>} OBVIOUS
<1>3. <<x>> # <<>> /\ Head(<<x>>) = x /\ Tail(<<x>>) = <<>> OBVIOUS
<1> QED BY <1>1, <1>2, <1>3 DEF IsSteps

\* No step.
LEMMA NoSteps == IsSteps(<<>>)
<1>1. <<>> \in Seq({<<>>[i] : i \in DOMAIN <<>>}) OBVIOUS
<1> QED BY <1>1 DEF IsSteps

\* The empty sequence adds nothing.
LEMMA ConcatEmpty == ASSUME NEW s, IsSteps(s) PROVE s \o <<>> = s /\ <<>> \o s = s
<1> DEFINE S == {s[i] : i \in DOMAIN s}
<1>1. s \in Seq(S) BY DEF IsSteps
<1> HIDE DEF S
<1> QED BY <1>1

\* Three sequences of steps.
LEMMA ConcatAssoc ==
  ASSUME NEW r, NEW s, NEW t, IsSteps(r), IsSteps(s), IsSteps(t)
  PROVE  (r \o s) \o t = r \o (s \o t)
<1> DEFINE R == {r[i] : i \in DOMAIN r}
           S == {s[i] : i \in DOMAIN s}
           T == {t[i] : i \in DOMAIN t}
           U == R \cup S \cup T
<1>1. r \in Seq(R) /\ s \in Seq(S) /\ t \in Seq(T) BY DEF IsSteps
<1> HIDE DEF R, S, T
<1>2. r \in Seq(U) /\ s \in Seq(U) /\ t \in Seq(U) BY <1>1
<1> HIDE DEF U
<1> QED BY <1>2

\* A sequence of steps that is not empty, and another one behind it.
LEMMA ConcatHead ==
  ASSUME NEW s, NEW t, IsSteps(s), IsSteps(t), s # <<>>
  PROVE  IsSteps(Tail(s)) /\ s \o t # <<>> /\ Head(s \o t) = Head(s) /\ Tail(s \o t) = Tail(s) \o t
<1> DEFINE S == {s[i] : i \in DOMAIN s}
           T == {t[i] : i \in DOMAIN t}
           U == S \cup T
<1>1. s \in Seq(S) /\ t \in Seq(T) BY DEF IsSteps
<1> HIDE DEF S, T
<1>2. s \in Seq(U) /\ t \in Seq(U) BY <1>1
<1> HIDE DEF U
<1>3. Tail(s) \in Seq(U) BY <1>2
<1>4. IsSteps(Tail(s)) BY <1>3, SeqIsSteps
<1>5. s \o t # <<>> /\ Head(s \o t) = Head(s) /\ Tail(s \o t) = Tail(s) \o t BY <1>2
<1> QED BY <1>4, <1>5

\* An outline is one of a sequence of steps.
LEMMA OutlineIsSteps == ASSUME NEW a, NEW s, NEW c, Outline(a, s, c) PROVE IsSteps(s)
BY DEF Outline, Closed

\* A program of no step keeps what is known.
LEMMA OutlineEmpty == ASSUME NEW a PROVE Outline(a, <<>>, a)
<1> DEFINE G == {<<a, <<>>>>}
<1>1. Closed(G) BY NoSteps DEF Closed
<1>2. EndsIn(G, a) BY DEF EndsIn
<1> QED BY <1>1, <1>2 DEF Outline

\* A program of one step, and what it makes the program do.
LEMMA OutlineJump ==
  ASSUME NEW a, NEW x, NEW b, NEW p, NEW c, Rule(a, x, b, p), Outline(b, p, c)
  PROVE  Outline(a, <<x>>, c)
<1>1. PICK H : Closed(H) /\ EndsIn(H, c) /\ <<b, p>> \in H BY DEF Outline
<1>2. IsSteps(p) BY OutlineIsSteps
<1>3. p \o Tail(<<x>>) = p BY <1>2, ConcatEmpty, SingleStep
<1> DEFINE g == <<a, <<x>>>>
           G == H \cup {g}
<1>4. g[1] = a /\ g[2] = <<x>> OBVIOUS
<1>5. Follows(G, g) BY <1>1, <1>2, <1>3, <1>4, SingleStep DEF Follows
<1>6. IsSteps(g[2]) /\ g[2] # <<>> BY <1>4, SingleStep
<1> HIDE DEF g
<1>7. \A h \in H : Follows(H, h) => Follows(G, h) BY DEF Follows
<1>8. Closed(G) BY <1>1, <1>5, <1>6, <1>7 DEF Closed
<1>9. EndsIn(G, c) BY <1>1, <1>6 DEF EndsIn
<1> HIDE DEF G
<1>10. g \in G BY DEF G
<1> QED BY <1>8, <1>9, <1>10 DEF Outline, g

\* A program of one step.
LEMMA OutlineStep == ASSUME NEW a, NEW x, NEW b, Rule(a, x, b, <<>>) PROVE Outline(a, <<x>>, b)
BY OutlineJump, OutlineEmpty

\* What is left to do, with t behind it.
Behind(H, t) == {<<g[1], g[2] \o t>> : g \in H}

LEMMA BehindHas ==
  ASSUME NEW H, NEW a, NEW s, NEW t, <<a, s>> \in H PROVE <<a, s \o t>> \in Behind(H, t)
<1> DEFINE g == <<a, s>>
<1>1. g[1] = a /\ g[2] = s /\ g \in H OBVIOUS
<1> HIDE DEF g
<1>2. <<g[1], g[2] \o t>> \in Behind(H, t) BY <1>1, Zenon DEF Behind
<1> QED BY <1>1, <1>2, Zenon

\* The steps of a program are the same with another one behind it.
LEMMA BehindFollows ==
  ASSUME NEW H, Closed(H), NEW t, IsSteps(t), NEW g \in H, g[2] # <<>>
  PROVE  LET h == <<g[1], g[2] \o t>>
         IN  IsSteps(h[2]) /\ h[2] # <<>> /\ \A G : Behind(H, t) \subseteq G => Follows(G, h)
<1> DEFINE h == <<g[1], g[2] \o t>>
<1>1. h[1] = g[1] /\ h[2] = g[2] \o t OBVIOUS
<1> HIDE DEF h
<1>2. IsSteps(g[2]) /\ Follows(H, g) BY DEF Closed
<1>3. PICK b, p : IsSteps(p) /\ Rule(g[1], Head(g[2]), b, p) /\ <<b, p \o Tail(g[2])>> \in H
  BY <1>2 DEF Follows
<1>4. /\ IsSteps(Tail(g[2])) /\ g[2] \o t # <<>> /\ Head(g[2] \o t) = Head(g[2])
      /\ Tail(g[2] \o t) = Tail(g[2]) \o t
  BY <1>2, ConcatHead
<1>5. (p \o Tail(g[2])) \o t = p \o Tail(h[2])
  <2>1. (p \o Tail(g[2])) \o t = p \o (Tail(g[2]) \o t)
    <3>1. PICK q : q = Tail(g[2]) OBVIOUS
    <3>2. IsSteps(p) /\ IsSteps(q) BY <1>3, <1>4, <3>1
    <3>3. (p \o q) \o t = p \o (q \o t) BY <3>2, ConcatAssoc
    <3> QED BY <3>1, <3>3, Zenon
  <2>2. Tail(h[2]) = Tail(g[2]) \o t BY <1>1, <1>4, Zenon
  <2> QED BY <2>1, <2>2, Zenon
<1>6. IsSteps(h[2]) /\ h[2] # <<>> BY <1>1, <1>2, <1>4, ConcatIs
<1>7. ASSUME NEW G, Behind(H, t) \subseteq G PROVE Follows(G, h)
  <2>1. <<b, (p \o Tail(g[2])) \o t>> \in Behind(H, t) BY <1>3, BehindHas
  <2>2. <<b, p \o Tail(h[2])>> \in G BY <2>1, <1>5, <1>7
  <2>3. Rule(h[1], Head(h[2]), b, p) BY <1>1, <1>3, <1>4
  <2> QED BY <1>3, <2>2, <2>3 DEF Follows
<1> QED BY <1>6, <1>7 DEF h

\* Two programs, one after the other.
LEMMA OutlineConcat ==
  ASSUME NEW a, NEW s, NEW b, NEW t, NEW c, Outline(a, s, b), Outline(b, t, c)
  PROVE  Outline(a, s \o t, c)
<1>1. PICK H : Closed(H) /\ EndsIn(H, b) /\ <<a, s>> \in H BY DEF Outline
<1>2. PICK K : Closed(K) /\ EndsIn(K, c) /\ <<b, t>> \in K BY DEF Outline
<1>3. IsSteps(t) BY OutlineIsSteps
<1> DEFINE G == K \cup Behind(H, t)
<1>4. ASSUME NEW g \in H PROVE <<g[1], g[2] \o t>> \in K \/ g[2] # <<>>
  <2> SUFFICES ASSUME g[2] = <<>> PROVE <<g[1], g[2] \o t>> \in K OBVIOUS
  <2>1. g[1] = b /\ g[2] \o t = t BY <1>1, <1>3, ConcatEmpty DEF EndsIn
  <2> QED BY <2>1, <1>2
<1>5. \A h \in K : Follows(K, h) => Follows(G, h) BY DEF Follows
<1>6. ASSUME NEW h \in G PROVE IsSteps(h[2]) /\ (h[2] # <<>> => Follows(G, h))
  <2>1. CASE h \in K BY <2>1, <1>2, <1>5 DEF Closed
  <2>2. CASE h \in Behind(H, t) /\ h \notin K
    <3>1. PICK g \in H : h = <<g[1], g[2] \o t>> BY <2>2 DEF Behind
    <3>2. g[2] # <<>> BY <2>2, <3>1, <1>4
    <3>3. Behind(H, t) \subseteq G OBVIOUS
    <3> HIDE DEF G
    <3> QED BY <1>1, <1>3, <3>1, <3>2, <3>3, BehindFollows
  <2> QED BY <2>1, <2>2
<1>7. Closed(G) BY <1>6 DEF Closed
<1>8. EndsIn(G, c)
  <2> SUFFICES ASSUME NEW h \in G, h[2] = <<>> PROVE h[1] = c BY DEF EndsIn
  <2>1. CASE h \in K BY <2>1, <1>2 DEF EndsIn
  <2>2. CASE h \in Behind(H, t) /\ h \notin K
    <3>1. PICK g \in H : h = <<g[1], g[2] \o t>> BY <2>2 DEF Behind
    <3>2. g[2] # <<>> BY <2>2, <3>1, <1>4
    <3>3. h[2] # <<>> BY <1>1, <1>3, <3>1, <3>2, BehindFollows
    <3> QED BY <3>3
  <2> QED BY <2>1, <2>2
<1>9. <<a, s \o t>> \in G BY <1>1, BehindHas
<1> QED BY <1>7, <1>8, <1>9 DEF Outline

\* A loop, at its `while' x: in each of the states K[i] it is left, or the body is done again,
\* which leads to another one of them.
LEMMA OutlineLoop ==
  ASSUME NEW I, NEW K, NEW x, NEW body, NEW c, IsSteps(body),
         \A i \in I : \/ Rule(K[i], x, c, <<>>)
                      \/ /\ Rule(K[i], x, K[i], body \o <<x>>)
                         /\ \E j \in I : Outline(K[i], body, K[j])
  PROVE  \A i \in I : Outline(K[i], <<x>>, c)
<1> DEFINE Turn(i, G) == Closed(G) /\ <<K[i], body>> \in G /\ \E j \in I : EndsIn(G, K[j])
           J == {i \in I : \E G : Turn(i, G)}
           T(i) == CHOOSE G : Turn(i, G)
           H == UNION {T(i) : i \in J}
           W == {<<K[i], <<x>>>> : i \in I}
           G == W \cup {<<c, <<>>>>} \cup Behind(H, <<x>>)
<1>1. \A i \in J : Turn(i, T(i)) OBVIOUS
<1>2. ASSUME NEW g \in H PROVE \E i \in J : g \in T(i) /\ Turn(i, T(i)) BY <1>1
<1>3. Closed(H)
  <2> SUFFICES ASSUME NEW g \in H PROVE IsSteps(g[2]) /\ (g[2] # <<>> => Follows(H, g)) BY DEF Closed
  <2>1. PICK i \in J : g \in T(i) /\ Turn(i, T(i)) BY <1>2
  <2>2. T(i) \subseteq H OBVIOUS
  <2>3. IsSteps(g[2]) /\ (g[2] # <<>> => Follows(T(i), g)) BY <2>1 DEF Closed
  <2> HIDE DEF T, H
  <2> QED BY <2>2, <2>3 DEF Follows
<1>4. ASSUME NEW g \in H, g[2] = <<>> PROVE \E j \in I : g[1] = K[j]
  <2>1. PICK i \in J : g \in T(i) /\ Turn(i, T(i)) BY <1>2
  <2> QED BY <2>1, <1>4 DEF EndsIn
<1>5. \A i \in J : <<K[i], body>> \in H BY <1>1
<1>6. \A i \in I : Rule(K[i], x, c, <<>>) \/ (Rule(K[i], x, K[i], body \o <<x>>) /\ i \in J)
  BY DEF Outline
<1> HIDE DEF J, T, H
<1>7. IsSteps(<<x>>) /\ <<x>> # <<>> /\ Head(<<x>>) = x /\ Tail(<<x>>) = <<>> /\ IsSteps(body \o <<x>>)
  BY SingleStep, ConcatIs
<1>8. (body \o <<x>>) \o <<>> = body \o <<x>> /\ <<>> \o <<>> = <<>> BY <1>7, ConcatEmpty, NoSteps
<1>9. ASSUME NEW i \in I PROVE LET g == <<K[i], <<x>>>> IN IsSteps(g[2]) /\ g[2] # <<>> /\ Follows(G, g)
  <2> DEFINE g == <<K[i], <<x>>>>
  <2>1. g[1] = K[i] /\ g[2] = <<x>> OBVIOUS
  <2> HIDE DEF g
  <2>2. CASE Rule(K[i], x, c, <<>>)
    <3>1. <<c, <<>> \o <<>>>> \in G BY <1>8
    <3> HIDE DEF G
    <3> QED BY <2>1, <2>2, <3>1, <1>7, NoSteps DEF Follows, g
  <2>3. CASE Rule(K[i], x, K[i], body \o <<x>>) /\ i \in J
    <3>1. <<K[i], body \o <<x>>>> \in Behind(H, <<x>>) BY <2>3, <1>5, BehindHas
    <3>2. <<K[i], (body \o <<x>>) \o <<>>>> \in G BY <3>1, <1>8
    <3> HIDE DEF G
    <3> QED BY <2>1, <2>3, <3>2, <1>7 DEF Follows, g
  <2> QED BY <2>2, <2>3, <1>6
<1>10. ASSUME NEW g \in H, g[2] = <<>> PROVE <<g[1], g[2] \o <<x>>>> \in W
  BY <1>4, <1>7, <1>10, ConcatEmpty
<1>11. ASSUME NEW h \in G
       PROVE  /\ IsSteps(h[2]) /\ (h[2] # <<>> => Follows(G, h)) /\ (h[2] = <<>> => h[1] = c)
  <2>1. CASE h \in W BY <2>1, <1>9
  <2>2. CASE h = <<c, <<>>>> BY <2>2, NoSteps
  <2>3. CASE h \in Behind(H, <<x>>) /\ h \notin W
    <3>1. PICK g \in H : h = <<g[1], g[2] \o <<x>>>> BY <2>3 DEF Behind
    <3>2. g[2] # <<>> BY <2>3, <3>1, <1>10
    <3>3. Behind(H, <<x>>) \subseteq G OBVIOUS
    <3> HIDE DEF G, W
    <3> QED BY <1>3, <1>7, <3>1, <3>2, <3>3, BehindFollows
  <2> QED BY <2>1, <2>2, <2>3
<1>12. Closed(G) /\ EndsIn(G, c) BY <1>11 DEF Closed, EndsIn
<1>13. ASSUME NEW i \in I PROVE <<K[i], <<x>>>> \in G OBVIOUS
<1> HIDE DEF G
<1> QED BY <1>12, <1>13 DEF Outline

\* The first step of a program, and the rest.
LEMMA OutlineHead ==
  ASSUME NEW a, NEW s, NEW c, Outline(a, s, c), s # <<>>
  PROVE  \E b, p : IsSteps(p) /\ Rule(a, Head(s), b, p) /\ Outline(b, p \o Tail(s), c)
<1>1. PICK G : Closed(G) /\ EndsIn(G, c) /\ <<a, s>> \in G BY DEF Outline
<1> DEFINE g == <<a, s>>
<1>2. g[1] = a /\ g[2] = s OBVIOUS
<1> HIDE DEF g
<1>3. Follows(G, g) BY <1>1, <1>2 DEF Closed, g
<1>4. PICK b, p : IsSteps(p) /\ Rule(a, Head(s), b, p) /\ <<b, p \o Tail(s)>> \in G
  BY <1>2, <1>3 DEF Follows
<1> QED BY <1>1, <1>4 DEF Outline

\* Nothing left to do: what is known is what the program ends with.
LEMMA OutlineEnd == ASSUME NEW a, NEW b, Outline(a, <<>>, b) PROVE a = b
BY DEF Outline, EndsIn

\* A set that lacks a number lacks a least one.
LEMMA LeastOutside ==
  ASSUME NEW S, NEW n \in Nat, n \notin S
  PROVE  \E m \in Nat : m \notin S /\ \A k \in Nat : k < m => k \in S
<1> DEFINE R == OpToRel(<, Nat)
           T == Nat \ S
<1>1. IsWellFoundedOn(R, Nat) BY NatLessThanWellFounded
<1>2. T \subseteq Nat /\ T # {} OBVIOUS
<1> HIDE DEF R, T
<1>3. PICK m \in T : \A y \in T : ~ (<<y, m>> \in R) BY <1>1, <1>2, WFMin
<1>4. \A y \in T : ~(y < m) BY <1>3, <1>2 DEF R, OpToRel
<1> QED BY <1>3, <1>4 DEF T

\* Induction over the numbers, with a set in the place of the formula.
LEMMA SetInduction ==
  ASSUME NEW S, 0 \in S, \A n \in Nat : n \in S => n + 1 \in S
  PROVE  Nat \subseteq S
<1> SUFFICES ASSUME NEW n \in Nat, n \notin S PROVE FALSE OBVIOUS
<1>1. PICK m \in Nat : m \notin S /\ \A k \in Nat : k < m => k \in S BY LeastOutside
<1>2. m # 0 BY <1>1
<1>3. m - 1 \in Nat /\ m - 1 < m /\ (m - 1) + 1 = m BY <1>2
<1> QED BY <1>1, <1>3

Joined(p, n, h) == h = [i \in 0 .. n |-> IF i = 0 THEN <<>> ELSE h[i - 1] \o p[i]]

\* The parts p[1] .. p[n] can be joined.
LEMMA JoinedExists ==
  ASSUME NEW p
  PROVE  \A n \in Nat : \E h : Joined(p, n, h)
<1> DEFINE S == {m \in Nat : \E h : Joined(p, m, h)}
<1>1. \E h : Joined(p, 0, h)
  <2> DEFINE f == [i \in 0 .. 0 |-> <<>>]
  <2>1. f = [i \in 0 .. 0 |-> IF i = 0 THEN <<>> ELSE f[i - 1] \o p[i]] OBVIOUS
  <2>2. Joined(p, 0, f) BY <2>1 DEF Joined
  <2> HIDE DEF f
  <2> QED BY <2>2
<1>2. ASSUME NEW m \in Nat, \E h : Joined(p, m, h) PROVE \E h : Joined(p, m + 1, h)
  <2>1. PICK f : Joined(p, m, f) BY <1>2
  <2>2. f = [i \in 0 .. m |-> IF i = 0 THEN <<>> ELSE f[i - 1] \o p[i]] BY <2>1 DEF Joined
  <2> DEFINE g == [i \in 0 .. m + 1 |-> IF i = m + 1 THEN f[m] \o p[m + 1] ELSE f[i]]
  <2>3. ASSUME NEW i \in 0 .. m + 1 PROVE g[i] = IF i = 0 THEN <<>> ELSE g[i - 1] \o p[i]
    <3>1. CASE i = m + 1
      <4>1. m \in 0 .. m + 1 /\ m # m + 1 /\ i - 1 = m /\ i # 0 BY <3>1
      <4>2. g[i - 1] = f[m] BY <4>1
      <4> QED BY <3>1, <4>1, <4>2
    <3>2. CASE i # m + 1 /\ i # 0
      <4>1. i - 1 \in 0 .. m + 1 /\ i - 1 # m + 1 /\ i \in 0 .. m BY <3>2
      <4>2. f[i] = f[i - 1] \o p[i] BY <2>2, <4>1, <3>2
      <4> QED BY <3>2, <4>1, <4>2
    <3>3. CASE i = 0
      <4>1. 0 \in 0 .. m /\ 0 # m + 1 OBVIOUS
      <4>2. f[0] = <<>> BY <2>2, <4>1
      <4> QED BY <3>3, <4>1, <4>2
    <3> QED BY <3>1, <3>2, <3>3
  <2>4. g = [i \in 0 .. m + 1 |-> IF i = 0 THEN <<>> ELSE g[i - 1] \o p[i]] BY <2>3
  <2>5. Joined(p, m + 1, g) BY <2>4 DEF Joined
  <2> HIDE DEF g
  <2> QED BY <2>5
<1>3. 0 \in S /\ \A m \in Nat : m \in S => m + 1 \in S
  BY <1>1, <1>2
<1> HIDE DEF S
<1>4. Nat \subseteq S
  BY <1>3, SetInduction
<1> QED BY <1>4 DEF S

\* Parts that each have an outline have one when they are joined.
LEMMA JoinedOutline ==
  ASSUME NEW p, NEW n \in Nat, NEW h, Joined(p, n, h), NEW f,
         \A i \in 1 .. n : Outline(f[i - 1], p[i], f[i])
  PROVE  Outline(f[0], h[n], f[n])
<1>1. h[0] = <<>> /\ \A i \in 1 .. n : h[i] = h[i - 1] \o p[i]
  <2>1. h = [i \in 0 .. n |-> IF i = 0 THEN <<>> ELSE h[i - 1] \o p[i]] BY DEF Joined
  <2>2. \A i \in 1 .. n : i \in 0 .. n /\ i # 0 OBVIOUS
  <2> HIDE DEF Joined
  <2>3. 0 \in 0 .. n OBVIOUS
  <2>4. h[0] = <<>> BY <2>1, <2>3
  <2>5. ASSUME NEW i \in 1 .. n PROVE h[i] = h[i - 1] \o p[i] BY <2>1, <2>2
  <2> QED BY <2>4, <2>5
<1> DEFINE S == {m \in Nat : m <= n => Outline(f[0], h[m], f[m])}
<1>2. 0 \in S
  BY <1>1, OutlineEmpty
<1>3. ASSUME NEW m \in Nat, m \in S PROVE m + 1 \in S
  <2> SUFFICES ASSUME m + 1 <= n PROVE Outline(f[0], h[m + 1], f[m + 1]) OBVIOUS
  <2>1. m <= n /\ m + 1 \in 1 .. n /\ (m + 1) - 1 = m OBVIOUS
  <2>2. Outline(f[0], h[m], f[m]) BY <2>1, <1>3
  <2>3. Outline(f[(m + 1) - 1], p[m + 1], f[m + 1]) /\ h[m + 1] = h[(m + 1) - 1] \o p[m + 1] BY <2>1, <1>1
  <2> QED BY <2>1, <2>2, <2>3, OutlineConcat
<1> HIDE DEF S
<1>4. Nat \subseteq S
  BY <1>2, <1>3, SetInduction
<1> QED BY <1>4 DEF S
===============================================================================
