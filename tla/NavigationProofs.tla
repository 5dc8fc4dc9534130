--------------------------- MODULE NavigationProofs ---------------------------
(***************************************************************************)
(* Proofs about Navigation, for any pages, tabs, titles and bounds: when   *)
(* scans end only while no window is open, the stack of the focus and the  *)
(* windows nest, the keys go to the window on top or to an item of the     *)
(* page on the screen, and the title that starts is the selected one.      *)
(***************************************************************************)
EXTENDS Navigation, TLAPS, FiniteSetTheorems, WellFoundedInduction

(***************************************************************************)
(* Sequences and finite sets.                                              *)
(***************************************************************************)
IsSeq(s) == s \in Seq(ToSet(s))

(* What a sequence of anything is.                                         *)
LEMMA AnySeq ==
  ASSUME NEW S, NEW s \in Seq(S)
  PROVE  IsSeq(s) /\ Len(s) \in Nat /\ DOMAIN s = 1..Len(s) /\ ToSet(s) \subseteq S
<1>1. Len(s) \in Nat /\ DOMAIN s = 1..Len(s)
  OBVIOUS
<1>2. \A i \in 1..Len(s) : s[i] \in ToSet(s) /\ s[i] \in S
  BY <1>1 DEF ToSet
<1>3. s \in Seq(ToSet(s))
  BY <1>1, <1>2
<1>4. QED
  BY <1>1, <1>2, <1>3 DEF IsSeq, ToSet

LEMMA SeqFacts ==
  ASSUME NEW s, IsSeq(s)
  PROVE  /\ Len(s) \in Nat /\ DOMAIN s = 1..Len(s)
         /\ \A i \in 1..Len(s) : s[i] \in ToSet(s)
         /\ \A x \in ToSet(s) : \E i \in 1..Len(s) : x = s[i]
         /\ (s = << >>) = (Len(s) = 0)
  BY DEF IsSeq, ToSet

LEMMA EmptyIsSeq == IsSeq(<< >>) /\ Len(<< >>) = 0
  BY DEF IsSeq, ToSet

LEMMA OneIsSeq == ASSUME NEW x PROVE IsSeq(<< x >>) /\ Len(<< x >>) = 1 /\ << x >>[1] = x
<1>1. << x >> \in Seq({x}) /\ Len(<< x >>) = 1 /\ << x >>[1] = x
  OBVIOUS
<1>2. QED
  BY <1>1, AnySeq

(* Pushing.                                                                *)
LEMMA Pushed ==
  ASSUME NEW s, IsSeq(s), NEW x
  PROVE  LET t == Append(s, x) IN
         /\ IsSeq(t) /\ Len(t) = Len(s) + 1 /\ t[Len(s) + 1] = x
         /\ \A i \in 1..Len(s) : t[i] = s[i]
<1> DEFINE S == ToSet(s) \cup {x}
<1>1. s \in Seq(S)
  <2>1. Len(s) \in Nat /\ s = [i \in 1..Len(s) |-> s[i]]
    BY DEF IsSeq
  <2>2. \A i \in 1..Len(s) : s[i] \in S
    BY SeqFacts
  <2>3. QED
    BY <2>1, <2>2
<1>2. /\ Append(s, x) \in Seq(S) /\ Len(Append(s, x)) = Len(s) + 1
      /\ Append(s, x)[Len(s) + 1] = x
      /\ \A i \in 1..Len(s) : Append(s, x)[i] = s[i]
  <2> x \in S
    OBVIOUS
  <2> HIDE DEF S
  <2> QED
    BY <1>1
<1>3. IsSeq(Append(s, x))
  <2> HIDE DEF S
  <2> QED
    BY <1>2, AnySeq
<1>4. QED
  BY <1>2, <1>3

(* Popping.                                                                *)
LEMMA Popped ==
  ASSUME NEW s, IsSeq(s), s # << >>
  PROVE  LET t == SubSeq(s, 1, Len(s) - 1) IN
         /\ IsSeq(t) /\ Len(t) = Len(s) - 1 /\ RemoveAt(s, Len(s)) = t
         /\ \A i \in 1..(Len(s) - 1) : t[i] = s[i]
<1> DEFINE S == ToSet(s)  n == Len(s) - 1  t == SubSeq(s, 1, n)
<1>1. s \in Seq(S) /\ n \in Nat /\ Len(s) = n + 1
  BY SeqFacts DEF IsSeq
<1>2. t \in Seq(S) /\ Len(t) = n /\ \A i \in 1..n : t[i] = s[i]
  <2> HIDE DEF S
  <2> QED
    BY <1>1
<1>3. IsSeq(t)
  <2> HIDE DEF S, t
  <2> QED
    BY <1>2, AnySeq
<1>4. RemoveAt(s, Len(s)) = t
  <2>1. SubSeq(s, Len(s) + 1, Len(s)) = << >>
    <3> HIDE DEF S
    <3> QED
      BY <1>1
  <2>2. t \o << >> = t
    <3> HIDE DEF S, t
    <3> QED
      BY <1>2
  <2>3. RemoveAt(s, Len(s)) = t \o << >>
    BY <2>1 DEF RemoveAt
  <2>4. QED
    BY <2>2, <2>3
<1>5. QED
  BY <1>1, <1>2, <1>3, <1>4

(* The elements of a sequence are finitely many.                           *)
LEMMA FiniteToSet ==
  ASSUME NEW s, IsSeq(s)
  PROVE  IsFiniteSet(ToSet(s))
<1>1. s \in Surjection(1..Len(s), ToSet(s))
  BY SeqFacts DEF Surjection, IsSeq
<1>2. IsFiniteSet(1..Len(s))
  BY SeqFacts, FS_Interval
<1>3. QED
  BY <1>1, <1>2, FS_Surjection

(***************************************************************************)
(* New objects.                                                            *)
(***************************************************************************)

(* No object of a finite set has the number that is chosen.                *)
LEMMA FreshNumber ==
  ASSUME NEW S, IsFiniteSet(S)
  PROVE  \E g \in 0..Cardinality(S) : \A o \in S : o.g # g
<1> DEFINE n == Cardinality(S)  f == [o \in S |-> o.g]  G == {f[o] : o \in S}
<1>1. n \in Nat
  BY FS_CardinalityType
<1>2. IsFiniteSet(G) /\ Cardinality(G) <= n
  <2>1. f \in Surjection(S, G)
    BY DEF Surjection
  <2>2. QED
    BY <2>1, FS_Surjection
<1>3. ~ 0..n \subseteq G
  <2>1. SUFFICES ASSUME 0..n \subseteq G PROVE FALSE
    OBVIOUS
  <2>2. Cardinality(0..n) = n + 1
    BY <1>1, FS_Interval
  <2>3. Cardinality(0..n) <= Cardinality(G)
    BY <1>2, <2>1, FS_Subset
  <2>4. Cardinality(G) \in Nat
    BY <1>2, FS_CardinalityType
  <2>5. QED
    BY <1>1, <1>2, <2>2, <2>3, <2>4
<1>4. PICK g \in 0..n : g \notin G
  BY <1>3
<1>5. \A o \in S : f[o] # g
  BY <1>4
<1>6. QED
  BY <1>5

(* What is alive is finite, and so the new object is really new.           *)
Finite ==
  /\ \A p \in Pages : IsSeq(tiles[p])
  /\ IsSeq(layers) /\ IsSeq(stack) /\ IsFiniteSet(dying)

LEMMA NewIsNew ==
  ASSUME Finite, NEW k, NEW p, NEW n
  PROVE  LET o == New(k, p, n) IN
         /\ o.k = k
         /\ o \notin ToSet(layers) /\ o \notin dying
<1> DEFINE all   == Live(tiles, layers, dying) \cup ToSet(stack)
           taken == {o \in all : o.k = k /\ o.p = p /\ o.n = n}
           c     == CHOOSE g \in 0..Cardinality(taken) : \A o \in taken : o.g # g
<1>1. IsFiniteSet(all)
  <2>1. IsFiniteSet(Pages)
    BY NavigationAssumption, FS_Interval DEF Pages
  <2>2. IsFiniteSet({Null(q) : q \in Pages})
    <3> DEFINE f == [q \in Pages |-> Null(q)]
    <3>1. f \in Surjection(Pages, {Null(q) : q \in Pages})
      BY DEF Surjection
    <3>2. QED
      BY <2>1, <3>1, FS_Surjection
  <2>3. IsFiniteSet({ToSet(tiles[q]) : q \in Pages})
    <3> DEFINE f == [q \in Pages |-> ToSet(tiles[q])]
    <3>1. f \in Surjection(Pages, {ToSet(tiles[q]) : q \in Pages})
      BY DEF Surjection
    <3>2. QED
      BY <2>1, <3>1, FS_Surjection
  <2>4. \A T \in {ToSet(tiles[q]) : q \in Pages} : IsFiniteSet(T)
    BY FiniteToSet DEF Finite
  <2>5. IsFiniteSet(UNION {ToSet(tiles[q]) : q \in Pages})
    BY <2>3, <2>4, FS_UNION
  <2>6. IsFiniteSet(ToSet(layers)) /\ IsFiniteSet(ToSet(stack)) /\ IsFiniteSet(dying)
    BY FiniteToSet DEF Finite
  <2>7. IsFiniteSet({Null(q) : q \in Pages} \cup (UNION {ToSet(tiles[q]) : q \in Pages}))
    BY <2>2, <2>5, FS_Union
  <2>8. IsFiniteSet({Null(q) : q \in Pages} \cup (UNION {ToSet(tiles[q]) : q \in Pages})
                      \cup ToSet(layers))
    BY <2>6, <2>7, FS_Union
  <2>9. IsFiniteSet(Live(tiles, layers, dying))
    BY <2>6, <2>8, FS_Union DEF Live
  <2>10. QED
    BY <2>6, <2>9, FS_Union
<1>2. IsFiniteSet(taken)
  BY <1>1, FS_Subset
<1>3. \A o \in taken : o.g # c
  BY <1>2, FreshNumber
<1>4. New(k, p, n) = Obj(k, p, n, c)
  BY DEF New
<1>5. ToSet(layers) \subseteq all /\ dying \subseteq all
  BY Zenon DEF Live
<1> HIDE DEF all, taken, c
<1>6. /\ Obj(k, p, n, c).k = k /\ Obj(k, p, n, c).p = p
      /\ Obj(k, p, n, c).n = n /\ Obj(k, p, n, c).g = c
  BY DEF Obj
<1>7. Obj(k, p, n, c) \notin all
  BY <1>3, <1>6 DEF taken
<1>8. QED
  BY <1>4, <1>5, <1>6, <1>7

(***************************************************************************)
(* Windows over each other: what opening and closing the top one does to   *)
(* the windows ls, the stack st, the closed ones ds and the focus f.       *)
(***************************************************************************)
Nested(ls, st, ds, f, active) ==
  /\ IsSeq(ls) /\ IsSeq(st) /\ IsFiniteSet(ds)
  /\ Len(st) = Len(ls)
  /\ ls # << >> => f = ls[Len(ls)]
  /\ \A i \in 1..(Len(ls) - 1) : st[i + 1] = ls[i]
  /\ \A i, j \in 1..Len(ls) : ls[i] = ls[j] => i = j
  /\ \A i \in 1..Len(ls) :
       /\ ls[i] \notin ds /\ ls[i].k \in Windows
       /\ ls[i].k \in {"card", "nav"} => i = 1
       /\ ls[i].k = "nav" => active = TRUE
  /\ \A i, j \in 1..Len(ls) : ls[i].k = ls[j].k /\ ls[i].k \in {"panel", "kb"} => i = j

LEMMA NoneNested ==
  ASSUME NEW ds, IsFiniteSet(ds), NEW f, NEW active
  PROVE  Nested(<< >>, << >>, ds, f, active)
  BY EmptyIsSeq DEF Nested

LEMMA OpenNests ==
  ASSUME NEW ls, NEW st, NEW ds, NEW f, NEW active, Nested(ls, st, ds, f, active),
         NEW o, o \notin ToSet(ls), o \notin ds, o.k \in Windows,
         o.k \in {"card", "nav"} => ls = << >>,
         o.k \in {"panel", "kb"} => \A i \in 1..Len(ls) : ls[i].k # o.k,
         NEW active2, o.k = "nav" => active2 = TRUE, o.k # "nav" => active2 = active
  PROVE  Nested(Append(ls, o), Append(st, f), ds, o, active2)
<1> DEFINE l2 == Append(ls, o)  s2 == Append(st, f)  n == Len(ls)
<1>1. n \in Nat /\ (ls = << >>) = (n = 0) /\ \A i \in 1..n : ls[i] \in ToSet(ls)
  BY SeqFacts DEF Nested
<1>2. /\ IsSeq(l2) /\ Len(l2) = n + 1 /\ l2[n + 1] = o
      /\ \A i \in 1..n : l2[i] = ls[i]
  BY Pushed DEF Nested
<1>3. /\ IsSeq(s2) /\ Len(s2) = n + 1 /\ s2[n + 1] = f
      /\ \A i \in 1..n : s2[i] = st[i]
  BY Pushed DEF Nested
<1>4. n > 0 => f = ls[n]
  BY <1>1 DEF Nested
<1> HIDE DEF l2, s2
<1>5. \A i \in 1..n : s2[i + 1] = l2[i]
  BY <1>1, <1>2, <1>3, <1>4 DEF Nested
<1>6. \A i, j \in 1..(n + 1) : l2[i] = l2[j] => i = j
  BY <1>1, <1>2 DEF Nested
<1>7. ASSUME NEW i \in 1..(n + 1)
      PROVE  /\ l2[i] \notin ds /\ l2[i].k \in Windows
             /\ l2[i].k \in {"card", "nav"} => i = 1
             /\ l2[i].k = "nav" => active2 = TRUE
  <2>1. CASE i = n + 1
    BY <1>1, <1>2, <2>1
  <2>2. CASE i \in 1..n
    BY <1>1, <1>2, <2>2 DEF Nested
  <2>3. i = n + 1 \/ i \in 1..n
    BY <1>1
  <2>4. QED
    BY Zenon, <2>1, <2>2, <2>3
<1>8. \A i, j \in 1..(n + 1) : l2[i].k = l2[j].k /\ l2[i].k \in {"panel", "kb"} => i = j
  BY <1>1, <1>2 DEF Nested
<1>9. QED
  BY <1>1, <1>2, <1>3, <1>5, <1>6, <1>7, <1>8 DEF Nested, l2, s2

LEMMA CloseNests ==
  ASSUME NEW ls, NEW st, NEW ds, NEW f, NEW active, Nested(ls, st, ds, f, active),
         ls # << >>, NEW d, d \in {ds, ds \cup {ls[Len(ls)]}},
         NEW f2, Len(ls) > 1 => f2 = st[Len(ls)]
  PROVE  Nested(RemoveAt(ls, Len(ls)), SubSeq(st, 1, Len(st) - 1), d, f2, active)
<1> DEFINE l2 == RemoveAt(ls, Len(ls))  s2 == SubSeq(st, 1, Len(st) - 1)  n == Len(ls) - 1
<1>1. n \in Nat /\ Len(ls) = n + 1
  BY SeqFacts DEF Nested
<1>2. st # << >> /\ Len(st) = n + 1
  BY <1>1, SeqFacts DEF Nested
<1>3. /\ IsSeq(l2) /\ Len(l2) = n /\ \A i \in 1..n : l2[i] = ls[i]
  BY Popped DEF Nested
<1>4. /\ IsSeq(s2) /\ Len(s2) = n /\ \A i \in 1..n : s2[i] = st[i]
  BY <1>2, Popped DEF Nested
<1>5. IsFiniteSet(d)
  BY FS_AddElement DEF Nested
<1>6. (l2 = << >>) = (n = 0)
  BY <1>3, SeqFacts
<1> HIDE DEF l2, s2
<1>7. n > 0 => f2 = l2[n]
  BY <1>1, <1>3 DEF Nested
<1>8. \A i \in 1..(n - 1) : s2[i + 1] = l2[i]
  BY <1>1, <1>3, <1>4 DEF Nested
<1>9. \A i \in 1..n : l2[i] \notin d
  BY <1>1, <1>3 DEF Nested
<1>10. QED
  BY <1>1, <1>3, <1>4, <1>5, <1>6, <1>7, <1>8, <1>9 DEF Nested, l2, s2

(***************************************************************************)
(* The inductive invariant.                                                *)
(***************************************************************************)
RailsInv ==
  /\ page \in Pages /\ final \in {Null(p) : p \in Pages}
  /\ tiles = [p \in Pages |-> tiles[p]]
  /\ \A p \in Pages : IsSeq(tiles[p])

NestInv ==
  /\ RailsInv
  /\ Nested(layers, stack, dying, focus, nav)
  /\ tripped = FALSE

LEMMA InvIsFinite == NestInv => Finite
  BY DEF NestInv, RailsInv, Nested, Finite

LEMMA InvIsSafe == NestInv => WindowsNest
  BY DEF NestInv, Nested, WindowsNest, Last

(* The window on top has the keys: none of the rail's items has, ...       *)
LEMMA ItemsHaveNoWindow ==
  ASSUME NestInv, OnItem
  PROVE  layers = << >>
<1>1. SUFFICES ASSUME layers # << >> PROVE FALSE
  OBVIOUS
<1>2. Len(layers) \in 1..Len(layers)
  BY <1>1, SeqFacts DEF NestInv, Nested
<1>3. focus = layers[Len(layers)] /\ layers[Len(layers)].k \in Windows
  BY <1>1, <1>2 DEF NestInv, Nested
<1>4. QED
  BY <1>3 DEF OnItem, On, Windows

(* ... and the window of a kind that has the keys, if there is one of that *)
(* kind only, is the one on top.                                           *)
LEMMA OnTop ==
  ASSUME NestInv, NEW k \in {"card", "panel", "kb", "nav"}, On(k),
         NEW i \in 1..Len(layers), layers[i].k = k
  PROVE  i = Len(layers) /\ layers # << >>
<1>1. layers # << >> /\ Len(layers) \in 1..Len(layers)
  BY SeqFacts DEF NestInv, Nested
<1>2. focus = layers[Len(layers)] /\ layers[Len(layers)].k = k
  BY <1>1 DEF NestInv, Nested, On
<1>3. QED
  BY <1>1, <1>2 DEF NestInv, Nested

LEMMA OnTopItself ==
  ASSUME NestInv, NEW i \in 1..Len(layers), layers[i] = focus
  PROVE  i = Len(layers) /\ layers # << >>
<1>1. layers # << >> /\ Len(layers) \in 1..Len(layers)
  BY SeqFacts DEF NestInv, Nested
<1>2. focus = layers[Len(layers)]
  BY <1>1 DEF NestInv, Nested
<1>3. QED
  BY <1>1, <1>2 DEF NestInv, Nested

LEMMA Largest ==
  ASSUME NEW n \in Nat, NEW S \in SUBSET (0..n), n \in S
  PROVE  Max(S) = n
<1>1. \A y \in S : n >= y
  OBVIOUS
<1>2. \A x \in S : (\A y \in S : x >= y) => x = n
  OBVIOUS
<1>3. QED
  BY <1>1, <1>2 DEF Max

LEMMA NullsLive ==
  ASSUME NEW p \in Pages, NEW ts, NEW ls, NEW ds
  PROVE  Null(p) \in Live(ts, ls, ds)
  BY DEF Live

(* Popping gives the focus to what had it under the window on top.         *)
LEMMA PopGoesBack ==
  ASSUME NestInv, layers # << >>, NEW there, NEW s, NEW ts, Pop(there, s, ts),
         final \in there,
         Len(layers) > 1 => layers[Len(layers) - 1] \in there
  PROVE  /\ stack' = SubSeq(stack, 1, Len(stack) - 1)
         /\ Len(layers) > 1 => focus' = stack[Len(layers)]
         /\ tripped' = FALSE
<1> DEFINE n == Len(stack)
           Entry(i) == IF i = 0 THEN final ELSE stack[i]
           S == {j \in 0..n : Entry(j) \in there}
<1>1. n = Len(layers) /\ n \in Nat /\ n > 0 /\ stack # << >>
  BY SeqFacts DEF NestInv, Nested
<1>2. /\ focus' = Entry(Max(S)) /\ stack' = SubSeq(stack, 1, Max(S) - 1)
      /\ tripped' = (tripped \/ stack = << >>)
  BY DEF Pop
<1>0. tripped' = FALSE
  BY Zenon, <1>1, <1>2 DEF NestInv
<1>3. CASE n = 1
  <2>1. 0 \in S /\ S \subseteq {0, 1}
    BY <1>1, <1>3
  <2>2. Max(S) \in {0, 1}
    <3>1. CASE 1 \in S
      BY <2>1, <3>1, Largest
    <3>2. CASE 1 \notin S
      BY <2>1, <3>2, Largest
    <3>3. QED
      BY <3>1, <3>2
  <2>3. SubSeq(stack, 1, -1) = << >> /\ SubSeq(stack, 1, 0) = << >>
    BY DEF NestInv, Nested, IsSeq
  <2>4. stack' = SubSeq(stack, 1, n - 1)
    <3> HIDE DEF S, n
    <3>1. CASE Max(S) = 0
      BY <1>2, <1>3, <2>3, <3>1
    <3>2. CASE Max(S) = 1
      BY <1>2, <1>3, <2>3, <3>2
    <3>3. QED
      BY <2>2, <3>1, <3>2
  <2>5. QED
    BY <1>0, <1>1, <1>3, <2>4
<1>4. CASE n > 1
  <2>1. stack[n] = layers[n - 1]
    <3>1. n - 1 \in 1..(Len(layers) - 1) /\ (n - 1) + 1 = n
      BY <1>1, <1>4
    <3>2. QED
      BY <3>1 DEF NestInv, Nested
  <2>2. n \in S
    BY <1>1, <1>4, <2>1
  <2>3. Max(S) = n
    BY <1>1, <2>2, Largest
  <2>4. stack' = SubSeq(stack, 1, n - 1) /\ focus' = stack[n]
    <3> HIDE DEF S, n
    <3>1. Entry(n) = stack[n]
      BY <1>4
    <3>2. QED
      BY <1>2, <2>3, <3>1
  <2>5. QED
    BY <1>0, <1>1, <2>4
<1>5. n = 1 \/ n > 1
  BY <1>1
<1>6. QED
  BY Zenon, <1>3, <1>4, <1>5

(***************************************************************************)
(* What steps have in common.                                              *)
(***************************************************************************)

(* The rails do not matter to the windows, ...                             *)
LEMMA RailStep ==
  ASSUME NestInv, RailsInv', UNCHANGED << layers, stack, nav, tripped >>,
         dying' \subseteq dying, layers # << >> => focus' = focus
  PROVE  NestInv'
<1>1. IsFiniteSet(dying')
  BY FS_Subset DEF NestInv, Nested
<1>2. Nested(layers', stack', dying', focus', nav')
  BY <1>1 DEF NestInv, Nested
<1>3. QED
  BY <1>2 DEF NestInv

(* ... a window opens over what has the focus, ...                         *)
LEMMA OpenStep ==
  ASSUME NestInv, UNCHANGED << tiles, page, final, dying, nav, tripped >>,
         NEW k \in Windows \ {"nav"}, Push(New(k, 0, 0)),
         k = "card" => layers = << >>,
         k \in {"panel", "kb"} => ~IsOpen(k)
  PROVE  NestInv'
<1> DEFINE o == New(k, 0, 0)
<1>1. o.k = k /\ o \notin ToSet(layers) /\ o \notin dying
  BY InvIsFinite, NewIsNew
<1>2. /\ layers' = Append(layers, o) /\ stack' = Append(stack, focus) /\ focus' = o
  BY DEF Push
<1> HIDE DEF o
<1>3. Nested(Append(layers, o), Append(stack, focus), dying, o, nav)
  BY <1>1, OpenNests DEF NestInv, IsOpen
<1>4. QED
  BY <1>2, <1>3 DEF NestInv, RailsInv

(* ... and the one on top closes, and may still be seen.                   *)
LEMMA CloseStep ==
  ASSUME NestInv, RailsInv', UNCHANGED nav, layers # << >>,
         NEW i, i = Len(layers), layers' = RemoveAt(layers, i),
         dying' \in {dying, dying \cup {layers[i]}},
         NEW there, NEW s, NEW ts, Pop(there, s, ts), final \in there,
         Len(layers) > 1 => layers[Len(layers) - 1] \in there
  PROVE  NestInv'
<1>1. /\ stack' = SubSeq(stack, 1, Len(stack) - 1)
      /\ Len(layers) > 1 => focus' = stack[Len(layers)]
      /\ tripped' = FALSE
  BY PopGoesBack
<1>2. Nested(layers', stack', dying', focus', nav)
  BY <1>1, CloseNests DEF NestInv
<1>3. QED
  BY <1>1, <1>2 DEF NestInv

(* What is under the window on top is alive, with it and without it.       *)
LEMMA UnderLives ==
  ASSUME NestInv, layers # << >>, NEW ts, NEW ds
  PROVE  /\ Len(layers) > 1 => layers[Len(layers) - 1] \in Live(ts, layers, ds)
         /\ Len(layers) > 1 =>
              layers[Len(layers) - 1] \in Live(ts, RemoveAt(layers, Len(layers)), ds)
         /\ final \in Live(ts, layers, ds)
         /\ final \in Live(ts, RemoveAt(layers, Len(layers)), ds)
<1> DEFINE n == Len(layers)  r == RemoveAt(layers, n)
<1>1. /\ IsSeq(layers) /\ IsSeq(r) /\ Len(r) = n - 1 /\ n \in Nat
      /\ \A i \in 1..(n - 1) : r[i] = layers[i]
  <2>1. IsSeq(layers)
    BY DEF NestInv, Nested
  <2>2. Len(layers) \in Nat
    BY <2>1, SeqFacts
  <2>3. /\ IsSeq(SubSeq(layers, 1, n - 1)) /\ Len(SubSeq(layers, 1, n - 1)) = n - 1
        /\ r = SubSeq(layers, 1, n - 1)
        /\ \A i \in 1..(n - 1) : SubSeq(layers, 1, n - 1)[i] = layers[i]
    BY <2>1, Popped
  <2>4. QED
    BY <2>1, <2>2, <2>3
<1>2. n > 1 => layers[n - 1] \in ToSet(layers)
  BY <1>1, SeqFacts
<1>3. n > 1 => layers[n - 1] \in ToSet(r)
  <2> HIDE DEF r
  <2> QED
    BY <1>1, SeqFacts
<1>4. \A q : (q \in ToSet(layers) => q \in Live(ts, layers, ds)) /\ (q \in ToSet(r) => q \in Live(ts, r, ds))
  BY DEF Live
<1>5. \A p \in Pages : Null(p) \in Live(ts, layers, ds) /\ Null(p) \in Live(ts, r, ds)
  BY NullsLive
<1>6. QED
  BY <1>2, <1>3, <1>4, <1>5 DEF NestInv, RailsInv

(***************************************************************************)
(* The initial states and the steps.                                       *)
(***************************************************************************)
LEMMA Smallest ==
  ASSUME NEW S \in SUBSET Pages, S # {}
  PROVE  Min(S) \in S
<1>1. S \subseteq Nat
  BY NavigationAssumption DEF Pages
<1>2. PICK x \in S : \A y \in S : << y, x >> \notin OpToRel(<, Nat)
  BY <1>1, WFMin, NatLessThanWellFounded
<1>3. ASSUME NEW y \in S, y < x PROVE FALSE
  <2> DEFINE q == << y, x >>
  <2>1. q \in Nat \X Nat /\ q[1] < q[2]
    BY <1>1, <1>3
  <2>2. q \in OpToRel(<, Nat)
    BY Zenon, <2>1 DEF OpToRel
  <2>3. QED
    BY Zenon, <1>2, <2>2
<1>4. \A y \in S : x =< y
  BY <1>1, <1>3
<1>5. QED
  BY <1>4 DEF Min

LEMMA InitNests == Init => NestInv
<1> SUFFICES ASSUME Init PROVE NestInv
  OBVIOUS
<1>1. PICK start \in 1..(NumPages + 1), warned \in BOOLEAN :
        /\ page = Min({start, NumPages}) /\ final = Null(page)
        /\ layers = IF warned THEN << Obj("menu", 0, 0, 0) >> ELSE << >>
        /\ stack  = IF warned THEN << Null(page) >> ELSE << >>
        /\ focus  = IF warned THEN Obj("menu", 0, 0, 0) ELSE Null(page)
  BY DEF Init
<1>2. page \in Pages
  <2>1. NumPages \in Nat \ {0}
    BY NavigationAssumption
  <2>2. CASE start <= NumPages
    <3>1. Min({start, NumPages}) = start
      BY <2>1, <2>2 DEF Min
    <3>2. QED
      BY <1>1, <2>1, <2>2, <3>1 DEF Pages
  <2>3. CASE start > NumPages
    <3>1. Min({start, NumPages}) = NumPages
      BY <2>1, <2>3 DEF Min
    <3>2. QED
      BY <1>1, <2>1, <3>1 DEF Pages
  <2>4. QED
    BY <2>1, <2>2, <2>3
<1>3. RailsInv
  BY <1>1, <1>2, EmptyIsSeq DEF Init, RailsInv
<1>4. Nested(<< >>, << >>, {}, Null(page), nav)
  BY NoneNested, FS_EmptySet
<1>5. CASE warned
  <2> DEFINE o == Obj("menu", 0, 0, 0)
  <2>1. o.k = "menu"
    BY DEF Obj
  <2> HIDE DEF o
  <2>2. Nested(Append(<< >>, o), Append(<< >>, Null(page)), {}, o, nav)
    <3>1. o \notin ToSet(<< >>) /\ o \notin {} /\ o.k \in Windows
      BY <2>1 DEF Windows, ToSet
    <3>2. QED
      BY <1>4, <2>1, <3>1, OpenNests
  <2>3. Append(<< >>, o) = << o >> /\ Append(<< >>, Null(page)) = << Null(page) >>
    OBVIOUS
  <2>4. layers = << o >> /\ stack = << Null(page) >> /\ focus = o /\ dying = {} /\ tripped = FALSE
    BY <1>1, <1>5 DEF o, Init
  <2>5. QED
    BY <1>3, <2>2, <2>3, <2>4 DEF NestInv
<1>6. CASE ~warned
  <2>1. layers = << >> /\ stack = << >> /\ focus = Null(page) /\ dying = {} /\ tripped = FALSE
    BY <1>1, <1>6 DEF Init
  <2>2. QED
    BY <1>3, <1>4, <2>1 DEF NestInv
<1>7. QED
  BY <1>5, <1>6

(* Scan threads.                                                           *)
LEMMA ScanAddNests == ASSUME NestInv, NEW p \in Pages, ScanAdd(p) PROVE NestInv'
<1>1. tiles' = [tiles EXCEPT ![p] = Append(tiles[p], New("tile", p, Len(tiles[p]) + 1))]
  BY DEF ScanAdd
<1>2. IsSeq(Append(tiles[p], New("tile", p, Len(tiles[p]) + 1)))
  BY Pushed DEF NestInv, RailsInv
<1>3. RailsInv'
  BY <1>1, <1>2 DEF NestInv, RailsInv, ScanAdd, viewVars
<1>4. QED
  BY <1>3, RailStep DEF ScanAdd, viewVars

(* Showing another page disturbs no window when the tab bar is active.     *)
LEMMA SetPageNests ==
  ASSUME NestInv, NEW p \in Pages, SetPage(p, tiles, nav),
         UNCHANGED << tiles, nav, layers, stack, dying, tripped >>,
         layers = << >> \/ nav
  PROVE  NestInv'
<1>1. page' = p /\ final' \in {final, Null(p)} /\ (nav => focus' = focus)
  BY DEF SetPage
<1>2. RailsInv'
  BY <1>1 DEF NestInv, RailsInv
<1>3. QED
  BY <1>1, <1>2, RailStep

LEMMA ScanEndNests == ASSUME NestInv, Patient, NEW p \in Pages, ScanEnd(p) PROVE NestInv'
<1>1. UNCHANGED << tiles, layers, dying, stack, tripped, nav >>
  BY DEF ScanEnd, viewVars
<1>2. CASE layers = << >> /\ final' = Null(p) /\ UNCHANGED viewVars
  <2>1. RailsInv'
    BY <1>1, <1>2 DEF NestInv, RailsInv, viewVars
  <2>2. QED
    BY <1>1, <1>2, <2>1, RailStep
<1>3. CASE (layers = << >> \/ nav) /\ SetPage(p, tiles, nav)
  BY <1>1, <1>3, SetPageNests
<1>4. CASE UNCHANGED << viewVars, sel, final, focus >>
  <2>1. RailsInv'
    BY <1>1, <1>4 DEF NestInv, RailsInv, viewVars
  <2>2. QED
    BY <1>1, <1>4, <2>1, RailStep
<1>5. QED
  BY <1>2, <1>3, <1>4 DEF ScanEnd

(* Items.                                                                  *)
LEMMA MoveNests == ASSUME NestInv, Move PROVE NestInv'
<1>1. layers = << >>
  BY ItemsHaveNoWindow DEF Move
<1>2. RailsInv'
  BY DEF NestInv, RailsInv, Move, railVars, viewVars
<1>3. QED
  BY <1>1, <1>2, RailStep DEF Move, viewVars

LEMMA Neighbours ==
  ASSUME NestInv
  PROVE  { IF page = NumPages THEN 1 ELSE page + 1, IF page = 1 THEN NumPages ELSE page - 1 }
           \subseteq Pages
<1>1. page \in 1..NumPages /\ NumPages \in Nat \ {0}
  BY NavigationAssumption DEF NestInv, RailsInv, Pages
<1>2. QED
  BY <1>1 DEF Pages

LEMMA TurnPageNests == ASSUME NestInv, TurnPage PROVE NestInv'
<1>1. layers = << >>
  BY ItemsHaveNoWindow DEF TurnPage
<1>2. PICK p \in { IF page = NumPages THEN 1 ELSE page + 1, IF page = 1 THEN NumPages ELSE page - 1 } :
        SetPage(p, tiles, nav)
  BY DEF TurnPage
<1>3. p \in Pages
  BY <1>2, Neighbours
<1>4. QED
  BY <1>1, <1>2, <1>3, SetPageNests DEF TurnPage, railVars

LEMMA CloseCardNests ==
  ASSUME NestInv, CloseCard, On("card"), RailsInv', UNCHANGED nav
  PROVE  NestInv'
<1>1. PICK i \in 1..Len(layers) :
        layers[i].k = "card" /\ layers' = RemoveAt(layers, i) /\ dying' = dying \cup {layers[i]}
  BY DEF CloseCard
<1>2. i = Len(layers) /\ layers # << >>
  BY <1>1, OnTop
<1>3. Pop(Live(tiles, layers, dying), sel, tiles)
  BY DEF CloseCard
<1>4. QED
  BY <1>1, <1>2, <1>3, UnderLives, CloseStep

LEMMA OpenCardNests == ASSUME NestInv, OpenCard PROVE NestInv'
<1>1. layers = << >>
  BY ItemsHaveNoWindow DEF OpenCard
<1>2. ~CloseCard
  <2>1. Len(layers) = 0
    BY <1>1, EmptyIsSeq
  <2>2. QED
    BY <2>1 DEF CloseCard
<1>3. /\ Push(New("card", 0, 0)) /\ UNCHANGED << dying, tripped >>
      /\ UNCHANGED << tiles, page, final, nav >>
  BY <1>2 DEF OpenCard, railVars, viewVars
<1>4. QED
  BY <1>1, <1>3, OpenStep DEF Windows

LEMMA OpenBoxNests == ASSUME NestInv, OpenBox PROVE NestInv'
<1>1. /\ Push(New("menu", 0, 0))
      /\ UNCHANGED << tiles, page, final, dying, nav, tripped >>
  BY DEF OpenBox, railVars, viewVars
<1>2. QED
  BY <1>1, OpenStep DEF Windows

LEMMA LaunchNests == ASSUME NestInv, Launch PROVE NestInv'
<1>1. UNCHANGED << tiles, page, final, layers, stack, nav, tripped, dying, focus >>
  BY DEF Launch, railVars, viewVars
<1>2. RailsInv'
  BY <1>1 DEF NestInv, RailsInv
<1>3. QED
  BY <1>1, <1>2, RailStep

LEMMA EnterNavNests == ASSUME NestInv, EnterNav PROVE NestInv'
<1> DEFINE o == New("nav", 0, 0)
<1>1. layers = << >>
  BY ItemsHaveNoWindow DEF EnterNav
<1>2. o.k = "nav" /\ o \notin ToSet(layers) /\ o \notin dying
  BY InvIsFinite, NewIsNew
<1>3. /\ layers' = Append(layers, o) /\ stack' = Append(stack, focus) /\ focus' = o
      /\ nav' = TRUE /\ UNCHANGED << tiles, page, final, dying, tripped >>
  BY DEF EnterNav, Push, railVars
<1> HIDE DEF o
<1>4. Nested(Append(layers, o), Append(stack, focus), dying, o, TRUE)
  BY <1>1, <1>2, OpenNests DEF NestInv, Windows
<1>5. Nested(layers', stack', dying', focus', nav')
  BY <1>3, <1>4
<1>6. RailsInv'
  BY <1>3 DEF NestInv, RailsInv
<1>7. tripped' = FALSE
  BY <1>3 DEF NestInv
<1>8. QED
  BY <1>5, <1>6, <1>7 DEF NestInv

(* The tab bar.                                                            *)
LEMMA NavIsActive == ASSUME NestInv, On("nav") PROVE layers = << >> \/ nav
<1>1. SUFFICES ASSUME layers # << >> PROVE nav
  OBVIOUS
<1>2. Len(layers) \in 1..Len(layers)
  BY <1>1, SeqFacts DEF NestInv, Nested
<1>3. layers[Len(layers)].k = "nav"
  BY <1>1 DEF NestInv, Nested, On
<1>4. nav = TRUE
  BY <1>2, <1>3 DEF NestInv, Nested
<1>5. QED
  BY <1>4

LEMMA NavMoveNests == ASSUME NestInv, NavMove PROVE NestInv'
<1>1. UNCHANGED << tiles, nav, layers, stack, dying, tripped >>
  BY DEF NavMove, railVars
<1>2. PICK t \in Tabs : IF PagesOf(t) = {} THEN UNCHANGED << page, sel, final, focus >>
                        ELSE SetPage(Min(PagesOf(t)), tiles, nav)
  BY DEF NavMove
<1>3. CASE PagesOf(t) = {}
  <2>1. RailsInv'
    BY <1>1, <1>2, <1>3 DEF NestInv, RailsInv
  <2>2. QED
    BY <1>1, <1>2, <1>3, <2>1, RailStep
<1>4. CASE PagesOf(t) # {}
  <2>1. Min(PagesOf(t)) \in Pages
    BY <1>4, Smallest DEF PagesOf
  <2>2. layers = << >> \/ nav
    BY NavIsActive DEF NavMove
  <2>3. QED
    BY <1>1, <1>2, <1>4, <2>1, <2>2, SetPageNests
<1>5. QED
  BY <1>3, <1>4

LEMMA ExitNavNests == ASSUME NestInv, NEW cancel \in BOOLEAN, ExitNav(cancel) PROVE NestInv'
<1>1. PICK i \in 1..Len(layers) : layers[i] = focus /\ layers' = RemoveAt(layers, i)
  BY DEF ExitNav
<1>2. i = Len(layers) /\ layers # << >>
  BY <1>1, OnTopItself
<1>3. i = 1
  BY <1>1 DEF NestInv, Nested, ExitNav, On
<1>4. /\ stack' = SubSeq(stack, 1, Len(stack) - 1)
      /\ UNCHANGED << tiles, dying, tripped >>
  BY DEF ExitNav, Dropped, railVars
<1>5. layers' = << >> /\ stack' = << >>
  <2>1. /\ IsSeq(layers) /\ IsSeq(stack) /\ Len(layers) = 1 /\ Len(stack) = 1
    BY <1>2, <1>3 DEF NestInv, Nested
  <2>2. stack # << >>
    BY <2>1, SeqFacts
  <2>3. IsSeq(SubSeq(stack, 1, 0)) /\ Len(SubSeq(stack, 1, 0)) = 0
    <3>1. 1 - 1 = 0
      OBVIOUS
    <3>2. Len(stack) - 1 = 0
      BY <2>1, <3>1
    <3>3. QED
      BY Zenon, <2>1, <2>2, <3>1, <3>2, Popped
  <2>4. /\ RemoveAt(layers, 1) = SubSeq(layers, 1, 0)
        /\ IsSeq(SubSeq(layers, 1, 0)) /\ Len(SubSeq(layers, 1, 0)) = 0
    BY <1>2, <2>1, Popped
  <2>5. layers' = SubSeq(layers, 1, 0) /\ stack' = SubSeq(stack, 1, 0)
    BY <1>1, <1>3, <1>4, <2>1, <2>4
  <2>6. QED
    BY <2>3, <2>4, <2>5, SeqFacts
<1>6. IsFiniteSet(dying')
  BY <1>4 DEF NestInv, Nested
<1>7. Nested(layers', stack', dying', focus', nav')
  BY <1>5, <1>6, NoneNested
<1>8. RailsInv'
  <2>1. page' \in Pages /\ final' \in {Null(p) : p \in Pages}
    <3> DEFINE t == IF cancel THEN origin.tab ELSE tab
    <3>1. CASE PagesOf(t) # {} /\ SetPage(Min(PagesOf(t)), tiles, FALSE)
      BY <3>1, Smallest DEF SetPage, PagesOf
    <3>2. CASE UNCHANGED page /\ \E x, f : RestoreFocus(x, f)
      BY <3>2 DEF RestoreFocus, NestInv, RailsInv
    <3>3. QED
      BY <3>1, <3>2 DEF ExitNav
  <2>2. QED
    BY <1>4, <2>1 DEF NestInv, RailsInv
<1>9. QED
  BY <1>4, <1>7, <1>8 DEF NestInv

(* The windows.                                                            *)
LEMMA CardBackNests == ASSUME NestInv, CardBack PROVE NestInv'
<1>1. RailsInv' /\ UNCHANGED nav
  BY DEF NestInv, RailsInv, CardBack, railVars, viewVars
<1>2. QED
  BY <1>1, CloseCardNests DEF CardBack

LEMMA OpenPanelNests == ASSUME NestInv, OpenPanel PROVE NestInv'
<1>1. /\ Push(New("panel", 0, 0)) /\ ~IsOpen("panel")
      /\ UNCHANGED << tiles, page, final, dying, nav, tripped >>
  BY DEF OpenPanel, railVars, viewVars
<1>2. QED
  BY <1>1, OpenStep DEF Windows

LEMMA PanelOnTop ==
  ASSUME NestInv, ClosePanel, NEW i \in 1..Len(layers), layers[i].k = "panel"
  PROVE  i = Len(layers) /\ layers # << >>
<1>1. CASE On("panel")
  BY <1>1, OnTop
<1>2. CASE On("card")
  <2>1. layers # << >> /\ Len(layers) \in 1..Len(layers)
    BY SeqFacts DEF NestInv, Nested
  <2>2. layers[Len(layers)].k = "card"
    BY <1>2, <2>1 DEF NestInv, Nested, On
  <2>3. Len(layers) = 1
    BY <2>1, <2>2 DEF NestInv, Nested
  <2>4. QED
    BY <2>1, <2>3
<1>3. QED
  BY <1>1, <1>2 DEF ClosePanel

LEMMA ClosePanelNests == ASSUME NestInv, ClosePanel PROVE NestInv'
<1>1. RailsInv' /\ UNCHANGED nav
  BY DEF NestInv, RailsInv, ClosePanel, railVars, viewVars
<1>2. PICK i \in 1..Len(layers) :
        layers[i].k = "panel" /\ layers' = RemoveAt(layers, i) /\ dying' = dying \cup {layers[i]}
  BY DEF ClosePanel
<1>3. i = Len(layers) /\ layers # << >>
  BY <1>2, PanelOnTop
<1>4. Pop(Live(tiles, layers, dying), sel, tiles)
  BY DEF ClosePanel
<1>5. QED
  BY <1>1, <1>2, <1>3, <1>4, UnderLives, CloseStep

LEMMA OpenKeyboardNests == ASSUME NestInv, OpenKeyboard PROVE NestInv'
<1>1. /\ Push(New("kb", 0, 0)) /\ ~IsOpen("kb")
      /\ UNCHANGED << tiles, page, final, dying, nav, tripped >>
  BY DEF OpenKeyboard, railVars, viewVars
<1>2. QED
  BY <1>1, OpenStep DEF Windows

LEMMA CloseKeyboardNests == ASSUME NestInv, CloseKeyboard PROVE NestInv'
<1>1. RailsInv' /\ UNCHANGED << nav, dying >>
  BY DEF NestInv, RailsInv, CloseKeyboard, railVars, viewVars
<1>2. PICK i \in 1..Len(layers) : layers[i].k = "kb" /\ layers' = RemoveAt(layers, i)
  BY DEF CloseKeyboard
<1>3. i = Len(layers) /\ layers # << >>
  BY <1>2, OnTop DEF CloseKeyboard
<1>4. Pop(Live(tiles, layers, dying), sel, tiles)
  BY DEF CloseKeyboard
<1>5. QED
  BY <1>1, <1>2, <1>3, <1>4, UnderLives, CloseStep

LEMMA OpenMenuNests == ASSUME NestInv, OpenMenu PROVE NestInv'
<1>1. /\ Push(New("menu", 0, 0))
      /\ UNCHANGED << tiles, page, final, dying, nav, tripped >>
  BY DEF OpenMenu, railVars, viewVars
<1>2. QED
  BY <1>1, OpenStep DEF Windows

LEMMA CloseMenuNests ==
  ASSUME NestInv, NEW ts, CloseMenu(ts), RailsInv', UNCHANGED << nav, dying >>
  PROVE  NestInv'
<1>1. PICK i \in 1..Len(layers), f \in Refocus(focus, ts, layers, dying) :
        /\ layers[i] = focus /\ layers' = RemoveAt(layers, i)
        /\ Pop(Live(ts, RemoveAt(layers, i), dying),
               IF f = None THEN sel ELSE FocusedSel(f, sel, page, ts, nav), ts)
  BY DEF CloseMenu
<1>2. i = Len(layers) /\ layers # << >>
  BY <1>1, OnTopItself
<1>3. QED
  BY <1>1, <1>2, UnderLives, CloseStep

LEMMA MenuBackNests == ASSUME NestInv, MenuBack PROVE NestInv'
<1>1. RailsInv' /\ UNCHANGED << nav, dying >>
  BY DEF NestInv, RailsInv, MenuBack, railVars, viewVars
<1>2. QED
  BY <1>1, CloseMenuNests DEF MenuBack

LEMMA RescanNests == ASSUME NestInv, NEW p \in Pages, Rescan(p) PROVE NestInv'
<1>1. UNCHANGED << page, final, layers, stack, nav, tripped, dying, focus >>
      /\ tiles' = [tiles EXCEPT ![p] = << >>]
  BY DEF Rescan, viewVars
<1>2. RailsInv'
  BY <1>1, EmptyIsSeq DEF NestInv, RailsInv
<1>3. QED
  BY <1>1, <1>2, RailStep

LEMMA ClearRecentNests == ASSUME NestInv, NEW p \in Pages, ClearRecent(p) PROVE NestInv'
<1>1. /\ UNCHANGED << page, final, nav, dying >>
      /\ tiles' = [tiles EXCEPT ![p] = << >>]
      /\ CloseMenu([tiles EXCEPT ![p] = << >>])
  BY DEF ClearRecent, viewVars
<1>2. RailsInv'
  BY <1>1, EmptyIsSeq DEF NestInv, RailsInv
<1>3. QED
  BY <1>1, <1>2, CloseMenuNests

LEMMA DeleteNests == ASSUME NestInv, NEW o \in dying, Delete(o) PROVE NestInv'
<1>1. /\ UNCHANGED << tiles, page, final, layers, stack, nav, tripped >>
      /\ dying' = dying \ {o} /\ focus' \in Refocus(o, tiles, layers, dying)
  BY DEF Delete, railVars, viewVars
<1>2. RailsInv'
  BY <1>1 DEF NestInv, RailsInv
<1>3. layers # << >> => focus # o
  <2>1. layers # << >> => Len(layers) \in 1..Len(layers)
    BY SeqFacts DEF NestInv, Nested
  <2>2. QED
    BY <2>1 DEF NestInv, Nested
<1>4. layers # << >> => focus' = focus
  BY <1>1, <1>3 DEF Refocus
<1>5. QED
  BY <1>1, <1>2, <1>4, RailStep

LEMMA NextNests == ASSUME NestInv, Patient, [Next]_vars PROVE NestInv'
<1>1. CASE UNCHANGED vars
  BY <1>1 DEF vars, NestInv, RailsInv, Nested
<1>2. ASSUME NEW p \in Pages, ScanAdd(p) \/ ScanEnd(p) \/ Rescan(p) \/ ClearRecent(p)
      PROVE  NestInv'
  BY <1>2, ScanAddNests, ScanEndNests, RescanNests, ClearRecentNests
<1>3. ASSUME NEW o \in dying, Delete(o) PROVE NestInv'
  BY <1>3, DeleteNests
<1>4. CASE Move \/ TurnPage \/ OpenCard \/ OpenBox \/ Launch \/ EnterNav
  BY <1>4, MoveNests, TurnPageNests, OpenCardNests, OpenBoxNests, LaunchNests, EnterNavNests
<1>5. CASE NavMove \/ \E cancel \in BOOLEAN : ExitNav(cancel)
  BY <1>5, NavMoveNests, ExitNavNests
<1>6. CASE CardBack \/ OpenPanel \/ ClosePanel \/ OpenKeyboard \/ CloseKeyboard
  BY <1>6, CardBackNests, OpenPanelNests, ClosePanelNests, OpenKeyboardNests, CloseKeyboardNests
<1>7. CASE OpenMenu \/ MenuBack
  BY <1>7, OpenMenuNests, MenuBackNests
<1>8. QED
  BY <1>1, <1>2, <1>3, <1>4, <1>5, <1>6, <1>7 DEF Next

(* If scans wait, windows and the stack of the focus always nest: what a   *)
(* closed window gives the focus back to is what had it before, no pop is  *)
(* without its push (dash_main.c:128), and keys go to the window on top.   *)
THEOREM WindowsAlwaysNest ==
  ASSUME Patient = TRUE
  PROVE  Spec => []WindowsNest
<1>1. Init => NestInv
  BY InitNests
<1>2. NestInv /\ [Next]_vars => NestInv'
  BY NextNests
<1>3. NestInv => WindowsNest
  BY InvIsSafe
<1>4. QED
  BY <1>1, <1>2, <1>3, PTL DEF Spec

(***************************************************************************)
(* The rails: the selection and the focus follow one another, in what is   *)
(* on the screen and in what a window will give back.                      *)
(***************************************************************************)
IsTile(o) == o # None /\ o.k = "tile"
Read      == scan[page] = -1 /\ tiles[page] # << >>
OfRail(o) == o \in ToSet(tiles[page]) \cup {Null(page)}

TilesAre(ts) ==
  \A p \in Pages :
    /\ IsSeq(ts[p])
    /\ \A i \in 1..Len(ts[p]) : ts[p][i].k = "tile" /\ ts[p][i].p = p /\ ts[p][i].n = i

RailsAre ==
  /\ TilesAre(tiles)
  /\ rescans \in 0..MaxRescans /\ scan = [p \in Pages |-> scan[p]]
  /\ \A p \in Pages : scan[p] \in -1..Rows[p] /\ Len(tiles[p]) + Max({0, scan[p]}) <= Rows[p]

Selection ==
  /\ sel \in Int /\ junk \in [Pages -> Int] /\ tab \in Tabs /\ nav \in BOOLEAN
  /\ nav => /\ Len(layers) = 1 /\ layers[1].k = "nav"
            /\ origin.tab \in Tabs /\ origin.sel \in Int
  /\ ~nav /\ Read => final = Null(page)

Alive ==
  /\ focus \in Live(tiles, layers, dying) \cup {None}
  /\ \A d \in dying : d.k \notin {"tile", "null", "nav"}
  /\ layers # << >> => stack[1] # layers[1]

(* What has the focus without a window, and what is at the bottom of the   *)
(* stack with one, is of the page on the screen.                           *)
Follows(o) == (IsTile(o) => o.p = page) /\ (Read => OfRail(o))
AtRest     == layers = << >> => Follows(focus) /\ (IsTile(focus) => sel = focus.n)
Under      == layers # << >> /\ ~nav => Follows(stack[1])

ViewInv == RailsAre /\ Selection /\ Alive /\ AtRest /\ Under

(* Bounds on a selection.                                                  *)
LEMMA MinOfTwo ==
  ASSUME NEW x \in Int, NEW y \in Int
  PROVE  Min({x, y}) = IF x <= y THEN x ELSE y
  BY DEF Min

LEMMA MaxOfTwo ==
  ASSUME NEW x \in Int, NEW y \in Int
  PROVE  Max({x, y}) = IF x >= y THEN x ELSE y
  BY DEF Max

LEMMA Clamped ==
  ASSUME NEW x \in Int, NEW n \in Nat
  PROVE  /\ Clamp(1, x, n) \in Int
         /\ n > 0 => Clamp(1, x, n) \in 1..n
         /\ x \in 1..n => Clamp(1, x, n) = x
<1>1. Min({x, n}) = IF x <= n THEN x ELSE n
  BY MinOfTwo
<1>2. Min({x, n}) \in Int
  BY <1>1
<1>3. Max({1, Min({x, n})}) = IF 1 >= Min({x, n}) THEN 1 ELSE Min({x, n})
  BY <1>2, MaxOfTwo
<1>4. QED
  BY <1>1, <1>2, <1>3 DEF Clamp

(* What is alive and a tile is the tile that its page has at its place.    *)
LEMMA AliveTile ==
  ASSUME NestInv, Alive, NEW ts, TilesAre(ts), NEW ls, ToSet(ls) \subseteq ToSet(layers),
         NEW o \in Live(ts, ls, dying)
  PROVE  /\ o.k = "tile" => o.p \in Pages /\ o.n \in 1..Len(ts[o.p]) /\ o = ts[o.p][o.n]
         /\ o.k = "null" => o.p \in Pages /\ o = Null(o.p)
         /\ o.k \in {"tile", "null"} \/ o \in ToSet(ls) \/ o \in dying
<1>1. CASE o \in {Null(p) : p \in Pages}
  BY <1>1 DEF Null, Obj
<1>2. CASE o \in UNION {ToSet(ts[p]) : p \in Pages}
  <2>1. PICK p \in Pages : o \in ToSet(ts[p])
    BY <1>2
  <2>2. PICK i \in 1..Len(ts[p]) : o = ts[p][i]
    BY <2>1, SeqFacts DEF TilesAre
  <2>3. o.k = "tile" /\ o.p = p /\ o.n = i
    BY <2>2 DEF TilesAre
  <2>4. QED
    BY <2>2, <2>3
<1>3. CASE o \in ToSet(ls)
  <2>1. PICK i \in 1..Len(layers) : o = layers[i]
    BY <1>3, SeqFacts DEF NestInv, Nested
  <2>2. o.k \in Windows
    BY <2>1 DEF NestInv, Nested
  <2>3. QED
    BY <1>3, <2>2 DEF Windows
<1>4. CASE o \in dying
  BY <1>4 DEF Alive
<1>5. QED
  BY <1>1, <1>2, <1>3, <1>4 DEF Live

(* The selection after a tile of the page got the focus is its place.      *)
LEMMA Selects ==
  ASSUME NEW o, NEW s \in Int, NEW p \in Pages, NEW ts, IsSeq(ts[p]), NEW active,
         junk \in [Pages -> Int],
         o.k = "tile" => o.n \in Int, o.k = "null" => o.p \in Pages
  PROVE  /\ FocusedSel(o, s, p, ts, active) \in Int
         /\ ~active /\ o.k = "tile" /\ o.n \in 1..Len(ts[p]) => FocusedSel(o, s, p, ts, active) = o.n
<1> DEFINE i == IF o.k = "tile" THEN o.n ELSE junk[o.p]
           r == IF Len(ts[p]) > 0 THEN Clamp(1, i, Len(ts[p])) ELSE i
<1>1. Len(ts[p]) \in Nat
  BY SeqFacts
<1>2. CASE active \/ o.k \notin {"tile", "null"}
  BY <1>2 DEF FocusedSel
<1>3. CASE ~(active \/ o.k \notin {"tile", "null"})
  <2>1. i \in Int
    BY <1>3
  <2>2. FocusedSel(o, s, p, ts, active) = r
    BY <1>3 DEF FocusedSel
  <2>3. o.k = "tile" => i = o.n
    OBVIOUS
  <2> HIDE DEF i
  <2>4. /\ Clamp(1, i, Len(ts[p])) \in Int
        /\ i \in 1..Len(ts[p]) => Clamp(1, i, Len(ts[p])) = i
    BY <1>1, <2>1, Clamped
  <2>5. r \in Int /\ (i \in 1..Len(ts[p]) => r = i)
    BY <1>1, <2>1, <2>4
  <2> HIDE DEF r
  <2>6. QED
    BY <2>2, <2>3, <2>5
<1>4. QED
  BY <1>2, <1>3

(* A key on an item or a window other than the tab bar: that is not active. *)
LEMMA NotNav ==
  ASSUME NestInv, Selection, focus.k # "nav"
  PROVE  ~nav
<1>1. SUFFICES ASSUME nav PROVE FALSE
  OBVIOUS
<1>2. Len(layers) = 1 /\ layers[1].k = "nav"
  BY <1>1 DEF Selection
<1>3. layers # << >>
  <2>1. IsSeq(layers)
    BY DEF NestInv, Nested
  <2>2. Len(layers) # 0
    BY <1>2
  <2>3. QED
    BY Zenon, <2>1, <2>2, SeqFacts
<1>4. focus = layers[1]
  BY <1>2, <1>3 DEF NestInv, Nested
<1>5. QED
  BY <1>2, <1>4

(* Where a page keeps its tiles or loses them all, what follows it does.   *)
LEMMA StillFollows ==
  ASSUME NEW o, Follows(o), page' = page,
         Read' => Read /\ tiles'[page] = tiles[page]
  PROVE  Follows(o)'
  BY DEF Follows, OfRail, IsTile

(***************************************************************************)
(* The windows.                                                            *)
(***************************************************************************)

(* With a window the sequences are not empty, and begin at 1.              *)
LEMMA Bottoms ==
  ASSUME NestInv
  PROVE  /\ Len(layers) \in Nat /\ Len(stack) = Len(layers)
         /\ (layers = << >>) = (Len(layers) = 0) /\ (stack = << >>) = (Len(layers) = 0)
         /\ IsSeq(layers) /\ IsSeq(stack)
<1>1. IsSeq(layers) /\ IsSeq(stack) /\ Len(stack) = Len(layers)
  BY DEF NestInv, Nested
<1>2. QED
  BY <1>1, SeqFacts

(* A window opens over what has the focus: it is kept.                     *)
LEMMA OpenView ==
  ASSUME NestInv, ViewInv, NEW k \in Windows \ {"nav"}, Push(New(k, 0, 0)),
         focus # None, focus.k # "nav",
         UNCHANGED << tiles, scan, rescans, page, sel, tab, nav, origin, dying, final, junk >>
  PROVE  ViewInv'
<1> DEFINE o == New(k, 0, 0)
<1>1. o.k = k /\ o \notin ToSet(layers) /\ o \notin dying
  BY InvIsFinite, NewIsNew
<1>2. layers' = Append(layers, o) /\ stack' = Append(stack, focus) /\ focus' = o
  BY DEF Push
<1> HIDE DEF o
<1>3. ~nav /\ ~nav'
  BY NotNav DEF ViewInv
<1>4. /\ Len(layers') = Len(layers) + 1 /\ layers' # << >>
      /\ layers'[Len(layers) + 1] = o /\ \A i \in 1..Len(layers) : layers'[i] = layers[i]
      /\ IsSeq(layers')
  BY <1>2, Bottoms, Pushed, SeqFacts
<1>5. /\ stack'[Len(layers) + 1] = focus /\ \A i \in 1..Len(layers) : stack'[i] = stack[i]
  BY <1>2, Bottoms, Pushed
<1>6. RailsAre' /\ Selection'
  <2>1. RailsAre'
    BY DEF ViewInv, RailsAre, TilesAre
  <2>2. (~nav /\ Read => final = Null(page))'
    BY <1>3 DEF ViewInv, Selection, Read
  <2>3. (sel \in Int /\ junk \in [Pages -> Int] /\ tab \in Tabs /\ nav \in BOOLEAN)'
    BY DEF ViewInv, Selection
  <2>4. QED
    BY Zenon, <1>3, <2>1, <2>2, <2>3 DEF Selection
<1>7. o \in ToSet(layers')
  BY <1>4, Bottoms, SeqFacts
<1>8. Alive'
  <2>1. focus' \in Live(tiles', layers', dying')
    BY <1>2, <1>7 DEF Live
  <2>2. stack'[1] # layers'[1]
    <3>1. CASE layers = << >>
      <4>1. stack'[1] = focus /\ layers'[1] = o
        BY <1>4, <1>5, <3>1, Bottoms
      <4>2. focus # o
        <5>1. focus \in Live(tiles, layers, dying)
          BY DEF ViewInv, Alive
        <5>2. o.k \notin {"tile", "null"}
          BY <1>1 DEF Windows
        <5>3. focus.k \in {"tile", "null"} \/ focus \in ToSet(layers) \/ focus \in dying
          BY <5>1, AliveTile DEF ViewInv, RailsAre
        <5>4. QED
          BY <1>1, <5>2, <5>3
      <4>3. QED
        BY <4>1, <4>2
    <3>2. CASE layers # << >>
      <4>1. 1 \in 1..Len(layers)
        BY <3>2, Bottoms
      <4>2. QED
        BY <1>4, <1>5, <3>2, <4>1 DEF ViewInv, Alive
    <3>3. QED
      BY <3>1, <3>2
  <2>3. \A d \in dying' : d.k \notin {"tile", "null", "nav"}
    BY DEF ViewInv, Alive
  <2>4. QED
    BY <2>1, <2>2, <2>3 DEF Alive
<1>9. Under'
  <2>1. \A x : Follows(x) => Follows(x)'
    BY DEF Follows, OfRail, IsTile, Read
  <2>2. \E x : x = stack'[1] /\ Follows(x)
    <3>1. CASE layers = << >>
      BY <1>5, <3>1, Bottoms DEF ViewInv, AtRest
    <3>2. CASE layers # << >>
      <4>1. 1 \in 1..Len(layers)
        BY <3>2, Bottoms
      <4>2. QED
        BY <1>3, <1>5, <3>2, <4>1 DEF ViewInv, Under
    <3>3. QED
      BY <3>1, <3>2
  <2>3. PICK x : x = stack'[1] /\ Follows(x)'
    BY <2>1, <2>2
  <2>4. QED
    BY <2>3 DEF Under, Follows, OfRail, IsTile, Read
<1>10. AtRest'
  BY <1>4 DEF AtRest
<1>11. QED
  BY <1>6, <1>8, <1>9, <1>10 DEF ViewInv

(* What gets the focus when the last window closes: what had it before, if *)
(* that is still there, or the hidden item of the page.                    *)
LEMMA PopLast ==
  ASSUME NestInv, Len(layers) = 1, NEW there, NEW s, NEW ts, Pop(there, s, ts), final \in there
  PROVE  /\ sel' = FocusedSel(focus', s, page, ts, nav)
         /\ focus' = final \/ (focus' = stack[1] /\ stack[1] \in there)
<1> DEFINE Entry(i) == IF i = 0 THEN final ELSE stack[i]
           S == {j \in 0..Len(stack) : Entry(j) \in there}
<1>1. Len(stack) = 1
  BY Bottoms
<1>2. focus' = Entry(Max(S)) /\ sel' = FocusedSel(Entry(Max(S)), s, page, ts, nav)
  BY DEF Pop
<1>3. S \in SUBSET {0, 1} /\ 0 \in S
  BY <1>1
<1>4. (Max(S) = 0) \/ (Max(S) = 1 /\ 1 \in S)
  <2>1. CASE 1 \in S
    BY <1>3, <2>1, Largest
  <2>2. CASE 1 \notin S
    BY <1>3, <2>2, Largest
  <2>3. QED
    BY <2>1, <2>2
<1>5. 1 \in S => stack[1] \in there
  OBVIOUS
<1> HIDE DEF S
<1>6. CASE Max(S) = 0
  BY <1>2, <1>6
<1>7. CASE Max(S) = 1 /\ 1 \in S
  BY <1>2, <1>5, <1>7
<1>8. QED
  BY <1>4, <1>6, <1>7

(* A window closes and what was under it gets the focus back, though the   *)
(* tiles of a page may have gone.                                          *)
LEMMA CloseView ==
  ASSUME NestInv, ViewInv, focus.k # "nav", layers # << >>,
         NEW i, i = Len(layers), layers' = RemoveAt(layers, i),
         dying' \in {dying, dying \cup {layers[i]}},
         layers[i].k \notin {"tile", "null", "nav"},
         NEW ts, NEW there, there \in {Live(ts, layers, dying), Live(ts, layers', dying)},
         NEW s \in Int, Pop(there, s, ts),
         tiles' = ts, RailsAre', \A p \in Pages : ts[p] = tiles[p] \/ ts[p] = << >>,
         UNCHANGED << scan, page, tab, nav, origin, final, junk >>
  PROVE  ViewInv'
<1> DEFINE n == Len(layers)
<1>1. n \in Nat /\ n > 0 /\ Len(stack) = n /\ stack # << >> /\ IsSeq(layers) /\ IsSeq(stack)
  BY Bottoms
<1>2. /\ IsSeq(layers') /\ Len(layers') = n - 1 /\ \A j \in 1..(n - 1) : layers'[j] = layers[j]
  BY <1>1, Popped
<1>3. ToSet(layers') \subseteq ToSet(layers) /\ layers[n] \in ToSet(layers)
  <2>1. layers[n] \in ToSet(layers)
    BY <1>1, SeqFacts
  <2>2. ASSUME NEW x \in ToSet(layers') PROVE x \in ToSet(layers)
    <3>1. PICK j \in 1..Len(layers') : x = layers'[j]
      BY <1>2, SeqFacts
    <3>2. j \in 1..n /\ x = layers[j]
      BY <1>1, <1>2, <3>1
    <3>3. QED
      BY <1>1, <3>2, SeqFacts
  <2>3. QED
    BY <2>1, <2>2
<1>4. /\ final \in there /\ (n > 1 => layers[n - 1] \in there)
  BY UnderLives
<1>5. /\ stack' = SubSeq(stack, 1, Len(stack) - 1)
      /\ n > 1 => focus' = stack[n]
  BY <1>4, PopGoesBack
<1>6. n > 1 => stack'[1] = stack[1] /\ layers'[1] = layers[1] /\ focus' = layers'[n - 1]
  <2> SUFFICES ASSUME n > 1
               PROVE  stack'[1] = stack[1] /\ layers'[1] = layers[1] /\ focus' = layers'[n - 1]
    OBVIOUS
  <2>1. stack'[1] = stack[1]
    BY <1>1, <1>5, Popped
  <2>2. n - 1 \in 1..(n - 1) /\ 1 \in 1..(n - 1) /\ (n - 1) + 1 = n
    BY <1>1
  <2>3. stack[n] = layers[n - 1]
    BY <2>2 DEF NestInv, Nested
  <2>4. QED
    BY <1>2, <1>5, <2>1, <2>2, <2>3
<1>7. ~nav /\ ~nav' /\ page \in Pages /\ final \in {Null(p) : p \in Pages} /\ TilesAre(ts)
  BY NotNav DEF ViewInv, NestInv, RailsInv, RailsAre
<1>8. Read' => Read /\ tiles'[page] = tiles[page]
  BY <1>7 DEF Read
<1>9. n = 1 => focus' = final \/ (focus' = stack[1] /\ stack[1] \in there)
  BY <1>4, PopLast
<1>10. sel' = FocusedSel(focus', s, page, ts, nav)
  BY Zenon DEF Pop
<1>11. focus' \in Live(ts, layers', dying)
  <2>1. CASE n > 1
    <3>1. focus' \in ToSet(layers')
      BY <1>1, <1>2, <1>6, <2>1, SeqFacts
    <3>2. QED
      BY <3>1 DEF Live
  <2>2. CASE n = 1 /\ focus' = final
    BY <1>7, <2>2, NullsLive
  <2>3. CASE n = 1 /\ focus' = stack[1] /\ stack[1] \in there
    <3>1. stack[1] # layers[1]
      BY DEF ViewInv, Alive
    <3>2. ToSet(layers) = {layers[1]}
      BY <1>1, <2>3, SeqFacts
    <3>3. QED
      BY <2>3, <3>1, <3>2 DEF Live
  <2>4. QED
    BY <1>1, <1>9, <2>1, <2>2, <2>3
<1>12. /\ focus'.k = "tile" => focus'.p \in Pages /\ focus'.n \in 1..Len(ts[focus'.p])
       /\ focus'.k = "null" => focus'.p \in Pages
  BY <1>3, <1>7, <1>11, AliveTile DEF ViewInv
<1>13. /\ sel' \in Int
       /\ focus'.k = "tile" /\ focus'.p = page => sel' = focus'.n
  <2>1. IsSeq(ts[page])
    BY <1>7 DEF TilesAre
  <2>2. focus'.k = "tile" => focus'.n \in Int
    <3> SUFFICES ASSUME focus'.k = "tile" PROVE focus'.n \in Int
      OBVIOUS
    <3>1. IsSeq(ts[focus'.p]) /\ focus'.n \in 1..Len(ts[focus'.p])
      BY <1>7, <1>12 DEF TilesAre
    <3>2. Len(ts[focus'.p]) \in Nat
      BY <3>1, SeqFacts
    <3>3. QED
      BY <3>1, <3>2
  <2>3. junk \in [Pages -> Int]
    BY DEF ViewInv, Selection
  <2>4. PICK o : o = focus'
    OBVIOUS
  <2>5. /\ FocusedSel(o, s, page, ts, nav) \in Int
        /\ ~nav /\ o.k = "tile" /\ o.n \in 1..Len(ts[page]) => FocusedSel(o, s, page, ts, nav) = o.n
    <3>1. (o.k = "tile" => o.n \in Int) /\ (o.k = "null" => o.p \in Pages)
      BY <1>12, <2>2, <2>4
    <3>2. page \in Pages /\ s \in Int
      BY <1>7
    <3>3. QED
      BY Zenon, <2>1, <2>3, <3>1, <3>2, Selects
  <2>6. QED
    BY <1>7, <1>10, <1>12, <2>4, <2>5
<1>14. Selection'
  <2>1. (~nav /\ Read => final = Null(page))'
    BY <1>7, <1>8 DEF ViewInv, Selection
  <2>2. (junk \in [Pages -> Int] /\ tab \in Tabs /\ nav \in BOOLEAN)'
    BY DEF ViewInv, Selection
  <2>3. QED
    BY Zenon, <1>7, <1>13, <2>1, <2>2 DEF Selection
<1>15. Alive'
  <2>1. focus' \in Live(tiles', layers', dying')
    BY <1>11 DEF Live
  <2>2. \A d \in dying' : d.k \notin {"tile", "null", "nav"}
    BY DEF ViewInv, Alive
  <2>3. layers' # << >> => n > 1
    BY <1>1, <1>2, SeqFacts
  <2>4. layers' # << >> => stack'[1] # layers'[1]
    BY <1>6, <2>3 DEF ViewInv, Alive
  <2>5. QED
    BY <2>1, <2>2, <2>4 DEF Alive
<1>16. AtRest'
  <2> SUFFICES ASSUME layers' = << >> PROVE (Follows(focus) /\ (IsTile(focus) => sel = focus.n))'
    BY DEF AtRest
  <2>1. n = 1
    <3>1. Len(layers') = 0
      BY EmptyIsSeq
    <3>2. Len(layers') = n - 1
      BY <1>2
    <3>3. n - 1 = 0
      BY Zenon, <3>1, <3>2
    <3> HIDE DEF n
    <3>4. QED
      BY <1>1, <3>3
  <2>2. CASE focus' = final
    <3>1. final.k = "null"
      BY <1>7 DEF Null, Obj
    <3>2. Read' => final = Null(page)
      BY <1>7, <1>8 DEF ViewInv, Selection
    <3>3. QED
      BY <2>2, <3>1, <3>2 DEF Follows, IsTile, OfRail
  <2>3. CASE focus' = stack[1]
    <3>1. PICK o : o = stack[1]
      OBVIOUS
    <3>2. Follows(o)
      BY <1>7, <3>1 DEF ViewInv, Under
    <3>3. Follows(o)'
      BY <1>8, <3>2, StillFollows
    <3>4. QED
      BY <1>13, <2>3, <3>1, <3>3 DEF Follows, IsTile, OfRail
  <2>4. QED
    BY <1>9, <2>1, <2>2, <2>3
<1>17. Under'
  <2> SUFFICES ASSUME layers' # << >> PROVE (Follows(stack[1]))'
    BY DEF Under
  <2>1. n > 1
    BY <1>1, <1>2, SeqFacts
  <2>2. PICK o : o = stack[1]
    OBVIOUS
  <2>3. Follows(o)
    BY <1>7, <2>2 DEF ViewInv, Under
  <2>4. Follows(o)'
    BY <1>8, <2>3, StillFollows
  <2>5. QED
    BY <1>6, <2>1, <2>2, <2>4 DEF Follows, OfRail
<1>18. QED
  BY <1>14, <1>15, <1>16, <1>17 DEF ViewInv

(***************************************************************************)
(* The rails, with no window open.                                         *)
(***************************************************************************)

(* Without a window only the selection and the focus matter, ...           *)
LEMMA RestingView ==
  ASSUME ViewInv, RailsAre', UNCHANGED junk, dying' \subseteq dying,
         layers' = << >>, nav' = FALSE, sel' \in Int, tab' \in Tabs,
         (Read => final = Null(page))',
         focus' \in Live(tiles', layers', dying') \cup {None},
         Follows(focus)', (IsTile(focus) => sel = focus.n)'
  PROVE  ViewInv'
<1>1. (sel \in Int /\ junk \in [Pages -> Int] /\ tab \in Tabs /\ nav \in BOOLEAN)'
  BY DEF ViewInv, Selection
<1>2. Selection'
  BY Zenon, <1>1 DEF Selection
<1>3. Alive'
  BY DEF ViewInv, Alive
<1>4. QED
  BY <1>2, <1>3 DEF ViewInv, AtRest, Under

(* ... and an item of the page on the screen has the focus.                *)
LEMMA ItemOf ==
  ASSUME NEW ts, TilesAre(ts), NEW p \in Pages, NEW x, x = Null(p) \/ x \in ToSet(ts[p]),
         NEW ls, NEW ds
  PROVE  /\ x \in Live(ts, ls, ds) /\ x.p = p /\ x.k \in {"tile", "null"}
         /\ x.k = "tile" => x.n \in 1..Len(ts[p]) /\ x = ts[p][x.n]
<1>1. CASE x = Null(p)
  BY <1>1, NullsLive DEF Null, Obj
<1>2. CASE x \in ToSet(ts[p])
  <2>1. PICK i \in 1..Len(ts[p]) : x = ts[p][i]
    BY <1>2, SeqFacts DEF TilesAre
  <2>2. x.k = "tile" /\ x.p = p /\ x.n = i
    BY <2>1 DEF TilesAre
  <2>3. x \in Live(ts, ls, ds)
    BY <1>2 DEF Live
  <2>4. QED
    BY <2>1, <2>2, <2>3
<1>3. QED
  BY <1>1, <1>2

LEMMA ItemView ==
  ASSUME ViewInv, RailsAre', UNCHANGED junk, dying' \subseteq dying,
         layers' = << >>, nav' = FALSE, sel' \in Int, tab' \in Tabs, page' \in Pages,
         (Read => final = Null(page))',
         NEW x, focus' = x, x = Null(page') \/ x \in ToSet(tiles'[page']),
         x.k = "tile" => sel' = x.n
  PROVE  ViewInv'
<1>1. x \in Live(tiles', layers', dying') /\ x.p = page'
  BY ItemOf DEF RailsAre
<1>2. Follows(focus)'
  BY <1>1 DEF Follows, IsTile, OfRail
<1>3. (IsTile(focus) => sel = focus.n)'
  BY DEF IsTile
<1>4. QED
  BY <1>1, <1>2, <1>3, RestingView

(* A page that is shown has its first tile selected, or its hidden item.   *)
LEMMA FirstItem ==
  ASSUME NestInv, ViewInv, NEW p \in Pages, NEW active, ~active, SetPage(p, tiles, active)
  PROVE  /\ page' = p /\ final' = Null(p) /\ sel' \in Int
         /\ focus' = Null(p) \/ focus' \in ToSet(tiles[p])
         /\ focus'.k = "tile" => sel' = focus'.n
<1> DEFINE first == IF tiles[p] = << >> THEN Null(p) ELSE tiles[p][1]
           s     == IF tiles[p] = << >> THEN 0 ELSE 1
<1>1. page' = p /\ final' = Null(p) /\ focus' = first /\ sel' = FocusedSel(first, s, p, tiles, active)
  BY DEF SetPage
<1>2. TilesAre(tiles) /\ IsSeq(tiles[p]) /\ junk \in [Pages -> Int] /\ s \in Int
  BY DEF ViewInv, RailsAre, TilesAre, Selection
<1>3. first = Null(p) \/ first \in ToSet(tiles[p])
  BY <1>2, SeqFacts
<1> HIDE DEF first, s
<1>4. /\ first.p = p
      /\ first.k = "tile" => first.n \in 1..Len(tiles[p])
  BY <1>2, <1>3, ItemOf
<1>5. (first.k = "tile" => first.n \in Int) /\ (first.k = "null" => first.p \in Pages)
  BY <1>2, <1>4, SeqFacts
<1>6. /\ FocusedSel(first, s, p, tiles, active) \in Int
      /\ ~active /\ first.k = "tile" /\ first.n \in 1..Len(tiles[p]) =>
           FocusedSel(first, s, p, tiles, active) = first.n
  BY Zenon, <1>2, <1>5, Selects
<1>7. QED
  BY <1>1, <1>3, <1>4, <1>6

LEMMA SetPageView ==
  ASSUME NestInv, ViewInv, NEW p \in Pages, NEW active, ~active, SetPage(p, tiles, active),
         RailsAre', UNCHANGED << tiles, junk, dying >>,
         layers' = << >>, nav' = FALSE, tab' \in Tabs
  PROVE  ViewInv'
<1>1. /\ page' = p /\ final' = Null(p) /\ sel' \in Int
      /\ focus' = Null(p) \/ focus' \in ToSet(tiles[p])
      /\ focus'.k = "tile" => sel' = focus'.n
  BY FirstItem
<1>2. PICK x : x = focus'
  OBVIOUS
<1>3. (Read => final = Null(page))'
  BY <1>1 DEF Read
<1>4. /\ sel' \in Int /\ page' \in Pages
      /\ x = Null(page') \/ x \in ToSet(tiles'[page'])
      /\ x.k = "tile" => sel' = x.n
  BY <1>1, <1>2
<1>5. QED
  BY <1>2, <1>3, <1>4, ItemView

(* Without a window the tab bar is not active.                             *)
LEMMA RestIsNotNav ==
  ASSUME ViewInv, layers = << >>
  PROVE  nav = FALSE
<1>1. nav => Len(layers) = 1
  BY DEF ViewInv, Selection
<1>2. Len(layers) = 0
  BY EmptyIsSeq
<1>3. nav \in BOOLEAN
  BY DEF ViewInv, Selection
<1>4. QED
  BY <1>1, <1>2, <1>3

(* With the tab bar active nothing follows the page on the screen.         *)
LEMMA NavView ==
  ASSUME ViewInv, RailsAre', UNCHANGED << junk, dying >>,
         nav' = TRUE, Len(layers') = 1, layers'[1].k = "nav",
         origin'.tab \in Tabs, origin'.sel \in Int,
         sel' \in Int, tab' \in Tabs,
         focus' \in Live(tiles', layers', dying') \cup {None}, stack'[1] # layers'[1]
  PROVE  ViewInv'
<1>1. (sel \in Int /\ junk \in [Pages -> Int] /\ tab \in Tabs /\ nav \in BOOLEAN)'
  BY DEF ViewInv, Selection
<1>2. Selection'
  BY Zenon, <1>1 DEF Selection
<1>3. Alive'
  BY DEF ViewInv, Alive
<1>4. layers' # << >>
  <2>1. Len(layers') # 0
    OBVIOUS
  <2>2. QED
    BY Zenon, <2>1, EmptyIsSeq
<1>5. QED
  BY <1>2, <1>3, <1>4 DEF ViewInv, AtRest, Under

(***************************************************************************)
(* The scan threads.                                                       *)
(***************************************************************************)

(* What neither moves the focus nor shows another page: what follows the   *)
(* page still does.                                                        *)
LEMMA KeepsView ==
  ASSUME ViewInv, RailsAre', Read' => Read /\ tiles'[page] = tiles[page],
         focus \in Live(tiles', layers', dying') \cup {None},
         UNCHANGED << page, tab, nav, origin, sel, layers, dying, focus, final, stack, junk >>
  PROVE  ViewInv'
<1>1. \A o : Follows(o) => Follows(o)'
  BY StillFollows
<1>2. Selection'
  <2>1. (~nav /\ Read => final = Null(page))'
    BY DEF ViewInv, Selection
  <2>2. (sel \in Int /\ junk \in [Pages -> Int] /\ tab \in Tabs /\ nav \in BOOLEAN)'
    BY DEF ViewInv, Selection
  <2>3. (nav => /\ Len(layers) = 1 /\ layers[1].k = "nav"
                /\ origin.tab \in Tabs /\ origin.sel \in Int)'
    BY DEF ViewInv, Selection
  <2>4. QED
    BY Zenon, <2>1, <2>2, <2>3 DEF Selection
<1>3. Alive'
  BY DEF ViewInv, Alive
<1>4. AtRest'
  <2>1. PICK o : o = focus
    OBVIOUS
  <2>2. layers = << >> => Follows(o)'
    BY <1>1, <2>1 DEF ViewInv, AtRest
  <2>3. QED
    BY <2>1, <2>2 DEF ViewInv, AtRest, Follows, IsTile, OfRail
<1>5. Under'
  <2>1. PICK o : o = stack[1]
    OBVIOUS
  <2>2. layers # << >> /\ ~nav => Follows(o)'
    BY <1>1, <2>1 DEF ViewInv, Under
  <2>3. QED
    BY <2>1, <2>2 DEF Under, Follows, IsTile, OfRail
<1>6. QED
  BY <1>2, <1>3, <1>4, <1>5 DEF ViewInv

(* Who has the focus without a window stays there while tiles are added.   *)
LEMMA ScanAddView == ASSUME NestInv, ViewInv, NEW p \in Pages, ScanAdd(p) PROVE ViewInv'
<1> DEFINE o == New("tile", p, Len(tiles[p]) + 1)  n == Len(tiles[p])
<1>1. o.k = "tile" /\ o.p = p /\ o.n = n + 1
  BY DEF New, Obj
<1> HIDE DEF o
<1>2. /\ IsSeq(tiles[p]) /\ n \in Nat
      /\ \A i \in 1..n : tiles[p][i].k = "tile" /\ tiles[p][i].p = p /\ tiles[p][i].n = i
  BY SeqFacts DEF ViewInv, RailsAre, TilesAre
<1>3. PICK rail : rail = Append(tiles[p], o)
  OBVIOUS
<1>4. /\ IsSeq(rail) /\ Len(rail) = n + 1 /\ rail[n + 1] = o
      /\ \A i \in 1..n : rail[i] = tiles[p][i]
  BY <1>2, <1>3, Pushed
<1>5. /\ tiles' = [tiles EXCEPT ![p] = rail] /\ scan' = [scan EXCEPT ![p] = scan[p] - 1]
      /\ scan[p] > 0
      /\ UNCHANGED << page, tab, nav, origin, sel, layers, dying, focus, final, stack, junk, rescans >>
  BY <1>3 DEF ScanAdd, viewVars, o
<1>6. tiles = [q \in Pages |-> tiles[q]] /\ scan = [q \in Pages |-> scan[q]] /\ page \in Pages
  BY DEF NestInv, RailsInv, ViewInv, RailsAre
<1>7. /\ tiles'[p] = rail /\ \A q \in Pages : q # p => tiles'[q] = tiles[q]
      /\ scan'[p] = scan[p] - 1 /\ \A q \in Pages : q # p => scan'[q] = scan[q]
  BY <1>5, <1>6
<1>8. TilesAre(tiles')
  <2>1. SUFFICES ASSUME NEW q \in Pages
                 PROVE  /\ IsSeq(tiles'[q])
                        /\ \A i \in 1..Len(tiles'[q]) :
                             tiles'[q][i].k = "tile" /\ tiles'[q][i].p = q /\ tiles'[q][i].n = i
    BY DEF TilesAre
  <2>2. CASE q = p
    <3>1. \A i \in 1..(n + 1) : rail[i].k = "tile" /\ rail[i].p = p /\ rail[i].n = i
      <4> HIDE DEF n
      <4> TAKE i \in 1..(n + 1)
      <4>1. CASE i = n + 1
        BY <1>1, <1>4, <4>1
      <4>2. CASE i \in 1..n
        BY <1>2, <1>4, <4>2
      <4>3. QED
        BY <1>2, <4>1, <4>2
    <3>2. QED
      BY <1>4, <1>7, <2>2, <3>1
  <2>3. CASE q # p
    BY <1>7, <2>3 DEF ViewInv, RailsAre, TilesAre
  <2>4. QED
    BY <2>2, <2>3
<1>9. \A q \in Pages : scan'[q] \in -1..Rows[q] /\ Len(tiles'[q]) + Max({0, scan'[q]}) <= Rows[q]
  <2> TAKE q \in Pages
  <2>1. scan[q] \in -1..Rows[q] /\ Len(tiles[q]) + Max({0, scan[q]}) <= Rows[q] /\ Rows[q] \in Nat
    BY NavigationAssumption DEF ViewInv, RailsAre
  <2>2. CASE q = p
    <3>1. Max({0, scan[p]}) = scan[p] /\ Max({0, scan[p] - 1}) = scan[p] - 1
      <4>1. scan[p] \in Int /\ scan[p] >= 0 /\ scan[p] - 1 \in Int /\ scan[p] - 1 >= 0
        BY <1>5, <2>1, <2>2
      <4>2. QED
        BY <4>1, MaxOfTwo
    <3> HIDE DEF n
    <3>2. n + scan[p] <= Rows[p]
      BY <2>1, <2>2, <3>1 DEF n
    <3>3. Len(tiles'[p]) = n + 1
      BY <1>4, <1>7
    <3>4. scan[p] \in Int /\ scan[p] <= Rows[p] /\ Rows[p] \in Nat /\ scan[p] > 0
      BY <1>5, <2>1, <2>2
    <3>5. scan'[p] \in -1..Rows[p]
      BY <1>7, <3>4
    <3>6. Max({0, scan'[p]}) = scan[p] - 1
      BY <1>7, <3>1
    <3>7. Len(tiles'[p]) + Max({0, scan'[p]}) <= Rows[p]
      BY <1>2, <3>2, <3>3, <3>4, <3>6
    <3>8. QED
      BY Zenon, <2>2, <3>5, <3>7
  <2>3. CASE q # p
    BY <1>7, <2>1, <2>3
  <2>4. QED
    BY <2>2, <2>3
<1>10. RailsAre'
  <2>1. scan' = [q \in Pages |-> scan'[q]]
    BY <1>5, <1>6
  <2>2. rescans' \in 0..MaxRescans
    BY <1>5 DEF ViewInv, RailsAre
  <2>3. QED
    BY <1>8, <1>9, <2>1, <2>2 DEF RailsAre
<1>11. Read' => Read /\ tiles'[page] = tiles[page]
  <2>1. scan[p] - 1 # -1
    BY <1>5, <1>6 DEF ViewInv, RailsAre
  <2>2. Read' => page # p
    BY <1>5, <1>7, <2>1 DEF Read
  <2>3. QED
    BY <1>5, <1>6, <1>7, <2>2 DEF Read
<1>12. Live(tiles, layers, dying) \subseteq Live(tiles', layers', dying')
  <2>1. \A q \in Pages : ToSet(tiles[q]) \subseteq ToSet(tiles'[q])
    <3> TAKE q \in Pages
    <3>1. CASE q = p
      <4>1. ToSet(tiles[p]) \subseteq ToSet(rail)
        <5> SUFFICES ASSUME NEW x \in ToSet(tiles[p]) PROVE x \in ToSet(rail)
          OBVIOUS
        <5>1. PICK i \in 1..n : x = tiles[p][i]
          BY <1>2, SeqFacts
        <5> HIDE DEF n
        <5>2. i \in 1..Len(rail) /\ rail[i] = x
          BY <1>2, <1>4, <5>1
        <5>3. QED
          BY <1>4, <5>2, SeqFacts
      <4>2. QED
        BY <1>7, <3>1, <4>1
    <3>2. CASE q # p
      BY <1>7, <3>2
    <3>3. QED
      BY <3>1, <3>2
  <2>2. QED
    BY <1>5, <2>1 DEF Live
<1>13. focus \in Live(tiles', layers', dying') \cup {None}
  BY <1>12 DEF ViewInv, Alive
<1>14. QED
  BY <1>5, <1>10, <1>11, <1>13, KeepsView

(* A scan ends: the rails are as they were, and one page more is read.     *)
LEMMA EndedRails ==
  ASSUME ViewInv, NEW p \in Pages, scan[p] = 0, scan' = [scan EXCEPT ![p] = -1],
         UNCHANGED << tiles, rescans >>
  PROVE  RailsAre' /\ scan'[p] = -1 /\ \A q \in Pages : q # p => scan'[q] = scan[q]
<1>1. scan = [q \in Pages |-> scan[q]]
  BY DEF ViewInv, RailsAre
<1>2. scan'[p] = -1 /\ (\A q \in Pages : q # p => scan'[q] = scan[q]) /\ scan' = [q \in Pages |-> scan'[q]]
  BY <1>1
<1>3. \A q \in Pages : scan'[q] \in -1..Rows[q] /\ Len(tiles'[q]) + Max({0, scan'[q]}) <= Rows[q]
  <2> TAKE q \in Pages
  <2>1. scan[q] \in -1..Rows[q] /\ Len(tiles[q]) + Max({0, scan[q]}) <= Rows[q] /\ Rows[q] \in Nat
    BY NavigationAssumption DEF ViewInv, RailsAre
  <2>2. CASE q = p
    <3>1. Max({0, 0}) = 0 /\ Max({0, -1}) = 0
      BY MaxOfTwo
    <3>2. Len(tiles[q]) + 0 <= Rows[q] /\ Max({0, scan'[q]}) = 0 /\ scan'[q] = -1
      BY <1>2, <2>1, <2>2, <3>1
    <3>3. Len(tiles'[q]) + Max({0, scan'[q]}) <= Rows[q]
      BY <3>2
    <3>4. QED
      BY <2>1, <3>2, <3>3
  <2>3. CASE q # p
    BY <1>2, <2>1, <2>3
  <2>4. QED
    BY <2>2, <2>3
<1>4. TilesAre(tiles)'
  BY DEF ViewInv, RailsAre, TilesAre
<1>5. rescans' \in 0..MaxRescans
  BY DEF ViewInv, RailsAre
<1>6. QED
  BY <1>2, <1>3, <1>4, <1>5 DEF RailsAre

LEMMA ScanEndView ==
  ASSUME NestInv, ViewInv, Patient, NEW p \in Pages, ScanEnd(p)
  PROVE  ViewInv'
<1>1. /\ UNCHANGED << tiles, layers, dying, stack, rescans, junk, nav, origin >>
      /\ scan[p] = 0 /\ scan' = [scan EXCEPT ![p] = -1]
  BY DEF ScanEnd, viewVars
<1>2. RailsAre' /\ scan'[p] = -1 /\ \A q \in Pages : q # p => scan'[q] = scan[q]
  BY <1>1, EndedRails
<1>3. page \in Pages /\ TilesAre(tiles) /\ tab \in Tabs /\ sel \in Int /\ TabOf[p] \in Tabs
  BY NavigationAssumption DEF NestInv, RailsInv, ViewInv, RailsAre, Selection
<1>4. CASE /\ p = page /\ tiles[p] # << >> /\ layers = << >>
           /\ sel' = 1 /\ final' = Null(p) /\ focus' = tiles[p][1]
           /\ UNCHANGED viewVars
  <2>1. page' = page /\ tab' = tab /\ nav' = FALSE /\ layers' = << >>
    BY Zenon, <1>1, <1>4, RestIsNotNav DEF viewVars
  <2>2. PICK x : x = tiles[p][1]
    OBVIOUS
  <2>3. IsSeq(tiles[p]) /\ 1 \in 1..Len(tiles[p])
    BY <1>3, <1>4, SeqFacts DEF TilesAre
  <2>4. x \in ToSet(tiles[p]) /\ x.n = 1
    BY <1>3, <2>2, <2>3, SeqFacts DEF TilesAre
  <2>5. (Read => final = Null(page))'
    BY <1>4, <2>1 DEF Read
  <2>6. /\ focus' = x /\ x \in ToSet(tiles'[page']) /\ page' \in Pages /\ tab' \in Tabs
        /\ sel' \in Int /\ sel' = x.n
    BY <1>1, <1>3, <1>4, <2>1, <2>2, <2>4
  <2>7. QED
    BY <1>1, <1>2, <2>1, <2>5, <2>6, ItemView
<1>5. CASE /\ tiles[p] # << >> /\ tiles[page] = << >>
           /\ layers = << >> \/ nav
           /\ SetPage(p, tiles, nav) /\ tab' = TabOf[p]
  <2>1. CASE nav
    <3>1. nav' = TRUE
      BY <1>1, <2>1 DEF ViewInv, Selection
    <3>2. focus' = focus
      BY <1>5, <2>1 DEF SetPage
    <3>3. sel' \in Int
      <4> DEFINE first == IF tiles[p] = << >> THEN Null(p) ELSE tiles[p][1]
                 s     == IF tiles[p] = << >> THEN 0 ELSE 1
      <4>1. sel' = FocusedSel(first, s, p, tiles, nav) /\ s \in Int
        BY <1>5 DEF SetPage
      <4> HIDE DEF first, s
      <4>2. QED
        BY <2>1, <4>1 DEF FocusedSel
    <3>4. /\ Len(layers') = 1 /\ layers'[1].k = "nav" /\ origin'.tab \in Tabs /\ origin'.sel \in Int
      BY <1>1, <2>1 DEF ViewInv, Selection
    <3>5. /\ focus' \in Live(tiles', layers', dying') \cup {None} /\ stack'[1] # layers'[1]
      <4>1. layers # << >>
        BY <2>1, RestIsNotNav
      <4>2. QED
        BY <1>1, <3>2, <4>1 DEF ViewInv, Alive
    <3>6. tab' \in Tabs
      BY <1>3, <1>5
    <3>7. QED
      BY <1>1, <1>2, <3>1, <3>3, <3>4, <3>5, <3>6, NavView
  <2>2. CASE ~nav
    <3>1. layers' = << >> /\ nav' = FALSE /\ tab' \in Tabs
      BY <1>1, <1>3, <1>5, <2>2, RestIsNotNav
    <3>2. SetPage(p, tiles, nav)
      BY <1>5
    <3>3. QED
      BY <1>1, <1>2, <2>2, <3>1, <3>2, SetPageView
  <2>3. QED
    BY <2>1, <2>2
<1>6. CASE /\ tiles[p] = << >> \/ (p # page /\ tiles[page] # << >>)
           /\ UNCHANGED << viewVars, sel, final, focus >>
  <2>1. UNCHANGED << page, tab, sel, final, focus >>
    BY <1>6 DEF viewVars
  <2>2. Read' => Read /\ tiles'[page] = tiles[page]
    BY <1>1, <1>2, <1>3, <1>6, <2>1 DEF Read
  <2>3. focus \in Live(tiles', layers', dying') \cup {None}
    BY <1>1 DEF ViewInv, Alive
  <2>4. QED
    BY <1>1, <1>2, <2>1, <2>2, <2>3, KeepsView
<1>7. QED
  BY <1>4, <1>5, <1>6 DEF ScanEnd

(***************************************************************************)
(* Keys on an item.                                                        *)
(***************************************************************************)
LEMMA SameRails ==
  ASSUME ViewInv, UNCHANGED << tiles, scan, rescans >>
  PROVE  RailsAre'
  BY DEF ViewInv, RailsAre, TilesAre

(* The tile that has the focus is the one at selected_index.               *)
LEMMA FocusedTile ==
  ASSUME NestInv, ViewInv, layers = << >>, IsTile(focus)
  PROVE  /\ focus.p = page /\ focus.n \in 1..Len(tiles[page]) /\ focus = tiles[page][focus.n]
         /\ sel = focus.n
<1>1. focus.p = page /\ sel = focus.n
  BY DEF ViewInv, AtRest, Follows
<1>2. focus \in Live(tiles, layers, dying) /\ focus.k = "tile"
  BY DEF ViewInv, Alive, IsTile
<1>3. focus.n \in 1..Len(tiles[focus.p]) /\ focus = tiles[focus.p][focus.n]
  BY <1>2, AliveTile DEF ViewInv, RailsAre
<1>4. QED
  BY <1>1, <1>3

LEMMA SelectView ==
  ASSUME NestInv, ViewInv, layers = << >>, NEW s \in Int, Select(s),
         IsTile(focus) => s \in 1..Len(tiles[page]),
         UNCHANGED << railVars, viewVars, layers, dying, final, stack, junk >>
  PROVE  ViewInv'
<1> DEFINE rail == tiles[page]  n == Len(rail)
           i == IF s < 0 THEN n + 1 + s ELSE s
           o == IF i = 0 THEN Null(page) ELSE IF i \in 1..n THEN rail[i] ELSE focus
<1>1. /\ UNCHANGED << tiles, scan, rescans, page, tab, nav, layers, dying, final, junk >>
  BY DEF railVars, viewVars
<1>2. RailsAre'
  BY <1>1, SameRails
<1>3. nav = FALSE
  BY RestIsNotNav
<1>4. /\ page \in Pages /\ TilesAre(tiles) /\ IsSeq(rail) /\ junk \in [Pages -> Int] /\ tab \in Tabs
      /\ n \in Nat
  BY SeqFacts DEF NestInv, RailsInv, ViewInv, RailsAre, TilesAre, Selection
<1>5. focus' = o /\ sel' = IF i \in 0..n THEN FocusedSel(o, s, page, tiles, nav) ELSE s
  BY DEF Select
<1>6. (Read => final = Null(page))'
  BY <1>1, <1>3 DEF ViewInv, Selection, Read
<1>7. i \in Int
  BY <1>4
<1>8. i = 0 => o = Null(page)
  OBVIOUS
<1>9. i \in 1..n => o = rail[i]
  OBVIOUS
<1>10. i \notin 0..n => o = focus
  BY <1>4, <1>7
<1>11. s \in 1..n => i = s
  OBVIOUS
<1> HIDE DEF i, o, n, rail
<1>12. CASE i \in 0..n
  <2>1. o = Null(page) \/ o \in ToSet(tiles[page])
    <3>1. CASE i = 0
      BY <1>8, <3>1
    <3>2. CASE i \in 1..n
      BY <1>4, <1>9, <3>2, SeqFacts DEF rail, n
    <3>3. QED
      BY <1>4, <1>7, <1>12, <3>1, <3>2
  <2>2. /\ o.p = page
        /\ o.k = "tile" => o.n \in 1..Len(tiles[page])
    BY <1>4, <2>1, ItemOf
  <2>3. (o.k = "tile" => o.n \in Int) /\ (o.k = "null" => o.p \in Pages)
    BY <1>4, <2>2
  <2>4. /\ FocusedSel(o, s, page, tiles, nav) \in Int
        /\ ~nav /\ o.k = "tile" /\ o.n \in 1..Len(tiles[page]) =>
             FocusedSel(o, s, page, tiles, nav) = o.n
    BY Zenon, <1>4, <2>3, Selects DEF rail
  <2>5. sel' \in Int /\ (o.k = "tile" => sel' = o.n)
    BY <1>3, <1>5, <1>12, <2>2, <2>4
  <2>6. (o = Null(page') \/ o \in ToSet(tiles'[page'])) /\ layers' = << >> /\ nav' = FALSE
    BY <1>1, <1>3, <2>1
  <2>7. tab' \in Tabs /\ page' \in Pages /\ dying' \subseteq dying /\ focus' = o
    BY <1>1, <1>4, <1>5
  <2>8. QED
    BY <1>1, <1>2, <1>6, <2>5, <2>6, <2>7, ItemView
<1>13. CASE i \notin 0..n
  <2>1. focus' = focus /\ sel' = s
    BY <1>5, <1>10, <1>13
  <2>2. ~IsTile(focus)
    <3>1. i \notin 1..n
      BY <1>4, <1>7, <1>13
    <3>2. QED
      BY <1>11, <3>1 DEF n, rail
  <2>3. Follows(focus)'
    <3>1. Follows(focus)
      BY DEF ViewInv, AtRest
    <3>2. QED
      BY <1>1, <2>1, <3>1 DEF Follows, IsTile, OfRail, Read
  <2>4. (IsTile(focus) => sel = focus.n)'
    BY <2>1, <2>2 DEF IsTile
  <2>5. focus' \in Live(tiles', layers', dying') \cup {None}
    BY <1>1, <2>1 DEF ViewInv, Alive
  <2>6. sel' \in Int /\ tab' \in Tabs /\ layers' = << >> /\ nav' = FALSE /\ dying' \subseteq dying
    BY <1>1, <1>3, <1>4, <2>1
  <2>7. QED
    BY <1>1, <1>2, <1>6, <2>3, <2>4, <2>5, <2>6, RestingView
<1>14. QED
  BY <1>12, <1>13

LEMMA MoveView == ASSUME NestInv, ViewInv, Move PROVE ViewInv'
<1> DEFINE last == Len(tiles[page])
<1>1. layers = << >>
  BY ItemsHaveNoWindow DEF Move
<1>2. UNCHANGED << railVars, viewVars, layers, dying, final, stack, junk >>
  BY DEF Move
<1>3. PICK s \in { IF sel < last THEN sel + 1 ELSE sel, IF sel > 1 THEN sel - 1 ELSE sel,
                   Clamp(1, sel + 6, last), Clamp(1, sel - 6, last) } : Select(s)
  BY DEF Move
<1>4. sel \in Int /\ last \in Nat
  BY SeqFacts DEF NestInv, RailsInv, ViewInv, Selection
<1>5. IsTile(focus) => sel \in 1..last
  BY <1>1, FocusedTile
<1> HIDE DEF last
<1>6. s \in Int /\ (sel \in 1..last => s \in 1..last)
  <2>1. sel + 6 \in Int /\ sel - 6 \in Int
    BY <1>4
  <2>2. CASE s = Clamp(1, sel + 6, last) \/ s = Clamp(1, sel - 6, last)
    <3>1. \A x \in Int : Clamp(1, x, last) \in Int /\ (last > 0 => Clamp(1, x, last) \in 1..last)
      BY <1>4, Clamped
    <3>2. s \in Int /\ (last > 0 => s \in 1..last)
      BY <2>1, <2>2, <3>1
    <3>3. sel \in 1..last => last > 0
      BY <1>4
    <3>4. QED
      BY <3>2, <3>3
  <2>3. CASE s \in {IF sel < last THEN sel + 1 ELSE sel, IF sel > 1 THEN sel - 1 ELSE sel}
    BY <1>4, <2>3
  <2>4. QED
    BY <1>3, <2>2, <2>3
<1>7. QED
  BY <1>1, <1>2, <1>3, <1>5, <1>6, SelectView DEF last

LEMMA TurnPageView == ASSUME NestInv, ViewInv, TurnPage PROVE ViewInv'
<1>1. layers = << >>
  BY ItemsHaveNoWindow DEF TurnPage
<1>2. nav = FALSE
  BY <1>1, RestIsNotNav
<1>3. /\ UNCHANGED << tiles, scan, rescans, nav, layers, dying, junk >>
  BY DEF TurnPage, railVars
<1>4. PICK p \in { IF page = NumPages THEN 1 ELSE page + 1, IF page = 1 THEN NumPages ELSE page - 1 } :
        SetPage(p, tiles, nav) /\ tab' = TabOf[p]
  BY DEF TurnPage
<1>5. p \in Pages
  BY <1>4, Neighbours
<1>6. tab' \in Tabs
  BY <1>4, <1>5, NavigationAssumption
<1>7. RailsAre' /\ layers' = << >> /\ nav' = FALSE
  BY <1>1, <1>2, <1>3, SameRails
<1>8. QED
  BY <1>2, <1>3, <1>4, <1>5, <1>6, <1>7, SetPageView

LEMMA OpenCardView == ASSUME NestInv, ViewInv, OpenCard PROVE ViewInv'
<1>1. layers = << >>
  BY ItemsHaveNoWindow DEF OpenCard
<1>2. ~CloseCard
  <2>1. Len(layers) = 0
    BY <1>1, EmptyIsSeq
  <2>2. QED
    BY <2>1 DEF CloseCard
<1>3. /\ Push(New("card", 0, 0)) /\ focus # None /\ focus.k # "nav"
      /\ UNCHANGED << tiles, scan, rescans, page, sel, tab, nav, origin, dying, final, junk >>
  BY <1>2 DEF OpenCard, OnItem, On, railVars, viewVars
<1>4. QED
  BY <1>3, OpenView DEF Windows

LEMMA OpenBoxView == ASSUME NestInv, ViewInv, OpenBox PROVE ViewInv'
<1>1. /\ Push(New("menu", 0, 0)) /\ focus # None /\ focus.k # "nav"
      /\ UNCHANGED << tiles, scan, rescans, page, sel, tab, nav, origin, dying, final, junk >>
  BY DEF OpenBox, OnItem, On, railVars, viewVars
<1>2. QED
  BY <1>1, OpenView DEF Windows

LEMMA OpenPanelView == ASSUME NestInv, ViewInv, OpenPanel PROVE ViewInv'
<1>1. /\ Push(New("panel", 0, 0)) /\ focus # None /\ focus.k # "nav"
      /\ UNCHANGED << tiles, scan, rescans, page, sel, tab, nav, origin, dying, final, junk >>
  BY DEF OpenPanel, On, railVars, viewVars
<1>2. QED
  BY <1>1, OpenView DEF Windows

LEMMA OpenKeyboardView == ASSUME NestInv, ViewInv, OpenKeyboard PROVE ViewInv'
<1>1. /\ Push(New("kb", 0, 0)) /\ focus # None /\ focus.k # "nav"
      /\ UNCHANGED << tiles, scan, rescans, page, sel, tab, nav, origin, dying, final, junk >>
  BY DEF OpenKeyboard, On, railVars, viewVars
<1>2. QED
  BY <1>1, OpenView DEF Windows

LEMMA OpenMenuView == ASSUME NestInv, ViewInv, OpenMenu PROVE ViewInv'
<1>1. /\ Push(New("menu", 0, 0)) /\ focus # None /\ focus.k # "nav"
      /\ UNCHANGED << tiles, scan, rescans, page, sel, tab, nav, origin, dying, final, junk >>
  BY DEF OpenMenu, On, railVars, viewVars
<1>2. QED
  BY <1>1, OpenView DEF Windows

(***************************************************************************)
(* The tab bar.                                                            *)
(***************************************************************************)
LEMMA EnterNavView == ASSUME NestInv, ViewInv, EnterNav PROVE ViewInv'
<1> DEFINE o == New("nav", 0, 0)
<1>1. layers = << >>
  BY ItemsHaveNoWindow DEF EnterNav
<1>2. o.k = "nav" /\ o \notin ToSet(layers) /\ o \notin dying
  BY InvIsFinite, NewIsNew
<1>3. /\ layers' = Append(layers, o) /\ stack' = Append(stack, focus) /\ focus' = o
      /\ nav' = TRUE /\ origin' = [tab |-> tab, sel |-> sel]
      /\ UNCHANGED << tiles, scan, rescans, sel, tab, dying, junk >>
  BY DEF EnterNav, Push, railVars
<1> HIDE DEF o
<1>4. IsSeq(layers') /\ Len(layers') = 1 /\ layers'[1] = o /\ stack'[1] = focus
  <2>1. Len(layers) = 0 /\ Len(stack) = 0 /\ IsSeq(layers) /\ IsSeq(stack)
    BY <1>1, Bottoms
  <2>2. IsSeq(layers') /\ Len(layers') = Len(layers) + 1 /\ layers'[Len(layers) + 1] = o
    BY <1>3, <2>1, Pushed
  <2>3. stack'[Len(stack) + 1] = focus
    BY <1>3, <2>1, Pushed
  <2>4. QED
    BY <2>1, <2>2, <2>3
<1>5. o # focus
  <2>1. focus \in Live(tiles, layers, dying) /\ focus.k # "nav"
    BY DEF ViewInv, Alive, EnterNav, OnItem, On
  <2>2. QED
    BY <1>2, <2>1
<1>6. o \in Live(tiles', layers', dying')
  <2>1. o \in ToSet(layers')
    BY <1>4, SeqFacts
  <2>2. QED
    BY <2>1 DEF Live
<1>7. tab \in Tabs /\ sel \in Int
  BY DEF ViewInv, Selection
<1>8. origin'.tab = tab /\ origin'.sel = sel
  BY <1>3
<1>9. RailsAre'
  BY <1>3, SameRails
<1>10. /\ origin'.tab \in Tabs /\ origin'.sel \in Int /\ sel' \in Int /\ tab' \in Tabs
       /\ focus' \in Live(tiles', layers', dying') \cup {None} /\ stack'[1] # layers'[1]
       /\ layers'[1].k = "nav"
  BY <1>2, <1>3, <1>4, <1>5, <1>6, <1>7, <1>8
<1>11. QED
  BY <1>3, <1>4, <1>9, <1>10, NavView

(* With the tab bar active and its object on top there is nothing else.    *)
LEMMA OnlyNav ==
  ASSUME NestInv, ViewInv, NEW i \in 1..Len(layers), layers[i].k = "nav"
  PROVE  i = 1 /\ nav = TRUE /\ Len(layers) = 1 /\ layers[1].k = "nav" /\ layers # << >>
<1>1. i = 1 /\ nav = TRUE
  BY DEF NestInv, Nested
<1>2. Len(layers) = 1 /\ layers[1].k = "nav"
  BY <1>1 DEF ViewInv, Selection
<1>3. QED
  BY <1>1, <1>2, Bottoms

LEMMA NavMoveView == ASSUME NestInv, ViewInv, NavMove PROVE ViewInv'
<1>1. UNCHANGED << tiles, scan, rescans, nav, origin, layers, dying, stack, junk >>
  BY DEF NavMove, railVars
<1>2. PICK t \in Tabs : /\ tab' = t
                        /\ IF PagesOf(t) = {} THEN UNCHANGED << page, sel, final, focus >>
                           ELSE SetPage(Min(PagesOf(t)), tiles, nav)
  BY DEF NavMove
<1>3. RailsAre'
  BY <1>1, SameRails
<1>4. layers # << >> => nav
  BY NavIsActive DEF NavMove
<1>5. CASE nav
  <2>1. nav = TRUE /\ Len(layers) = 1 /\ layers[1].k = "nav" /\ origin.tab \in Tabs /\ origin.sel \in Int
    BY <1>5 DEF ViewInv, Selection
  <2>2. layers # << >>
    BY <2>1, RestIsNotNav, <1>5
  <2>3. focus' = focus /\ sel' \in Int
    <3>1. CASE PagesOf(t) = {}
      BY <1>2, <3>1 DEF ViewInv, Selection
    <3>2. CASE PagesOf(t) # {}
      <4>1. PICK p : p = Min(PagesOf(t))
        OBVIOUS
      <4>2. SetPage(p, tiles, nav)
        BY <1>2, <3>2, <4>1
      <4> DEFINE first == IF tiles[p] = << >> THEN Null(p) ELSE tiles[p][1]
                 s     == IF tiles[p] = << >> THEN 0 ELSE 1
      <4>3. sel' = FocusedSel(first, s, p, tiles, nav) /\ s \in Int /\ focus' = focus
        BY <1>5, <4>2 DEF SetPage
      <4> HIDE DEF first, s
      <4>4. QED
        BY <1>5, <4>3 DEF FocusedSel
    <3>3. QED
      BY <3>1, <3>2
  <2>4. focus' \in Live(tiles', layers', dying') \cup {None} /\ stack'[1] # layers'[1]
    BY <1>1, <2>2, <2>3 DEF ViewInv, Alive
  <2>5. /\ nav' = TRUE /\ Len(layers') = 1 /\ layers'[1].k = "nav"
        /\ origin'.tab \in Tabs /\ origin'.sel \in Int /\ tab' \in Tabs
    BY <1>1, <1>2, <2>1
  <2>6. QED
    BY <1>1, <1>3, <2>3, <2>4, <2>5, NavView
<1>6. CASE ~nav
  <2>1. layers = << >>
    BY <1>4, <1>6
  <2>2. focus.k = "nav" /\ focus # None
    BY DEF NavMove, On
  <2>3. FALSE
    <3>1. focus \in dying
      <4>1. focus \in Live(tiles, layers, dying)
        BY <2>2 DEF ViewInv, Alive
      <4>2. focus \in ToSet(layers) \/ focus \in dying
        BY <2>2, <4>1, AliveTile DEF ViewInv, RailsAre
      <4>3. QED
        BY <2>1, <4>2 DEF ToSet
    <3>2. QED
      BY <2>2, <3>1 DEF ViewInv, Alive
  <2>4. QED
    BY <2>3
<1>7. QED
  BY <1>5, <1>6

(* The tab bar gives the focus to an item, or to what LVGL finds.          *)
LEMMA ExitNavView == ASSUME NestInv, ViewInv, NEW cancel \in BOOLEAN, ExitNav(cancel) PROVE ViewInv'
<1> DEFINE t     == IF cancel THEN origin.tab ELSE tab
           moved == t # origin.tab
           s     == IF moved THEN 1 ELSE origin.sel
<1>1. /\ nav /\ nav' = FALSE /\ tab' = t /\ focus.k = "nav"
      /\ UNCHANGED << tiles, scan, rescans, dying, junk >>
  BY DEF ExitNav, On, railVars
<1>2. PICK i \in 1..Len(layers) : layers[i] = focus /\ layers' = RemoveAt(layers, i)
  BY DEF ExitNav
<1>3. i = 1 /\ Len(layers) = 1 /\ layers # << >> /\ layers[1].k = "nav" /\ layers[1] = focus
  BY <1>1, <1>2, OnlyNav
<1>4. layers' = << >>
  <2>1. IsSeq(layers) /\ layers # << >>
    BY <1>3, Bottoms
  <2>2. layers' = SubSeq(layers, 1, Len(layers) - 1)
    BY <1>2, <1>3, <2>1, Popped
  <2>3. IsSeq(layers') /\ Len(layers') = Len(layers) - 1
    BY <2>1, <2>2, Popped
  <2>4. Len(layers') = 0
    BY <1>3, <2>3
  <2>5. QED
    BY Zenon, <2>3, <2>4, SeqFacts
<1>5. origin.tab \in Tabs /\ origin.sel \in Int /\ tab \in Tabs /\ sel \in Int /\ junk \in [Pages -> Int]
  BY <1>1 DEF ViewInv, Selection
<1>6. tab' \in Tabs /\ s \in Int
  BY <1>1, <1>5
<1>7. RailsAre'
  BY <1>1, SameRails
<1>8. page \in Pages /\ TilesAre(tiles) /\ IsSeq(tiles[page])
  BY DEF NestInv, RailsInv, ViewInv, RailsAre, TilesAre
<1>9. \/ PagesOf(t) # {} /\ SetPage(Min(PagesOf(t)), tiles, FALSE)
      \/ page' = page /\ \E f \in Refocus(focus, tiles, layers, dying) : RestoreFocus(s, f)
  BY DEF ExitNav
<1> HIDE DEF s, t, moved
<1>10. CASE PagesOf(t) # {} /\ SetPage(Min(PagesOf(t)), tiles, FALSE)
  <2>1. PICK p \in Pages : p = Min(PagesOf(t))
    BY <1>10, Smallest DEF PagesOf
  <2>2. SetPage(p, tiles, FALSE)
    BY <1>10, <2>1
  <2>3. QED
    BY <1>1, <1>4, <1>6, <1>7, <2>2, SetPageView
<1>11. CASE page' = page /\ \E f \in Refocus(focus, tiles, layers, dying) : RestoreFocus(s, f)
  <2>1. PICK f \in Refocus(focus, tiles, layers, dying) : RestoreFocus(s, f)
    BY <1>11
  <2>2. CASE tiles[page] = << >>
    <3>1. sel' = sel /\ focus' = f
      BY <2>1, <2>2 DEF RestoreFocus
    <3>2. f = None \/ f \in dying
      <4>1. ToSet(tiles[page]) = {}
        BY <2>2 DEF ToSet
      <4>2. ToSet(layers) = {focus}
        BY <1>3, Bottoms, SeqFacts
      <4>3. QED
        BY <4>1, <4>2 DEF Refocus
    <3>3. ~IsTile(f)
      BY <3>2 DEF ViewInv, Alive, IsTile
    <3>4. ~Read'
      BY <1>1, <1>11, <2>2 DEF Read
    <3>5. (Read => final = Null(page))' /\ Follows(focus)' /\ (IsTile(focus) => sel = focus.n)'
      BY <3>1, <3>3, <3>4 DEF Follows, IsTile
    <3>6. focus' \in Live(tiles', layers', dying') \cup {None}
      BY <1>1, <3>1, <3>2 DEF Live
    <3>7. QED
      BY <1>1, <1>4, <1>5, <1>6, <1>7, <3>1, <3>5, <3>6, RestingView
  <2>3. CASE tiles[page] # << >>
    <3> DEFINE i2 == Clamp(1, s, Len(tiles[page]))
    <3>1. sel' = i2 /\ final' = Null(page) /\ focus' = tiles[page][i2]
      BY <2>1, <2>3 DEF RestoreFocus
    <3>2. i2 \in 1..Len(tiles[page])
      <4>1. Len(tiles[page]) \in Nat /\ Len(tiles[page]) > 0
        BY <1>8, <2>3, SeqFacts
      <4>2. QED
        BY <1>6, <4>1, Clamped
    <3> HIDE DEF i2
    <3>3. PICK x : x = tiles[page][i2]
      OBVIOUS
    <3>4. x \in ToSet(tiles[page]) /\ x.n = i2
      BY <1>8, <3>2, <3>3, SeqFacts DEF TilesAre
    <3>5. (Read => final = Null(page))'
      BY <1>11, <3>1
    <3>6. /\ focus' = x /\ x \in ToSet(tiles'[page']) /\ sel' = x.n /\ page' \in Pages
      BY <1>1, <1>8, <1>11, <3>1, <3>3, <3>4
    <3>7. sel' \in Int
      <4>1. Len(tiles[page]) \in Nat
        BY <1>8, SeqFacts
      <4>2. QED
        BY <3>1, <3>2, <4>1
    <3>8. QED
      BY <1>1, <1>4, <1>6, <1>7, <3>5, <3>6, <3>7, ItemView
  <2>4. QED
    BY <2>2, <2>3
<1>12. QED
  BY <1>9, <1>10, <1>11

(***************************************************************************)
(* Keys on the windows.                                                    *)
(***************************************************************************)
LEMMA BackView ==
  ASSUME NestInv, ViewInv, focus.k # "nav", layers # << >>,
         NEW i, i = Len(layers), layers' = RemoveAt(layers, i),
         dying' \in {dying, dying \cup {layers[i]}},
         layers[i].k \notin {"tile", "null", "nav"},
         Pop(Live(tiles, layers, dying), sel, tiles),
         UNCHANGED << tiles, scan, rescans, page, tab, nav, origin, final, junk >>
  PROVE  ViewInv'
<1>1. PICK there, ts : there = Live(tiles, layers, dying) /\ ts = tiles
  OBVIOUS
<1>2. there \in {Live(ts, layers, dying), Live(ts, layers', dying)} /\ Pop(there, sel, ts)
  BY <1>1
<1>3. sel \in Int
  BY DEF ViewInv, Selection
<1>4. tiles' = ts /\ \A p \in Pages : ts[p] = tiles[p] \/ ts[p] = << >>
  BY <1>1
<1>5. RailsAre'
  BY SameRails
<1>6. QED
  BY <1>2, <1>3, <1>4, <1>5, CloseView

LEMMA CardBackView == ASSUME NestInv, ViewInv, CardBack PROVE ViewInv'
<1>1. PICK i \in 1..Len(layers) :
        layers[i].k = "card" /\ layers' = RemoveAt(layers, i) /\ dying' = dying \cup {layers[i]}
  BY DEF CardBack, CloseCard
<1>2. On("card") /\ focus.k # "nav"
  BY DEF CardBack, On
<1>3. i = Len(layers) /\ layers # << >>
  BY <1>1, <1>2, OnTop
<1>4. /\ Pop(Live(tiles, layers, dying), sel, tiles)
      /\ UNCHANGED << tiles, scan, rescans, page, tab, nav, origin, final, junk >>
  BY DEF CardBack, CloseCard, railVars, viewVars
<1>5. QED
  BY <1>1, <1>2, <1>3, <1>4, BackView

LEMMA ClosePanelView == ASSUME NestInv, ViewInv, ClosePanel PROVE ViewInv'
<1>1. PICK i \in 1..Len(layers) :
        layers[i].k = "panel" /\ layers' = RemoveAt(layers, i) /\ dying' = dying \cup {layers[i]}
  BY DEF ClosePanel
<1>2. i = Len(layers) /\ layers # << >>
  BY <1>1, PanelOnTop
<1>3. /\ Pop(Live(tiles, layers, dying), sel, tiles) /\ focus.k # "nav"
      /\ UNCHANGED << tiles, scan, rescans, page, tab, nav, origin, final, junk >>
  BY DEF ClosePanel, On, railVars, viewVars
<1>4. QED
  BY <1>1, <1>2, <1>3, BackView

LEMMA CloseKeyboardView == ASSUME NestInv, ViewInv, CloseKeyboard PROVE ViewInv'
<1>1. PICK i \in 1..Len(layers) : layers[i].k = "kb" /\ layers' = RemoveAt(layers, i)
  BY DEF CloseKeyboard
<1>2. i = Len(layers) /\ layers # << >>
  BY <1>1, OnTop DEF CloseKeyboard
<1>3. /\ Pop(Live(tiles, layers, dying), sel, tiles) /\ focus.k # "nav"
      /\ UNCHANGED << tiles, scan, rescans, page, tab, nav, origin, final, junk, dying >>
  BY DEF CloseKeyboard, On, railVars, viewVars
<1>4. QED
  BY <1>1, <1>2, <1>3, BackView

(* A menu goes first, and the selection may move in between.               *)
LEMMA CloseMenuView ==
  ASSUME NestInv, ViewInv, On("menu"), NEW ts, CloseMenu(ts), tiles' = ts, RailsAre',
         \A p \in Pages : ts[p] = tiles[p] \/ ts[p] = << >>,
         UNCHANGED << scan, page, tab, nav, origin, final, junk, dying >>
  PROVE  ViewInv'
<1>1. PICK i \in 1..Len(layers), f \in Refocus(focus, ts, layers, dying) :
        /\ layers[i] = focus /\ layers' = RemoveAt(layers, i)
        /\ Pop(Live(ts, RemoveAt(layers, i), dying),
               IF f = None THEN sel ELSE FocusedSel(f, sel, page, ts, nav), ts)
  BY DEF CloseMenu
<1>2. i = Len(layers) /\ layers # << >>
  BY <1>1, OnTopItself
<1>3. focus.k = "menu" /\ focus.k # "nav" /\ layers[i].k \notin {"tile", "null", "nav"}
  BY <1>1 DEF On
<1>4. PICK s : s = IF f = None THEN sel ELSE FocusedSel(f, sel, page, ts, nav)
  OBVIOUS
<1>5. s \in Int
  <2>1. sel \in Int /\ junk \in [Pages -> Int] /\ page \in Pages /\ TilesAre(ts) /\ IsSeq(ts[page])
    BY DEF ViewInv, Selection, NestInv, RailsInv, RailsAre, TilesAre
  <2>2. CASE f = None
    BY <1>4, <2>1, <2>2
  <2>3. CASE f # None
    <3>1. f \in ToSet(ts[page]) \/ f.k \in {"card", "panel", "menu"}
      BY <2>3 DEF Refocus
    <3>2. (f.k = "tile" => f.n \in Int) /\ f.k # "null"
      <4>1. CASE f \in ToSet(ts[page])
        <5>1. PICK j \in 1..Len(ts[page]) : f = ts[page][j]
          BY <2>1, <4>1, SeqFacts
        <5>2. f.k = "tile" /\ f.n = j /\ Len(ts[page]) \in Nat
          BY <2>1, <5>1, SeqFacts DEF TilesAre
        <5>3. QED
          BY <5>2
      <4>2. QED
        BY <3>1, <4>1
    <3>3. FocusedSel(f, sel, page, ts, nav) \in Int
      BY Zenon, <2>1, <3>2, Selects
    <3>4. QED
      BY <1>4, <2>3, <3>3
  <2>4. QED
    BY <2>2, <2>3
<1>6. PICK there : there = Live(ts, RemoveAt(layers, i), dying)
  OBVIOUS
<1>7. there \in {Live(ts, layers, dying), Live(ts, layers', dying)} /\ Pop(there, s, ts)
  BY <1>1, <1>4, <1>6
<1>8. dying' \in {dying, dying \cup {layers[i]}}
  OBVIOUS
<1>9. QED
  BY <1>1, <1>2, <1>3, <1>5, <1>7, <1>8, CloseView

LEMMA MenuBackView == ASSUME NestInv, ViewInv, MenuBack PROVE ViewInv'
<1>1. /\ On("menu") /\ CloseMenu(tiles)
      /\ UNCHANGED << tiles, scan, rescans, page, tab, nav, origin, final, junk, dying >>
  BY DEF MenuBack, railVars, viewVars
<1>2. PICK ts : ts = tiles
  OBVIOUS
<1>3. CloseMenu(ts) /\ tiles' = ts /\ \A p \in Pages : ts[p] = tiles[p] \/ ts[p] = << >>
  BY <1>1, <1>2
<1>4. RailsAre'
  BY <1>1, SameRails
<1>5. QED
  BY <1>1, <1>3, <1>4, CloseMenuView

(* The tiles of a page go.                                                 *)
LEMMA EmptiedRails ==
  ASSUME NestInv, ViewInv, NEW p \in Pages, NEW n \in 0..Rows[p], rescans < MaxRescans,
         tiles' = [tiles EXCEPT ![p] = << >>], rescans' = rescans + 1,
         \/ scan' = [scan EXCEPT ![p] = n]
         \/ scan' = scan /\ scan[p] = -1
  PROVE  /\ RailsAre'
         /\ \A q \in Pages : q # p => tiles'[q] = tiles[q] /\ scan'[q] = scan[q]
         /\ tiles'[p] = << >>
<1>1. tiles = [q \in Pages |-> tiles[q]] /\ scan = [q \in Pages |-> scan[q]]
  BY DEF NestInv, RailsInv, ViewInv, RailsAre
<1>2. tiles'[p] = << >> /\ \A q \in Pages : q # p => tiles'[q] = tiles[q] /\ scan'[q] = scan[q]
  BY <1>1
<1>3. TilesAre(tiles')
  <2>1. SUFFICES ASSUME NEW q \in Pages
                 PROVE  /\ IsSeq(tiles'[q])
                        /\ \A i \in 1..Len(tiles'[q]) :
                             tiles'[q][i].k = "tile" /\ tiles'[q][i].p = q /\ tiles'[q][i].n = i
    BY DEF TilesAre
  <2>2. CASE q = p
    <3>1. IsSeq(tiles'[q]) /\ Len(tiles'[q]) = 0
      BY Zenon, <1>2, <2>2, EmptyIsSeq
    <3>2. QED
      BY <3>1
  <2>3. CASE q # p
    BY <1>2, <2>3 DEF ViewInv, RailsAre, TilesAre
  <2>4. QED
    BY <2>2, <2>3
<1>4. \A q \in Pages : scan'[q] \in -1..Rows[q] /\ Len(tiles'[q]) + Max({0, scan'[q]}) <= Rows[q]
  <2> TAKE q \in Pages
  <2>1. scan[q] \in -1..Rows[q] /\ Len(tiles[q]) + Max({0, scan[q]}) <= Rows[q] /\ Rows[q] \in Nat
    BY NavigationAssumption DEF ViewInv, RailsAre
  <2>2. CASE q = p
    <3>1. Len(tiles'[q]) = 0
      BY Zenon, <1>2, <2>2, EmptyIsSeq
    <3>2. scan'[q] = n \/ scan'[q] = -1
      BY <1>1, <2>2
    <3>3. Max({0, n}) = n /\ Max({0, -1}) = 0
      <4>1. n \in Int /\ n >= 0
        OBVIOUS
      <4>2. QED
        BY <4>1, MaxOfTwo
    <3>4. n \in 0..Rows[q]
      BY <2>2
    <3>5. CASE scan'[q] = n
      BY <2>1, <3>1, <3>3, <3>4, <3>5
    <3>6. CASE scan'[q] = -1
      BY <2>1, <3>1, <3>3, <3>6
    <3>7. QED
      BY <3>2, <3>5, <3>6
  <2>3. CASE q # p
    BY <1>2, <2>1, <2>3
  <2>4. QED
    BY <2>2, <2>3
<1>5. rescans' \in 0..MaxRescans
  BY NavigationAssumption DEF ViewInv, RailsAre
<1>6. scan' = [q \in Pages |-> scan'[q]]
  BY <1>1
<1>7. QED
  BY <1>2, <1>3, <1>4, <1>5, <1>6 DEF RailsAre

LEMMA RescanView == ASSUME NestInv, ViewInv, NEW p \in Pages, Rescan(p) PROVE ViewInv'
<1>1. PICK n \in 0..Rows[p] : scan' = [scan EXCEPT ![p] = n]
  BY DEF Rescan
<1>2. /\ rescans < MaxRescans /\ rescans' = rescans + 1 /\ tiles' = [tiles EXCEPT ![p] = << >>]
      /\ UNCHANGED << page, tab, nav, origin, sel, layers, dying, focus, final, stack, junk >>
      /\ focus.k = "menu" /\ focus # None
  BY DEF Rescan, On, viewVars
<1>3. /\ RailsAre' /\ tiles'[p] = << >>
      /\ \A q \in Pages : q # p => tiles'[q] = tiles[q] /\ scan'[q] = scan[q]
  BY <1>1, <1>2, EmptiedRails
<1>4. Read' => Read /\ tiles'[page] = tiles[page]
  BY <1>2, <1>3 DEF Read, NestInv, RailsInv
<1>5. focus \in Live(tiles', layers', dying') \cup {None}
  <2>1. focus \in Live(tiles, layers, dying)
    BY <1>2 DEF ViewInv, Alive
  <2>2. focus \in ToSet(layers) \/ focus \in dying
    BY <1>2, <2>1, AliveTile DEF ViewInv, RailsAre
  <2>3. QED
    BY <1>2, <2>2 DEF Live
<1>6. QED
  BY <1>2, <1>3, <1>4, <1>5, KeepsView

LEMMA ClearRecentView == ASSUME NestInv, ViewInv, NEW p \in Pages, ClearRecent(p) PROVE ViewInv'
<1>1. PICK ts : ts = [tiles EXCEPT ![p] = << >>]
  OBVIOUS
<1>2. /\ rescans < MaxRescans /\ rescans' = rescans + 1 /\ tiles' = ts /\ scan' = scan /\ scan[p] = -1
      /\ UNCHANGED << page, tab, nav, origin, dying, final, junk >>
      /\ On("menu") /\ CloseMenu(ts)
  BY <1>1 DEF ClearRecent, viewVars
<1>3. 0 \in 0..Rows[p]
  BY NavigationAssumption
<1>4. /\ RailsAre' /\ tiles'[p] = << >>
      /\ \A q \in Pages : q # p => tiles'[q] = tiles[q] /\ scan'[q] = scan[q]
  BY <1>1, <1>2, <1>3, EmptiedRails
<1>5. \A q \in Pages : ts[q] = tiles[q] \/ ts[q] = << >>
  BY <1>2, <1>4
<1>6. QED
  BY <1>2, <1>4, <1>5, CloseMenuView

(* A closed window goes, and with it the focus if nothing else could be    *)
(* given it: what gets it now is no item of another page.                  *)
LEMMA DeleteView == ASSUME NestInv, ViewInv, NEW o \in dying, Delete(o) PROVE ViewInv'
<1>1. PICK f \in Refocus(o, tiles, layers, dying) :
        /\ focus' = f
        /\ sel' = IF f \in {focus, None} THEN sel ELSE FocusedSel(f, sel, page, tiles, nav)
  BY DEF Delete
<1>2. /\ dying' = dying \ {o}
      /\ UNCHANGED << tiles, scan, rescans, page, tab, nav, origin, layers, final, stack, junk >>
  BY DEF Delete, railVars, viewVars
<1>3. RailsAre'
  BY <1>2, SameRails
<1>4. o.k \notin {"tile", "null", "nav"}
  BY DEF ViewInv, Alive
<1>5. CASE focus # o
  <2>1. focus' = focus /\ sel' = sel
    BY <1>1, <1>5 DEF Refocus
  <2>2. focus \in Live(tiles', layers', dying') \cup {None}
    BY <1>2, <1>5 DEF ViewInv, Alive, Live
  <2>3. (sel \in Int /\ junk \in [Pages -> Int] /\ tab \in Tabs /\ nav \in BOOLEAN)'
    BY <1>2, <2>1 DEF ViewInv, Selection
  <2>4. /\ (~nav /\ Read => final = Null(page))'
        /\ (nav => /\ Len(layers) = 1 /\ layers[1].k = "nav"
                   /\ origin.tab \in Tabs /\ origin.sel \in Int)'
    BY <1>2 DEF ViewInv, Selection, Read
  <2>5. Selection'
    BY Zenon, <2>3, <2>4 DEF Selection
  <2>6. Alive'
    BY <1>2, <2>1, <2>2 DEF ViewInv, Alive
  <2>7. AtRest'
    BY <1>2, <2>1 DEF ViewInv, AtRest, Follows, IsTile, OfRail, Read
  <2>8. Under'
    BY <1>2 DEF ViewInv, Under, Follows, IsTile, OfRail, Read
  <2>9. QED
    BY <1>3, <2>5, <2>6, <2>7, <2>8 DEF ViewInv
<1>6. CASE focus = o
  <2>1. layers = << >>
    <3>1. SUFFICES ASSUME layers # << >> PROVE FALSE
      OBVIOUS
    <3>2. Len(layers) \in 1..Len(layers) /\ focus = layers[Len(layers)]
      BY <3>1, SeqFacts DEF NestInv, Nested
    <3>3. QED
      BY <1>6, <3>2 DEF NestInv, Nested
  <2>2. nav = FALSE
    BY <2>1, RestIsNotNav
  <2>3. /\ page \in Pages /\ TilesAre(tiles) /\ IsSeq(tiles[page]) /\ junk \in [Pages -> Int]
        /\ sel \in Int /\ tab \in Tabs
    BY DEF NestInv, RailsInv, ViewInv, RailsAre, TilesAre, Selection
  <2>4. ~Read
    <3>1. Read => OfRail(focus)
      BY <2>1 DEF ViewInv, AtRest, Follows
    <3>2. OfRail(focus) => focus.k \in {"tile", "null"}
      BY <2>3, ItemOf DEF OfRail
    <3>3. QED
      BY <1>4, <1>6, <3>1, <3>2
  <2>5. f = None \/ f \in ToSet(tiles[page]) \/ (f \in dying /\ f # o)
    <3>1. ToSet(layers) = {}
      BY <2>1 DEF ToSet
    <3>2. QED
      BY <1>6, <3>1 DEF Refocus
  <2>6. focus' \in Live(tiles', layers', dying') \cup {None}
    <3>1. CASE f = None
      BY <1>1, <3>1
    <3>2. CASE f \in ToSet(tiles[page])
      BY <1>1, <1>2, <2>3, <3>2 DEF Live
    <3>3. CASE f \in dying /\ f # o
      BY <1>1, <1>2, <3>3 DEF Live
    <3>4. QED
      BY <2>5, <3>1, <3>2, <3>3
  <2>7. /\ IsTile(f) => f.p = page /\ sel' = f.n
        /\ sel' \in Int
    <3>1. CASE f = None
      BY <1>1, <2>3, <3>1 DEF IsTile
    <3>2. CASE f # None /\ f \in ToSet(tiles[page])
      <4>0. Len(tiles[page]) \in Nat
        BY <2>3, SeqFacts
      <4>1. f.p = page /\ (f.k = "tile" => f.n \in 1..Len(tiles[page])) /\ Len(tiles[page]) \in Nat
        <5>1. f = Null(page) \/ f \in ToSet(tiles[page])
          BY <3>2
        <5>2. f.p = page
          BY <2>3, <5>1, ItemOf
        <5>3. f.k = "tile" => f.n \in 1..Len(tiles[page])
          BY <2>3, <5>1, ItemOf
        <5>4. QED
          BY <4>0, <5>2, <5>3
      <4>2. (f.k = "tile" => f.n \in Int) /\ (f.k = "null" => f.p \in Pages)
        BY <2>3, <4>1
      <4>3. /\ FocusedSel(f, sel, page, tiles, nav) \in Int
            /\ ~nav /\ f.k = "tile" /\ f.n \in 1..Len(tiles[page]) =>
                 FocusedSel(f, sel, page, tiles, nav) = f.n
        BY Zenon, <2>3, <4>2, Selects
      <4>4. f # focus
        <5>1. f.k \in {"tile", "null"}
          BY <2>3, <3>2, ItemOf
        <5>2. QED
          BY <1>4, <1>6, <5>1
      <4>5. sel' = FocusedSel(f, sel, page, tiles, nav)
        BY <1>1, <3>2, <4>4
      <4>6. QED
        BY <2>2, <4>1, <4>3, <4>5 DEF IsTile
    <3>3. CASE f # None /\ f \in dying /\ f # o
      <4>1. f.k \notin {"tile", "null"}
        BY <3>3 DEF ViewInv, Alive
      <4>2. sel' = sel
        BY <1>1, <4>1 DEF FocusedSel
      <4>3. QED
        BY <2>3, <4>1, <4>2 DEF IsTile
    <3>4. QED
      BY <2>5, <3>1, <3>2, <3>3
  <2>8. ~Read'
    BY <1>2, <2>4 DEF Read
  <2>9. /\ Follows(focus)' /\ (IsTile(focus) => sel = focus.n)'
        /\ (Read => final = Null(page))'
    BY <1>1, <1>2, <2>7, <2>8 DEF Follows, IsTile
  <2>10. layers' = << >> /\ nav' = FALSE /\ tab' \in Tabs /\ dying' \subseteq dying
    BY <1>2, <2>1, <2>2, <2>3
  <2>11. QED
    BY <1>2, <1>3, <2>6, <2>7, <2>9, <2>10, RestingView
<1>7. QED
  BY <1>5, <1>6

LEMMA LaunchView == ASSUME NestInv, ViewInv, Launch PROVE ViewInv'
<1>1. UNCHANGED << tiles, scan, rescans, page, tab, nav, origin, sel, layers, dying, focus, final,
                   stack, junk >>
  BY DEF Launch, railVars, viewVars
<1>2. QED
  BY <1>1, SameRails, KeepsView DEF Read, ViewInv, Alive

(***************************************************************************)
(* The start, and every step.                                              *)
(***************************************************************************)
LEMMA InitView == Init => ViewInv
<1> SUFFICES ASSUME Init PROVE ViewInv
  OBVIOUS
<1>1. PICK start \in 1..(NumPages + 1), warned \in BOOLEAN :
        /\ page = Min({start, NumPages})
        /\ tab  = IF start \in Pages THEN TabOf[start] ELSE 0
        /\ final = Null(page) /\ sel = junk[page]
        /\ layers = IF warned THEN << Obj("menu", 0, 0, 0) >> ELSE << >>
        /\ stack  = IF warned THEN << Null(page) >> ELSE << >>
        /\ focus  = IF warned THEN Obj("menu", 0, 0, 0) ELSE Null(page)
  BY DEF Init
<1>2. /\ tiles = [p \in Pages |-> << >>] /\ dying = {} /\ rescans = 0 /\ nav = FALSE
      /\ scan \in [Pages -> 0..Max({Rows[p] : p \in Pages})] /\ \A p \in Pages : scan[p] <= Rows[p]
      /\ junk \in Junk
  BY DEF Init
<1>3. NestInv /\ page \in Pages
  BY InitNests DEF NestInv, RailsInv
<1>4. /\ TabOf \in [Pages -> Tabs] /\ 0 \in Tabs /\ Junk \subseteq [Pages -> Int]
      /\ \A p \in Pages : Rows[p] \in Nat
      /\ MaxRescans \in Nat
  BY NavigationAssumption DEF Tabs
<1>5. ASSUME NEW p \in Pages PROVE scan[p] \in Int /\ scan[p] >= 0
  <2>1. scan[p] \in 0..Max({Rows[q] : q \in Pages})
    BY <1>2
  <2>2. QED
    BY <2>1
<1>6. RailsAre
  <2>1. TilesAre(tiles)
    <3>1. \A p \in Pages : IsSeq(tiles[p]) /\ Len(tiles[p]) = 0
      BY <1>2, EmptyIsSeq
    <3>2. QED
      BY <3>1 DEF TilesAre
  <2>2. ASSUME NEW p \in Pages
        PROVE  scan[p] \in -1..Rows[p] /\ Len(tiles[p]) + Max({0, scan[p]}) <= Rows[p]
    <3>1. Len(tiles[p]) = 0
      BY <1>2, EmptyIsSeq
    <3>2. Max({0, scan[p]}) = scan[p]
      BY <1>5, MaxOfTwo
    <3>3. QED
      BY <1>2, <1>4, <1>5, <3>1, <3>2
  <2>3. rescans \in 0..MaxRescans
    BY <1>2, <1>4
  <2>4. scan = [p \in Pages |-> scan[p]]
    BY <1>2
  <2>5. QED
    BY <2>1, <2>2, <2>3, <2>4 DEF RailsAre
<1>7. ~Read
  BY <1>3, <1>5 DEF Read
<1>8. /\ sel \in Int /\ junk \in [Pages -> Int] /\ tab \in Tabs /\ nav \in BOOLEAN
  BY <1>1, <1>2, <1>3, <1>4
<1>9. Selection
  BY Zenon, <1>2, <1>7, <1>8 DEF Selection
<1>10. Null(page).k = "null" /\ Null(page).p = page
  BY DEF Null, Obj
<1>11. CASE warned
  <2> DEFINE o == Obj("menu", 0, 0, 0)
  <2>1. o.k = "menu"
    BY DEF Obj
  <2>2. layers = << o >> /\ stack = << Null(page) >> /\ focus = o
    BY <1>1, <1>11
  <2> HIDE DEF o
  <2>3. layers # << >> /\ layers[1] = o /\ o \in ToSet(layers) /\ stack[1] = Null(page)
    <3>1. IsSeq(layers) /\ Len(layers) = 1 /\ layers[1] = o
      BY <2>2, OneIsSeq
    <3>2. o \in ToSet(layers)
      BY <3>1, SeqFacts
    <3>3. stack[1] = Null(page)
      BY <2>2, OneIsSeq
    <3>4. QED
      BY <3>1, <3>2, <3>3, SeqFacts
  <2>4. Alive
    BY <1>2, <1>10, <2>1, <2>2, <2>3 DEF Alive, Live
  <2>5. Under
    BY <1>7, <1>10, <2>3 DEF Under, Follows, IsTile
  <2>6. AtRest
    BY <2>3 DEF AtRest
  <2>7. QED
    BY <1>6, <1>9, <2>4, <2>5, <2>6 DEF ViewInv
<1>12. CASE ~warned
  <2>1. layers = << >> /\ focus = Null(page)
    BY <1>1, <1>12
  <2>2. Alive
    BY <1>2, <1>3, <2>1, NullsLive DEF Alive
  <2>3. AtRest
    BY <1>7, <1>10, <2>1 DEF AtRest, Follows, IsTile
  <2>4. Under
    BY <2>1 DEF Under
  <2>5. QED
    BY <1>6, <1>9, <2>2, <2>3, <2>4 DEF ViewInv
<1>13. QED
  BY <1>11, <1>12

LEMMA NextView == ASSUME NestInv, ViewInv, Patient, [Next]_vars PROVE ViewInv'
<1>1. CASE UNCHANGED vars
  <2>1. UNCHANGED << tiles, scan, rescans, page, tab, nav, origin, sel, layers, dying, focus, final,
                     stack, junk >>
    BY <1>1 DEF vars
  <2>2. QED
    BY <2>1, SameRails, KeepsView DEF Read, ViewInv, Alive
<1>2. ASSUME NEW p \in Pages, ScanAdd(p) \/ ScanEnd(p) \/ Rescan(p) \/ ClearRecent(p)
      PROVE  ViewInv'
  BY <1>2, ScanAddView, ScanEndView, RescanView, ClearRecentView
<1>3. ASSUME NEW o \in dying, Delete(o) PROVE ViewInv'
  BY <1>3, DeleteView
<1>4. CASE Move \/ TurnPage \/ OpenCard \/ OpenBox \/ Launch \/ EnterNav
  BY <1>4, MoveView, TurnPageView, OpenCardView, OpenBoxView, LaunchView, EnterNavView
<1>5. CASE NavMove \/ \E cancel \in BOOLEAN : ExitNav(cancel)
  BY <1>5, NavMoveView, ExitNavView
<1>6. CASE CardBack \/ OpenPanel \/ ClosePanel \/ OpenKeyboard \/ CloseKeyboard
  BY <1>6, CardBackView, OpenPanelView, ClosePanelView, OpenKeyboardView, CloseKeyboardView
<1>7. CASE OpenMenu \/ MenuBack
  BY <1>7, OpenMenuView, MenuBackView
<1>8. QED
  BY <1>1, <1>2, <1>3, <1>4, <1>5, <1>6, <1>7 DEF Next

(* Nothing happens once a title has been started, and it is the selected.  *)
LEMMA LaunchSelects ==
  ASSUME NestInv, ViewInv, LaunchesTheSelected, [Next]_vars
  PROVE  LaunchesTheSelected'
<1>1. CASE UNCHANGED vars
  BY <1>1 DEF vars, LaunchesTheSelected
<1>2. CASE Launch
  <2>1. layers = << >> /\ IsTile(focus)
    BY <1>2, ItemsHaveNoWindow DEF Launch, OnItem, On, IsTile
  <2>2. sel \in 1..Len(tiles[page]) /\ focus = tiles[page][sel]
    BY <2>1, FocusedTile
  <2>3. ran' = focus /\ UNCHANGED << sel, tiles, page >>
    BY <1>2 DEF Launch, railVars, viewVars
  <2>4. QED
    BY <2>2, <2>3 DEF LaunchesTheSelected
<1>3. ASSUME NEW p \in Pages, ScanAdd(p) \/ ScanEnd(p) \/ Rescan(p) \/ ClearRecent(p)
      PROVE  ran' = None
  BY <1>3 DEF ScanAdd, ScanEnd, Rescan, ClearRecent, On
<1>4. ASSUME NEW o \in dying, Delete(o) PROVE ran' = None
  BY <1>4 DEF Delete
<1>5. CASE Move \/ TurnPage \/ OpenCard \/ OpenBox \/ EnterNav
  <2>1. ran' = None
    BY <1>5 DEF Move, TurnPage, OpenCard, OpenBox, EnterNav, OnItem, On
  <2>2. QED
    BY <2>1 DEF LaunchesTheSelected
<1>6. CASE NavMove \/ \E cancel \in BOOLEAN : ExitNav(cancel)
  <2>1. ran' = None
    BY <1>6 DEF NavMove, ExitNav, On
  <2>2. QED
    BY <2>1 DEF LaunchesTheSelected
<1>7. CASE CardBack \/ OpenPanel \/ ClosePanel \/ OpenKeyboard \/ CloseKeyboard \/ OpenMenu \/ MenuBack
  <2>1. ran' = None
    BY <1>7 DEF CardBack, OpenPanel, ClosePanel, OpenKeyboard, CloseKeyboard, OpenMenu, MenuBack, On
  <2>2. QED
    BY <2>1 DEF LaunchesTheSelected
<1>8. ran' = None => LaunchesTheSelected'
  BY DEF LaunchesTheSelected
<1>9. QED
  BY <1>1, <1>2, <1>3, <1>4, <1>5, <1>6, <1>7, <1>8 DEF Next

(* With all of it the item on the screen has the focus.                    *)
LEMMA ViewIsSafe == NestInv /\ ViewInv /\ LaunchesTheSelected => NavInv
<1> SUFFICES ASSUME NestInv, ViewInv, LaunchesTheSelected PROVE NavInv
  OBVIOUS
<1>1. RailHasFocus
  BY DEF RailHasFocus, ViewInv, AtRest, Follows, OfRail, Read
<1>2. \A p \in Pages : scan[p] \in -1..Rows[p] /\ Len(tiles[p]) + Max({0, scan[p]}) <= Rows[p]
  BY DEF ViewInv, RailsAre
<1>3. \A p \in Pages : \A i \in 1..Len(tiles[p]) : tiles[p][i].p = p /\ tiles[p][i].n = i
  BY DEF ViewInv, RailsAre, TilesAre
<1>4. page \in Pages /\ tab \in Tabs /\ final \in {Null(p) : p \in Pages} /\ nav \in BOOLEAN
  BY DEF NestInv, RailsInv, ViewInv, Selection
<1>5. rescans \in 0..MaxRescans /\ focus \in Live(tiles, layers, dying) \cup {None}
  BY DEF ViewInv, RailsAre, Alive
<1>6. ran \in ToSet(tiles[page]) \cup {None}
  <2>1. IsSeq(tiles[page])
    BY <1>4 DEF NestInv, RailsInv
  <2>2. QED
    BY <2>1, SeqFacts DEF LaunchesTheSelected
<1>7. tripped = FALSE /\ tripped \in BOOLEAN
  BY DEF NestInv
<1>8. QED
  BY Zenon, <1>1, <1>2, <1>3, <1>4, <1>5, <1>6, <1>7 DEF NavInv, NavTypeOK

FocusInv == NestInv /\ ViewInv /\ LaunchesTheSelected

LEMMA FocusHolds ==
  ASSUME Patient = TRUE
  PROVE  Spec => []FocusInv
<1>1. Init => FocusInv
  BY InitNests, InitView DEF FocusInv, Init, LaunchesTheSelected
<1>2. FocusInv /\ [Next]_vars => FocusInv'
  BY NextNests, NextView, LaunchSelects DEF FocusInv
<1>3. QED
  BY <1>1, <1>2, PTL DEF Spec

(* If scans wait, the focus is always on something that is there, and with *)
(* no window open on an item of the page on the screen, once that is read  *)
(* and has tiles: keys do not go to a page that is not shown               *)
(* (dash_scroller.c:1124, 1320, 1470).                                     *)
THEOREM NavInvariant ==
  ASSUME Patient = TRUE
  PROVE  Spec => []NavInv
<1>1. Spec => []FocusInv
  BY FocusHolds
<1>2. FocusInv => NavInv
  BY ViewIsSafe DEF FocusInv
<1>3. QED
  BY <1>1, <1>2, PTL

(* If scans wait, A starts the title that is drawn as selected             *)
(* (dash_scroller.c:720, 778 and 1462).                                    *)
THEOREM AlwaysLaunchesTheSelected ==
  ASSUME Patient = TRUE
  PROVE  Spec => []LaunchesTheSelected
<1>1. Spec => []FocusInv
  BY FocusHolds
<1>2. FocusInv => LaunchesTheSelected
  BY DEF FocusInv
<1>3. QED
  BY <1>1, <1>2, PTL
====
