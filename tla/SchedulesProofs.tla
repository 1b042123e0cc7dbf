--------------------------- MODULE SchedulesProofs ---------------------------
(***************************************************************************)
(* Theorems about Schedules for every day, granularity and duration, and   *)
(* for any number of shifts, exceptions, appointments and editors.         *)
(***************************************************************************)
EXTENDS Schedules, Induction

-----------------------------------------------------------------------------
(* The fold over exceptions, as a function of the exceptions handled.       *)

Handled(s) == CHOOSE x \in s : TRUE

Left(ws, g, s) ==
  IF s = {} THEN ws ELSE Subtract(Handled(s), g[s \ {Handled(s)}])

Unfolds(ws, E, g) == g = [s \in SUBSET E |-> Left(ws, g, s)]

\* What the exceptions of a subset of E leave of the windows ws.
Remaining(ws, E) == CHOOSE g : g = [s \in SUBSET E |-> Left(ws, g, s)]

LEMMA HandlesOne ==
  ASSUME NEW s, s # {}
  PROVE  Handled(s) \in s
BY DEF Handled

\* Two such functions agree where both are defined.
LEMMA Agree ==
  ASSUME NEW E, IsFiniteSet(E), NEW ws, NEW U \in SUBSET E, NEW V \in SUBSET E, NEW g, NEW h,
         Unfolds(ws, U, g), Unfolds(ws, V, h)
  PROVE  \A s \in SUBSET (U \cap V) : g[s] = h[s]
<1> DEFINE T == {s \in SUBSET (U \cap V) : g[s] # h[s]}
<1>1. SUFFICES ASSUME T # {} PROVE FALSE
  OBVIOUS
<1>2. PICK s \in T : \A y \in T : y \subseteq s => y = s
  <2>1. IsFiniteSet(U \cap V) /\ T \subseteq SUBSET (U \cap V)
    BY FS_Subset
  <2> HIDE DEF T
  <2>2. QED
    BY <1>1, <2>1, FewestFirst
<1>3. CASE s = {}
  BY <1>2, <1>3 DEF Left, Unfolds
<1>4. CASE s # {}
  <2>1. s \ {Handled(s)} \subseteq s /\ s \ {Handled(s)} # s
    BY <1>4, HandlesOne
  <2>2. g[s \ {Handled(s)}] = h[s \ {Handled(s)}]
    BY <1>2, <2>1
  <2>3. g[s] = Left(ws, g, s) /\ h[s] = Left(ws, h, s)
    BY <1>2 DEF Unfolds
  <2>4. QED
    BY <1>2, <1>4, <2>2, <2>3 DEF Left
<1>5. QED
  BY <1>3, <1>4

LEMMA RemainingExists ==
  ASSUME NEW E, IsFiniteSet(E), NEW ws
  PROVE  \E g : g = [s \in SUBSET E |-> Left(ws, g, s)]
<1> DEFINE Good(D, g) == g = [s \in SUBSET D |-> Left(ws, g, s)]
           T == {D \in SUBSET E : ~ \E g : Good(D, g)}
<1>1. SUFFICES ASSUME T # {} PROVE FALSE
  OBVIOUS
<1>2. PICK D \in T : \A y \in T : y \subseteq D => y = D
  <2>1. T \subseteq SUBSET E
    OBVIOUS
  <2> HIDE DEF T
  <2>2. QED
    BY <1>1, <2>1, FewestFirst
<1>3. \A U \in SUBSET D : U # D => \E g : Good(U, g)
  BY <1>2
<1> DEFINE F(U) == CHOOSE g : Good(U, g)
           k == [s \in SUBSET D |->
                   IF s = {} THEN ws
                   ELSE Subtract(Handled(s), F(s \ {Handled(s)})[s \ {Handled(s)}])]
<1>4. \A U \in SUBSET D : U # D => Good(U, F(U))
  BY <1>3
<1>5. ASSUME NEW s \in SUBSET D, s # D
      PROVE  F(s)[s] = k[s]
  <2>1. F(s) = [t \in SUBSET s |-> Left(ws, F(s), t)]
    BY <1>4, <1>5
  <2>2. F(s)[s] = Left(ws, F(s), s)
    <3> HIDE DEF F
    <3> QED BY <2>1
  <2>3. CASE s = {}
    BY <2>2, <2>3 DEF Left
  <2>4. CASE s # {}
    <3> DEFINE r == s \ {Handled(s)}
    <3>1. r \in SUBSET D /\ r # D /\ r \subseteq s
      BY <1>5
    <3>2. F(r) = [t \in SUBSET r |-> Left(ws, F(r), t)]
      <4>1. Good(r, F(r))
        BY <1>4, <3>1
      <4> HIDE DEF F
      <4> QED BY <4>1
    <3>3. F(r)[r] = F(s)[r]
      <4> DEFINE g == F(r)  h == F(s)
      <4>1. /\ IsFiniteSet(E) /\ r \in SUBSET E /\ s \in SUBSET E /\ r \in SUBSET (r \cap s)
            /\ Unfolds(ws, r, g) /\ Unfolds(ws, s, h)
        BY <2>1, <3>1, <3>2 DEF Unfolds
      <4> HIDE DEF g, h, r
      <4>2. \A t \in SUBSET (r \cap s) : g[t] = h[t]
        BY <4>1, Agree
      <4>3. QED
        BY <4>1, <4>2 DEF g, h
    <3>4. k[s] = Subtract(Handled(s), F(r)[r])
      BY <2>4
    <3>5. F(s)[s] = Subtract(Handled(s), F(s)[r])
      <4> HIDE DEF F
      <4> QED BY <2>2, <2>4 DEF Left
    <3>6. QED
      BY <3>3, <3>4, <3>5
  <2>5. QED
    BY <2>3, <2>4
<1>6. Good(D, k)
  <2>1. ASSUME NEW s \in SUBSET D
        PROVE  k[s] = Left(ws, k, s)
    <3>1. CASE s = {}
      BY <3>1 DEF Left
    <3>2. CASE s # {}
      <4> DEFINE r == s \ {Handled(s)}
      <4>1. r \in SUBSET D /\ r # D
        BY <3>2, HandlesOne
      <4>2. F(r)[r] = k[r]
        BY <1>5, <4>1
      <4>3. k[s] = Subtract(Handled(s), F(r)[r])
        BY <3>2
      <4>4. QED
        <5> HIDE DEF F, k
        <5> QED BY <3>2, <4>2, <4>3 DEF Left
    <3>3. QED BY <3>1, <3>2
  <2>2. DOMAIN k = SUBSET D /\ k = [s \in SUBSET D |-> k[s]]
    <3> HIDE DEF F
    <3> QED OBVIOUS
  <2> HIDE DEF k
  <2>3. QED
    BY <2>1, <2>2
<1>7. QED
  <2> HIDE DEF k
  <2> QED BY <1>2, <1>6

LEMMA RemainingUnfolds ==
  ASSUME NEW E, IsFiniteSet(E), NEW ws
  PROVE  Remaining(ws, E) = [s \in SUBSET E |-> Left(ws, Remaining(ws, E), s)]
BY RemainingExists DEF Remaining

LEMMA FoldIsRemaining ==
  OpenWindows = Remaining(Rows(windows), Rows(exceptions))[Rows(exceptions)]
BY DEF OpenWindows, FoldSet, MapThenFoldSet, Remaining, Left, Handled

-----------------------------------------------------------------------------
(* What is left of the shifts, seen from a start time. *)

Holds(w, t) == w.from <= t /\ t + Duration <= w.to

Clear(s, t) == \A m \in t .. (t + Duration - 1) : \A e \in s : ~ Covers(e, m)

\* f is where the barber last began to be available in w, seen from t.
Opens(s, w, t, f) ==
  /\ f = w.from \/ \E e \in s : Overlap(e, w) /\ e.to <= t /\ f = e.to
  /\ w.from <= f
  /\ \A e \in s : Overlap(e, w) /\ e.to <= t => e.to <= f

\* The pieces R are what the exceptions s leave of the shifts ws: the pieces in
\* which the service fits at t begin where the barber last became available.
Exact(ws, s, R) ==
  /\ R \subseteq Window
  /\ \A t, f \in Quarters :
       (\E p \in R : p.from = f /\ Holds(p, t)) <=>
         \E w \in ws : Holds(w, t) /\ Clear(s, t) /\ Opens(s, w, t, f)

LEMMA Windows ==
  ASSUME NEW w \in Window
  PROVE  /\ w.from \in Quarters /\ w.to \in Quarters
         /\ w.from \in Nat /\ w.to \in Nat /\ w.from <= DayLength /\ w.to <= DayLength
BY SchedulesAssumption DEF Window, Quarters

LEMMA WindowIs ==
  ASSUME NEW from \in Quarters, NEW to \in Quarters
  PROVE  /\ [from |-> from, to |-> to] \in Window
         /\ [from |-> from, to |-> to].from = from /\ [from |-> from, to |-> to].to = to
BY DEF Window

LEMMA OpensOnce ==
  ASSUME NEW s \in SUBSET Window, NEW w \in Window, NEW t \in Quarters,
         NEW f \in Quarters, NEW g \in Quarters, Opens(s, w, t, f), Opens(s, w, t, g)
  PROVE  f = g
BY Windows, SchedulesAssumption DEF Opens, Quarters

LEMMA OpensSometime ==
  ASSUME NEW s \in SUBSET Window, NEW w \in Window, NEW t \in Quarters
  PROVE  \E f \in Quarters : Opens(s, w, t, f)
<1> DEFINE T == {f \in Quarters : /\ w.from <= f
                                  /\ \/ f = w.from
                                     \/ \E e \in s : Overlap(e, w) /\ e.to <= t /\ f = e.to}
<1>1. T \subseteq 0 .. DayLength /\ T # {} /\ DayLength \in Nat
  BY Windows, SchedulesAssumption DEF Quarters
<1>2. PICK f \in T : \A g \in T : g <= f
  <2> HIDE DEF T
  <2> QED BY <1>1, Greatest
<1>3. ASSUME NEW e \in s, Overlap(e, w), e.to <= t
      PROVE  e.to <= f
  <2>1. e.to \in Quarters /\ w.from <= e.to
    BY <1>3, Windows DEF Overlap
  <2>2. e.to \in T
    BY <1>3, <2>1
  <2>3. QED
    BY <1>2, <2>2
<1>4. QED
  BY <1>2, <1>3 DEF Opens

\* An exception covers a minute of the service exactly if it overlaps it.
LEMMA ClearIsNoOverlap ==
  ASSUME NEW e \in Window, Ordered(e), NEW t \in Quarters
  PROVE  (\A m \in t .. (t + Duration - 1) : ~ Covers(e, m)) <=>
           ~ (e.from < t + Duration /\ t < e.to)
<1>1. /\ t \in Nat /\ Duration \in Nat \ {0} /\ e.from \in Nat /\ e.to \in Nat
      /\ e.from < e.to
  BY Windows, SchedulesAssumption DEF Quarters, Ordered
<1>2. ASSUME e.from < t + Duration, t < e.to
      PROVE  \E m \in t .. (t + Duration - 1) : Covers(e, m)
  <2>1. CASE e.from <= t
    <3>1. t \in t .. (t + Duration - 1) /\ Covers(e, t)
      BY <1>1, <1>2, <2>1 DEF Covers
    <3>2. QED
      BY <3>1
  <2>2. CASE t < e.from
    <3>1. e.from \in t .. (t + Duration - 1) /\ Covers(e, e.from)
      BY <1>1, <1>2, <2>2 DEF Covers
    <3>2. QED
      BY <3>1
  <2>3. QED
    BY <1>1, <2>1, <2>2
<1>3. ASSUME NEW m \in t .. (t + Duration - 1), Covers(e, m)
      PROVE  e.from < t + Duration /\ t < e.to
  BY <1>1, <1>3 DEF Covers
<1>4. QED
  BY <1>2, <1>3

\* What one exception leaves of one window.
Begins(p, e, t) == IF Overlap(e, p) /\ e.to <= t THEN e.to ELSE p.from

LEMMA CutOne ==
  ASSUME NEW p \in Window, NEW e \in Window, Ordered(e), NEW t \in Quarters, NEW f \in Quarters
  PROVE  /\ Cut(p, e) \subseteq Window
         /\ (\E c \in Cut(p, e) : c.from = f /\ Holds(c, t)) <=>
              /\ Holds(p, t) /\ ~ (e.from < t + Duration /\ t < e.to)
              /\ f = Begins(p, e, t)
<1>1. /\ t \in Nat /\ Duration \in Nat \ {0} /\ f \in Nat
      /\ e.from \in Nat /\ e.to \in Nat /\ e.from < e.to
      /\ p.from \in Nat /\ p.to \in Nat
  BY Windows, SchedulesAssumption DEF Quarters, Ordered
<1> DEFINE l == [from |-> p.from, to |-> e.from]
           r == [from |-> e.to, to |-> p.to]
<1>2. /\ l \in Window /\ l.from = p.from /\ l.to = e.from
      /\ r \in Window /\ r.from = e.to /\ r.to = p.to
  BY Windows, WindowIs
<1>3. CASE e.to <= p.from \/ e.from >= p.to
  <2>1. Cut(p, e) = {p}
    BY <1>3 DEF Cut
  <2>2. ~ Overlap(e, p)
    BY <1>1, <1>3 DEF Overlap
  <2>3. Begins(p, e, t) = p.from
    BY <2>2 DEF Begins
  <2>4. Holds(p, t) => ~ (e.from < t + Duration /\ t < e.to)
    BY <1>1, <1>3 DEF Holds
  <2>5. QED
    BY <2>1, <2>3, <2>4
<1>4. CASE ~ (e.to <= p.from \/ e.from >= p.to)
  <2>1. Cut(p, e) = {c \in {l, r} : c.from < c.to}
    BY <1>4 DEF Cut
  <2>2. Overlap(e, p)
    BY <1>1, <1>4 DEF Overlap
  <2>3. Begins(p, e, t) = IF e.to <= t THEN e.to ELSE p.from
    BY <2>2 DEF Begins
  <2> HIDE DEF l, r
  <2>4. (\E c \in Cut(p, e) : c.from = f /\ Holds(c, t)) <=>
          \/ l.from < l.to /\ l.from = f /\ Holds(l, t)
          \/ r.from < r.to /\ r.from = f /\ Holds(r, t)
    BY <2>1
  <2>5. l.from < l.to /\ l.from = f /\ Holds(l, t) <=>
          p.from = f /\ p.from <= t /\ t + Duration <= e.from
    BY <1>1, <1>2 DEF Holds
  <2>6. r.from < r.to /\ r.from = f /\ Holds(r, t) <=>
          e.to = f /\ e.to <= t /\ t + Duration <= p.to
    BY <1>1, <1>2 DEF Holds
  <2>7. QED
    BY <1>1, <1>2, <1>4, <2>1, <2>3, <2>4, <2>5, <2>6 DEF Holds
<1>5. QED
  BY <1>3, <1>4

LEMMA OpensOn ==
  ASSUME NEW s \in SUBSET Window, NEW w \in Window, NEW p \in Window, NEW e \in Window,
         Ordered(e), NEW t \in Quarters, Holds(w, t), Holds(p, t), Opens(s, w, t, p.from)
  PROVE  Opens(s \cup {e}, w, t, Begins(p, e, t)) /\ Begins(p, e, t) \in Quarters
<1>1. /\ t \in Nat /\ Duration \in Nat \ {0}
      /\ e.from \in Nat /\ e.to \in Nat /\ e.from < e.to
      /\ p.from \in Nat /\ p.to \in Nat /\ w.from \in Nat /\ w.to \in Nat
      /\ \A x \in s : x.to \in Nat
  BY Windows, SchedulesAssumption DEF Quarters, Ordered
<1>2. Begins(p, e, t) \in Quarters
  BY Windows DEF Begins
<1>3. CASE Overlap(e, p) /\ e.to <= t
  <2>1. Begins(p, e, t) = e.to /\ p.from < e.to
    BY <1>1, <1>3 DEF Begins, Overlap
  <2>2. Overlap(e, w) /\ w.from <= e.to
    BY <1>1, <1>3, <2>1 DEF Opens, Overlap, Holds
  <2>3. \A x \in s : Overlap(x, w) /\ x.to <= t => x.to <= e.to
    BY <1>1, <2>1 DEF Opens
  <2>4. QED
    BY <1>1, <1>2, <1>3, <2>1, <2>2, <2>3 DEF Opens
<1>4. CASE ~ (Overlap(e, p) /\ e.to <= t)
  <2>1. Begins(p, e, t) = p.from
    BY <1>4 DEF Begins
  <2>2. Overlap(e, w) /\ e.to <= t => e.to <= p.from
    BY <1>1, <1>4 DEF Overlap, Holds
  <2>3. QED
    BY <1>2, <2>1, <2>2 DEF Opens
<1>5. QED
  BY <1>3, <1>4

LEMMA ExactOn ==
  ASSUME NEW ws \in SUBSET Window, NEW s \in SUBSET Window, NEW e \in Window, Ordered(e),
         NEW R, Exact(ws, s, R)
  PROVE  Exact(ws, s \cup {e}, Subtract(e, R))
<1>1. R \subseteq Window
  BY DEF Exact
<1>2. Subtract(e, R) \subseteq Window
  <2>1. \A p \in R : Cut(p, e) \subseteq Window
    <3>1. 0 \in Quarters
      BY SchedulesAssumption DEF Quarters
    <3>2. QED
      BY <1>1, <3>1, CutOne
  <2>2. QED
    BY <2>1 DEF Subtract
<1>3. ASSUME NEW t \in Quarters
      PROVE  Clear(s \cup {e}, t) <=> Clear(s, t) /\ ~ (e.from < t + Duration /\ t < e.to)
  BY ClearIsNoOverlap DEF Clear
<1>4. ASSUME NEW t \in Quarters, NEW f \in Quarters, NEW p \in R, NEW c \in Cut(p, e),
             c.from = f, Holds(c, t)
      PROVE  \E w \in ws : Holds(w, t) /\ Clear(s \cup {e}, t) /\ Opens(s \cup {e}, w, t, f)
  <2>1. /\ Holds(p, t) /\ ~ (e.from < t + Duration /\ t < e.to)
        /\ f = Begins(p, e, t) /\ p \in Window
    BY <1>1, <1>4, CutOne
  <2>2. p.from \in Quarters
    BY <2>1, Windows
  <2>3. PICK w \in ws : Holds(w, t) /\ Clear(s, t) /\ Opens(s, w, t, p.from)
    BY <2>1, <2>2 DEF Exact
  <2>4. Opens(s \cup {e}, w, t, f)
    BY <2>1, <2>3, OpensOn
  <2>5. QED
    BY <1>3, <2>1, <2>3, <2>4
<1>5. ASSUME NEW t \in Quarters, NEW f \in Quarters, NEW w \in ws,
             Holds(w, t), Clear(s \cup {e}, t), Opens(s \cup {e}, w, t, f)
      PROVE  \E p \in R : \E c \in Cut(p, e) : c.from = f /\ Holds(c, t)
  <2>1. PICK g \in Quarters : Opens(s, w, t, g)
    BY OpensSometime
  <2>2. Clear(s, t) /\ ~ (e.from < t + Duration /\ t < e.to)
    BY <1>3, <1>5
  <2>3. PICK p \in R : p.from = g /\ Holds(p, t)
    BY <1>5, <2>1, <2>2 DEF Exact
  <2>4. p \in Window /\ Opens(s \cup {e}, w, t, Begins(p, e, t)) /\ Begins(p, e, t) \in Quarters
    BY <1>1, <1>5, <2>1, <2>3, OpensOn
  <2>5. f = Begins(p, e, t)
    <3>1. s \cup {e} \in SUBSET Window
      OBVIOUS
    <3>2. QED
      BY <1>5, <2>4, <3>1, OpensOnce
  <2>6. QED
    BY <2>2, <2>3, <2>4, <2>5, CutOne
<1>6. ASSUME NEW t \in Quarters, NEW f \in Quarters
      PROVE  (\E c \in Subtract(e, R) : c.from = f /\ Holds(c, t)) <=>
               \E w \in ws : /\ Holds(w, t) /\ Clear(s \cup {e}, t)
                            /\ Opens(s \cup {e}, w, t, f)
  <2>1. (\E c \in Subtract(e, R) : c.from = f /\ Holds(c, t)) <=>
          \E p \in R : \E c \in Cut(p, e) : c.from = f /\ Holds(c, t)
    BY DEF Subtract
  <2>2. QED
    BY <1>4, <1>5, <2>1
<1>7. QED
  BY <1>2, <1>6 DEF Exact

\* Without exceptions the shifts are left as they are.
LEMMA ExactAtFirst ==
  ASSUME NEW ws \in SUBSET Window
  PROVE  Exact(ws, {}, ws)
<1>1. ASSUME NEW w \in Window, NEW t, NEW f \in Quarters
      PROVE  Opens({}, w, t, f) <=> f = w.from
  BY Windows DEF Opens, Quarters
<1>2. \A t : Clear({}, t)
  BY DEF Clear
<1>3. QED
  BY <1>1, <1>2 DEF Exact

\* Whatever the order in which CHOOSE hands the exceptions to Subtract (and the
\* database its rows to the loop, booking.ts 223-239), the pieces left of the
\* shifts are those of the definition by minutes.
THEOREM FoldExact ==
  ASSUME NEW ws \in SUBSET Window, NEW E \in SUBSET Window, IsFiniteSet(E),
         \A e \in E : Ordered(e)
  PROVE  Exact(ws, E, Remaining(ws, E)[E])
<1> DEFINE g == Remaining(ws, E)
           T == {s \in SUBSET E : ~ Exact(ws, s, g[s])}
<1>1. g = [s \in SUBSET E |-> Left(ws, g, s)]
  BY RemainingUnfolds
<1> HIDE DEF g
<1>2. SUFFICES ASSUME T # {}
               PROVE  FALSE
  BY DEF g
<1>3. PICK s \in T : \A y \in T : y \subseteq s => y = s
  <2>1. T \subseteq SUBSET E
    OBVIOUS
  <2> HIDE DEF T
  <2>2. QED
    BY <1>2, <2>1, FewestFirst
<1>4. g[s] = Left(ws, g, s)
  BY <1>1
<1>5. CASE s = {}
  BY <1>4, <1>5, ExactAtFirst DEF Left
<1>6. CASE s # {}
  <2> DEFINE e == Handled(s)
             r == s \ {e}
  <2>1. /\ e \in s /\ e \in Window /\ Ordered(e) /\ r \in SUBSET Window
        /\ r \cup {e} = s /\ r \subseteq s /\ r # s /\ r \in SUBSET E
    BY <1>6, HandlesOne
  <2>2. g[s] = Subtract(e, g[r])
    BY <1>4, <1>6 DEF Left
  <2> HIDE DEF e, r
  <2>3. Exact(ws, r, g[r])
    BY <1>3, <2>1
  <2>4. Exact(ws, s, g[s])
    BY <2>1, <2>2, <2>3, ExactOn
  <2>5. QED
    BY <2>4
<1>7. QED
  BY <1>5, <1>6

-----------------------------------------------------------------------------
(* The invariant: every row is well formed; exceptions and bookings, unlike  *)
(* windows edited by two admins at once, are never inverted.                *)

SchedInv ==
  /\ SchedulesTypeOK
  /\ \A e \in Rows(exceptions) : Ordered(e)
  /\ \A b \in Rows(booked) : Ordered(b)

LEMMA NoneIsNoWindow == None \notin Window
BY SchedulesAssumption DEF None, Window, Quarters

LEMMA RowsOf ==
  ASSUME NEW I, NEW table \in [I -> Window \cup {None}]
  PROVE  /\ Rows(table) \subseteq Window
         /\ \A i \in I : table[i] # None => table[i] \in Rows(table)
BY DEF Rows

LEMMA WindowFinite == IsFiniteSet(Window)
<1> DEFINE P == Quarters \X Quarters
           f == [w \in Window |-> <<w.from, w.to>>]
<1>1. IsFiniteSet(Quarters)
  BY SchedulesAssumption, FS_Interval DEF Quarters
<1>2. IsFiniteSet(P)
  BY <1>1, FS_Product
<1>3. f \in [Window -> P]
  BY Windows
<1>4. ASSUME NEW v \in Window, NEW w \in Window, f[v] = f[w]
      PROVE  v = w
  <2>1. v.from = w.from /\ v.to = w.to
    BY <1>4
  <2>2. v = [from |-> v.from, to |-> v.to] /\ w = [from |-> w.from, to |-> w.to]
    BY DEF Window
  <2>3. QED
    BY <2>1, <2>2
<1> HIDE DEF f, P
<1>5. f \in Injection(Window, P)
  BY <1>3, <1>4 DEF Injection, IsInjective
<1>6. QED
  BY <1>2, <1>5, FS_Injection

\* What the code subtracts is what is left of the shifts.
LEMMA OpenIsExact ==
  ASSUME SchedInv
  PROVE  Exact(Rows(windows), Rows(exceptions), OpenWindows)
<1>1. Rows(windows) \in SUBSET Window /\ Rows(exceptions) \in SUBSET Window
  BY RowsOf DEF SchedInv, SchedulesTypeOK
<1>2. IsFiniteSet(Rows(exceptions))
  BY <1>1, WindowFinite, FS_Subset
<1>3. \A e \in Rows(exceptions) : Ordered(e)
  BY DEF SchedInv
<1>4. QED
  BY <1>1, <1>2, <1>3, FoldExact, FoldIsRemaining

LEMMA SlotIs ==
  ASSUME NEW t
  PROVE  Slot(t).from = t /\ Slot(t).to = t + Duration
BY DEF Slot

LEMMA DisturbedBy ==
  ASSUME SchedInv, NEW t \in Quarters
  PROVE  Undisturbed(t) <=>
           /\ Clear(Rows(exceptions), t)
           /\ \A b \in Rows(booked) : ~ Overlap(b, Slot(t))
<1>1. \A b \in Rows(booked) : b \in Window /\ Ordered(b)
  BY RowsOf DEF SchedInv, SchedulesTypeOK
<1>2. ASSUME NEW b \in Rows(booked)
      PROVE  (\A m \in t .. (t + Duration - 1) : ~ Covers(b, m)) <=> ~ Overlap(b, Slot(t))
  <2>1. b \in Window /\ Ordered(b) /\ b.to \in Nat /\ t \in Nat
    BY <1>1, Windows, SchedulesAssumption DEF Quarters
  <2>2. Overlap(b, Slot(t)) <=> b.from < t + Duration /\ t < b.to
    BY <2>1, SlotIs DEF Overlap
  <2>3. QED
    BY <2>1, <2>2, ClearIsNoOverlap
<1>3. QED
  BY <1>2 DEF Undisturbed, Clear

\* The booking check, minute by minute.
LEMMA AcceptsMeans ==
  ASSUME SchedInv, NEW t \in Quarters
  PROVE  Accepts(t) <=> Undisturbed(t) /\ \E w \in Rows(windows) : Holds(w, t)
<1>1. Exact(Rows(windows), Rows(exceptions), OpenWindows)
  BY OpenIsExact
<1>2. Rows(windows) \in SUBSET Window /\ Rows(exceptions) \in SUBSET Window
  BY RowsOf DEF SchedInv, SchedulesTypeOK
<1>3. FitsSchedule(Slot(t)) <=> \E p \in OpenWindows : Holds(p, t)
  BY SlotIs DEF FitsSchedule, Holds
<1>4. ASSUME NEW p \in OpenWindows, Holds(p, t)
      PROVE  Clear(Rows(exceptions), t) /\ \E w \in Rows(windows) : Holds(w, t)
  <2>1. p.from \in Quarters
    BY <1>1, Windows DEF Exact
  <2>2. QED
    BY <1>1, <1>4, <2>1 DEF Exact
<1>5. ASSUME NEW w \in Rows(windows), Holds(w, t), Clear(Rows(exceptions), t)
      PROVE  \E p \in OpenWindows : Holds(p, t)
  <2>1. PICK f \in Quarters : Opens(Rows(exceptions), w, t, f)
    BY <1>2, OpensSometime
  <2>2. QED
    BY <1>1, <1>5, <2>1 DEF Exact
<1>6. QED
  BY <1>3, <1>4, <1>5, DisturbedBy DEF Accepts

LEMMA MaxIs ==
  ASSUME NEW S, S \subseteq Quarters, S # {}
  PROVE  Max(S) \in S /\ \A y \in S : y <= Max(S)
<1>1. \E x \in S : \A y \in S : y <= x
  BY SchedulesAssumption, Greatest DEF Quarters
<1>2. \E x \in S : \A y \in S : x >= y
  BY <1>1, SchedulesAssumption DEF Quarters
<1>3. Max(S) \in S /\ \A y \in S : Max(S) >= y
  BY <1>2 DEF Max
<1>4. QED
  BY <1>3, SchedulesAssumption DEF Quarters

LEMMA MinIs ==
  ASSUME NEW S, S \subseteq Quarters, S # {}
  PROVE  Min(S) \in S /\ \A y \in S : Min(S) <= y
<1>1. \E x \in S : \A y \in S : x <= y
  BY SchedulesAssumption, Least DEF Quarters
<1>2. QED
  BY <1>1 DEF Min

\* The appointments getSlotGrid loads are all that can overlap a start it offers.
LEMMA BusyIsEnough ==
  ASSUME SchedInv, NEW t \in Quarters, NEW w \in Rows(windows), Holds(w, t)
  PROVE  (\A b \in Busy : ~ Overlap(Slot(t), b)) <=>
           \A b \in Rows(booked) : ~ Overlap(b, Slot(t))
<1> DEFINE starts == {v.from : v \in Rows(windows)}
           ends == {v.to : v \in Rows(windows)}
<1>1. Rows(windows) \subseteq Window /\ Rows(booked) \subseteq Window
  BY RowsOf DEF SchedInv, SchedulesTypeOK
<1>2. /\ starts \subseteq Quarters /\ w.from \in starts
      /\ ends \subseteq Quarters /\ w.to \in ends
  BY <1>1, Windows
<1>3. Busy = {b \in Rows(booked) : b.from < Max(ends) /\ b.to > Min(starts)}
  BY DEF Busy
<1> HIDE DEF starts, ends
<1>4. /\ Max(ends) \in Quarters /\ w.to <= Max(ends)
      /\ Min(starts) \in Quarters /\ Min(starts) <= w.from
  BY <1>2, MaxIs, MinIs
<1>5. ASSUME NEW b \in Rows(booked)
      PROVE  /\ Overlap(Slot(t), b) <=> Overlap(b, Slot(t))
             /\ Overlap(b, Slot(t)) => b \in Busy
  <2>1. /\ b.from \in Nat /\ b.to \in Nat /\ t \in Nat /\ Duration \in Nat
        /\ w.from \in Nat /\ w.to \in Nat /\ Max(ends) \in Nat /\ Min(starts) \in Nat
    BY <1>1, <1>4, Windows, SchedulesAssumption DEF Quarters
  <2>2. Slot(t).from = t /\ Slot(t).to = t + Duration
    BY SlotIs
  <2>3. Overlap(Slot(t), b) <=> Overlap(b, Slot(t))
    BY <2>1, <2>2 DEF Overlap
  <2>4. Overlap(b, Slot(t)) => b.from < Max(ends) /\ b.to > Min(starts)
    BY <1>4, <2>1, <2>2 DEF Overlap, Holds
  <2>5. QED
    BY <1>3, <2>3, <2>4
<1>6. Busy \subseteq Rows(booked)
  BY <1>3
<1>7. QED
  BY <1>5, <1>6

\* What the grid offers, minute by minute.
LEMMA GridMeans ==
  ASSUME SchedInv, NEW t \in Quarters
  PROVE  t \in Grid <=>
           /\ Undisturbed(t)
           /\ \E w \in Rows(windows), f \in Quarters :
                /\ Holds(w, t) /\ Opens(Rows(exceptions), w, t, f)
                /\ (t - f) % Granularity = 0
<1>1. Exact(Rows(windows), Rows(exceptions), OpenWindows)
  BY OpenIsExact
<1>2. \A p \in OpenWindows : p.from \in Quarters /\ p.from \in Nat /\ t \in Nat
  BY <1>1, Windows, SchedulesAssumption DEF Exact, Quarters
<1>3. \A p \in OpenWindows :
        t \in Steps(p) <=> Holds(p, t) /\ (t - p.from) % Granularity = 0
  BY <1>2 DEF Steps, Holds
<1>4. ASSUME t \in Grid
      PROVE  /\ Undisturbed(t)
             /\ \E w \in Rows(windows), f \in Quarters :
                  /\ Holds(w, t) /\ Opens(Rows(exceptions), w, t, f)
                  /\ (t - f) % Granularity = 0
  <2>1. PICK p \in OpenWindows : t \in Steps(p)
    BY <1>4 DEF Grid
  <2>2. Holds(p, t) /\ (t - p.from) % Granularity = 0 /\ p.from \in Quarters
    BY <1>2, <1>3, <2>1
  <2>3. PICK w \in Rows(windows) :
          /\ Holds(w, t) /\ Clear(Rows(exceptions), t)
          /\ Opens(Rows(exceptions), w, t, p.from)
    BY <1>1, <2>2 DEF Exact
  <2>4. \A b \in Busy : ~ Overlap(Slot(t), b)
    BY <1>4 DEF Grid
  <2>5. Undisturbed(t)
    BY <2>3, <2>4, BusyIsEnough, DisturbedBy
  <2>6. QED
    BY <2>2, <2>3, <2>5
<1>5. ASSUME Undisturbed(t), NEW w \in Rows(windows), NEW f \in Quarters,
             Holds(w, t), Opens(Rows(exceptions), w, t, f), (t - f) % Granularity = 0
      PROVE  t \in Grid
  <2>1. Clear(Rows(exceptions), t) /\ \A b \in Busy : ~ Overlap(Slot(t), b)
    BY <1>5, DisturbedBy, BusyIsEnough
  <2>2. PICK p \in OpenWindows : p.from = f /\ Holds(p, t)
    BY <1>1, <1>5, <2>1 DEF Exact
  <2>3. t \in Steps(p)
    BY <1>3, <1>5, <2>2
  <2>4. QED
    BY <2>1, <2>2, <2>3 DEF Grid
<1>6. QED
  BY <1>4, <1>5

LEMMA LastOpeningOpens ==
  ASSUME SchedInv, NEW t \in Quarters, NEW w \in Rows(windows)
  PROVE  /\ LastOpening(w, t) \in Quarters
         /\ Opens(Rows(exceptions), w, t, LastOpening(w, t))
<1> DEFINE before == {x \in Rows(exceptions) : Overlap(x, w) /\ x.to <= t}
           T == {w.from} \cup {e.to : e \in before}
<1>1. w \in Window /\ Rows(exceptions) \subseteq Window
  BY RowsOf DEF SchedInv, SchedulesTypeOK
<1>2. T \subseteq Quarters /\ T # {}
  BY <1>1, Windows
<1>3. LastOpening(w, t) = Max(T)
  BY DEF LastOpening
<1>4. LastOpening(w, t) \in T /\ \A y \in T : y <= LastOpening(w, t)
  <2> HIDE DEF T
  <2> QED BY <1>2, <1>3, MaxIs
<1>5. QED
  BY <1>2, <1>4 DEF Opens

-----------------------------------------------------------------------------
(* Every step. *)

LEMMA ApplyTyped ==
  ASSUME NEW p \in Patch, NEW w \in Window
  PROVE  Apply(p, w) \in Window
BY DEF Apply, Patch, Window

LEMMA PatchesTyped == Patches \subseteq Patch
BY Windows, SchedulesAssumption DEF Patches, Patch

\* A booked slot lies in a shift.
LEMMA AcceptedIsWindow ==
  ASSUME SchedInv, NEW t \in Quarters, Accepts(t)
  PROVE  Slot(t) \in Window /\ Ordered(Slot(t))
<1>1. PICK w \in Rows(windows) : Holds(w, t)
  BY AcceptsMeans
<1>2. w \in Window
  BY RowsOf DEF SchedInv, SchedulesTypeOK
<1>3. t + Duration \in Quarters /\ t < t + Duration
  BY <1>1, <1>2, Windows, SchedulesAssumption DEF Holds, Quarters
<1>4. QED
  BY <1>3 DEF Slot, Window, Ordered

LEMMA SchedInit == Init => SchedInv
<1> SUFFICES ASSUME Init
             PROVE  SchedInv
  OBVIOUS
<1>1. Rows(exceptions) = {} /\ Rows(booked) = {}
  BY DEF Init, Rows
<1>2. SchedulesTypeOK
  BY DEF Init, SchedulesTypeOK
<1>3. QED
  BY <1>1, <1>2 DEF SchedInv

\* Only the shifts change, or what editors are about to write.
LEMMA ShiftsWritten ==
  ASSUME SchedInv, windows' \in [WindowIds -> Window \cup {None}],
         edits' \in [Editors -> Patch \cup {Idle}], UNCHANGED <<exceptions, booked>>
  PROVE  SchedInv'
BY DEF SchedInv, SchedulesTypeOK

LEMMA SchedStep == SchedInv /\ [Next]_vars => SchedInv'
<1> SUFFICES ASSUME SchedInv, [Next]_vars
             PROVE  SchedInv'
  OBVIOUS
<1> USE NoneIsNoWindow
<1>1. /\ windows \in [WindowIds -> Window \cup {None}]
      /\ exceptions \in [ExceptionIds -> Window \cup {None}]
      /\ booked \in [Appts -> Window \cup {None}]
      /\ edits \in [Editors -> Patch \cup {Idle}]
      /\ Hours \subseteq Window /\ DaysOff \subseteq Window
  BY SchedulesAssumption DEF SchedInv, SchedulesTypeOK
<1>2. ASSUME NEW i \in WindowIds, DeleteSchedule(i) \/ \E w \in Hours : CreateSchedule(i, w)
      PROVE  SchedInv'
  BY <1>1, <1>2, ShiftsWritten DEF DeleteSchedule, CreateSchedule
<1>3. ASSUME NEW e \in Editors, CommitPatch(e)
      PROVE  SchedInv'
  <2>1. edits[e] \in Patch /\ edits[e].id \in WindowIds
    BY <1>1, <1>3 DEF CommitPatch, Patch
  <2>2. windows[edits[e].id] # None =>
          Apply(edits[e], windows[edits[e].id]) \in Window
    BY <1>1, <2>1, ApplyTyped
  <2>3. windows' \in [WindowIds -> Window \cup {None}]
    BY <1>1, <1>3, <2>1, <2>2 DEF CommitPatch
  <2>4. edits' \in [Editors -> Patch \cup {Idle}] /\ UNCHANGED <<exceptions, booked>>
    BY <1>1, <1>3 DEF CommitPatch
  <2>5. QED
    BY <2>3, <2>4, ShiftsWritten
<1>4. ASSUME NEW e \in Editors, NEW p \in Patches, PatchSchedule(e, p)
      PROVE  SchedInv'
  <2>1. edits' \in [Editors -> Patch \cup {Idle}]
    BY <1>1, <1>4, PatchesTyped DEF PatchSchedule
  <2>2. QED
    BY <1>1, <1>4, <2>1, ShiftsWritten DEF PatchSchedule
<1>5. ASSUME NEW i \in ExceptionIds, NEW w \in Window \cup {None}, w # None => Ordered(w),
             exceptions' = [exceptions EXCEPT ![i] = w], UNCHANGED <<windows, booked, edits>>
      PROVE  SchedInv'
  <2>1. /\ exceptions' \in [ExceptionIds -> Window \cup {None}]
        /\ \A x \in Rows(exceptions') : x \in Rows(exceptions) \/ (x = w /\ w # None)
    BY <1>1, <1>5 DEF Rows
  <2>2. QED
    BY <1>5, <2>1 DEF SchedInv, SchedulesTypeOK
<1>6. ASSUME NEW a \in Appts, NEW w \in Window \cup {None}, w # None => Ordered(w),
             booked' = [booked EXCEPT ![a] = w], UNCHANGED <<windows, exceptions, edits>>
      PROVE  SchedInv'
  <2>1. /\ booked' \in [Appts -> Window \cup {None}]
        /\ \A x \in Rows(booked') : x \in Rows(booked) \/ (x = w /\ w # None)
    BY <1>1, <1>6 DEF Rows
  <2>2. QED
    BY <1>6, <2>1 DEF SchedInv, SchedulesTypeOK
<1>7. ASSUME NEW i \in ExceptionIds,
             DeleteException(i) \/ \E w \in DaysOff : CreateException(i, w)
      PROVE  SchedInv'
  BY <1>1, <1>5, <1>7 DEF DeleteException, CreateException
<1>8. ASSUME NEW a \in Appts, CancelBooking(a) \/ \E t \in Quarters : Book(a, t)
      PROVE  SchedInv'
  <2>1. CASE CancelBooking(a)
    BY <1>6, <2>1 DEF CancelBooking
  <2>2. ASSUME NEW t \in Quarters, Book(a, t)
        PROVE  SchedInv'
    <3>1. Slot(t) \in Window /\ Ordered(Slot(t))
      BY <2>2, AcceptedIsWindow DEF Book
    <3>2. QED
      BY <1>6, <2>2, <3>1 DEF Book
  <2>3. QED
    BY <1>8, <2>1, <2>2
<1>9. CASE UNCHANGED vars
  BY <1>9 DEF vars, SchedInv, SchedulesTypeOK
<1>10. QED
  BY <1>2, <1>3, <1>4, <1>7, <1>8, <1>9 DEF Next

\* The rows are well formed, and exceptions and bookings never inverted.
THEOREM SchedulesInvariant == Spec => []SchedInv
<1>1. QED
  BY SchedInit, SchedStep, PTL DEF Spec

-----------------------------------------------------------------------------
(* What follows. *)

\* The rows keep their types, whatever two admins write over each other
\* (updateSchedule, catalog.ts).
THEOREM SchedulesTyped == Spec => []SchedulesTypeOK
<1>1. SchedInv => SchedulesTypeOK
  BY DEF SchedInv
<1>2. QED
  BY <1>1, SchedulesInvariant, PTL

\* The grid shows exactly the free starts: the order in which exceptions are
\* subtracted, overlaps of shifts and inverted shifts make no difference
\* (slots.ts 123-175).
THEOREM SchedulesGridExact == Spec => []GridIsExact
<1>1. SchedInv => GridIsExact
  <2> SUFFICES ASSUME SchedInv
               PROVE  GridIsExact
    OBVIOUS
  <2>1. Grid \subseteq Quarters
    BY DEF Grid, Steps
  <2>2. FreeStarts \subseteq Quarters
    BY DEF FreeStarts
  <2>3. ASSUME NEW t \in Quarters, NEW w \in Rows(windows), NEW f \in Quarters
        PROVE  Opens(Rows(exceptions), w, t, f) <=> f = LastOpening(w, t)
    <3>1. w \in Window /\ Rows(exceptions) \in SUBSET Window
      BY RowsOf DEF SchedInv, SchedulesTypeOK
    <3>2. QED
      BY <3>1, LastOpeningOpens, OpensOnce
  <2>4. ASSUME NEW t \in Quarters
        PROVE  t \in Grid <=> t \in FreeStarts
    <3>1. t \in FreeStarts <=>
            /\ Undisturbed(t)
            /\ \E w \in Rows(windows) :
                 Holds(w, t) /\ (t - LastOpening(w, t)) % Granularity = 0
      BY DEF FreeStarts, Holds
    <3>2. \A w \in Rows(windows) : LastOpening(w, t) \in Quarters
      BY LastOpeningOpens
    <3>3. QED
      BY <2>3, <3>1, <3>2, GridMeans
  <2>5. QED
    BY <2>1, <2>2, <2>4 DEF GridIsExact
<1>2. QED
  BY <1>1, SchedulesInvariant, PTL

\* What the grid offers passes the booking check, though the two are separate
\* code over separately loaded rows (booking.ts 202-247, slots.ts).
THEOREM SchedulesOfferedBookable == Spec => []OfferedIsBookable
<1>1. SchedInv => OfferedIsBookable
  <2> SUFFICES ASSUME SchedInv, NEW t \in Grid
               PROVE  Accepts(t)
    BY DEF OfferedIsBookable
  <2>1. t \in Quarters
    BY DEF Grid, Steps
  <2>2. QED
    BY <2>1, GridMeans, AcceptsMeans
<1>2. QED
  BY <1>1, SchedulesInvariant, PTL

\* Nobody is booked outside a shift, during an exception or over another
\* appointment, on the grid or off it (booking.ts 197-201).
THEOREM SchedulesBookedWhileOpen == Spec => BookedWhileOpen
<1>1. SchedInv /\ [Next]_vars =>
        [\A a \in Appts : booked[a] = None /\ booked'[a] # None =>
           /\ Undisturbed(booked'[a].from)
           /\ \E w \in Rows(windows) : w.from <= booked'[a].from /\ booked'[a].to <= w.to]_vars
  <2> SUFFICES ASSUME SchedInv, Next, NEW a \in Appts, booked[a] = None, booked'[a] # None
               PROVE  /\ Undisturbed(booked'[a].from)
                      /\ \E w \in Rows(windows) :
                           w.from <= booked'[a].from /\ booked'[a].to <= w.to
    OBVIOUS
  <2>1. booked \in [Appts -> Window \cup {None}]
    BY DEF SchedInv, SchedulesTypeOK
  <2>2. PICK b \in Appts : (\E t \in Quarters : Book(b, t)) \/ CancelBooking(b)
    BY DEF Next, DeleteSchedule, CreateSchedule, CommitPatch, PatchSchedule,
       DeleteException, CreateException
  <2>3. ~ CancelBooking(b)
    BY <2>1 DEF CancelBooking
  <2>4. PICK t \in Quarters : Book(b, t)
    BY <2>2, <2>3
  <2>5. booked'[a] = Slot(t) /\ Accepts(t)
    BY <2>1, <2>4 DEF Book
  <2>6. QED
    BY <2>5, AcceptsMeans, SlotIs DEF Holds
<1>2. QED
  BY <1>1, SchedulesInvariant, PTL DEF Spec, BookedWhileOpen

================================================================================
