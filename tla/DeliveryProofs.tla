--------------------------- MODULE DeliveryProofs ---------------------------
(***************************************************************************)
(* Theorems about Delivery, for every set of connections and envelopes,    *)
(* all sizes and all limits: what is sent again is due, and the counters   *)
(* and budgets are what the queues and the tables hold.  Sums over finite  *)
(* sets come first; they are what is shown by induction over data here.    *)
(***************************************************************************)
EXTENDS Delivery, FiniteSetTheorems, TLAPS

\* Leaves that are not marked SMTT are for Zenon.
USE ZenonT(90)

\* Sums over finite sets.

\* A number as a set with so many members: n of x, of every x.
Units(f, S) == {p \in S \X Nat : p[2] \in 1..f[p[1]]}

LEMMA UnitsOf ==
    ASSUME NEW S, NEW f, NEW x \in S, f[x] \in Nat
    PROVE  /\ IsFiniteSet({x} \X (1..f[x])) /\ Cardinality({x} \X (1..f[x])) = f[x]
           /\ Units(f, S) = Units(f, S \ {x}) \cup ({x} \X (1..f[x]))
           /\ Units(f, S \ {x}) \cap ({x} \X (1..f[x])) = {}
<1>1. IsFiniteSet(1..f[x]) /\ Cardinality(1..f[x]) = f[x]
  <2>1. IsFiniteSet(1..f[x]) /\ Cardinality(1..f[x]) = IF 1 > f[x] THEN 0 ELSE f[x] - 1 + 1
    <3>1. 1 \in Int /\ f[x] \in Int
      BY SMTT(30)
    <3> QED BY <3>1, FS_Interval
  <2> QED BY SMTT(30), <2>1
<1>2. IsFiniteSet({x}) /\ Cardinality({x}) = 1
  BY FS_Singleton
<1>3. IsFiniteSet({x} \X (1..f[x])) /\ Cardinality({x} \X (1..f[x])) = Cardinality({x}) * Cardinality(1..f[x])
  BY <1>1, <1>2, FS_Product
<1>4. Cardinality({x} \X (1..f[x])) = f[x]
  BY SMTT(30), <1>1, <1>2, <1>3
<1>5. Units(f, S) = Units(f, S \ {x}) \cup ({x} \X (1..f[x])) /\ Units(f, S \ {x}) \cap ({x} \X (1..f[x])) = {}
  BY SMTT(30) DEF Units
<1> QED BY <1>3, <1>4, <1>5

\* Induction over the subsets of a finite set.
LEMMA Smallest ==
    ASSUME NEW S, IsFiniteSet(S), NEW B, B \subseteq SUBSET S, B # {}
    PROVE  \E T \in B : \A x \in T : T \ {x} \notin B
<1>1. FiniteSubsetsOf(S) = SUBSET S /\ IsWellFoundedOn(StrictSubsetOrdering(S), FiniteSubsetsOf(S))
  BY FS_FiniteSubsetsOfFinite, FS_StrictSubsetOrderingWellFounded
<1>2. PICK T \in B : \A U \in B : ~ (<<U, T>> \in StrictSubsetOrdering(S))
  <2> DEFINE R == StrictSubsetOrdering(S)
  <2>1. IsWellFoundedOn(R, SUBSET S)
    BY <1>1
  <2> HIDE DEF R
  <2>2. \E T \in B : \A U \in B : ~ (<<U, T>> \in R)
    BY <2>1, WFMin
  <2> QED BY <2>2 DEF R
<1>3. ASSUME NEW x \in T, T \ {x} \in B PROVE FALSE
  <2>1. <<T \ {x}, T>> \in (SUBSET S) \X (SUBSET S)
    BY <1>3
  <2>2. T \ {x} \subseteq T /\ T \ {x} # T
    OBVIOUS
  <2>3. <<T \ {x}, T>> \in StrictSubsetOrdering(S)
    BY SMTT(30), <2>1, <2>2 DEF StrictSubsetOrdering
  <2> QED BY <1>2, <1>3, <2>3
<1> QED BY <1>3

LEMMA UnitsFinite ==
    ASSUME NEW S, IsFiniteSet(S), NEW f, \A x \in S : f[x] \in Nat
    PROVE  IsFiniteSet(Units(f, S))
<1> DEFINE B == {T \in SUBSET S : ~IsFiniteSet(Units(f, T))}
<1> SUFFICES ASSUME B # {} PROVE FALSE
  OBVIOUS
<1>1. PICK T \in B : \A x \in T : T \ {x} \notin B
  <2>1. B \subseteq SUBSET S
    OBVIOUS
  <2> HIDE DEF B
  <2> QED BY <2>1, Smallest
<1>2. CASE T = {}
  <2>1. Units(f, {}) = {}
    BY SMTT(30) DEF Units
  <2> QED BY <1>1, <1>2, <2>1, FS_EmptySet
<1>3. ASSUME NEW x \in T PROVE FALSE
  <2>1. IsFiniteSet(Units(f, T \ {x}))
    BY <1>1
  <2>2. f[x] \in Nat
    BY <1>1
  <2>3. IsFiniteSet({x} \X (1..f[x])) /\ Units(f, T) = Units(f, T \ {x}) \cup ({x} \X (1..f[x]))
    <3> HIDE DEF B
    <3>1. /\ IsFiniteSet({x} \X (1..f[x])) /\ Cardinality({x} \X (1..f[x])) = f[x]
          /\ Units(f, T) = Units(f, T \ {x}) \cup ({x} \X (1..f[x]))
          /\ Units(f, T \ {x}) \cap ({x} \X (1..f[x])) = {}
      BY <1>3, <2>2, UnitsOf
    <3> QED BY <3>1
  <2> DEFINE U == Units(f, T \ {x})
             V == {x} \X (1..f[x])
  <2>4. IsFiniteSet(Units(f, T))
    <3>1. IsFiniteSet(U) /\ IsFiniteSet(V) /\ Units(f, T) = U \cup V
      BY <2>1, <2>3
    <3> HIDE DEF U, V
    <3> QED BY <3>1, FS_Union
  <2> QED BY <1>1, <2>4
<1> QED BY <1>2, <1>3

LEMMA UnitsCount ==
    ASSUME NEW S, IsFiniteSet(S), NEW f, \A x \in S : f[x] \in Nat, NEW x \in S
    PROVE  /\ Cardinality(Units(f, S)) = f[x] + Cardinality(Units(f, S \ {x}))
           /\ Cardinality(Units(f, S \ {x})) \in Nat
<1>1. IsFiniteSet(S \ {x})
  BY FS_RemoveElement
<1>2. IsFiniteSet(Units(f, S \ {x}))
  BY <1>1, UnitsFinite
<1> DEFINE U == Units(f, S \ {x})
           V == {x} \X (1..f[x])
<1>3. /\ IsFiniteSet(V) /\ Cardinality(V) = f[x] /\ Units(f, S) = U \cup V /\ U \cap V = {}
  BY UnitsOf
<1>4. IsFiniteSet(U) /\ Cardinality(U) \in Nat
  BY <1>2, FS_CardinalityType
<1> HIDE DEF U, V
<1>5. Cardinality(U \cup V) = Cardinality(U) + Cardinality(V) - Cardinality(U \cap V)
  BY <1>3, <1>4, FS_Union
<1>6. Cardinality(U \cap V) = 0
  BY <1>3, FS_EmptySet
<1>7. Cardinality(Units(f, S)) = f[x] + Cardinality(U)
  BY SMTT(30), <1>3, <1>4, <1>5, <1>6
<1> QED BY <1>4, <1>7 DEF U

\* The sum of a function is the number of its units, in whatever order the fold
\* takes the elements.
LEMMA SumIs ==
    ASSUME NEW S, IsFiniteSet(S), NEW f, \A x \in S : f[x] \in Nat
    PROVE  SumFunctionOnSet(f, S) = Cardinality(Units(f, S))
<1> DEFINE pick(s) == CHOOSE x \in s : TRUE
           step(g, s) == IF s = {} THEN 0 ELSE f[pick(s)] + g[s \ {pick(s)}]
           iter[s \in SUBSET S] == IF s = {} THEN 0 ELSE LET x == CHOOSE y \in s : TRUE IN f[x] + iter[s \ {x}]
           count == [s \in SUBSET S |-> Cardinality(Units(f, s))]
<1>1. SumFunctionOnSet(f, S) = iter[S]
  BY DEF SumFunctionOnSet, FoldFunctionOnSet, MapThenFoldSet
<1>2. iter = CHOOSE g : g = [s \in SUBSET S |-> step(g, s)]
  OBVIOUS
<1>3. Units(f, {}) = {} /\ Cardinality(Units(f, {})) = 0
  <2>1. Units(f, {}) = {}
    BY SMTT(30) DEF Units
  <2> QED BY <2>1, FS_EmptySet
<1>4. ASSUME NEW s \in SUBSET S, s # {}
      PROVE  pick(s) \in s /\ Cardinality(Units(f, s)) = f[pick(s)] + Cardinality(Units(f, s \ {pick(s)}))
  <2>1. pick(s) \in s
    BY <1>4
  <2>2. IsFiniteSet(s)
    BY FS_Subset
  <2> HIDE DEF pick
  <2> QED BY <2>1, <2>2, UnitsCount
<1>5. count = [s \in SUBSET S |-> step(count, s)]
  <2>1. ASSUME NEW s \in SUBSET S PROVE count[s] = step(count, s)
    <3>1. CASE s = {}
      BY <1>3, <3>1
    <3>2. CASE s # {}
      <4>1. pick(s) \in s /\ Cardinality(Units(f, s)) = f[pick(s)] + Cardinality(Units(f, s \ {pick(s)}))
        BY <1>4, <3>2
      <4>2. s \ {pick(s)} \in SUBSET S
        OBVIOUS
      <4> HIDE DEF pick
      <4> QED BY <3>2, <4>1, <4>2
    <3> QED BY <3>1, <3>2
  <2> HIDE DEF step
  <2> QED BY <2>1
<1>6. iter = [s \in SUBSET S |-> step(iter, s)]
  <2> HIDE DEF step, iter, count
  <2> QED BY <1>2, <1>5
<1> DEFINE B == {s \in SUBSET S : iter[s] # Cardinality(Units(f, s))}
<1>7. B = {}
  <2> SUFFICES ASSUME B # {} PROVE FALSE
    OBVIOUS
  <2>1. PICK T \in B : \A x \in T : T \ {x} \notin B
    <3>1. B \subseteq SUBSET S
      OBVIOUS
    <3> HIDE DEF B
    <3> QED BY <3>1, Smallest
  <2> HIDE DEF iter
  <2>2. T \in SUBSET S /\ iter[T] # Cardinality(Units(f, T)) /\ iter[T] = step(iter, T)
    BY <1>6, <2>1
  <2>3. T # {}
    BY <1>3, <2>2
  <2>4. /\ pick(T) \in T /\ Cardinality(Units(f, T)) = f[pick(T)] + Cardinality(Units(f, T \ {pick(T)}))
        /\ iter[T] = f[pick(T)] + iter[T \ {pick(T)}]
    BY <1>4, <2>2, <2>3
  <2> HIDE DEF pick
  <2>5. iter[T \ {pick(T)}] = Cardinality(Units(f, T \ {pick(T)}))
    BY <2>1, <2>2, <2>4
  <2> QED BY <2>2, <2>4, <2>5
<1> QED BY <1>1, <1>7

LEMMA SumNat ==
    ASSUME NEW S, IsFiniteSet(S), NEW f \in [S -> Nat]
    PROVE  SumFunction(f) = Cardinality(Units(f, S)) /\ SumFunction(f) \in Nat
<1>1. DOMAIN f = S /\ \A x \in S : f[x] \in Nat
  OBVIOUS
<1>2. SumFunction(f) = Cardinality(Units(f, S))
  BY <1>1, SumIs DEF SumFunction
<1>3. IsFiniteSet(Units(f, S))
  BY <1>1, UnitsFinite
<1> QED BY <1>2, <1>3, FS_CardinalityType

LEMMA SumEmpty == ASSUME NEW f, DOMAIN f = {} PROVE SumFunction(f) = 0
<1>1. IsFiniteSet({}) /\ Cardinality({}) = 0
  BY FS_EmptySet
<1>2. SumFunctionOnSet(f, {}) = Cardinality(Units(f, {}))
  BY <1>1, SumIs
<1>3. Units(f, {}) = {}
  BY SMTT(30) DEF Units
<1> QED BY <1>1, <1>2, <1>3 DEF SumFunction

\* g is the rest of f without x; g is f with its arguments renamed by h.
Rest(f, x, g) ==
    /\ IsFiniteSet(DOMAIN f) /\ f \in [DOMAIN f -> Nat] /\ x \in DOMAIN f
    /\ g \in [DOMAIN g -> Nat] /\ DOMAIN g = DOMAIN f \ {x} /\ \A y \in DOMAIN g : g[y] = f[y]

Renamed(f, h, g) ==
    /\ IsFiniteSet(DOMAIN f) /\ f \in [DOMAIN f -> Nat] /\ IsFiniteSet(DOMAIN g) /\ g \in [DOMAIN g -> Nat]
    /\ h \in [DOMAIN f -> DOMAIN g] /\ \A x, y \in DOMAIN f : h[x] = h[y] => x = y
    /\ \A t \in DOMAIN g : \E x \in DOMAIN f : h[x] = t
    /\ \A x \in DOMAIN f : g[h[x]] = f[x]

LEMMA SumSplit ==
    ASSUME NEW f, NEW x, NEW g, Rest(f, x, g)
    PROVE  SumFunction(f) = f[x] + SumFunction(g) /\ SumFunction(f) \in Nat /\ SumFunction(g) \in Nat
<1> DEFINE S == DOMAIN f
           R == DOMAIN g
<1>1. /\ IsFiniteSet(S) /\ f \in [S -> Nat] /\ x \in S /\ g \in [R -> Nat] /\ R = S \ {x}
      /\ \A y \in R : g[y] = f[y]
  BY DEF Rest
<1> HIDE DEF S, R
<1>2. IsFiniteSet(R)
  BY <1>1, FS_RemoveElement
<1>3. /\ SumFunction(f) = Cardinality(Units(f, S)) /\ SumFunction(g) = Cardinality(Units(g, R))
      /\ SumFunction(f) \in Nat /\ SumFunction(g) \in Nat
  BY <1>1, <1>2, SumNat
<1>4. Units(g, R) = Units(f, R)
  BY SMTT(30), <1>1 DEF Units
<1>5. Cardinality(Units(f, S)) = f[x] + Cardinality(Units(f, S \ {x}))
  <2>1. \A y \in S : f[y] \in Nat
    BY <1>1
  <2> QED BY <1>1, <2>1, UnitsCount
<1> QED BY <1>1, <1>3, <1>4, <1>5

LEMMA SumChange ==
    ASSUME NEW S, IsFiniteSet(S), NEW x \in S, NEW f \in [S -> Nat], NEW g \in [S -> Nat],
           \A y \in S \ {x} : g[y] = f[y]
    PROVE  SumFunction(g) = SumFunction(f) - f[x] + g[x] /\ f[x] <= SumFunction(f)
<1> DEFINE h == [y \in S \ {x} |-> f[y]]
<1>1. DOMAIN f = S /\ DOMAIN g = S /\ DOMAIN h = S \ {x} /\ h \in [S \ {x} -> Nat]
      /\ \A y \in S \ {x} : h[y] = f[y] /\ h[y] = g[y]
  OBVIOUS
<1> HIDE DEF h
<1>2. Rest(f, x, h)
  BY <1>1 DEF Rest
<1>5. Rest(g, x, h)
  BY <1>1 DEF Rest
<1>3. /\ SumFunction(f) = f[x] + SumFunction(h) /\ SumFunction(g) = g[x] + SumFunction(h)
      /\ SumFunction(h) \in Nat
  BY SMTT(30), <1>2, <1>5, SumSplit
<1>4. f[x] \in Nat /\ g[x] \in Nat
  OBVIOUS
<1> QED BY SMTT(30), <1>3, <1>4

LEMMA SumRenamed ==
    ASSUME NEW f, NEW h, NEW g, Renamed(f, h, g)
    PROVE  SumFunction(g) = SumFunction(f)
<1> DEFINE S == DOMAIN f
           T == DOMAIN g
           U == Units(f, S)
           V == Units(g, T)
           m == [p \in U |-> <<h[p[1]], p[2]>>]
<1>1. /\ IsFiniteSet(S) /\ f \in [S -> Nat] /\ IsFiniteSet(T) /\ g \in [T -> Nat]
      /\ h \in [S -> T] /\ \A x, y \in S : h[x] = h[y] => x = y
      /\ \A t \in T : \E x \in S : h[x] = t
      /\ \A x \in S : g[h[x]] = f[x]
  BY DEF Renamed
<1> HIDE DEF S, T
<1>2. m \in [U -> V]
  BY SMTT(30), <1>1 DEF Units
<1>3. ASSUME NEW p \in U, NEW q \in U, m[p] = m[q] PROVE p = q
  BY SMTT(30), <1>1, <1>3 DEF Units
<1>4. ASSUME NEW q \in V PROVE \E p \in U : m[p] = q
  <2>1. PICK x \in S : h[x] = q[1]
    BY SMTT(30), <1>1 DEF Units
  <2>2. <<x, q[2]>> \in U /\ m[<<x, q[2]>>] = q
    BY SMTT(30), <1>1, <2>1 DEF Units
  <2> QED BY <2>2
<1>5. IsFiniteSet(U) /\ SumFunction(f) = Cardinality(U) /\ SumFunction(g) = Cardinality(V)
  <2>1. \A x \in S : f[x] \in Nat
    BY <1>1
  <2> QED BY <1>1, <2>1, UnitsFinite, SumNat
<1> HIDE DEF U, V, m
<1>6. m \in Bijection(U, V)
  BY <1>2, <1>3, <1>4 DEF Bijection, Injection, Surjection, IsInjective
<1>7. ExistsBijection(U, V)
  BY <1>6 DEF ExistsBijection
<1> QED BY <1>5, <1>7, FS_Bijection

LEMMA SumOfNone == ASSUME NEW S, IsFiniteSet(S) PROVE SumFunction([x \in S |-> 0]) = 0
<1> DEFINE f == [x \in S |-> 0]
<1>1. f \in [S -> Nat] /\ \A x \in S : f[x] = 0
  BY SMTT(30)
<1>2. Units(f, S) = {}
  BY SMTT(30), <1>1 DEF Units
<1> HIDE DEF f
<1>3. SumFunction(f) = 0
  BY <1>1, <1>2, SumNat, FS_EmptySet
<1> QED BY <1>3 DEF f
-----------------------------------------------------------------------------
EntryTypes == [seq : Nat, body : Bodies, units : Nat, attempts : 1..3]

\* An entry of k's table is the newest push of its number, nobody acknowledged
\* it, and it was queued as often as its attempts say.
Kept(k, e) ==
    /\ e \in EntryTypes
    /\ To[e.body] = k /\ Sequence[e.body] = e.seq /\ e.units = Size[e.body]
    /\ e.body \in offered /\ e.body \in due
    /\ copies[e.body] = e.attempts

\* The counters of a connection stay within the limit, so that the unsigned
\* differences of send and send_reliable do not wrap, and a closed connection
\* holds nothing, as its destructor asserts.
WithinLimit(k) ==
    /\ writeBytes[k] <= MaxBytes /\ reliableBytes[k] <= MaxBytes
    /\ k \in closed => /\ writes[k] = << >> /\ reliable[k] = {}
                       /\ writeBytes[k] = 0 /\ reliableBytes[k] = 0

Connection(k) ==
    /\ \A e \in reliable[k] : Kept(k, e)
    /\ \A e, f \in reliable[k] : e.seq = f.seq => e = f
    /\ writeBytes[k] \in Int /\ reliableBytes[k] \in Int /\ WithinLimit(k)

Counters ==
    /\ copies \in [Bodies -> Nat] /\ DOMAIN reliable = Conns /\ DOMAIN reliableBytes = Conns
    /\ DOMAIN writes = Conns /\ DOMAIN writeBytes = Conns
    /\ \A b \in Bodies : b \notin offered => copies[b] = 0

DeliveryInv == Counters /\ \A k \in Conns : Connection(k)

\* What ResendIsDue says of a step.
Due ==
    \A b \in Bodies : copies'[b] # copies[b] /\ Sequence[b] > 0 => b \in due' /\ copies'[b] <= 3

\* A step of k leaves the other connections and what is for them alone.
Apart(k) ==
    /\ \A l \in Conns \ {k} :
          /\ reliable'[l] = reliable[l] /\ reliableBytes'[l] = reliableBytes[l]
          /\ writes'[l] = writes[l] /\ writeBytes'[l] = writeBytes[l]
          /\ l \in closed' <=> l \in closed
    /\ offered \subseteq offered'
    /\ \A b \in Bodies : To[b] # k => copies'[b] = copies[b] /\ (b \in due => b \in due')

LEMMA ApartKeeps ==
    ASSUME DeliveryInv, NEW k \in Conns, Apart(k), Counters', Connection(k)'
    PROVE  DeliveryInv'
<1> SUFFICES ASSUME NEW l \in Conns, l # k PROVE Connection(l)'
  BY DEF DeliveryInv
<1>1. Connection(l)
  BY DEF DeliveryInv
<1>2. /\ reliable'[l] = reliable[l] /\ reliableBytes'[l] = reliableBytes[l]
      /\ writes'[l] = writes[l] /\ writeBytes'[l] = writeBytes[l]
      /\ l \in closed' <=> l \in closed
  BY DEF Apart
<1>3. ASSUME NEW e \in reliable[l] PROVE Kept(l, e)'
  <2>1. Kept(l, e)
    BY <1>1 DEF Connection
  <2>2. e.body \in Bodies
    BY SMTT(30), <2>1 DEF Kept, EntryTypes
  <2>3. To[e.body] # k
    BY <2>1 DEF Kept
  <2>4. /\ copies'[e.body] = copies[e.body] /\ (e.body \in due => e.body \in due')
        /\ offered \subseteq offered'
    BY <2>2, <2>3 DEF Apart
  <2> QED BY <2>1, <2>4 DEF Kept
<1>4. WithinLimit(l)'
  BY <1>1, <1>2 DEF Connection, WithinLimit
<1> QED BY <1>1, <1>2, <1>3, <1>4 DEF Connection

\* A connection that is closed gives up its queue and its table.
LEMMA ClosingKeeps ==
    ASSUME DeliveryInv, NEW k \in Conns, Closing(k), UNCHANGED <<copies, due>>,
           offered \subseteq offered'
    PROVE  DeliveryInv' /\ Due
<1>1. /\ copies' = copies /\ due' = due /\ closed' = closed \cup {k}
      /\ writes' = [writes EXCEPT ![k] = << >>] /\ writeBytes' = [writeBytes EXCEPT ![k] = 0]
      /\ reliable' = [reliable EXCEPT ![k] = {}] /\ reliableBytes' = [reliableBytes EXCEPT ![k] = 0]
  BY DEF Closing
<1>2. Counters
  BY DEF DeliveryInv
<1>3. Counters'
  BY <1>1, <1>2 DEF Counters
<1>4. /\ writes'[k] = << >> /\ writeBytes'[k] = 0 /\ reliable'[k] = {} /\ reliableBytes'[k] = 0
  BY <1>1, <1>2 DEF Counters
<1>5. 0 \in Int /\ 0 <= MaxBytes
  BY SMTT(30), DeliveryConstants
<1>6. Connection(k)'
  BY <1>4, <1>5 DEF Connection, WithinLimit
<1>7. Apart(k)
  BY <1>1, <1>2 DEF Apart, Counters
<1> QED BY <1>1, <1>3, <1>6, <1>7, ApartKeeps DEF Due

\* A frame is queued.
LEMMA EnqueueMoves ==
    ASSUME DeliveryInv, NEW k \in Conns, NEW b \in Bodies, To[b] = k, CanSend(k, b), Enqueue(k, b)
    PROVE  /\ copies' \in [Bodies -> Nat] /\ copies'[b] = copies[b] + 1
           /\ \A a \in Bodies \ {b} : copies'[a] = copies[a]
           /\ DOMAIN writes' = Conns /\ DOMAIN writeBytes' = Conns /\ UNCHANGED closed
           /\ writeBytes'[k] \in Int /\ writeBytes'[k] <= MaxBytes
           /\ \A l \in Conns \ {k} : writes'[l] = writes[l] /\ writeBytes'[l] = writeBytes[l]
<1>1. /\ copies' = [copies EXCEPT ![b] = copies[b] + 1] /\ writes' = [writes EXCEPT ![k] = Append(writes[k], b)]
      /\ writeBytes' = [writeBytes EXCEPT ![k] = writeBytes[k] + FrameBytes(b)] /\ UNCHANGED closed
  BY DEF Enqueue
<1>2. /\ copies \in [Bodies -> Nat] /\ DOMAIN writes = Conns /\ DOMAIN writeBytes = Conns
      /\ writeBytes[k] \in Int
  BY DEF DeliveryInv, Counters, Connection
<1>3. copies[b] \in Nat /\ copies[b] + 1 \in Nat
  BY SMTT(30), <1>2
<1>4. FrameBytes(b) <= MaxBytes - writeBytes[k] /\ FrameBytes(b) = Size[b] + Header
  BY DEF CanSend, FrameBytes
<1>5. Size[b] \in Nat /\ Header \in Nat /\ MaxBytes \in Nat
  BY DeliveryConstants
<1>6. writeBytes[k] + FrameBytes(b) \in Int /\ writeBytes[k] + FrameBytes(b) <= MaxBytes
  BY SMTT(30), <1>2, <1>4, <1>5
<1> QED BY <1>1, <1>2, <1>3, <1>6

\* What an entry becomes.
LEMMA EntryChanges ==
    /\ \A b \in Bodies : /\ Entry(b) \in EntryTypes
                         /\ Entry(b).seq = Sequence[b] /\ Entry(b).body = b
                         /\ Entry(b).units = Size[b] /\ Entry(b).attempts = 1
    /\ \A e \in EntryTypes, b \in Bodies :
          LET f == [e EXCEPT !.body = b, !.units = Size[b], !.attempts = 1]
          IN  f \in EntryTypes /\ f.seq = e.seq /\ f.body = b /\ f.units = Size[b] /\ f.attempts = 1
    /\ \A e \in EntryTypes : e.attempts < 3 =>
          LET f == [e EXCEPT !.attempts = @ + 1]
          IN  f \in EntryTypes /\ f.seq = e.seq /\ f.body = e.body /\ f.units = e.units /\ f.attempts = e.attempts + 1
<1>1. Sequence \in [Bodies -> Nat] /\ Size \in [Bodies -> Nat]
  BY DeliveryConstants
<1>2. \A b \in Bodies : /\ Entry(b) \in EntryTypes
                        /\ Entry(b).seq = Sequence[b] /\ Entry(b).body = b
                        /\ Entry(b).units = Size[b] /\ Entry(b).attempts = 1
  BY SMTT(30), <1>1 DEF Entry, EntryTypes
<1>3. ASSUME NEW e \in EntryTypes, NEW b \in Bodies
      PROVE  LET f == [e EXCEPT !.body = b, !.units = Size[b], !.attempts = 1]
             IN  f \in EntryTypes /\ f.seq = e.seq /\ f.body = b /\ f.units = Size[b] /\ f.attempts = 1
  <2> DEFINE g == [e EXCEPT !.body = b]
             h == [g EXCEPT !.units = Size[b]]
             f == [h EXCEPT !.attempts = 1]
  <2>1. g \in EntryTypes /\ g.seq = e.seq /\ g.body = b
    BY SMTT(30) DEF EntryTypes
  <2> HIDE DEF g
  <2>2. h \in EntryTypes /\ h.seq = g.seq /\ h.body = g.body /\ h.units = Size[b]
    BY SMTT(30), <1>1, <2>1 DEF EntryTypes
  <2> HIDE DEF h
  <2>3. f \in EntryTypes /\ f.seq = h.seq /\ f.body = h.body /\ f.units = h.units /\ f.attempts = 1
    BY SMTT(30), <2>2 DEF EntryTypes
  <2>4. f = [e EXCEPT !.body = b, !.units = Size[b], !.attempts = 1]
    BY DEF g, h
  <2> HIDE DEF f
  <2> QED BY <2>1, <2>2, <2>3, <2>4
<1>4. ASSUME NEW e \in EntryTypes, e.attempts < 3
      PROVE  LET f == [e EXCEPT !.attempts = @ + 1]
             IN  f \in EntryTypes /\ f.seq = e.seq /\ f.body = e.body /\ f.units = e.units /\ f.attempts = e.attempts + 1
  BY SMTT(30), <1>4 DEF EntryTypes
<1> QED BY <1>2, <1>3, <1>4

\* Responses, with or without the end of the connection.
LEMMA SendKeeps ==
    ASSUME DeliveryInv, NEW k \in Conns, NEW b \in Bodies,
           Sequence[b] = 0, Offer(k, b), SendOrClose(k, b), UNCHANGED due
    PROVE  DeliveryInv' /\ Due
<1>1. To[b] = k /\ k \notin closed /\ b \notin offered /\ offered' = offered \cup {b}
  BY DEF Offer
<1>2. CASE CanSend(k, b) /\ Enqueue(k, b) /\ UNCHANGED table
  <2>1. /\ copies' \in [Bodies -> Nat] /\ \A a \in Bodies \ {b} : copies'[a] = copies[a]
        /\ DOMAIN writes' = Conns /\ DOMAIN writeBytes' = Conns /\ UNCHANGED closed
        /\ writeBytes'[k] \in Int /\ writeBytes'[k] <= MaxBytes
        /\ \A l \in Conns \ {k} : writes'[l] = writes[l] /\ writeBytes'[l] = writeBytes[l]
    BY <1>1, <1>2, EnqueueMoves
  <2>2. UNCHANGED <<reliable, reliableBytes, due>>
    BY <1>2 DEF table
  <2>3. Counters'
    BY <1>1, <2>1, <2>2 DEF DeliveryInv, Counters
  <2>4. ASSUME NEW e \in reliable[k] PROVE Kept(k, e)'
    <3>1. Kept(k, e)
      BY DEF DeliveryInv, Connection
    <3>2. e.body \in Bodies
      BY SMTT(30), <3>1 DEF Kept, EntryTypes
    <3>3. e.body # b
      BY <1>1, <3>1 DEF Kept
    <3> QED BY <1>1, <2>1, <2>2, <3>1, <3>2, <3>3 DEF Kept
  <2>5. Connection(k)'
    <3>1. Connection(k)
      BY DEF DeliveryInv
    <3>2. WithinLimit(k)'
      BY <1>1, <2>1, <2>2, <3>1 DEF Connection, WithinLimit
    <3> QED BY <2>1, <2>2, <2>4, <3>1, <3>2 DEF Connection
  <2>6. Apart(k)
    BY <1>1, <2>1, <2>2 DEF Apart
  <2>7. ~(Sequence[b] > 0)
    BY SMTT(30)
  <2>8. Due
    BY <2>1, <2>7 DEF Due
  <2> QED BY <2>3, <2>5, <2>6, <2>8, ApartKeeps
<1>3. CASE Closing(k) /\ UNCHANGED <<writer, copies>>
  BY <1>1, <1>3, ClosingKeeps
<1> QED BY <1>2, <1>3 DEF SendOrClose

\* The table of k becomes T, a part of it, and f, the newest of its number.
Takes(k, T, f) ==
    /\ T \subseteq reliable[k] /\ reliable' = [reliable EXCEPT ![k] = T \cup {f}]
    /\ Kept(k, f)' /\ offered \subseteq offered'
    /\ \A e \in T : /\ e.seq # f.seq /\ copies'[e.body] = copies[e.body]
                    /\ e.body \in due => e.body \in due'

LEMMA TableKeeps ==
    ASSUME DeliveryInv, NEW k \in Conns, NEW T, NEW f, Takes(k, T, f)
    PROVE  /\ DOMAIN reliable' = Conns /\ \A l \in Conns \ {k} : reliable'[l] = reliable[l]
           /\ \A e \in reliable'[k] : Kept(k, e)'
           /\ \A e, g \in reliable'[k] : e.seq = g.seq => e = g
<1>1. DOMAIN reliable = Conns
  BY DEF DeliveryInv, Counters
<1>2. /\ DOMAIN reliable' = Conns /\ reliable'[k] = T \cup {f}
      /\ \A l \in Conns \ {k} : reliable'[l] = reliable[l]
  BY <1>1 DEF Takes
<1>3. /\ \A e \in T : Kept(k, e)
      /\ \A e, g \in T : e.seq = g.seq => e = g
  BY DEF DeliveryInv, Connection, Takes
<1>4. \A e \in T : Kept(k, e)'
  BY <1>3 DEF Kept, Takes
<1>5. Kept(k, f)' /\ \A e \in T : e.seq # f.seq
  BY DEF Takes
<1> QED BY <1>2, <1>3, <1>4, <1>5

\* A push b is queued and f is its entry, in the place of another one or in a
\* free one.
Pushes(k, b, T, f, n) ==
    /\ To[b] = k /\ k \notin closed /\ CanSend(k, b) /\ Enqueue(k, b)
    /\ T \subseteq reliable[k] /\ \A e \in T : e.seq # Sequence[b]
    /\ f \in EntryTypes /\ f.body = b /\ f.seq = Sequence[b] /\ f.units = Size[b]
    /\ f.attempts = copies[b] + 1
    /\ b \in offered' /\ offered \subseteq offered'
    /\ b \in due' /\ \A a \in due : (To[a] # k \/ Sequence[a] # Sequence[b]) => a \in due'
    /\ reliable' = [reliable EXCEPT ![k] = T \cup {f}]
    /\ DOMAIN reliableBytes' = Conns /\ reliableBytes'[k] = n /\ n \in Int /\ n <= MaxBytes
    /\ \A l \in Conns \ {k} : reliableBytes'[l] = reliableBytes[l]

LEMMA PushKeeps ==
    ASSUME DeliveryInv, NEW k \in Conns, NEW b \in Bodies, NEW T, NEW f, NEW n, Pushes(k, b, T, f, n)
    PROVE  DeliveryInv' /\ Due
<1>1. /\ copies' \in [Bodies -> Nat] /\ copies'[b] = copies[b] + 1
      /\ \A a \in Bodies \ {b} : copies'[a] = copies[a]
      /\ DOMAIN writes' = Conns /\ DOMAIN writeBytes' = Conns /\ UNCHANGED closed
      /\ writeBytes'[k] \in Int /\ writeBytes'[k] <= MaxBytes
      /\ \A l \in Conns \ {k} : writes'[l] = writes[l] /\ writeBytes'[l] = writeBytes[l]
  BY EnqueueMoves DEF Pushes
<1>2. ASSUME NEW e \in T
      PROVE  e.seq # f.seq /\ copies'[e.body] = copies[e.body] /\ (e.body \in due => e.body \in due')
  <2>1. Kept(k, e) /\ e.seq # Sequence[b]
    BY DEF DeliveryInv, Connection, Pushes
  <2>2. e.body \in Bodies
    BY SMTT(30), <2>1 DEF Kept, EntryTypes
  <2>3. Sequence[e.body] # Sequence[b]
    BY <2>1 DEF Kept
  <2> QED BY <1>1, <2>1, <2>2, <2>3 DEF Pushes
<1>3. Kept(k, f)'
  BY <1>1 DEF Kept, Pushes
<1>4. /\ DOMAIN reliable' = Conns /\ \A l \in Conns \ {k} : reliable'[l] = reliable[l]
      /\ \A e \in reliable'[k] : Kept(k, e)'
      /\ \A e, g \in reliable'[k] : e.seq = g.seq => e = g
  <2>1. Takes(k, T, f)
    BY <1>2, <1>3 DEF Takes, Pushes
  <2> QED BY <2>1, TableKeeps
<1>5. /\ DOMAIN reliableBytes' = Conns /\ reliableBytes'[k] = n
      /\ \A l \in Conns \ {k} : reliableBytes'[l] = reliableBytes[l]
  BY DEF DeliveryInv, Counters, Pushes
<1>6. Counters'
  <2>1. \A a \in Bodies : a \notin offered' => a # b /\ a \notin offered
    BY DEF Pushes
  <2> QED BY <1>1, <1>4, <1>5, <2>1 DEF DeliveryInv, Counters
<1>7. Connection(k)'
  <2>1. k \notin closed' /\ n \in Int /\ n <= MaxBytes
    BY <1>1 DEF Pushes
  <2>2. WithinLimit(k)'
    BY <1>1, <1>5, <2>1 DEF WithinLimit
  <2> QED BY <1>1, <1>4, <1>5, <2>1, <2>2 DEF Connection
<1>8. Apart(k)
  <2>1. \A a \in Bodies : To[a] # k => a # b
    BY DEF Pushes
  <2> QED BY <1>1, <1>4, <1>5, <2>1 DEF Apart, Pushes
<1>9. Due
  <2>1. f.attempts <= 3
    BY SMTT(30) DEF Pushes, EntryTypes
  <2> QED BY <1>1, <2>1 DEF Due, Pushes
<1> QED BY <1>6, <1>7, <1>8, <1>9, ApartKeeps

\* send_reliable.
LEMMA SendNewKeeps ==
    ASSUME DeliveryInv, NEW k \in Conns, NEW b \in Bodies, SendNew(k, b)
    PROVE  DeliveryInv' /\ Due
<1>1. /\ To[b] = k /\ k \notin closed /\ b \notin offered /\ offered' = offered \cup {b}
      /\ Entries(k, Sequence[b]) = {}
  BY DEF SendNew, Offer
<1>2. CASE Closing(k) /\ UNCHANGED <<writer, copies, due>>
  BY <1>1, <1>2, ClosingKeeps
<1>3. CASE /\ CanKeep(k, b) /\ CanSend(k, b)
           /\ Enqueue(k, b)
           /\ reliable' = [reliable EXCEPT ![k] = @ \cup {Entry(b)}]
           /\ reliableBytes' = [reliableBytes EXCEPT ![k] = @ + Size[b]]
           /\ due' = {o \in due : To[o] # k \/ Sequence[o] # Sequence[b]} \cup {b}
  <2> DEFINE n == reliableBytes[k] + Size[b]
  <2>1. copies[b] = 0 /\ reliableBytes[k] \in Int
    BY <1>1 DEF DeliveryInv, Counters, Connection
  <2>2. Entry(b).attempts = copies[b] + 1
    BY SMTT(30), <2>1 DEF Entry
  <2>3. Size[b] <= MaxBytes - reliableBytes[k] /\ Size[b] \in Nat /\ MaxBytes \in Nat
    BY <1>3, DeliveryConstants DEF CanKeep
  <2>4. n \in Int /\ n <= MaxBytes
    BY SMTT(30), <2>1, <2>3
  <2>5. \A e \in reliable[k] : e.seq # Sequence[b]
    BY <1>1 DEF Entries
  <2>6. /\ reliable' = [reliable EXCEPT ![k] = reliable[k] \cup {Entry(b)}]
        /\ DOMAIN reliableBytes' = Conns /\ reliableBytes'[k] = n
        /\ \A l \in Conns \ {k} : reliableBytes'[l] = reliableBytes[l]
    BY <1>3 DEF DeliveryInv, Counters
  <2> HIDE DEF n
  <2>7. Pushes(k, b, reliable[k], Entry(b), n)
    BY <1>1, <1>3, <2>2, <2>4, <2>5, <2>6, EntryChanges DEF Pushes
  <2> QED BY <2>7, PushKeeps
<1> QED BY <1>2, <1>3 DEF SendNew

LEMMA SendReplacingKeeps ==
    ASSUME DeliveryInv, NEW k \in Conns, NEW b \in Bodies, SendReplacing(k, b)
    PROVE  DeliveryInv' /\ Due
<1>1. To[b] = k /\ k \notin closed /\ b \notin offered /\ offered' = offered \cup {b}
  BY DEF SendReplacing, Offer
<1>2. PICK e \in Entries(k, Sequence[b]) :
          \/ /\ CanReplace(k, e, b) /\ CanSend(k, b)
             /\ Enqueue(k, b)
             /\ Replaced(k, e, b)
             /\ due' = {o \in due : To[o] # k \/ Sequence[o] # Sequence[b]} \cup {b}
          \/ ~(CanReplace(k, e, b) /\ CanSend(k, b)) /\ Closing(k) /\ UNCHANGED <<writer, copies, due>>
  BY DEF SendReplacing
<1>3. CASE Closing(k) /\ UNCHANGED <<writer, copies, due>>
  BY <1>1, <1>3, ClosingKeeps
<1>4. CASE /\ CanReplace(k, e, b) /\ CanSend(k, b)
           /\ Enqueue(k, b)
           /\ Replaced(k, e, b)
           /\ due' = {o \in due : To[o] # k \/ Sequence[o] # Sequence[b]} \cup {b}
  <2> DEFINE n == reliableBytes[k] - Size[e.body] + Size[b]
             f == [e EXCEPT !.body = b, !.units = Size[b], !.attempts = 1]
             T == reliable[k] \ {e}
  <2>1. /\ copies[b] = 0 /\ reliableBytes[k] \in Int
        /\ Kept(k, e) /\ \A g \in reliable[k] : g.seq = e.seq => g = e
    BY <1>1 DEF DeliveryInv, Counters, Connection, Entries
  <2>2. e \in EntryTypes /\ e.seq = Sequence[b]
    BY <2>1 DEF Kept, Entries
  <2>3. e.body \in Bodies
    BY SMTT(30), <2>2 DEF EntryTypes
  <2>4. f \in EntryTypes /\ f.seq = e.seq /\ f.body = b /\ f.units = Size[b] /\ f.attempts = 1
    BY <2>2, EntryChanges
  <2>5. f.attempts = copies[b] + 1
    BY SMTT(30), <2>1, <2>4
  <2>6. /\ Size[b] <= MaxBytes - (reliableBytes[k] - Size[e.body])
        /\ Size[b] \in Nat /\ Size[e.body] \in Nat /\ MaxBytes \in Nat
    BY <1>4, <2>3, DeliveryConstants DEF CanReplace
  <2>7. n \in Int /\ n <= MaxBytes
    BY SMTT(30), <2>1, <2>6
  <2>8. T \subseteq reliable[k] /\ \A g \in T : g.seq # Sequence[b]
    BY <2>1, <2>2
  <2>9. /\ reliable' = [reliable EXCEPT ![k] = T \cup {f}]
        /\ DOMAIN reliableBytes' = Conns /\ reliableBytes'[k] = n
        /\ \A l \in Conns \ {k} : reliableBytes'[l] = reliableBytes[l]
    BY <1>4 DEF Replaced, DeliveryInv, Counters
  <2> HIDE DEF n, f, T
  <2>10. Pushes(k, b, T, f, n)
    BY <1>1, <1>4, <2>2, <2>4, <2>5, <2>7, <2>8, <2>9 DEF Pushes
  <2> QED BY <2>10, PushKeeps
<1> QED BY <1>2, <1>3, <1>4

\* An entry leaves the table, acknowledged or given up.
LEMMA ForgetKeeps ==
    ASSUME DeliveryInv, NEW k \in Conns, NEW e \in reliable[k], Forget(k, e),
           UNCHANGED <<closed, queue, offered>>,
           \A b \in due : (To[b] # k \/ Sequence[b] # e.seq) => b \in due'
    PROVE  DeliveryInv' /\ Due
<1>1. /\ reliable' = [reliable EXCEPT ![k] = reliable[k] \ {e}]
      /\ reliableBytes' = [reliableBytes EXCEPT ![k] = reliableBytes[k] - Size[e.body]]
      /\ UNCHANGED <<closed, writes, writeBytes, copies, offered>>
  BY DEF Forget, queue
<1>2. Counters /\ Connection(k) /\ Kept(k, e)
  BY DEF DeliveryInv, Connection
<1>3. e.body \in Bodies /\ e.units = Size[e.body]
  BY SMTT(30), <1>2 DEF Kept, EntryTypes
<1>4. Size[e.body] \in Nat /\ MaxBytes \in Nat /\ reliableBytes[k] \in Int /\ reliableBytes[k] <= MaxBytes
  BY <1>2, <1>3, DeliveryConstants DEF Connection, WithinLimit
<1>5. reliableBytes[k] - Size[e.body] \in Int /\ reliableBytes[k] - Size[e.body] <= MaxBytes
  BY SMTT(30), <1>4
<1>6. /\ reliable'[k] = reliable[k] \ {e} /\ reliableBytes'[k] = reliableBytes[k] - Size[e.body]
      /\ \A l \in Conns \ {k} : reliable'[l] = reliable[l] /\ reliableBytes'[l] = reliableBytes[l]
  BY <1>1, <1>2 DEF Counters
<1>7. Counters'
  BY <1>1, <1>2 DEF Counters
<1>8. ASSUME NEW f \in reliable'[k] PROVE Kept(k, f)'
  <2>1. Kept(k, f) /\ f.seq # e.seq
    BY <1>2, <1>6 DEF Connection
  <2> QED BY <1>1, <2>1 DEF Kept
<1>9. k \notin closed
  BY <1>2 DEF Connection, WithinLimit
<1>10. WithinLimit(k)'
  BY <1>1, <1>2, <1>5, <1>6, <1>9 DEF Connection, WithinLimit
<1>11. Connection(k)'
  BY <1>1, <1>2, <1>5, <1>6, <1>8, <1>10 DEF Connection
<1>12. \A b \in Bodies : To[b] # k => (b \in due => b \in due')
  OBVIOUS
<1>13. Apart(k)
  BY <1>1, <1>6, <1>12 DEF Apart
<1> QED BY <1>1, <1>7, <1>11, <1>13, ApartKeeps DEF Due

\* retry.
LEMMA RetryKeeps ==
    ASSUME DeliveryInv, NEW k \in Conns, NEW s, Retry(k, s)
    PROVE  DeliveryInv' /\ Due
<1>1. UNCHANGED <<offered, due>>
  BY DEF Retry
<1>2. PICK e \in reliable[k] : Abandon(k, e) \/ Again(k, e)
  BY DEF Retry, Entries
<1>3. CASE Abandon(k, e)
  BY <1>1, <1>3, ForgetKeeps DEF Abandon
<1>4. CASE Closing(k) /\ UNCHANGED <<writer, copies>>
  BY <1>1, <1>4, ClosingKeeps
<1>5. CASE /\ e.attempts < 3
           /\ CanSend(k, e.body) /\ Enqueue(k, e.body)
           /\ reliable' = [reliable EXCEPT ![k] = (@ \ {e}) \cup {[e EXCEPT !.attempts = @ + 1]}]
           /\ UNCHANGED reliableBytes
  <2> DEFINE f == [e EXCEPT !.attempts = @ + 1]
             T == reliable[k] \ {e}
             n == reliableBytes[k]
             b == e.body
  <2>1. /\ Kept(k, e) /\ \A g \in reliable[k] : g.seq = e.seq => g = e
        /\ n \in Int /\ n <= MaxBytes /\ k \notin closed /\ DOMAIN reliableBytes = Conns
    BY DEF DeliveryInv, Counters, Connection, WithinLimit
  <2>2. /\ e \in EntryTypes /\ To[b] = k /\ e.seq = Sequence[b] /\ e.units = Size[b]
        /\ b \in offered /\ b \in due /\ e.attempts = copies[b]
    BY <2>1 DEF Kept
  <2>3. b \in Bodies
    BY SMTT(30), <2>2 DEF EntryTypes
  <2>4. f \in EntryTypes /\ f.seq = e.seq /\ f.body = b /\ f.units = e.units /\ f.attempts = e.attempts + 1
    BY <1>5, <2>2, EntryChanges
  <2>5. T \subseteq reliable[k] /\ \A g \in T : g.seq # Sequence[b]
    BY <2>1, <2>2
  <2>6. /\ reliable' = [reliable EXCEPT ![k] = T \cup {f}]
        /\ DOMAIN reliableBytes' = Conns /\ reliableBytes'[k] = n
        /\ \A l \in Conns \ {k} : reliableBytes'[l] = reliableBytes[l]
    BY <1>5, <2>1
  <2>7. f.attempts = copies[b] + 1
    BY <2>2, <2>4
  <2> HIDE DEF f, T, n
  <2>8. Pushes(k, b, T, f, n)
    BY <1>1, <1>5, <2>1, <2>2, <2>4, <2>5, <2>6, <2>7 DEF Pushes
  <2> HIDE DEF b
  <2> QED BY <2>3, <2>8, PushKeeps
<1> QED BY <1>2, <1>3, <1>4, <1>5 DEF Again

LEMMA AcknowledgeKeeps ==
    ASSUME DeliveryInv, NEW k \in Conns, NEW s, Acknowledge(k, s)
    PROVE  DeliveryInv' /\ Due
<1>1. PICK e \in reliable[k] : e.seq = s /\ Forget(k, e)
  BY DEF Acknowledge, Entries
<1>2. due' = {b \in due : To[b] # k \/ Sequence[b] # s} /\ UNCHANGED <<closed, queue, offered>>
  BY DEF Acknowledge
<1>3. \A b \in due : (To[b] # k \/ Sequence[b] # e.seq) => b \in due'
  BY <1>1, <1>2
<1> QED BY <1>1, <1>2, <1>3, ForgetKeeps
-----------------------------------------------------------------------------
\* What is queued or on the wire is an envelope.
Frames == writes \in [Conns -> Seq(Bodies)] /\ onWire \in [Conns -> Bodies \cup {NoFrame}]

LEMMA FramesQueued ==
    ASSUME Frames, NEW k \in Conns, NEW b \in Bodies, Enqueue(k, b), UNCHANGED onWire
    PROVE  Frames'
<1>1. writes[k] \in Seq(Bodies) /\ writes' = [writes EXCEPT ![k] = Append(writes[k], b)]
  BY DEF Frames, Enqueue
<1>2. Append(writes[k], b) \in Seq(Bodies)
  BY SMTT(30), <1>1
<1> QED BY <1>1, <1>2 DEF Frames

LEMMA FramesClosed ==
    ASSUME Frames, NEW k \in Conns, Closing(k), onWire' \in {onWire, [onWire EXCEPT ![k] = NoFrame]}
    PROVE  Frames'
<1>1. << >> \in Seq(Bodies)
  BY SMTT(30)
<1>2. onWire' \in [Conns -> Bodies \cup {NoFrame}]
  BY DEF Frames
<1> QED BY <1>1, <1>2 DEF Frames, Closing

LEMMA FramesTaken ==
    ASSUME Frames, NEW k \in Conns, TakeNext(k)
    PROVE  Frames'
<1>1. writes[k] \in Seq(Bodies) /\ writes[k] # << >>
  BY DEF Frames, TakeNext
<1>2. Head(writes[k]) \in Bodies /\ Tail(writes[k]) \in Seq(Bodies)
  BY SMTT(30), <1>1
<1>3. onWire' = [onWire EXCEPT ![k] = Head(writes[k])] /\ writes' = [writes EXCEPT ![k] = Tail(writes[k])]
  BY DEF TakeNext
<1> QED BY <1>2, <1>3 DEF Frames

\* A step of the writer: the table stays, and the queue of an open connection
\* gets no longer.
LEMMA WriterKeeps ==
    ASSUME DeliveryInv, NEW k \in Conns, NEW q, NEW n,
           UNCHANGED <<closed, table, copies, offered, due>>,
           writes' = [writes EXCEPT ![k] = q], writeBytes' = [writeBytes EXCEPT ![k] = n],
           n \in Int, n <= writeBytes[k], k \in closed => q = writes[k] /\ n = writeBytes[k]
    PROVE  DeliveryInv' /\ Due
<1>1. Counters /\ Connection(k)
  BY DEF DeliveryInv
<1>2. UNCHANGED <<closed, reliable, reliableBytes, copies, offered, due>>
  BY DEF table
<1>3. /\ writes'[k] = q /\ writeBytes'[k] = n
      /\ \A l \in Conns \ {k} : writes'[l] = writes[l] /\ writeBytes'[l] = writeBytes[l]
  BY <1>1 DEF Counters
<1>4. n <= MaxBytes
  <2>1. writeBytes[k] \in Int /\ writeBytes[k] <= MaxBytes /\ MaxBytes \in Nat
    BY <1>1, DeliveryConstants DEF Connection, WithinLimit
  <2> QED BY SMTT(30), <2>1
<1>5. Counters'
  BY <1>1, <1>2 DEF Counters
<1>6. WithinLimit(k)'
  BY <1>1, <1>2, <1>3, <1>4 DEF Connection, WithinLimit
<1>7. \A e \in reliable[k] : Kept(k, e) => Kept(k, e)'
  BY <1>2 DEF Kept
<1>8. Connection(k)'
  BY <1>1, <1>2, <1>3, <1>6, <1>7 DEF Connection
<1>9. Apart(k)
  BY <1>2, <1>3 DEF Apart
<1> QED BY <1>2, <1>5, <1>8, <1>9, ApartKeeps DEF Due

LEMMA DeliveryStays ==
    ASSUME DeliveryInv, UNCHANGED <<closed, table, writes, writeBytes, copies, offered, due>>
    PROVE  DeliveryInv' /\ Due
<1>1. UNCHANGED <<closed, reliable, reliableBytes, writes, writeBytes, copies, offered, due>>
  BY DEF table
<1>2. Counters'
  BY <1>1 DEF DeliveryInv, Counters
<1>3. \A k \in Conns : \A e : Kept(k, e) => Kept(k, e)'
  BY <1>1 DEF Kept
<1>4. ASSUME NEW k \in Conns PROVE Connection(k)'
  <2>1. Connection(k)
    BY DEF DeliveryInv
  <2>2. WithinLimit(k)'
    BY <1>1, <2>1 DEF Connection, WithinLimit
  <2> QED BY <1>1, <1>3, <2>1, <2>2 DEF Connection
<1> QED BY <1>1, <1>2, <1>4 DEF DeliveryInv, Due

\* write_loop.
LEMMA StartWriterKeeps ==
    ASSUME DeliveryInv, NEW k \in Conns, StartWriter(k)
    PROVE  DeliveryInv' /\ Due
<1>1. UNCHANGED <<copies, offered, due>>
  BY DEF StartWriter
<1>2. CASE TakeNext(k) /\ UNCHANGED writeBytes
  <2>1. k \notin closed /\ UNCHANGED <<closed, table>> /\ writes' = [writes EXCEPT ![k] = Tail(writes[k])]
    BY <1>2 DEF TakeNext
  <2>2. Counters /\ Connection(k)
    BY DEF DeliveryInv
  <2>3. /\ \A l \in Conns \ {k} : writes'[l] = writes[l]
        /\ DOMAIN writes' = Conns
    BY <2>1, <2>2 DEF Counters
  <2>4. UNCHANGED <<closed, reliable, reliableBytes, writeBytes, copies, offered, due>>
    BY <1>1, <1>2, <2>1 DEF table
  <2>5. Counters'
    BY <2>2, <2>3, <2>4 DEF Counters
  <2>6. WithinLimit(k)'
    BY <2>1, <2>2, <2>4 DEF Connection, WithinLimit
  <2>7. \A e \in reliable[k] : Kept(k, e) => Kept(k, e)'
    BY <2>4 DEF Kept
  <2>8. Connection(k)'
    BY <2>2, <2>4, <2>6, <2>7 DEF Connection
  <2>9. Apart(k)
    BY <2>3, <2>4 DEF Apart
  <2> QED BY <2>4, <2>5, <2>8, <2>9, ApartKeeps DEF Due
<1>3. CASE LoopEnds(k) /\ UNCHANGED <<closed, writes, writeBytes, table>>
  BY <1>1, <1>3, DeliveryStays
<1> QED BY <1>2, <1>3 DEF StartWriter

LEMMA FlushedKeeps ==
    ASSUME DeliveryInv, Frames, NEW k \in Conns, Flushed(k)
    PROVE  DeliveryInv' /\ Due
<1>1. UNCHANGED <<copies, offered, due>> /\ onWire[k] \in Bodies
  BY DEF Flushed, Frames
<1>2. writeBytes[k] \in Int /\ FrameBytes(onWire[k]) \in Nat
  <2>1. Size[onWire[k]] \in Nat /\ Header \in Nat
    BY <1>1, DeliveryConstants
  <2>2. Size[onWire[k]] + Header \in Nat
    BY SMTT(30), <2>1
  <2> QED BY <2>2 DEF DeliveryInv, Connection, FrameBytes
<1>3. /\ writeBytes[k] - FrameBytes(onWire[k]) \in Int
      /\ writeBytes[k] - FrameBytes(onWire[k]) <= writeBytes[k]
      /\ writeBytes[k] <= writeBytes[k]
  BY SMTT(30), <1>2
<1>4. CASE TakeNext(k) /\ writeBytes' = [writeBytes EXCEPT ![k] = @ - FrameBytes(onWire[k])]
  <2>1. /\ k \notin closed /\ UNCHANGED <<closed, table>>
        /\ writes' = [writes EXCEPT ![k] = Tail(writes[k])]
        /\ writeBytes' = [writeBytes EXCEPT ![k] = writeBytes[k] - FrameBytes(onWire[k])]
    BY <1>4 DEF TakeNext
  <2> QED BY <1>1, <1>3, <2>1, WriterKeeps
<1>5. CASE Closing(k)
  BY <1>1, <1>5, ClosingKeeps
<1>6. CASE /\ writeBytes' = [writeBytes EXCEPT ![k] = IF k \in closed THEN @ ELSE @ - FrameBytes(onWire[k])]
           /\ UNCHANGED <<closed, writes, table>>
  <2> DEFINE n == IF k \in closed THEN writeBytes[k] ELSE writeBytes[k] - FrameBytes(onWire[k])
  <2>1. n \in Int /\ n <= writeBytes[k] /\ (k \in closed => n = writeBytes[k])
    BY <1>2, <1>3
  <2>2. writeBytes' = [writeBytes EXCEPT ![k] = n]
    BY <1>6
  <2>3. writes' = [writes EXCEPT ![k] = writes[k]]
    BY <1>6 DEF Frames
  <2> HIDE DEF n
  <2> QED BY <1>1, <1>6, <2>1, <2>2, <2>3, WriterKeeps
<1> QED BY <1>4, <1>5, <1>6 DEF Flushed

LEMMA DeliveryInvInit == DeliveryInit => Frames /\ DeliveryInv
<1> SUFFICES ASSUME DeliveryInit PROVE Frames /\ DeliveryInv
  OBVIOUS
<1>1. << >> \in Seq(Bodies) /\ 0 \in Nat /\ 0 \in Int /\ 0 <= MaxBytes
  BY SMTT(30), DeliveryConstants
<1>2. Frames /\ Counters
  BY <1>1 DEF DeliveryInit, Frames, Counters
<1>3. ASSUME NEW k \in Conns PROVE Connection(k)
  <2>1. reliable[k] = {} /\ writeBytes[k] = 0 /\ reliableBytes[k] = 0 /\ k \notin closed
    BY DEF DeliveryInit
  <2> QED BY <1>1, <2>1 DEF Connection, WithinLimit
<1> QED BY <1>2, <1>3 DEF DeliveryInv

LEMMA FramesNext == Frames /\ DeliveryInv /\ [DeliveryNext]_deliveryVars => Frames'
<1> SUFFICES ASSUME Frames, DeliveryInv, [DeliveryNext]_deliveryVars PROVE Frames'
  OBVIOUS
<1>1. ASSUME UNCHANGED <<writes, onWire>> PROVE Frames'
  BY <1>1 DEF Frames
<1>2. ASSUME NEW k \in Conns, NEW b \in Bodies, Send(k, b) \/ Quit(k, b) \/ SendNew(k, b) \/ SendReplacing(k, b)
      PROVE  Frames'
  <2>1. UNCHANGED onWire /\ (Enqueue(k, b) \/ Closing(k))
    BY <1>2 DEF Send, Quit, SendNew, SendReplacing, SendOrClose
  <2> QED BY <2>1, FramesQueued, FramesClosed
<1>3. ASSUME NEW k \in Conns, NEW s, Retry(k, s) PROVE Frames'
  <2>1. PICK e \in reliable[k] : Abandon(k, e) \/ Again(k, e)
    BY <1>3 DEF Retry, Entries
  <2>2. Kept(k, e)
    BY DEF DeliveryInv, Connection
  <2>3. e.body \in Bodies
    BY SMTT(30), <2>2 DEF Kept, EntryTypes
  <2>4. UNCHANGED onWire /\ (UNCHANGED writes \/ Enqueue(k, e.body) \/ Closing(k))
    BY <1>3, <2>1 DEF Retry, Abandon, Again, queue
  <2> QED BY <1>1, <2>3, <2>4, FramesQueued, FramesClosed
<1>4. ASSUME NEW k \in Conns, NEW s, Acknowledge(k, s) PROVE Frames'
  BY <1>1, <1>4 DEF Acknowledge, queue
<1>5. ASSUME NEW k \in Conns, LoopEnds(k), UNCHANGED writes PROVE Frames'
  BY <1>5 DEF LoopEnds, Frames
<1>6. ASSUME NEW k \in Conns, StartWriter(k) PROVE Frames'
  BY <1>5, <1>6, FramesTaken DEF StartWriter
<1>7. ASSUME NEW k \in Conns, Flushed(k) PROVE Frames'
  BY <1>5, <1>7, FramesTaken, FramesClosed DEF Flushed, LoopEnds
<1>8. ASSUME NEW k \in Conns, WriteFails(k) \/ Close(k) PROVE Frames'
  BY <1>8, FramesClosed DEF WriteFails, Close
<1>9. CASE UNCHANGED deliveryVars
  BY <1>1, <1>9 DEF deliveryVars, queue
<1> QED BY <1>2, <1>3, <1>4, <1>6, <1>7, <1>8, <1>9 DEF DeliveryNext

LEMMA DeliveryInvNext == Frames /\ DeliveryInv /\ [DeliveryNext]_deliveryVars => DeliveryInv' /\ Due
<1> SUFFICES ASSUME Frames, DeliveryInv, [DeliveryNext]_deliveryVars PROVE DeliveryInv' /\ Due
  OBVIOUS
<1>1. ASSUME NEW k \in Conns, NEW b \in Bodies, Send(k, b) \/ Quit(k, b)
      PROVE  DeliveryInv' /\ Due
  <2>1. Sequence[b] = 0 /\ Offer(k, b) /\ SendOrClose(k, b) /\ UNCHANGED due
    BY <1>1 DEF Send, Quit
  <2> QED BY <2>1, SendKeeps
<1>2. ASSUME NEW k \in Conns, WriteFails(k) \/ Close(k) PROVE DeliveryInv' /\ Due
  <2>1. Closing(k) /\ UNCHANGED <<copies, due, offered>>
    BY <1>2 DEF WriteFails, Close
  <2> QED BY <2>1, ClosingKeeps
<1>3. CASE UNCHANGED deliveryVars
  BY <1>3, DeliveryStays DEF deliveryVars, queue
<1> QED BY <1>1, <1>2, <1>3, SendNewKeeps, SendReplacingKeeps, RetryKeeps, AcknowledgeKeeps,
           StartWriterKeeps, FlushedKeeps DEF DeliveryNext

\* Whatever is replaced, acknowledged, timed out or closed meanwhile, what
\* send_reliable and retry queue for a number is its newest body, not yet
\* acknowledged, and at most the third copy; for any number of connections and
\* pushes and all limits.
THEOREM ResendIsDueAlways == DeliverySafeSpec => ResendIsDue
<1>1. Frames /\ DeliveryInv /\ [DeliveryNext]_deliveryVars =>
          /\ Frames' /\ DeliveryInv'
          /\ [\A b \in Bodies : copies'[b] # copies[b] /\ Sequence[b] > 0 => b \in due' /\ copies'[b] <= 3]_deliveryVars
  BY FramesNext, DeliveryInvNext DEF Due
<1> QED BY <1>1, DeliveryInvInit, PTL DEF DeliverySafeSpec, ResendIsDue
-----------------------------------------------------------------------------
\* What the queues and the tables hold.

LEMMA FrameBytesNat == \A b \in Bodies : FrameBytes(b) \in Nat /\ Size[b] \in Nat
<1>1. \A b \in Bodies : Size[b] \in Nat /\ Header \in Nat
  BY DeliveryConstants
<1> QED BY SMTT(30), <1>1 DEF FrameBytes

LEMMA BytesNat ==
    ASSUME NEW s \in Seq(Bodies)
    PROVE  /\ IsFiniteSet(DOMAIN s)
           /\ [i \in DOMAIN s |-> FrameBytes(s[i])] \in [DOMAIN s -> Nat]
           /\ SumBytes(s) \in Nat
<1>1. DOMAIN s = 1..Len(s) /\ Len(s) \in Nat /\ 1 \in Int /\ Len(s) \in Int
  BY SMTT(30)
<1>2. IsFiniteSet(DOMAIN s)
  BY <1>1, FS_Interval
<1>3. \A i \in DOMAIN s : s[i] \in Bodies
  BY SMTT(30)
<1>4. [i \in DOMAIN s |-> FrameBytes(s[i])] \in [DOMAIN s -> Nat]
  BY <1>3, FrameBytesNat
<1> QED BY <1>2, <1>4, SumNat DEF SumBytes

LEMMA BytesAppend ==
    ASSUME NEW s \in Seq(Bodies), NEW b \in Bodies
    PROVE  SumBytes(Append(s, b)) = SumBytes(s) + FrameBytes(b)
<1>1. PICK t : t = Append(s, b)
  OBVIOUS
<1>2. t \in Seq(Bodies) /\ Len(s) + 1 \in DOMAIN t /\ t[Len(s) + 1] = b /\ DOMAIN s = DOMAIN t \ {Len(s) + 1}
      /\ \A i \in DOMAIN s : t[i] = s[i]
  <2>1. t \in Seq(Bodies) /\ Len(t) = Len(s) + 1 /\ Len(s) \in Nat /\ t[Len(s) + 1] = b
        /\ DOMAIN s = 1..Len(s) /\ DOMAIN t = 1..Len(t) /\ \A i \in 1..Len(s) : t[i] = s[i]
    BY SMTT(30), <1>1
  <2>2. Len(s) + 1 \in 1..(Len(s) + 1) /\ 1..Len(s) = (1..(Len(s) + 1)) \ {Len(s) + 1}
    BY SMTT(30), <2>1
  <2> QED BY <2>1, <2>2
<1> DEFINE f == [i \in DOMAIN t |-> FrameBytes(t[i])]
           g == [i \in DOMAIN s |-> FrameBytes(s[i])]
<1>3. /\ IsFiniteSet(DOMAIN t) /\ f \in [DOMAIN t -> Nat] /\ g \in [DOMAIN s -> Nat]
  BY <1>2, BytesNat
<1>4. f[Len(s) + 1] = FrameBytes(b) /\ \A i \in DOMAIN s : g[i] = f[i]
  BY <1>2
<1>5. SumBytes(t) = SumFunction(f) /\ SumBytes(s) = SumFunction(g)
  BY DEF SumBytes
<1> HIDE DEF f, g
<1>6. SumFunction(f) = f[Len(s) + 1] + SumFunction(g)
  <2>1. DOMAIN f = DOMAIN t /\ DOMAIN g = DOMAIN s
    BY <1>3
  <2>2. PICK n : n = Len(s) + 1
    OBVIOUS
  <2>3. Rest(f, n, g)
    BY <1>2, <1>3, <1>4, <2>1, <2>2 DEF Rest
  <2> QED BY SMTT(30), <2>2, <2>3, SumSplit
<1>7. SumBytes(s) \in Nat /\ FrameBytes(b) \in Nat
  BY BytesNat, FrameBytesNat
<1> QED BY SMTT(30), <1>1, <1>4, <1>5, <1>6, <1>7

LEMMA BytesTail ==
    ASSUME NEW s \in Seq(Bodies), s # << >>
    PROVE  SumBytes(s) = FrameBytes(Head(s)) + SumBytes(Tail(s))
<1>1. PICK t : t = Tail(s)
  OBVIOUS
<1>2. PICK R : R = DOMAIN s \ {1}
  OBVIOUS
<1>3. t \in Seq(Bodies) /\ Head(s) = s[1] /\ 1 \in DOMAIN s
  BY SMTT(30), <1>1
<1> DEFINE f == [i \in DOMAIN s |-> FrameBytes(s[i])]
           g == [i \in DOMAIN t |-> FrameBytes(t[i])]
           r == [i \in R |-> FrameBytes(s[i])]
           h == [i \in R |-> i - 1]
<1>4. /\ IsFiniteSet(DOMAIN s) /\ f \in [DOMAIN s -> Nat] /\ IsFiniteSet(DOMAIN t) /\ g \in [DOMAIN t -> Nat]
  BY <1>3, BytesNat
<1>5. IsFiniteSet(R)
  BY <1>2, <1>4, FS_RemoveElement
<1>6. /\ h \in [R -> DOMAIN t] /\ (\A i, j \in R : h[i] = h[j] => i = j) /\ (\A j \in DOMAIN t : \E i \in R : h[i] = j)
      /\ \A i \in R : t[h[i]] = s[i]
  <2>1. h \in [R -> DOMAIN t] /\ (\A i, j \in R : h[i] = h[j] => i = j) /\ \A i \in R : t[h[i]] = s[i]
    BY SMTT(30), <1>1, <1>2
  <2>2. ASSUME NEW j \in DOMAIN t PROVE \E i \in R : h[i] = j
    <3>1. j + 1 \in R /\ h[j + 1] = j
      BY SMTT(30), <1>1, <1>2
    <3> QED BY <3>1
  <2> QED BY <2>1, <2>2
<1>7. \A i \in R : s[i] \in Bodies
  BY SMTT(30), <1>2
<1>8. r \in [R -> Nat] /\ (\A i \in R : r[i] = f[i]) /\ (\A i \in R : g[h[i]] = r[i]) /\ f[1] = FrameBytes(Head(s))
  <2>1. \A i \in R : i \in DOMAIN s /\ h[i] \in DOMAIN t
    BY <1>2, <1>6
  <2>2. \A i \in R : g[h[i]] = FrameBytes(t[h[i]])
    BY <2>1
  <2>3. r \in [R -> Nat]
    BY <1>7, FrameBytesNat
  <2> QED BY <1>3, <1>6, <2>1, <2>2, <2>3
<1>9. SumBytes(s) = SumFunction(f) /\ SumBytes(t) = SumFunction(g)
  BY DEF SumBytes
<1> HIDE DEF f, g, r, h
<1>10. SumFunction(f) = f[1] + SumFunction(r)
  <2>1. DOMAIN f = DOMAIN s /\ DOMAIN r = R
    BY <1>4, <1>8
  <2>2. Rest(f, 1, r)
    BY <1>2, <1>3, <1>4, <1>8, <2>1 DEF Rest
  <2>3. SumFunction(f) = f[1] + SumFunction(r) /\ SumFunction(f) \in Nat /\ SumFunction(r) \in Nat
    BY <2>2, SumSplit
  <2> QED BY <2>3
<1>11. SumFunction(g) = SumFunction(r)
  <2>1. DOMAIN g = DOMAIN t /\ DOMAIN r = R
    BY <1>4, <1>8
  <2>2. Renamed(r, h, g)
    BY <1>4, <1>5, <1>6, <1>8, <2>1 DEF Renamed
  <2> QED BY <2>2, SumRenamed
<1> QED BY <1>1, <1>8, <1>9, <1>10, <1>11

LEMMA BytesEmpty == SumBytes(<< >>) = 0
<1>1. DOMAIN << >> = {}
  BY SMTT(30)
<1> DEFINE f == [i \in DOMAIN << >> |-> FrameBytes(<< >>[i])]
<1>2. DOMAIN f = {} /\ SumBytes(<< >>) = SumFunction(f)
  BY <1>1 DEF SumBytes
<1> HIDE DEF f
<1> QED BY <1>2, SumEmpty

\* What a queue holds with o on the wire and w waiting.
HeldOf(o, w) == (IF o = NoFrame THEN << >> ELSE <<o>>) \o w

LEMMA HeldOfIs ==
    ASSUME NEW o \in Bodies \cup {NoFrame}, NEW w \in Seq(Bodies)
    PROVE  /\ HeldOf(o, w) \in Seq(Bodies) /\ Len(HeldOf(o, w)) \in Nat /\ SumBytes(HeldOf(o, w)) \in Nat
           /\ \A b \in Bodies : HeldOf(o, Append(w, b)) = Append(HeldOf(o, w), b)
           /\ HeldOf(NoFrame, w) = w /\ SumBytes(w) \in Nat
           /\ o # NoFrame => /\ Len(HeldOf(o, w)) = Len(w) + 1
                             /\ SumBytes(HeldOf(o, w)) = FrameBytes(o) + SumBytes(w)
           /\ w # << >> => HeldOf(Head(w), Tail(w)) = w
<1>1. HeldOf(NoFrame, w) = w
  BY SMTT(30) DEF HeldOf
<1>2. SumBytes(w) \in Nat /\ Len(w) \in Nat
  <2>1. Len(w) \in Nat
    BY SMTT(30)
  <2> QED BY <2>1, BytesNat
<1>3. w # << >> => HeldOf(Head(w), Tail(w)) = w
  <2> SUFFICES ASSUME w # << >> PROVE HeldOf(Head(w), Tail(w)) = w
    OBVIOUS
  <2>1. Head(w) \in Bodies /\ <<Head(w)>> \o Tail(w) = w
    BY SMTT(30)
  <2>2. Head(w) # NoFrame
    BY <2>1, DeliveryConstants
  <2> QED BY <2>1, <2>2 DEF HeldOf
<1>4. CASE o = NoFrame
  <2>1. \A b \in Bodies : Append(w, b) \in Seq(Bodies) /\ << >> \o Append(w, b) = Append(w, b)
    BY SMTT(30)
  <2>2. \A b \in Bodies : HeldOf(o, Append(w, b)) = Append(HeldOf(o, w), b)
    BY <1>1, <1>4, <2>1 DEF HeldOf
  <2> QED BY <1>1, <1>2, <1>3, <1>4, <2>2
<1>5. CASE o # NoFrame
  <2>1. o \in Bodies /\ HeldOf(o, w) = <<o>> \o w /\ \A b \in Bodies : HeldOf(o, Append(w, b)) = <<o>> \o Append(w, b)
    BY <1>5 DEF HeldOf
  <2>2. /\ <<o>> \o w \in Seq(Bodies) /\ <<o>> \o w # << >> /\ Head(<<o>> \o w) = o /\ Tail(<<o>> \o w) = w
        /\ Len(<<o>> \o w) = Len(w) + 1 /\ Len(<<o>> \o w) \in Nat
    BY SMTT(30), <2>1
  <2>3. \A b \in Bodies : <<o>> \o Append(w, b) = Append(<<o>> \o w, b)
    BY SMTT(30), <2>1
  <2>4. PICK h \in Seq(Bodies) : h = <<o>> \o w
    BY <2>2
  <2>5. SumBytes(h) = FrameBytes(o) + SumBytes(w) /\ SumBytes(h) \in Nat
    BY <2>2, <2>4, BytesTail, BytesNat
  <2> QED BY <1>1, <1>2, <1>3, <2>1, <2>2, <2>3, <2>4, <2>5
<1> QED BY <1>4, <1>5

LEMMA HeldIs == \A k : Held(k) = HeldOf(onWire[k], writes[k]) /\ Held(k)' = HeldOf(onWire'[k], writes'[k])
BY DEF Held, OnWire, HeldOf

\* The counter of the queue, and what the queues share.
QueueBooks(k) ==
    /\ writeBytes[k] = IF k \in closed THEN 0 ELSE SumBytes(Held(k))
    /\ onWire[k] # NoFrame => writer[k] = "busy"

QueueInv ==
    /\ DOMAIN writer = Conns /\ \A k \in Conns : QueueBooks(k)
    /\ FramesInUse <= WriteEntries /\ FrameBytesInUse <= WriteBytes

\* A step of k's queue: it gives something back, or takes what there is room for.
QueueMoves(k) ==
    /\ DOMAIN writer' = Conns /\ QueueBooks(k)'
    /\ \A l \in Conns \ {k} :
          /\ writes'[l] = writes[l] /\ onWire'[l] = onWire[l] /\ writeBytes'[l] = writeBytes[l]
          /\ writer'[l] = writer[l] /\ (l \in closed' <=> l \in closed)
    /\ \/ Len(Held(k)') <= Len(Held(k)) /\ SumBytes(Held(k)') <= SumBytes(Held(k))
       \/ \E b \in Bodies : /\ WritesHaveRoom(b) /\ Len(Held(k)') = Len(Held(k)) + 1
                            /\ SumBytes(Held(k)') = SumBytes(Held(k)) + FrameBytes(b)

\* One connection's share changes, and there is room for the difference.
LEMMA ShareChanges ==
    ASSUME NEW f \in [Conns -> Nat], NEW g \in [Conns -> Nat], NEW k \in Conns, NEW m \in Nat,
           \A l \in Conns \ {k} : g[l] = f[l], SumFunction(f) <= m,
           g[k] <= f[k] \/ SumFunction(f) + g[k] - f[k] <= m
    PROVE  SumFunction(g) <= m
<1>1. IsFiniteSet(Conns)
  BY DeliveryConstants
<1>2. SumFunction(g) = SumFunction(f) - f[k] + g[k]
  BY <1>1, SumChange
<1>3. SumFunction(f) \in Nat /\ f[k] \in Nat /\ g[k] \in Nat
  BY <1>1, SumNat
<1> QED BY SMTT(30), <1>2, <1>3

LEMMA QueueKeeps ==
    ASSUME Frames, Frames', QueueInv, NEW k \in Conns, QueueMoves(k)
    PROVE  QueueInv'
<1>1. ASSUME NEW l \in Conns, l # k PROVE Held(l)' = Held(l) /\ QueueBooks(l)'
  <2>1. /\ writes'[l] = writes[l] /\ onWire'[l] = onWire[l] /\ writeBytes'[l] = writeBytes[l]
        /\ writer'[l] = writer[l] /\ (l \in closed' <=> l \in closed)
    BY <1>1 DEF QueueMoves
  <2>2. Held(l)' = Held(l)
    BY <2>1 DEF Held, OnWire
  <2> QED BY <2>1, <2>2 DEF QueueInv, QueueBooks
<1> DEFINE f == [l \in Conns |-> Len(Held(l))]
           g == [l \in Conns |-> Len(Held(l)')]
           p == [l \in Conns |-> SumBytes(Held(l))]
           q == [l \in Conns |-> SumBytes(Held(l)')]
<1>2. \A l \in Conns : Len(Held(l)) \in Nat /\ SumBytes(Held(l)) \in Nat
  BY HeldIs, HeldOfIs DEF Frames
<1>3. \A l \in Conns : Len(Held(l)') \in Nat /\ SumBytes(Held(l)') \in Nat
  BY HeldIs, HeldOfIs DEF Frames
<1>4. f \in [Conns -> Nat] /\ g \in [Conns -> Nat] /\ p \in [Conns -> Nat] /\ q \in [Conns -> Nat]
  BY <1>2, <1>3
<1>5. \A l \in Conns \ {k} : g[l] = f[l] /\ q[l] = p[l]
  BY <1>1
<1>6. FramesInUse = SumFunction(f) /\ FrameBytesInUse = SumFunction(p) /\ FramesInUse' = SumFunction(g) /\ FrameBytesInUse' = SumFunction(q)
  BY DEF FramesInUse, FrameBytesInUse
<1>7. f[k] = Len(Held(k)) /\ g[k] = Len(Held(k)') /\ p[k] = SumBytes(Held(k)) /\ q[k] = SumBytes(Held(k)')
  OBVIOUS
<1> HIDE DEF f, g, p, q
<1>8. /\ g[k] <= f[k] \/ SumFunction(f) + g[k] - f[k] <= WriteEntries
      /\ q[k] <= p[k] \/ SumFunction(p) + q[k] - p[k] <= WriteBytes
  <2>1. CASE Len(Held(k)') <= Len(Held(k)) /\ SumBytes(Held(k)') <= SumBytes(Held(k))
    BY <1>7, <2>1
  <2>2. ASSUME NEW b \in Bodies, WritesHaveRoom(b), Len(Held(k)') = Len(Held(k)) + 1,
               SumBytes(Held(k)') = SumBytes(Held(k)) + FrameBytes(b)
        PROVE  /\ SumFunction(f) + g[k] - f[k] <= WriteEntries
               /\ SumFunction(p) + q[k] - p[k] <= WriteBytes
    <3>1. IsFiniteSet(Conns) /\ WriteEntries \in Nat /\ WriteBytes \in Nat
      BY DeliveryConstants
    <3>2. SumFunction(f) \in Nat /\ SumFunction(p) \in Nat /\ FrameBytes(b) \in Nat
      BY <1>4, <3>1, SumNat, FrameBytesNat
    <3>3. SumFunction(f) < WriteEntries /\ SumFunction(p) + FrameBytes(b) <= WriteBytes
      BY <1>6, <2>2 DEF WritesHaveRoom
    <3>4. g[k] = f[k] + 1 /\ q[k] = p[k] + FrameBytes(b) /\ f[k] \in Nat /\ p[k] \in Nat
      BY <1>4, <1>7, <2>2
    <3> QED BY SMTT(30), <3>1, <3>2, <3>3, <3>4
  <2> QED BY <2>1, <2>2 DEF QueueMoves
<1>9. SumFunction(g) <= WriteEntries /\ SumFunction(q) <= WriteBytes
  <2>1. SumFunction(f) <= WriteEntries /\ SumFunction(p) <= WriteBytes /\ WriteEntries \in Nat /\ WriteBytes \in Nat
    BY <1>6, DeliveryConstants DEF QueueInv
  <2> QED BY <1>4, <1>5, <1>8, <2>1, ShareChanges
<1> QED BY <1>1, <1>6, <1>9 DEF QueueInv, QueueMoves

\* send() queues a frame.
LEMMA EnqueueBooks ==
    ASSUME Frames, DeliveryInv, QueueInv, NEW k \in Conns, NEW b \in Bodies, k \notin closed, CanSend(k, b), Enqueue(k, b),
           UNCHANGED onWire
    PROVE  QueueMoves(k)
<1>1. /\ writes' = [writes EXCEPT ![k] = Append(writes[k], b)] /\ UNCHANGED closed
      /\ writeBytes' = [writeBytes EXCEPT ![k] = writeBytes[k] + FrameBytes(b)]
      /\ writer' = [writer EXCEPT ![k] = IF writer[k] = "none" THEN "starting" ELSE writer[k]]
  BY DEF Enqueue
<1>2. /\ DOMAIN writes = Conns /\ DOMAIN writeBytes = Conns /\ DOMAIN writer = Conns /\ QueueBooks(k)
  BY DEF DeliveryInv, Counters, QueueInv
<1>3. /\ DOMAIN writer' = Conns /\ writes'[k] = Append(writes[k], b) /\ writeBytes'[k] = writeBytes[k] + FrameBytes(b)
      /\ writer'[k] = (IF writer[k] = "none" THEN "starting" ELSE writer[k])
      /\ \A l \in Conns \ {k} : writes'[l] = writes[l] /\ writeBytes'[l] = writeBytes[l] /\ writer'[l] = writer[l]
  BY <1>1, <1>2
<1>4. onWire[k] \in Bodies \cup {NoFrame} /\ writes[k] \in Seq(Bodies)
  BY DEF Frames
<1>5. Held(k)' = Append(Held(k), b) /\ Held(k) \in Seq(Bodies) /\ SumBytes(Held(k)) \in Nat
  <2>1. Held(k) = HeldOf(onWire[k], writes[k]) /\ Held(k)' = HeldOf(onWire[k], Append(writes[k], b))
    BY <1>3, HeldIs
  <2>2. HeldOf(onWire[k], Append(writes[k], b)) = Append(HeldOf(onWire[k], writes[k]), b)
    BY <1>4, HeldOfIs
  <2>3. HeldOf(onWire[k], writes[k]) \in Seq(Bodies) /\ SumBytes(HeldOf(onWire[k], writes[k])) \in Nat
    BY <1>4, HeldOfIs
  <2> QED BY <2>1, <2>2, <2>3
<1>6. SumBytes(Held(k)') = SumBytes(Held(k)) + FrameBytes(b) /\ Len(Held(k)') = Len(Held(k)) + 1
  <2>1. PICK h \in Seq(Bodies) : h = Held(k)
    BY <1>5
  <2>2. Len(Append(h, b)) = Len(h) + 1
    BY SMTT(30)
  <2> QED BY <1>5, <2>1, <2>2, BytesAppend
<1>7. writeBytes[k] = SumBytes(Held(k)) /\ (onWire[k] # NoFrame => writer[k] = "busy")
  BY <1>2 DEF QueueBooks
<1>8. QueueBooks(k)'
  BY <1>1, <1>3, <1>6, <1>7 DEF QueueBooks
<1>9. WritesHaveRoom(b)
  BY DEF CanSend
<1> QED BY <1>1, <1>3, <1>6, <1>8, <1>9 DEF QueueMoves

\* close(): the frame on the wire, if it stays there, keeps its units.
LEMMA ClosingBooks ==
    ASSUME Frames, DeliveryInv, QueueInv, NEW k \in Conns, Closing(k),
           onWire' \in {onWire, [onWire EXCEPT ![k] = NoFrame]}, DOMAIN writer' = Conns,
           \A l \in Conns \ {k} : writer'[l] = writer[l], onWire'[k] # NoFrame => writer'[k] = "busy"
    PROVE  QueueMoves(k)
<1>1. /\ closed' = closed \cup {k} /\ writes' = [writes EXCEPT ![k] = << >>]
      /\ writeBytes' = [writeBytes EXCEPT ![k] = 0]
  BY DEF Closing
<1>2. DOMAIN writes = Conns /\ DOMAIN writeBytes = Conns /\ DOMAIN onWire = Conns
  BY DEF DeliveryInv, Counters, Frames
<1>3. /\ writes'[k] = << >> /\ writeBytes'[k] = 0 /\ onWire'[k] \in {onWire[k], NoFrame}
      /\ \A l \in Conns \ {k} : writes'[l] = writes[l] /\ writeBytes'[l] = writeBytes[l] /\ onWire'[l] = onWire[l]
  BY <1>1, <1>2
<1>4. onWire[k] \in Bodies \cup {NoFrame} /\ writes[k] \in Seq(Bodies)
  BY DEF Frames
<1>5. << >> \in Seq(Bodies) /\ Len(<< >>) = 0 /\ Len(writes[k]) \in Nat
  BY SMTT(30), <1>4
<1>6. Len(Held(k)') <= Len(Held(k)) /\ SumBytes(Held(k)') <= SumBytes(Held(k))
  <2>1. CASE onWire'[k] = NoFrame
    <3>1. Held(k)' = << >>
      BY <1>3, <1>5, <2>1, HeldIs, HeldOfIs
    <3>2. Len(Held(k)) \in Nat /\ SumBytes(Held(k)) \in Nat
      BY <1>4, HeldIs, HeldOfIs
    <3> QED BY SMTT(30), <1>5, <3>1, <3>2, BytesEmpty
  <2>2. CASE onWire'[k] # NoFrame
    <3>1. onWire'[k] = onWire[k] /\ onWire[k] # NoFrame
      BY <1>3, <2>2
    <3>2. /\ Len(Held(k)) = Len(writes[k]) + 1 /\ SumBytes(Held(k)) = FrameBytes(onWire[k]) + SumBytes(writes[k])
          /\ SumBytes(writes[k]) \in Nat
      BY <1>4, <3>1, HeldIs, HeldOfIs
    <3>3. Len(Held(k)') = Len(<< >>) + 1 /\ SumBytes(Held(k)') = FrameBytes(onWire[k]) + SumBytes(<< >>)
      <4>1. Held(k)' = HeldOf(onWire'[k], writes'[k])
        BY HeldIs
      <4>2. Held(k)' = HeldOf(onWire[k], << >>)
        BY <1>3, <3>1, <4>1
      <4>3. /\ Len(HeldOf(onWire[k], << >>)) = Len(<< >>) + 1
            /\ SumBytes(HeldOf(onWire[k], << >>)) = FrameBytes(onWire[k]) + SumBytes(<< >>)
        BY <1>4, <1>5, <3>1, HeldOfIs
      <4> QED BY <4>2, <4>3
    <3>4. FrameBytes(onWire[k]) \in Nat
      BY <1>4, <3>1, FrameBytesNat
    <3> QED BY SMTT(30), <1>5, <3>2, <3>3, <3>4, BytesEmpty
  <2> QED BY <2>1, <2>2
<1>7. QueueBooks(k)'
  BY <1>1, <1>3 DEF QueueBooks
<1> QED BY <1>1, <1>3, <1>6, <1>7 DEF QueueMoves

\* write_loop goes on: w is what the queue held before, with or without the
\* frame that was flushed.
LEMMA WriterBooks ==
    ASSUME Frames, DeliveryInv, QueueInv, NEW k \in Conns, UNCHANGED closed,
           DOMAIN writes' = Conns, DOMAIN writeBytes' = Conns, DOMAIN writer' = Conns,
           \A l \in Conns \ {k} : /\ writes'[l] = writes[l] /\ onWire'[l] = onWire[l]
                                  /\ writeBytes'[l] = writeBytes[l] /\ writer'[l] = writer[l],
           onWire'[k] # NoFrame => writer'[k] = "busy", Held(k)' = writes[k],
           \/ onWire[k] = NoFrame /\ writeBytes'[k] = writeBytes[k]
           \/ onWire[k] # NoFrame /\ writeBytes'[k] = IF k \in closed THEN writeBytes[k]
                                                      ELSE writeBytes[k] - FrameBytes(onWire[k])
    PROVE  QueueMoves(k)
<1>1. onWire[k] \in Bodies \cup {NoFrame} /\ writes[k] \in Seq(Bodies)
  BY DEF Frames
<1>2. Len(writes[k]) \in Nat /\ SumBytes(writes[k]) \in Nat
  <2>1. Len(writes[k]) \in Nat
    BY SMTT(30), <1>1
  <2> QED BY <1>1, <2>1, BytesNat
<1>3. QueueBooks(k)
  BY DEF QueueInv
<1>4. CASE onWire[k] = NoFrame
  <2>1. Held(k) = writes[k]
    BY <1>1, <1>4, HeldIs, HeldOfIs
  <2>2. QueueBooks(k)'
    BY <1>3, <1>4, <2>1 DEF QueueBooks
  <2>3. Len(Held(k)') <= Len(Held(k)) /\ SumBytes(Held(k)') <= SumBytes(Held(k))
    BY SMTT(30), <1>2, <2>1
  <2> QED BY <2>2, <2>3 DEF QueueMoves
<1>5. CASE onWire[k] # NoFrame
  <2>1. Len(Held(k)) = Len(writes[k]) + 1 /\ SumBytes(Held(k)) = FrameBytes(onWire[k]) + SumBytes(writes[k])
    BY <1>1, <1>5, HeldIs, HeldOfIs
  <2>2. FrameBytes(onWire[k]) \in Nat
    BY <1>1, <1>5, FrameBytesNat
  <2>3. Len(Held(k)') <= Len(Held(k)) /\ SumBytes(Held(k)') <= SumBytes(Held(k))
    BY SMTT(30), <1>2, <2>1, <2>2
  <2>4. writeBytes'[k] = IF k \in closed THEN 0 ELSE SumBytes(writes[k])
    <3>1. CASE k \in closed
      BY <1>3, <1>5, <3>1 DEF QueueBooks
    <3>2. CASE k \notin closed
      <4>1. writeBytes[k] = SumBytes(Held(k)) /\ writeBytes'[k] = writeBytes[k] - FrameBytes(onWire[k])
        BY <1>3, <1>5, <3>2 DEF QueueBooks
      <4>2. writeBytes'[k] = SumBytes(writes[k])
        BY SMTT(30), <1>2, <2>1, <2>2, <4>1
      <4> QED BY <3>2, <4>2
    <3> QED BY <3>1, <3>2
  <2>5. QueueBooks(k)'
    BY <2>4 DEF QueueBooks
  <2> QED BY <2>3, <2>5 DEF QueueMoves
<1> QED BY <1>4, <1>5

LEMMA QueueRests ==
    ASSUME QueueInv, UNCHANGED <<writes, writeBytes, onWire, closed, writer>>
    PROVE  QueueInv'
<1>1. \A k : Held(k)' = Held(k)
  BY DEF Held, OnWire
<1>2. FramesInUse' = FramesInUse /\ FrameBytesInUse' = FrameBytesInUse
  BY <1>1 DEF FramesInUse, FrameBytesInUse
<1> QED BY <1>1, <1>2 DEF QueueInv, QueueBooks

\* _write_bytes of k becomes c.
Counts(k, c) ==
    DOMAIN writeBytes' = Conns /\ writeBytes'[k] = c /\ \A l \in Conns \ {k} : writeBytes'[l] = writeBytes[l]

\* write_loop takes the next frame; c is what _write_bytes becomes.
LEMMA TakeBooks ==
    ASSUME Frames, DeliveryInv, QueueInv, NEW k \in Conns, NEW c, TakeNext(k), Counts(k, c),
           \/ onWire[k] = NoFrame /\ c = writeBytes[k]
           \/ onWire[k] # NoFrame /\ c = writeBytes[k] - FrameBytes(onWire[k])
    PROVE  QueueMoves(k)
<1>1. /\ k \notin closed /\ writes[k] # << >> /\ UNCHANGED closed
      /\ onWire' = [onWire EXCEPT ![k] = Head(writes[k])] /\ writes' = [writes EXCEPT ![k] = Tail(writes[k])]
      /\ writer' = [writer EXCEPT ![k] = "busy"]
  BY DEF TakeNext
<1>2. /\ DOMAIN writes = Conns /\ DOMAIN writeBytes = Conns /\ DOMAIN onWire = Conns /\ DOMAIN writer = Conns
      /\ writes[k] \in Seq(Bodies) /\ onWire[k] \in Bodies \cup {NoFrame}
  BY DEF DeliveryInv, Counters, Frames, QueueInv
<1>3. /\ DOMAIN writes' = Conns /\ DOMAIN writeBytes' = Conns /\ DOMAIN writer' = Conns
      /\ onWire'[k] = Head(writes[k]) /\ writes'[k] = Tail(writes[k]) /\ writer'[k] = "busy" /\ writeBytes'[k] = c
      /\ \A l \in Conns \ {k} : /\ writes'[l] = writes[l] /\ onWire'[l] = onWire[l]
                                /\ writeBytes'[l] = writeBytes[l] /\ writer'[l] = writer[l]
  BY <1>1, <1>2 DEF Counts
<1>4. Held(k)' = writes[k]
  BY <1>1, <1>2, <1>3, HeldIs, HeldOfIs
<1> QED BY <1>1, <1>3, <1>4, WriterBooks

\* write_loop ends without closing.
LEMMA LoopEndBooks ==
    ASSUME Frames, DeliveryInv, QueueInv, NEW k \in Conns, NEW c, LoopEnds(k), UNCHANGED <<closed, writes>>,
           Counts(k, c),
           \/ onWire[k] = NoFrame /\ c = writeBytes[k]
           \/ onWire[k] # NoFrame /\ c = IF k \in closed THEN writeBytes[k] ELSE writeBytes[k] - FrameBytes(onWire[k])
    PROVE  QueueMoves(k)
<1>1. onWire' = [onWire EXCEPT ![k] = NoFrame] /\ writer' = [writer EXCEPT ![k] = "none"]
  BY DEF LoopEnds
<1>2. /\ DOMAIN writes = Conns /\ DOMAIN writeBytes = Conns /\ DOMAIN onWire = Conns /\ DOMAIN writer = Conns
      /\ writes[k] \in Seq(Bodies)
  BY DEF DeliveryInv, Counters, Frames, QueueInv
<1>3. /\ DOMAIN writes' = Conns /\ DOMAIN writeBytes' = Conns /\ DOMAIN writer' = Conns
      /\ onWire'[k] = NoFrame /\ writes'[k] = writes[k] /\ writeBytes'[k] = c
      /\ \A l \in Conns \ {k} : /\ writes'[l] = writes[l] /\ onWire'[l] = onWire[l]
                                /\ writeBytes'[l] = writeBytes[l] /\ writer'[l] = writer[l]
  BY <1>1, <1>2 DEF Counts
<1>4. Held(k)' = writes[k]
  BY <1>2, <1>3, HeldIs, HeldOfIs
<1> QED BY <1>3, <1>4, WriterBooks

LEMMA StartBooks ==
    ASSUME Frames, DeliveryInv, QueueInv, NEW k \in Conns, StartWriter(k)
    PROVE  QueueMoves(k)
<1>1. writer[k] = "starting" /\ UNCHANGED writeBytes /\ (TakeNext(k) \/ (LoopEnds(k) /\ UNCHANGED <<closed, writes>>))
  BY DEF StartWriter
<1>2. DOMAIN writeBytes = Conns /\ QueueBooks(k)
  BY DEF DeliveryInv, Counters, QueueInv
<1>3. Counts(k, writeBytes[k])
  BY <1>1, <1>2 DEF Counts
<1>4. onWire[k] = NoFrame
  BY <1>1, <1>2 DEF QueueBooks
<1> QED BY <1>1, <1>3, <1>4, TakeBooks, LoopEndBooks

LEMMA FlushBooks ==
    ASSUME Frames, DeliveryInv, QueueInv, NEW k \in Conns, Flushed(k)
    PROVE  QueueMoves(k)
<1>1. onWire[k] # NoFrame
  BY DEF Flushed
<1>2. CASE TakeNext(k) /\ writeBytes' = [writeBytes EXCEPT ![k] = @ - FrameBytes(onWire[k])]
  <2>1. Counts(k, writeBytes[k] - FrameBytes(onWire[k]))
    BY <1>2 DEF DeliveryInv, Counters, Counts
  <2> QED BY <1>1, <1>2, <2>1, TakeBooks
<1>3. CASE LoopEnds(k) /\ Closing(k)
  <2>1. onWire' = [onWire EXCEPT ![k] = NoFrame] /\ writer' = [writer EXCEPT ![k] = "none"]
    BY <1>3 DEF LoopEnds
  <2>2. DOMAIN onWire = Conns /\ DOMAIN writer = Conns
    BY DEF Frames, QueueInv
  <2>3. onWire'[k] = NoFrame /\ DOMAIN writer' = Conns /\ \A l \in Conns \ {k} : writer'[l] = writer[l]
    BY <2>1, <2>2
  <2> QED BY <1>3, <2>1, <2>3, ClosingBooks
<1>4. CASE /\ LoopEnds(k) /\ UNCHANGED <<closed, writes>>
           /\ writeBytes' = [writeBytes EXCEPT ![k] = IF k \in closed THEN @ ELSE @ - FrameBytes(onWire[k])]
  <2>1. Counts(k, IF k \in closed THEN writeBytes[k] ELSE writeBytes[k] - FrameBytes(onWire[k]))
    BY <1>4 DEF DeliveryInv, Counters, Counts
  <2> QED BY <1>1, <1>4, <2>1, LoopEndBooks
<1> QED BY <1>2, <1>3, <1>4 DEF Flushed

LEMMA CloseBooks ==
    ASSUME Frames, DeliveryInv, QueueInv, NEW k \in Conns, Closing(k), UNCHANGED <<writer, onWire>>
    PROVE  QueueMoves(k)
<1>1. DOMAIN writer' = Conns /\ (onWire'[k] # NoFrame => writer'[k] = "busy") /\ \A l \in Conns \ {k} : writer'[l] = writer[l]
  BY DEF QueueInv, QueueBooks
<1> QED BY <1>1, ClosingBooks

LEMMA QueueNext == Frames /\ Frames' /\ DeliveryInv /\ QueueInv /\ [DeliveryNext]_deliveryVars => QueueInv'
<1> SUFFICES ASSUME Frames, Frames', DeliveryInv, QueueInv, [DeliveryNext]_deliveryVars PROVE QueueInv'
  OBVIOUS
<1>1. ASSUME NEW k \in Conns, NEW b \in Bodies, Send(k, b) \/ Quit(k, b) \/ SendNew(k, b) \/ SendReplacing(k, b)
      PROVE  QueueInv'
  <2>1. /\ UNCHANGED onWire /\ k \notin closed
        /\ (CanSend(k, b) /\ Enqueue(k, b)) \/ (Closing(k) /\ UNCHANGED writer)
    BY <1>1 DEF Send, Quit, SendNew, SendReplacing, SendOrClose, Offer
  <2> QED BY <2>1, EnqueueBooks, CloseBooks, QueueKeeps
<1>2. ASSUME NEW k \in Conns, NEW s, Retry(k, s) PROVE QueueInv'
  <2>1. PICK e \in reliable[k] : Abandon(k, e) \/ Again(k, e)
    BY <1>2 DEF Retry, Entries
  <2>2. Kept(k, e) /\ k \notin closed
    BY DEF DeliveryInv, Connection, WithinLimit
  <2>3. e.body \in Bodies
    BY SMTT(30), <2>2 DEF Kept, EntryTypes
  <2>4. UNCHANGED onWire
    BY <1>2 DEF Retry
  <2>5. \/ UNCHANGED <<writes, writeBytes, onWire, closed, writer>>
        \/ CanSend(k, e.body) /\ Enqueue(k, e.body)
        \/ Closing(k) /\ UNCHANGED writer
    BY <2>1, <2>4 DEF Abandon, Again, queue
  <2> QED BY <2>2, <2>3, <2>4, <2>5, QueueRests, EnqueueBooks, CloseBooks, QueueKeeps
<1>3. ASSUME NEW k \in Conns, NEW s, Acknowledge(k, s) PROVE QueueInv'
  BY <1>3, QueueRests DEF Acknowledge, queue
<1>4. ASSUME NEW k \in Conns, StartWriter(k) \/ Flushed(k) PROVE QueueInv'
  BY <1>4, StartBooks, FlushBooks, QueueKeeps
<1>5. ASSUME NEW k \in Conns, WriteFails(k) PROVE QueueInv'
  <2>1. onWire' = [onWire EXCEPT ![k] = NoFrame] /\ writer' = [writer EXCEPT ![k] = "failed"] /\ Closing(k)
    BY <1>5 DEF WriteFails
  <2>2. DOMAIN onWire = Conns /\ DOMAIN writer = Conns
    BY DEF Frames, QueueInv
  <2>3. onWire'[k] = NoFrame /\ DOMAIN writer' = Conns /\ \A l \in Conns \ {k} : writer'[l] = writer[l]
    BY <2>1, <2>2
  <2> QED BY <2>1, <2>3, ClosingBooks, QueueKeeps
<1>6. ASSUME NEW k \in Conns, Close(k) PROVE QueueInv'
  BY <1>6, CloseBooks, QueueKeeps DEF Close
<1>7. CASE UNCHANGED deliveryVars
  BY <1>7, QueueRests DEF deliveryVars, queue
<1> QED BY <1>1, <1>2, <1>3, <1>4, <1>5, <1>6, <1>7 DEF DeliveryNext

LEMMA QueueInit == DeliveryInit => QueueInv
<1> SUFFICES ASSUME DeliveryInit PROVE QueueInv
  OBVIOUS
<1>1. << >> \in Seq(Bodies) /\ Len(<< >>) = 0
  BY SMTT(30)
<1>2. \A k \in Conns : Held(k) = << >> /\ onWire[k] = NoFrame /\ writeBytes[k] = 0 /\ k \notin closed
  BY <1>1, HeldIs, HeldOfIs DEF DeliveryInit
<1>3. \A k \in Conns : QueueBooks(k)
  BY <1>2, BytesEmpty DEF QueueBooks
<1>4. [k \in Conns |-> Len(Held(k))] = [k \in Conns |-> 0] /\ [k \in Conns |-> SumBytes(Held(k))] = [k \in Conns |-> 0]
  BY <1>1, <1>2, BytesEmpty
<1>5. SumFunction([k \in Conns |-> 0]) = 0
  BY SumOfNone, DeliveryConstants
<1>6. FramesInUse = 0 /\ FrameBytesInUse = 0
  BY <1>4, <1>5 DEF FramesInUse, FrameBytesInUse
<1>7. 0 <= WriteEntries /\ 0 <= WriteBytes
  BY SMTT(30), DeliveryConstants
<1>8. DOMAIN writer = Conns
  BY DEF DeliveryInit
<1> QED BY <1>3, <1>6, <1>7, <1>8 DEF QueueInv

-----------------------------------------------------------------------------
\* The bytes of the bodies in a table.
Charge(T) == SumFunction([e \in T |-> Size[e.body]])

\* A set of entries whose bodies are envelopes.
Table(T) == IsFiniteSet(T) /\ \A e \in T : e.body \in Bodies

LEMMA ChargeEmpty == Charge({}) = 0 /\ IsFiniteSet({}) /\ Cardinality({}) = 0
<1>1. DOMAIN [e \in {} |-> Size[e.body]] = {}
  OBVIOUS
<1> QED BY <1>1, SumEmpty, FS_EmptySet DEF Charge

LEMMA ChargeNat ==
    ASSUME NEW T, Table(T)
    PROVE  /\ [e \in T |-> Size[e.body]] \in [T -> Nat] /\ Charge(T) \in Nat /\ Cardinality(T) \in Nat
<1>1. \A e \in T : Size[e.body] \in Nat
  BY DeliveryConstants DEF Table
<1>2. [e \in T |-> Size[e.body]] \in [T -> Nat] /\ IsFiniteSet(T)
  BY <1>1 DEF Table
<1> QED BY <1>2, SumNat, FS_CardinalityType DEF Charge

LEMMA ChargeRemoved ==
    ASSUME NEW T, Table(T), NEW e \in T, NEW R, R = T \ {e}
    PROVE  /\ Table(R) /\ Charge(T) = Size[e.body] + Charge(R) /\ Cardinality(T) = Cardinality(R) + 1
           /\ Size[e.body] \in Nat
<1> DEFINE f == [x \in T |-> Size[x.body]]
           g == [x \in R |-> Size[x.body]]
<1>1. IsFiniteSet(R) /\ Cardinality(R) = Cardinality(T) - 1 /\ Cardinality(T) \in Nat
  BY FS_RemoveElement, FS_CardinalityType DEF Table
<1>2. Table(R)
  BY <1>1 DEF Table
<1>3. f \in [T -> Nat] /\ g \in [R -> Nat] /\ f[e] = Size[e.body]
  BY <1>2, ChargeNat
<1>4. DOMAIN f = T /\ DOMAIN g = R /\ \A y \in R : g[y] = f[y]
  OBVIOUS
<1>5. Charge(T) = SumFunction(f) /\ Charge(R) = SumFunction(g)
  BY DEF Charge
<1>6. f[e] \in Nat
  BY <1>3
<1> HIDE DEF f, g
<1>7. Rest(f, e, g)
  BY <1>3, <1>4 DEF Rest, Table
<1>8. SumFunction(f) = f[e] + SumFunction(g)
  BY SMTT(30), <1>7, SumSplit
<1>9. Cardinality(T) = Cardinality(R) + 1
  BY SMTT(30), <1>1
<1> QED BY <1>2, <1>3, <1>5, <1>6, <1>8, <1>9

LEMMA ChargeAdded ==
    ASSUME NEW T, Table(T), NEW e, e \notin T, e.body \in Bodies, NEW U, U = T \cup {e}
    PROVE  /\ Table(U) /\ Charge(U) = Charge(T) + Size[e.body] /\ Cardinality(U) = Cardinality(T) + 1
           /\ Size[e.body] \in Nat
<1>1. IsFiniteSet(U)
  BY FS_AddElement DEF Table
<1>2. Table(U) /\ e \in U /\ T = U \ {e}
  BY <1>1 DEF Table
<1>3. Charge(U) = Size[e.body] + Charge(T) /\ Cardinality(U) = Cardinality(T) + 1 /\ Size[e.body] \in Nat
  BY SMTT(30), <1>2, ChargeRemoved
<1>4. Charge(U) = Charge(T) + Size[e.body]
  BY SMTT(30), <1>3, ChargeNat
<1> QED BY <1>2, <1>3, <1>4

\* The counter of the table, and what the tables share.
TableBooks(k) == Table(reliable[k]) /\ reliableBytes[k] = Charge(reliable[k])

TableInv ==
    /\ \A k \in Conns : TableBooks(k)
    /\ PushesInUse <= ReliableEntries /\ SumFunction([k \in Conns |-> Charge(reliable[k])]) <= ReliableBytes

\* What the entries hold of the budget is what their bodies weigh.
LEMMA UnitsAreBytes == DeliveryInv => PushBytesInUse = SumFunction([k \in Conns |-> Charge(reliable[k])])
<1> SUFFICES ASSUME DeliveryInv PROVE PushBytesInUse = SumFunction([k \in Conns |-> Charge(reliable[k])])
  OBVIOUS
<1>1. ASSUME NEW k \in Conns PROVE SumFunction([e \in reliable[k] |-> e.units]) = Charge(reliable[k])
  <2>1. \A e \in reliable[k] : e.units = Size[e.body]
    BY DEF DeliveryInv, Connection, Kept
  <2>2. [e \in reliable[k] |-> e.units] = [e \in reliable[k] |-> Size[e.body]]
    BY <2>1
  <2> QED BY <2>2 DEF Charge
<1>2. [k \in Conns |-> SumFunction([e \in reliable[k] |-> e.units])] = [k \in Conns |-> Charge(reliable[k])]
  BY <1>1
<1> QED BY <1>2 DEF PushBytesInUse

\* A step of k's table: it gives something back, or takes what there is room for.
TableMoves(k) ==
    /\ Table(reliable'[k]) /\ reliableBytes'[k] = Charge(reliable'[k])
    /\ \A l \in Conns \ {k} : reliable'[l] = reliable[l] /\ reliableBytes'[l] = reliableBytes[l]
    /\ \/ Cardinality(reliable'[k]) <= Cardinality(reliable[k])
       \/ Cardinality(reliable'[k]) = Cardinality(reliable[k]) + 1 /\ PushesInUse < ReliableEntries
    /\ \/ Charge(reliable'[k]) <= Charge(reliable[k])
       \/ \E n \in Nat : /\ Charge(reliable'[k]) = Charge(reliable[k]) + n
                         /\ PushBytesInUse + n <= ReliableBytes

LEMMA TableInvKeeps ==
    ASSUME DeliveryInv, TableInv, NEW k \in Conns, TableMoves(k)
    PROVE  TableInv'
<1>1. ASSUME NEW l \in Conns PROVE Table(reliable'[l]) /\ reliableBytes'[l] = Charge(reliable'[l])
  BY DEF TableMoves, TableInv, TableBooks
<1>2. ASSUME NEW l \in Conns PROVE Table(reliable[l])
  BY DEF TableInv, TableBooks
<1> DEFINE f == [l \in Conns |-> Cardinality(reliable[l])]
           g == [l \in Conns |-> Cardinality(reliable'[l])]
           p == [l \in Conns |-> Charge(reliable[l])]
           q == [l \in Conns |-> Charge(reliable'[l])]
<1>3. \A l \in Conns : /\ Cardinality(reliable[l]) \in Nat /\ Cardinality(reliable'[l]) \in Nat
                       /\ Charge(reliable[l]) \in Nat /\ Charge(reliable'[l]) \in Nat
  BY <1>1, <1>2, ChargeNat
<1>4. f \in [Conns -> Nat] /\ g \in [Conns -> Nat] /\ p \in [Conns -> Nat] /\ q \in [Conns -> Nat]
  BY <1>3
<1>5. \A l \in Conns \ {k} : g[l] = f[l] /\ q[l] = p[l]
  BY DEF TableMoves
<1>6. /\ PushesInUse = SumFunction(f) /\ PushesInUse' = SumFunction(g) /\ PushBytesInUse = SumFunction(p)
      /\ SumFunction([l \in Conns |-> Charge(reliable[l])])' = SumFunction(q)
      /\ SumFunction([l \in Conns |-> Charge(reliable[l])]) = SumFunction(p)
  BY UnitsAreBytes DEF PushesInUse, Charge
<1>7. /\ f[k] = Cardinality(reliable[k]) /\ g[k] = Cardinality(reliable'[k])
      /\ p[k] = Charge(reliable[k]) /\ q[k] = Charge(reliable'[k])
  OBVIOUS
<1> HIDE DEF f, g, p, q
<1>8. /\ ReliableEntries \in Nat /\ ReliableBytes \in Nat /\ SumFunction(f) \in Nat /\ SumFunction(p) \in Nat
      /\ f[k] \in Nat /\ p[k] \in Nat
  BY <1>4, DeliveryConstants, SumNat
<1>9. g[k] <= f[k] \/ SumFunction(f) + g[k] - f[k] <= ReliableEntries
  <2>1. g[k] <= f[k] \/ (g[k] = f[k] + 1 /\ SumFunction(f) < ReliableEntries)
    BY <1>6, <1>7 DEF TableMoves
  <2> QED BY SMTT(30), <1>8, <2>1
<1>10. q[k] <= p[k] \/ SumFunction(p) + q[k] - p[k] <= ReliableBytes
  <2>1. q[k] <= p[k] \/ \E n \in Nat : q[k] = p[k] + n /\ SumFunction(p) + n <= ReliableBytes
    BY <1>6, <1>7 DEF TableMoves
  <2> QED BY SMTT(30), <1>8, <2>1
<1>11. SumFunction(f) <= ReliableEntries /\ SumFunction(p) <= ReliableBytes
  BY <1>6 DEF TableInv
<1>12. SumFunction(g) <= ReliableEntries /\ SumFunction(q) <= ReliableBytes
  BY <1>4, <1>5, <1>8, <1>9, <1>10, <1>11, ShareChanges
<1>13. \A l \in Conns : TableBooks(l)'
  BY <1>1 DEF TableBooks, Table, Charge
<1> QED BY <1>6, <1>12, <1>13 DEF TableInv

\* k's table becomes U and its counter n.
Becomes(k, U, n) ==
    /\ reliable'[k] = U /\ reliableBytes'[k] = n
    /\ \A l \in Conns \ {k} : reliable'[l] = reliable[l] /\ reliableBytes'[l] = reliableBytes[l]

LEMMA BecomesIs ==
    ASSUME DeliveryInv, NEW k \in Conns, NEW U, NEW n, reliable' = [reliable EXCEPT ![k] = U],
           reliableBytes' = [reliableBytes EXCEPT ![k] = n] \/ (UNCHANGED reliableBytes /\ n = reliableBytes[k])
    PROVE  Becomes(k, U, n)
BY DEF DeliveryInv, Counters, Becomes

LEMMA TableClears ==
    ASSUME DeliveryInv, TableInv, NEW k \in Conns, Closing(k)
    PROVE  TableInv'
<1>1. Becomes(k, {}, 0)
  BY BecomesIs DEF Closing
<1>2. Cardinality(reliable[k]) \in Nat /\ Charge(reliable[k]) \in Nat
  BY ChargeNat DEF TableInv, TableBooks
<1>3. Cardinality({}) <= Cardinality(reliable[k]) /\ Charge({}) <= Charge(reliable[k])
  BY SMTT(30), <1>2, ChargeEmpty
<1>4. Table({})
  BY ChargeEmpty DEF Table
<1>5. TableMoves(k)
  BY <1>1, <1>3, <1>4, ChargeEmpty DEF Becomes, TableMoves
<1> QED BY <1>5, TableInvKeeps

\* send_reliable takes a number into the table.
LEMMA TableAdds ==
    ASSUME DeliveryInv, TableInv, NEW k \in Conns, NEW e, e \notin reliable[k], e.body \in Bodies,
           ReliableHasRoom(e.body), Becomes(k, reliable[k] \cup {e}, reliableBytes[k] + Size[e.body])
    PROVE  TableInv'
<1>1. Table(reliable[k]) /\ reliableBytes[k] = Charge(reliable[k])
  BY DEF TableInv, TableBooks
<1>2. PICK U : U = reliable[k] \cup {e}
  OBVIOUS
<1>3. /\ Table(U) /\ Charge(U) = Charge(reliable[k]) + Size[e.body] /\ Cardinality(U) = Cardinality(reliable[k]) + 1
      /\ Size[e.body] \in Nat
  BY <1>1, <1>2, ChargeAdded
<1>4. PushesInUse < ReliableEntries /\ PushBytesInUse + Size[e.body] <= ReliableBytes
  BY DEF ReliableHasRoom
<1>5. TableMoves(k)
  BY <1>1, <1>2, <1>3, <1>4 DEF Becomes, TableMoves
<1> QED BY <1>5, TableInvKeeps

\* An entry leaves, acknowledged or given up.
LEMMA TableForgets ==
    ASSUME DeliveryInv, TableInv, NEW k \in Conns, NEW e \in reliable[k], Forget(k, e)
    PROVE  TableInv'
<1>1. Table(reliable[k]) /\ reliableBytes[k] = Charge(reliable[k])
  BY DEF TableInv, TableBooks
<1>2. PICK R : R = reliable[k] \ {e}
  OBVIOUS
<1>3. Becomes(k, R, reliableBytes[k] - Size[e.body])
  BY <1>2, BecomesIs DEF Forget
<1>4. /\ Table(R) /\ Charge(reliable[k]) = Size[e.body] + Charge(R) /\ Cardinality(reliable[k]) = Cardinality(R) + 1
      /\ Size[e.body] \in Nat
  BY SMTT(30), <1>1, <1>2, ChargeRemoved
<1>5. Charge(R) \in Nat /\ Cardinality(R) \in Nat
  BY <1>4, ChargeNat
<1>6. /\ reliableBytes[k] - Size[e.body] = Charge(R) /\ Charge(R) <= Charge(reliable[k])
      /\ Cardinality(R) <= Cardinality(reliable[k])
  BY SMTT(30), <1>1, <1>4, <1>5
<1>7. TableMoves(k)
  BY <1>3, <1>4, <1>6 DEF Becomes, TableMoves
<1> QED BY <1>7, TableInvKeeps

\* An entry is replaced by f, which has its number: a newer body, for which
\* budget::resize found room, or the next attempt.
LEMMA TableReplaces ==
    ASSUME DeliveryInv, TableInv, NEW k \in Conns, NEW e \in reliable[k], NEW f, f.body \in Bodies, f.seq = e.seq,
           Becomes(k, (reliable[k] \ {e}) \cup {f}, reliableBytes[k] - Size[e.body] + Size[f.body]),
           CanResize(e, f.body)
    PROVE  TableInv'
<1>1. Table(reliable[k]) /\ reliableBytes[k] = Charge(reliable[k])
  BY DEF TableInv, TableBooks
<1>2. PICK R : R = reliable[k] \ {e}
  OBVIOUS
<1>3. /\ Table(R) /\ Charge(reliable[k]) = Size[e.body] + Charge(R) /\ Cardinality(reliable[k]) = Cardinality(R) + 1
      /\ Size[e.body] \in Nat
  BY SMTT(30), <1>1, <1>2, ChargeRemoved
<1>4. f \notin R
  BY <1>2 DEF DeliveryInv, Connection
<1>5. PICK U : U = R \cup {f}
  OBVIOUS
<1>6. /\ Table(U) /\ Charge(U) = Charge(R) + Size[f.body] /\ Cardinality(U) = Cardinality(R) + 1 /\ Size[f.body] \in Nat
  BY <1>3, <1>4, <1>5, ChargeAdded
<1>7. Charge(R) \in Nat /\ Cardinality(R) \in Nat
  BY <1>3, ChargeNat
<1>8. e.units = Size[e.body]
  BY DEF DeliveryInv, Connection, Kept
<1>9. IsFiniteSet(Conns) /\ ReliableBytes \in Nat
  BY DeliveryConstants
<1>10. PushBytesInUse \in Nat
  <2>1. \A l \in Conns : Charge(reliable[l]) \in Nat
    BY ChargeNat DEF TableInv, TableBooks
  <2>2. [l \in Conns |-> Charge(reliable[l])] \in [Conns -> Nat]
    BY <2>1
  <2> QED BY <1>9, <2>2, SumNat, UnitsAreBytes
<1>11. \/ Size[f.body] <= Size[e.body]
       \/ PushBytesInUse + Size[f.body] - Size[e.body] <= ReliableBytes /\ Size[f.body] > Size[e.body]
  <2>1. CASE Size[f.body] > Size[e.body]
    BY <1>8, <2>1 DEF CanResize
  <2>2. CASE ~(Size[f.body] > Size[e.body])
    <3>1. Size[f.body] <= Size[e.body]
      BY SMTT(30), <1>3, <1>6, <2>2
    <3> QED BY <3>1
  <2> QED BY <2>1, <2>2
<1>12. reliableBytes[k] - Size[e.body] + Size[f.body] = Charge(U) /\ Cardinality(U) <= Cardinality(reliable[k])
  BY SMTT(30), <1>1, <1>3, <1>6, <1>7
<1>13. \/ Charge(U) <= Charge(reliable[k])
       \/ \E n \in Nat : Charge(U) = Charge(reliable[k]) + n /\ PushBytesInUse + n <= ReliableBytes
  <2>1. CASE Size[f.body] <= Size[e.body]
    BY SMTT(30), <1>3, <1>6, <1>7, <2>1
  <2>2. CASE PushBytesInUse + Size[f.body] - Size[e.body] <= ReliableBytes /\ Size[f.body] > Size[e.body]
    <3>1. PICK n \in Nat : n = Size[f.body] - Size[e.body]
      BY SMTT(30), <1>3, <1>6, <2>2
    <3>2. Charge(U) = Charge(reliable[k]) + n /\ PushBytesInUse + n <= ReliableBytes
      BY SMTT(30), <1>3, <1>6, <1>7, <1>9, <1>10, <2>2, <3>1
    <3> QED BY <3>2
  <2> QED BY <1>11, <2>1, <2>2
<1>14. TableMoves(k)
  BY <1>2, <1>5, <1>6, <1>12, <1>13 DEF Becomes, TableMoves
<1> QED BY <1>14, TableInvKeeps

LEMMA TableRests == ASSUME TableInv, UNCHANGED <<reliable, reliableBytes>> PROVE TableInv'
BY DEF TableInv, TableBooks, Table, Charge, PushesInUse

LEMMA SendTables ==
    ASSUME DeliveryInv, TableInv, NEW k \in Conns, NEW b \in Bodies,
           Send(k, b) \/ Quit(k, b) \/ SendNew(k, b) \/ SendReplacing(k, b)
    PROVE  TableInv'
<1>1. CASE UNCHANGED table
  BY <1>1, TableRests DEF table
<1>2. CASE Closing(k)
  BY <1>2, TableClears
<1>3. CASE /\ Entries(k, Sequence[b]) = {} /\ CanKeep(k, b)
           /\ reliable' = [reliable EXCEPT ![k] = @ \cup {Entry(b)}]
           /\ reliableBytes' = [reliableBytes EXCEPT ![k] = @ + Size[b]]
  <2>1. PICK e : e = Entry(b)
    OBVIOUS
  <2>2. e.body = b /\ e.seq = Sequence[b]
    BY <2>1, EntryChanges
  <2>3. e \notin reliable[k]
    BY <1>3, <2>2 DEF Entries
  <2>4. Becomes(k, reliable[k] \cup {e}, reliableBytes[k] + Size[e.body])
    BY <1>3, <2>1, <2>2, BecomesIs
  <2>5. ReliableHasRoom(e.body)
    BY <1>3, <2>2 DEF CanKeep
  <2> QED BY <2>2, <2>3, <2>4, <2>5, TableAdds
<1>4. ASSUME NEW e \in Entries(k, Sequence[b]), CanReplace(k, e, b), Replaced(k, e, b) PROVE TableInv'
  <2>1. e \in reliable[k] /\ Kept(k, e)
    BY DEF Entries, DeliveryInv, Connection
  <2>2. PICK f : f = [e EXCEPT !.body = b, !.units = Size[b], !.attempts = 1]
    OBVIOUS
  <2>3. f.seq = e.seq /\ f.body = b
    BY <2>1, <2>2, EntryChanges DEF Kept
  <2>4. Becomes(k, (reliable[k] \ {e}) \cup {f}, reliableBytes[k] - Size[e.body] + Size[f.body])
    BY <1>4, <2>2, <2>3, BecomesIs DEF Replaced
  <2>5. CanResize(e, f.body)
    BY <1>4, <2>3 DEF CanReplace
  <2> QED BY <2>1, <2>3, <2>4, <2>5, TableReplaces
<1> QED BY <1>1, <1>2, <1>3, <1>4 DEF Send, Quit, SendOrClose, SendNew, SendReplacing

LEMMA RetryTables ==
    ASSUME DeliveryInv, TableInv, NEW k \in Conns, NEW s, Retry(k, s)
    PROVE  TableInv'
<1>1. PICK e \in reliable[k] : Abandon(k, e) \/ Again(k, e)
  BY DEF Retry, Entries
<1>2. CASE Abandon(k, e)
  BY <1>2, TableForgets DEF Abandon
<1>3. CASE Closing(k)
  BY <1>3, TableClears
<1>4. CASE /\ e.attempts < 3 /\ UNCHANGED reliableBytes
           /\ reliable' = [reliable EXCEPT ![k] = (@ \ {e}) \cup {[e EXCEPT !.attempts = @ + 1]}]
  <2>1. Kept(k, e) /\ reliableBytes[k] \in Int
    BY DEF DeliveryInv, Connection
  <2>2. PICK f : f = [e EXCEPT !.attempts = @ + 1]
    OBVIOUS
  <2>3. e \in EntryTypes /\ e.units = Size[e.body]
    BY <2>1 DEF Kept
  <2>4. f.seq = e.seq /\ f.body = e.body
    BY <1>4, <2>2, <2>3, EntryChanges
  <2>5. e.body \in Bodies
    BY SMTT(30), <2>3 DEF EntryTypes
  <2>6. Size[e.body] \in Nat
    BY <2>5, DeliveryConstants
  <2>7. reliableBytes[k] = reliableBytes[k] - Size[e.body] + Size[e.body] /\ ~(Size[e.body] > Size[e.body])
    BY SMTT(30), <2>1, <2>6
  <2>8. Becomes(k, (reliable[k] \ {e}) \cup {f}, reliableBytes[k])
    BY <1>4, <2>2, BecomesIs
  <2>9. Becomes(k, (reliable[k] \ {e}) \cup {f}, reliableBytes[k] - Size[e.body] + Size[f.body])
    BY <2>4, <2>7, <2>8
  <2>10. CanResize(e, f.body)
    BY <2>3, <2>4, <2>7 DEF CanResize
  <2> QED BY <2>4, <2>5, <2>9, <2>10, TableReplaces
<1> QED BY <1>1, <1>2, <1>3, <1>4 DEF Again

LEMMA TableNext == DeliveryInv /\ TableInv /\ [DeliveryNext]_deliveryVars => TableInv'
<1> SUFFICES ASSUME DeliveryInv, TableInv, [DeliveryNext]_deliveryVars PROVE TableInv'
  OBVIOUS
<1>1. ASSUME NEW k \in Conns, NEW s, Acknowledge(k, s) PROVE TableInv'
  BY <1>1, TableForgets DEF Acknowledge, Entries
<1>2. ASSUME NEW k \in Conns, StartWriter(k) \/ Flushed(k) PROVE TableInv'
  BY <1>2, TableRests, TableClears DEF StartWriter, Flushed, TakeNext, table
<1>3. ASSUME NEW k \in Conns, WriteFails(k) \/ Close(k) PROVE TableInv'
  BY <1>3, TableClears DEF WriteFails, Close
<1>4. CASE UNCHANGED deliveryVars
  BY <1>4, TableRests DEF deliveryVars, table
<1> QED BY <1>1, <1>2, <1>3, <1>4, SendTables, RetryTables DEF DeliveryNext

LEMMA TableInit == DeliveryInit => TableInv
<1> SUFFICES ASSUME DeliveryInit PROVE TableInv
  OBVIOUS
<1>1. \A k \in Conns : reliable[k] = {} /\ reliableBytes[k] = 0
  BY DEF DeliveryInit
<1>2. \A k \in Conns : TableBooks(k)
  BY <1>1, ChargeEmpty DEF TableBooks, Table
<1>3. /\ [k \in Conns |-> Cardinality(reliable[k])] = [k \in Conns |-> 0]
      /\ [k \in Conns |-> Charge(reliable[k])] = [k \in Conns |-> 0]
  BY <1>1, ChargeEmpty
<1>4. SumFunction([k \in Conns |-> 0]) = 0
  BY SumOfNone, DeliveryConstants
<1>5. 0 <= ReliableEntries /\ 0 <= ReliableBytes
  BY SMTT(30), DeliveryConstants
<1> QED BY <1>2, <1>3, <1>4, <1>5 DEF TableInv, PushesInUse

\* However sends, retries, acknowledgements, flushes, socket errors and close()
\* interleave, _write_bytes and _reliable_bytes are what the queue and the table
\* hold, they stay within the connection's limit, a closed connection holds
\* nothing but the frame on the wire, and all connections together stay within
\* the shard's two budgets; for any number of connections and pushes, all sizes
\* and all limits.
THEOREM AccountedAlways == DeliverySafeSpec => []Accounted
<1> DEFINE All == Frames /\ DeliveryInv /\ QueueInv /\ TableInv
<1>1. DeliveryInit => All
  BY DeliveryInvInit, QueueInit, TableInit
<1>2. All /\ [DeliveryNext]_deliveryVars => All'
  BY FramesNext, DeliveryInvNext, QueueNext, TableNext
<1>3. All => Accounted
  <2> SUFFICES ASSUME All PROVE Accounted
    OBVIOUS
  <2>1. ASSUME NEW k \in Conns
        PROVE  /\ writeBytes[k] = IF k \in closed THEN 0 ELSE SumBytes(Held(k))
               /\ reliableBytes[k] = SumFunction([e \in reliable[k] |-> Size[e.body]])
               /\ \A e \in reliable[k] : e.units = Size[e.body]
               /\ writeBytes[k] <= MaxBytes /\ reliableBytes[k] <= MaxBytes
               /\ k \in closed => writes[k] = << >> /\ reliable[k] = {}
    BY DEF QueueInv, QueueBooks, TableInv, TableBooks, Charge, DeliveryInv, Connection, Kept, WithinLimit
  <2>2. PushBytesInUse <= ReliableBytes
    BY UnitsAreBytes DEF TableInv
  <2> QED BY <2>1, <2>2 DEF Accounted, QueueInv, TableInv
<1> HIDE DEF All
<1> QED BY <1>1, <1>2, <1>3, PTL DEF DeliverySafeSpec
=============================================================================
