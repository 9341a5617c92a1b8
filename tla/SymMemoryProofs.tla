--------------------------- MODULE SymMemoryProofs ---------------------------
(***************************************************************************)
(* Proofs about SymMemory, for any size of the address space, any set of   *)
(* access widths and any number of writes: the cache of whole writes never *)
(* holds a stale or overlapping chunk, and a load returns the bytes        *)
(* written last, for every value of the symbol.                            *)
(***************************************************************************)
EXTENDS SymMemory, FiniteSetTheorems, WellFoundedInduction, TLAPS

\* Write i of s is the last one that reaches a when X is x.
Last(s, i, a, x) ==
  /\ At(s[i].addr, x) = a
  /\ \A j \in DOMAIN s : At(s[j].addr, x) = a => j <= i

\* What a flat memory holds at a is in the byte map, or the last write of s that reaches
\* a wrote it, or nobody wrote it.
Kept(s, m, f, x, a) ==
  \/ m[a] # NoByte /\ f[x][a] = m[a]
  \/ \E i \in DOMAIN s : Last(s, i, a, x) /\ f[x][a] = s[i].val
  \/ /\ \A i \in DOMAIN s : At(s[i].addr, x) # a
     /\ m[a] = NoByte /\ f[x][a] = Fresh(a)

BytesKept == \A x \in Xs, a \in Addr : Kept(symbolic_, concrete_, flat, x, a)

\* The chunks are intact, in order and apart from each other.
ChunksKept ==
  /\ \A c \in Chunked : c + chunks_[c].bytes < Size
  /\ \A c, d \in Chunked : c < d => c + chunks_[c].bytes <= d
  /\ \A c \in Chunked : \A i \in 1 .. chunks_[c].bytes :
       concrete_[c + i - 1] = chunks_[c].val[i]

\* The inductive invariant.
IInv ==
  /\ TypeOK
  /\ client \in Clients
  /\ ChunksKept
  /\ BytesKept

-----------------------------------------------------------------------------
(* Addresses *)

\* Addition wraps at most once.
LEMMA PlusFacts ==
  ASSUME NEW a \in Addr, NEW k \in 0 .. Size
  PROVE  /\ Plus(a, k) = IF a + k < Size THEN a + k ELSE a + k - Size
         /\ Plus(a, k) \in Addr
<1>1. Size \in Nat /\ Size > 0 /\ a \in Nat /\ k \in Nat /\ a < Size /\ k <= Size
  BY SymMemoryAssumption DEF Addr
<1>2. CASE a + k < Size
  <2>1. (a + k) % Size = a + k
    BY <1>1, <1>2
  <2> QED BY <2>1, <1>1, <1>2 DEF Plus, Addr
<1>3. CASE ~(a + k < Size)
  <2>1. (a + k) % Size = a + k - Size
    BY <1>1, <1>3
  <2> QED BY <2>1, <1>1, <1>3 DEF Plus, Addr
<1> QED BY <1>2, <1>3

\* The distance from a to b, going up and round.
LEMMA DistanceFacts ==
  ASSUME NEW a \in Addr, NEW b \in Addr
  PROVE  /\ (b - a) % Size = IF a <= b THEN b - a ELSE b - a + Size
         /\ (b - a) % Size \in Addr
<1>1. Size \in Nat /\ Size > 0 /\ a \in Nat /\ b \in Nat /\ a < Size /\ b < Size
  BY SymMemoryAssumption DEF Addr
<1>2. CASE a <= b
  <2>1. (b - a) % Size = b - a
    BY <1>1, <1>2
  <2> QED BY <2>1, <1>1, <1>2 DEF Addr
<1>3. CASE ~(a <= b)
  <2>1. (b - a) % Size = b - a + Size
    BY <1>1, <1>3
  <2> QED BY <2>1, <1>1, <1>3 DEF Addr
<1> QED BY <1>2, <1>3

\* The bytes of a write are at the distances 0, 1, ... from its address.
LEMMA DistanceOfPlus ==
  ASSUME NEW a \in Addr, NEW b \in Addr, NEW k \in Addr
  PROVE  Plus(a, k) = b <=> k = (b - a) % Size
<1>1. Size \in Nat /\ Size > 0 /\ a \in Nat /\ b \in Nat /\ a < Size /\ b < Size
      /\ k \in Nat /\ k < Size /\ k \in 0 .. Size
  BY SymMemoryAssumption DEF Addr
<1>2. Plus(a, k) = IF a + k < Size THEN a + k ELSE a + k - Size
  BY <1>1, PlusFacts
<1>3. (b - a) % Size = IF a <= b THEN b - a ELSE b - a + Size
  BY DistanceFacts
<1> QED BY <1>1, <1>2, <1>3

\* An offset can be added to the address or to its value.
LEMMA AtOffset ==
  ASSUME NEW e \in AddrExpr, NEW x \in Addr, NEW k \in Addr
  PROVE  /\ At(Offset(e, k), x) = Plus(At(e, x), k)
         /\ At(e, x) \in Addr
         /\ Offset(e, k) \in AddrExpr
         /\ Offset(e, k).const = e.const
         /\ Offset(e, k).base = Plus(e.base, k)
<1>1. Size \in Nat /\ Size > 0 /\ x \in Nat /\ x < Size /\ k \in Nat /\ k < Size
      /\ k \in 0 .. Size /\ e.base \in Addr /\ e.base \in 0 .. Size
      /\ e.base \in Nat /\ e.base < Size /\ e.const \in BOOLEAN
  BY SymMemoryAssumption DEF Addr, AddrExpr
<1>2. /\ Plus(e.base, k) = IF e.base + k < Size THEN e.base + k ELSE e.base + k - Size
      /\ Plus(e.base, k) \in Addr
  BY <1>1, PlusFacts
<1>3. /\ Plus(x, e.base) = IF x + e.base < Size THEN x + e.base ELSE x + e.base - Size
      /\ Plus(x, e.base) \in Addr
  BY <1>1, PlusFacts
<1>4. /\ Offset(e, k) \in AddrExpr
      /\ Offset(e, k).const = e.const
      /\ Offset(e, k).base = Plus(e.base, k)
  BY <1>1, <1>2 DEF Offset, AddrExpr
<1>5. CASE e.const
  BY <1>1, <1>4, <1>5 DEF At
<1>6. CASE ~e.const
  <2>1. Plus(e.base, k) \in 0 .. Size
    BY <1>2, <1>1 DEF Addr
  <2> DEFINE u == Plus(e.base, k)
             v == Plus(x, e.base)
  <2>2. Plus(x, u) = IF x + u < Size THEN x + u ELSE x + u - Size
    BY <2>1, PlusFacts
  <2>3. Plus(v, k) = IF v + k < Size THEN v + k ELSE v + k - Size
    BY <1>3, <1>1, PlusFacts
  <2>4. u = IF e.base + k < Size THEN e.base + k ELSE e.base + k - Size
    BY <1>2
  <2>5. v = IF x + e.base < Size THEN x + e.base ELSE x + e.base - Size
    BY <1>3
  <2> HIDE DEF u, v
  <2>6. Plus(x, u) = Plus(v, k)
    BY <2>2, <2>3, <2>4, <2>5, <1>1
  <2> QED BY <2>6, <1>3, <1>4, <1>6 DEF At, u, v
<1> QED BY <1>5, <1>6

-----------------------------------------------------------------------------
(* Values *)

\* No byte is the mark of an empty place or the background of a symbolic load.
LEMMA ByteFacts ==
  /\ NoByte \notin Byte
  /\ \A a \in Addr : Fresh(a) \in Byte /\ Fresh(a) # NoByte
  BY DEF NoByte, Byte, Fresh

\* A write carries as many new bytes as it is wide.
LEMMA NewBytesFacts ==
  ASSUME NEW n \in Widths, ops \in 0 .. MaxOps, ops < MaxOps
  PROVE  /\ n \in 1 .. 8 /\ n <= Size
         /\ NewBytes(n) \in Seq(Byte)
         /\ Len(NewBytes(n)) = n
         /\ DOMAIN NewBytes(n) = 1 .. n
         /\ \A i \in 1 .. n : NewBytes(n)[i] \in Byte
<1>1. n \in 1 .. 8 /\ n <= Size /\ MaxOps \in Nat /\ ops + 1 \in 1 .. MaxOps
  BY SymMemoryAssumption
<1>2. \A i \in 1 .. n : <<ops + 1, i>> \in Byte
  BY <1>1 DEF Byte
<1>3. NewBytes(n) \in [1 .. n -> Byte]
  BY <1>2 DEF NewBytes
<1>4. n \in Nat
  BY <1>1
<1> QED BY <1>1, <1>3, <1>4

\* What a write leaves in memory.
LEMMA OverwriteFacts ==
  ASSUME NEW M, NEW m \in [Addr -> M], NEW a \in Addr, NEW val \in Seq(M)
  PROVE  /\ Overwrite(m, a, val) \in [Addr -> M]
         /\ \A b \in Addr : Overwrite(m, a, val)[b] =
              IF (b - a) % Size < Len(val) THEN val[((b - a) % Size) + 1] ELSE m[b]
<1>1. ASSUME NEW b \in Addr, (b - a) % Size < Len(val)
      PROVE  val[((b - a) % Size) + 1] \in M
  <2>1. (b - a) % Size \in Nat
    BY DistanceFacts DEF Addr
  <2> DEFINE k == (b - a) % Size
  <2>2. k \in Nat /\ k < Len(val)
    BY <2>1, <1>1
  <2> HIDE DEF k
  <2>3. val[k + 1] \in M
    BY <2>2
  <2> QED BY <2>3 DEF k
<1>2. \A b \in Addr : m[b] \in M
  OBVIOUS
<1>3. \A b \in Addr : (IF (b - a) % Size < Len(val) THEN val[((b - a) % Size) + 1] ELSE m[b]) \in M
  BY <1>1, <1>2
<1> DEFINE F(b) == IF (b - a) % Size < Len(val) THEN val[((b - a) % Size) + 1] ELSE m[b]
<1>4. Overwrite(m, a, val) = [b \in Addr |-> F(b)]
  BY DEF Overwrite
<1>5. \A b \in Addr : F(b) \in M
  BY <1>3
<1>6. \A b \in Addr : [c \in Addr |-> F(c)][b] = F(b)
  OBVIOUS
<1> HIDE DEF F
<1>7. Overwrite(m, a, val) \in [Addr -> M]
  BY <1>4, <1>5
<1>8. \A b \in Addr : Overwrite(m, a, val)[b] = F(b)
  BY <1>4, <1>6
<1> QED BY <1>7, <1>8 DEF F

\* The same for a write that does not wrap.
LEMMA OverwriteBelow ==
  ASSUME NEW M, NEW m \in [Addr -> M], NEW a \in Addr, NEW val \in Seq(M),
         a + Len(val) < Size, NEW b \in Addr
  PROVE  Overwrite(m, a, val)[b] =
           IF a <= b /\ b < a + Len(val) THEN val[b - a + 1] ELSE m[b]
<1>1. Size \in Nat /\ a \in Nat /\ b \in Nat /\ a < Size /\ b < Size /\ Len(val) \in Nat
  BY SymMemoryAssumption DEF Addr
<1>2. (b - a) % Size = IF a <= b THEN b - a ELSE b - a + Size
  BY DistanceFacts
<1>3. Overwrite(m, a, val)[b] =
        IF (b - a) % Size < Len(val) THEN val[((b - a) % Size) + 1] ELSE m[b]
  BY OverwriteFacts
<1>4. CASE a <= b
  <2>1. (b - a) % Size = b - a
    BY <1>2, <1>4
  <2>2. b - a < Len(val) <=> b < a + Len(val)
    BY <1>1
  <2> QED BY <1>3, <2>1, <2>2, <1>4
<1>5. CASE ~(a <= b)
  <2>1. (b - a) % Size = b - a + Size
    BY <1>2, <1>5
  <2>2. ~(b - a + Size < Len(val))
    BY <1>1
  <2> QED BY <1>3, <2>1, <2>2, <1>5
<1> QED BY <1>4, <1>5

\* What load finds at a constant address is a byte, never an empty place.
LEMMA ConstByteTyped ==
  ASSUME TypeOK, NEW a \in Addr
  PROVE  ConstByte(a) \in Byte
<1> DEFINE Hit(i) == symbolic_[i].addr.const /\ symbolic_[i].addr.base = a
<1>1. \A i \in LastHit(Hit) : symbolic_[i].val \in Byte
  <2> TAKE i \in LastHit(Hit)
  <2>1. i \in DOMAIN symbolic_
    BY DEF LastHit
  <2> DEFINE Write == [addr : {e \in AddrExpr : ~e.const}, val : Byte]
  <2>2. \A w \in Write : w.val \in Byte
    OBVIOUS
  <2>3. symbolic_ \in Seq(Write)
    BY DEF TypeOK
  <2> HIDE DEF Write
  <2>4. symbolic_[i] \in Write
    BY <2>1, <2>3
  <2> QED BY <2>2, <2>4
<1>2. CASE LastHit(Hit) # {}
  <2>1. (CHOOSE i \in LastHit(Hit) : TRUE) \in LastHit(Hit)
    BY <1>2
  <2> QED BY <2>1, <1>1, <1>2 DEF ConstByte
<1>3. CASE LastHit(Hit) = {}
  <2>1. concrete_[a] \in Byte \cup {NoByte}
    BY DEF TypeOK
  <2> QED BY <2>1, <1>3, ByteFacts DEF ConstByte
<1> QED BY <1>2, <1>3

-----------------------------------------------------------------------------
(* Shapes *)

LEMMA TypeInit == Init => TypeOK
<1> SUFFICES ASSUME Init PROVE TypeOK
  OBVIOUS
<1>1. NoChunk \in Chunk
  BY DEF NoChunk, Chunk
<1>2. ops \in 0 .. MaxOps
  BY SymMemoryAssumption DEF Init
<1>3. flat \in [Xs -> [Addr -> Byte]]
  BY ByteFacts DEF Init
<1> QED BY <1>1, <1>2, <1>3 DEF Init, TypeOK

LEMMA TypeStoreConst ==
  ASSUME TypeOK, client \in Clients, NEW e \in client.stores, NEW n \in Widths,
         ops < MaxOps, StoreConst(e, n), ops' = ops + 1
  PROVE  TypeOK'
<1> DEFINE val == NewBytes(n)
<1>1. /\ val \in Seq(Byte) /\ val \in Seq(Byte \cup {NoByte})
      /\ Len(val) = n /\ n \in 0 .. 8
  BY NewBytesFacts DEF TypeOK
<1>2. e \in AddrExpr /\ e.base \in Addr
  BY SymMemoryAssumption DEF AddrExpr
<1>3. [bytes |-> n, val |-> val] \in Chunk /\ NoChunk \in Chunk
  BY <1>1 DEF Chunk, NoChunk
<1>4. /\ chunks_' = [a \in Addr |-> IF a = e.base THEN [bytes |-> n, val |-> val]
                                    ELSE IF a \in Evicted(e.base, n) THEN NoChunk
                                    ELSE chunks_[a]]
      /\ concrete_' = Overwrite(concrete_, e.base, val)
      /\ flat' = [x \in Xs |-> Overwrite(flat[x], e.base, val)]
      /\ symbolic_' = symbolic_
  BY DEF StoreConst
<1> HIDE DEF val
<1>5. chunks_' \in [Addr -> Chunk]
  BY <1>3, <1>4 DEF TypeOK
<1>6. concrete_' \in [Addr -> Byte \cup {NoByte}]
  BY <1>1, <1>2, <1>4, OverwriteFacts DEF TypeOK
<1>7. \A x \in Xs : Overwrite(flat[x], e.base, val) \in [Addr -> Byte]
  BY <1>1, <1>2, OverwriteFacts DEF TypeOK
<1>8. ops' \in 0 .. MaxOps
  BY SymMemoryAssumption DEF TypeOK
<1> QED BY <1>4, <1>5, <1>6, <1>7, <1>8 DEF TypeOK

LEMMA TypeStoreSymbolic ==
  ASSUME TypeOK, client \in Clients, NEW e \in client.stores, NEW n \in Widths,
         ops < MaxOps, StoreSymbolic(e, n), ops' = ops + 1
  PROVE  TypeOK'
<1> DEFINE val == NewBytes(n)
           Write == [addr : {d \in AddrExpr : ~d.const}, val : Byte]
           new == [i \in 1 .. n |-> [addr |-> Offset(e, i - 1), val |-> val[i]]]
<1>1. /\ val \in Seq(Byte) /\ Len(val) = n /\ n \in 1 .. 8 /\ n <= Size
      /\ \A i \in 1 .. n : val[i] \in Byte
  BY NewBytesFacts DEF TypeOK
<1>2. e \in AddrExpr /\ ~e.const
  BY SymMemoryAssumption DEF StoreSymbolic
<1>3. /\ symbolic_' = symbolic_ \o new
      /\ flat' = [x \in Xs |-> Overwrite(flat[x], At(e, x), val)]
      /\ chunks_' = chunks_ /\ concrete_' = concrete_
  BY DEF StoreSymbolic
<1>4. \A i \in 1 .. n : Offset(e, i - 1) \in {d \in AddrExpr : ~d.const}
  <2> TAKE i \in 1 .. n
  <2>1. i - 1 \in Addr
    BY <1>1, SymMemoryAssumption DEF Addr
  <2>2. 0 \in Addr
    BY SymMemoryAssumption DEF Addr
  <2> QED BY <1>2, <2>1, <2>2, AtOffset
<1> HIDE DEF val
<1>5. new \in [1 .. n -> Write]
  BY <1>1, <1>4
<1>6. new \in Seq(Write)
  BY <1>5, <1>1
<1> HIDE DEF new
<1>7. symbolic_ \in Seq(Write)
  BY DEF TypeOK
<1> HIDE DEF Write
<1>8. symbolic_' \in Seq(Write)
  BY <1>3, <1>6, <1>7
<1>9. \A x \in Xs : Overwrite(flat[x], At(e, x), val) \in [Addr -> Byte]
  <2> TAKE x \in Xs
  <2>1. x \in Addr /\ 0 \in Addr
    BY SymMemoryAssumption DEF Addr
  <2>2. At(e, x) \in Addr
    BY <2>1, <1>2, AtOffset
  <2> QED BY <2>2, <1>1, OverwriteFacts DEF TypeOK
<1>10. ops' \in 0 .. MaxOps
  BY SymMemoryAssumption DEF TypeOK
<1> QED BY <1>3, <1>8, <1>9, <1>10 DEF TypeOK, Write

LEMMA TypeNext == TypeOK /\ client \in Clients /\ [Next]_vars => TypeOK'
<1> SUFFICES ASSUME TypeOK, client \in Clients, [Next]_vars PROVE TypeOK'
  OBVIOUS
<1>1. ASSUME NEW e \in client.loads, NEW n \in Widths, Load(e, n) PROVE TypeOK'
  <2>1. \A a \in Addr : ConstByte(a) \in Byte \cup {NoByte}
    BY ConstByteTyped
  <2>2. concrete_' \in [Addr -> Byte \cup {NoByte}]
    BY <1>1, <2>1 DEF Load, TypeOK
  <2> QED BY <1>1, <2>2 DEF Load, TypeOK
<1>2. ASSUME NEW e \in client.stores, NEW n \in Widths, Store(e, n) PROVE TypeOK'
  BY <1>2, TypeStoreConst, TypeStoreSymbolic DEF Store
<1>3. ASSUME NEW a \in client.seeds, NEW n \in Widths, Seed(a, n) PROVE TypeOK'
  <2>1. a \in Addr
    BY SymMemoryAssumption
  <2>2. ops < MaxOps /\ ops' = ops + 1
    BY <1>3 DEF Seed
  <2>3. NewBytes(n) \in Seq(Byte) /\ NewBytes(n) \in Seq(Byte \cup {NoByte})
    BY <2>2, NewBytesFacts DEF TypeOK
  <2>4. Overwrite(concrete_, a, NewBytes(n)) \in [Addr -> Byte \cup {NoByte}]
    BY <2>1, <2>3, OverwriteFacts DEF TypeOK
  <2>5. \A x \in Xs : Overwrite(flat[x], a, NewBytes(n)) \in [Addr -> Byte]
    BY <2>1, <2>3, OverwriteFacts DEF TypeOK
  <2>6. ops' \in 0 .. MaxOps
    BY <2>2, SymMemoryAssumption DEF TypeOK
  <2> QED BY <1>3, <2>4, <2>5, <2>6 DEF Seed, TypeOK
<1>4. CASE Clear
  <2>1. NoChunk \in Chunk
    BY DEF NoChunk, Chunk
  <2>2. flat' \in [Xs -> [Addr -> Byte]]
    BY <1>4, ByteFacts DEF Clear
  <2> QED BY <1>4, <2>1, <2>2 DEF Clear, TypeOK
<1>5. CASE UNCHANGED vars
  BY <1>5 DEF vars, TypeOK
<1> QED BY <1>1, <1>2, <1>3, <1>4, <1>5 DEF Next

-----------------------------------------------------------------------------
(* Constant addresses *)

\* A nonempty set of addresses has a greatest one.
LEMMA GreatestAddr ==
  ASSUME NEW T \in SUBSET Addr, T # {}
  PROVE  Max(T) \in T /\ \A a \in T : a <= Max(T)
<1> DEFINE U == {Size - a : a \in T}
           R == {p \in Nat \X Nat : p[1] < p[2]}
<1>1. Size \in Nat /\ \A a \in T : a \in Nat /\ a < Size /\ Size - a \in Nat
  BY SymMemoryAssumption DEF Addr
<1>2. U \in SUBSET Nat /\ U # {}
  BY <1>1
<1>3. R = OpToRel(<, Nat)
  BY DEF OpToRel
<1>4. IsWellFoundedOn(R, Nat)
  BY <1>3, NatLessThanWellFounded
<1> HIDE DEF R, U
<1>5. \E u \in U : \A v \in U : ~(<<v, u>> \in R)
  BY <1>2, <1>4, WFMin
<1>6. PICK u \in U : \A v \in U : ~(v < u)
  BY <1>2, <1>5 DEF R
<1>7. PICK a \in T : u = Size - a
  BY <1>6 DEF U
<1>8. \A b \in T : a >= b
  <2> TAKE b \in T
  <2>1. Size - b \in U
    BY DEF U
  <2> QED BY <1>1, <1>6, <1>7, <2>1
<1>9. Max(T) = CHOOSE m \in T : \A b \in T : m >= b
  BY DEF Max
<1>10. Max(T) \in T /\ \A b \in T : Max(T) >= b
  BY <1>8, <1>9
<1> QED BY <1>1, <1>10

\* evict_overlapping finds every chunk that shares a byte with the write: chunks are
\* in order and apart, so no chunk before the one it steps back to reaches the write.
LEMMA EvictionComplete ==
  ASSUME TypeOK, ChunksKept, NEW a \in Addr, NEW n \in Widths, a + n < Size,
         NEW c \in Chunked, c \notin Evicted(a, n), c # a
  PROVE  c + chunks_[c].bytes <= a \/ a + n <= c
<1>1. Size \in Nat /\ a \in Nat /\ a < Size /\ n \in 1 .. 8 /\ n \in 0 .. Size
  BY SymMemoryAssumption DEF Addr
<1>2. Chunked \subseteq Addr /\ \A d \in Chunked : d \in Nat /\ d < Size
  BY SymMemoryAssumption DEF Chunked, Addr
<1>3. \A d \in Chunked : chunks_[d].bytes \in 0 .. 8 /\ d + chunks_[d].bytes < Size
  BY <1>2 DEF TypeOK, Chunk, ChunksKept
<1>4. Plus(a, n) = a + n
  BY <1>1, PlusFacts
<1>5. Plus(c, chunks_[c].bytes) = c + chunks_[c].bytes
  <2> DEFINE k == chunks_[c].bytes
  <2>1. k \in 0 .. Size /\ c \in Addr /\ c + k < Size
    BY <1>1, <1>2, <1>3
  <2> HIDE DEF k
  <2>2. Plus(c, k) = c + k
    BY <2>1, PlusFacts
  <2> QED BY <2>2 DEF k
<1>6. SUFFICES ASSUME c + chunks_[c].bytes > a, c < a + n PROVE FALSE
  BY <1>1, <1>2, <1>3
<1>7. ~(c >= FirstLooked(a))
  BY <1>4, <1>5, <1>6 DEF Evicted
<1> DEFINE Before == {d \in Chunked : d < a}
<1>8. Before # {}
  <2> SUFFICES ASSUME Before = {} PROVE FALSE
    OBVIOUS
  <2>1. FirstLooked(a) = a
    BY DEF FirstLooked
  <2> QED BY <1>1, <1>2, <1>7, <2>1
<1>9. FirstLooked(a) = Max(Before)
  BY <1>8 DEF FirstLooked
<1>10. Max(Before) \in Before /\ \A d \in Before : d <= Max(Before)
  <2>1. Before \in SUBSET Addr
    BY <1>2
  <2> HIDE DEF Before
  <2> QED BY <1>8, <2>1, GreatestAddr
<1> DEFINE m == Max(Before)
<1>11. m \in Chunked /\ m < a
  BY <1>10
<1>12. ~(c >= m)
  BY <1>7, <1>9
<1> HIDE DEF m
<1>13. c < m
  BY <1>2, <1>11, <1>12
<1>14. c + chunks_[c].bytes <= m
  BY <1>11, <1>13 DEF ChunksKept
<1> QED BY <1>1, <1>2, <1>3, <1>6, <1>11, <1>14

\* A store at a constant address leaves intact chunks in the cache.
LEMMA StoreKeepsChunks ==
  ASSUME TypeOK, ChunksKept, NEW e \in AddrExpr, NEW n \in Widths, e.base + n < Size,
         ops < MaxOps, StoreConst(e, n)
  PROVE  ChunksKept'
<1> DEFINE val == NewBytes(n)
           a == e.base
<1>1. /\ val \in Seq(Byte) /\ val \in Seq(Byte \cup {NoByte})
      /\ Len(val) = n /\ n \in 1 .. 8
      /\ \A i \in 1 .. n : val[i] \in Byte
  BY NewBytesFacts DEF TypeOK
<1>2. a \in Addr /\ a + n < Size /\ a \in Nat
  BY DEF AddrExpr, Addr
<1>3. /\ chunks_' = [b \in Addr |-> IF b = a THEN [bytes |-> n, val |-> val]
                                    ELSE IF b \in Evicted(a, n) THEN NoChunk
                                    ELSE chunks_[b]]
      /\ concrete_' = Overwrite(concrete_, a, val)
  BY DEF StoreConst
<1>4. Size \in Nat /\ \A b \in Addr : b \in Nat /\ b < Size
  BY SymMemoryAssumption DEF Addr
<1> HIDE DEF val, a
<1>5. \A b \in Addr :
        concrete_'[b] = IF a <= b /\ b < a + n THEN val[b - a + 1] ELSE concrete_[b]
  <2> TAKE b \in Addr
  <2>1. concrete_ \in [Addr -> Byte \cup {NoByte}]
    BY DEF TypeOK
  <2>2. Overwrite(concrete_, a, val)[b]
          = IF a <= b /\ b < a + n THEN val[b - a + 1] ELSE concrete_[b]
    <3>1. val \in Seq(Byte \cup {NoByte}) /\ a \in Addr /\ Len(val) = n /\ a + Len(val) < Size
      BY <1>1, <1>2
    <3> QED BY ONLY <2>1, <3>1, b \in Addr, OverwriteBelow
  <2> QED BY <1>3, <2>2
<1>7. \A c \in Chunked' :
        \/ c = a /\ chunks_'[c] = [bytes |-> n, val |-> val]
        \/ /\ c \in Chunked /\ chunks_'[c] = chunks_[c]
           /\ c + chunks_[c].bytes <= a \/ a + n <= c
  <2> TAKE c \in Chunked'
  <2>1. c \in Addr /\ chunks_'[c].bytes # 0
    BY DEF Chunked
  <2>2. CASE c = a
    BY <1>3, <2>1, <2>2
  <2>3. CASE c # a
    <3>1. c \notin Evicted(a, n)
      BY <1>3, <2>1, <2>3 DEF NoChunk
    <3>2. chunks_'[c] = chunks_[c] /\ c \in Chunked
      BY <1>3, <2>1, <2>3, <3>1 DEF Chunked
    <3> QED BY <1>2, <2>3, <3>1, <3>2, EvictionComplete
  <2> QED BY <2>2, <2>3
<1>8. \A c \in Chunked : /\ c \in Addr /\ c \in Nat /\ chunks_[c].bytes \in 1 .. 8
                         /\ c + chunks_[c].bytes < Size
  BY <1>4 DEF Chunked, TypeOK, Chunk, ChunksKept
<1>10. \A c \in Chunked' : c + chunks_'[c].bytes < Size
  BY <1>2, <1>7, <1>8
<1>11. \A c, d \in Chunked' : c < d => c + chunks_'[c].bytes <= d
  <2> TAKE c, d \in Chunked'
  <2> HAVE c < d
  <2>1. CASE c = a
    <3>1. d \in Chunked /\ (d + chunks_[d].bytes <= a \/ a + n <= d)
      BY <1>2, <1>7, <2>1
    <3>2. chunks_'[c].bytes = n
      BY <1>3, <1>2, <2>1
    <3>3. d \in Nat /\ chunks_[d].bytes \in 1 .. 8 /\ a < d
      BY <1>8, <2>1, <3>1
    <3>4. a + n <= d
      BY <1>1, <1>2, <3>1, <3>3
    <3> QED BY <2>1, <3>2, <3>4
  <2>2. CASE c # a /\ d = a
    <3>1. /\ c \in Chunked /\ chunks_'[c] = chunks_[c]
          /\ c + chunks_[c].bytes <= a \/ a + n <= c
      BY <1>7, <2>2
    <3>2. c \in Nat /\ c < a
      BY <1>8, <2>2, <3>1
    <3>3. c + chunks_[c].bytes <= a
      BY <1>1, <1>2, <3>1, <3>2
    <3> QED BY <2>2, <3>1, <3>3
  <2>3. CASE c # a /\ d # a
    BY <1>7, <2>3 DEF ChunksKept
  <2> QED BY <2>1, <2>2, <2>3
<1>12. \A c \in Chunked' : \A i \in 1 .. chunks_'[c].bytes :
         concrete_'[c + i - 1] = chunks_'[c].val[i]
  <2> TAKE c \in Chunked'
  <2> TAKE i \in 1 .. chunks_'[c].bytes
  <2>1. CASE c = a
    <3>1. chunks_'[c].bytes = n /\ chunks_'[c].val = val
      BY <1>2, <1>3, <2>1
    <3>2. i \in 1 .. n /\ a + i - 1 \in Addr /\ (a + i - 1) - a + 1 = i
      BY <1>1, <1>2, <1>4, <3>1 DEF Addr
    <3>3. a <= a + i - 1 /\ a + i - 1 < a + n
      BY <1>1, <1>2, <3>2
    <3> QED BY <1>5, <2>1, <3>1, <3>2, <3>3
  <2>2. CASE c # a
    <3>1. /\ c \in Chunked /\ chunks_'[c] = chunks_[c]
          /\ c + chunks_[c].bytes <= a \/ a + n <= c
      BY <1>7, <2>2
    <3>2. concrete_[c + i - 1] = chunks_[c].val[i]
      BY <3>1 DEF ChunksKept
    <3> DEFINE k == chunks_[c].bytes
    <3>4. c \in Nat /\ k \in 1 .. 8 /\ c + k < Size /\ (c + k <= a \/ a + n <= c)
      BY <1>8, <3>1
    <3>5. i \in 1 .. k
      BY <3>1
    <3> HIDE DEF k
    <3>3. c + i - 1 \in Addr /\ ~(a <= c + i - 1 /\ c + i - 1 < a + n)
      BY <1>1, <1>2, <1>4, <3>4, <3>5 DEF Addr
    <3> QED BY <1>5, <3>1, <3>2, <3>3
  <2> QED BY <2>1, <2>2
<1> QED BY <1>10, <1>11, <1>12 DEF ChunksKept

\* A write of the same bytes to the byte map and to a flat memory.
LEMMA OverwriteKeepsBytes ==
  ASSUME TypeOK, BytesKept, NEW a \in Addr, NEW val \in Seq(Byte),
         concrete_' = Overwrite(concrete_, a, val),
         flat' = [x \in Xs |-> Overwrite(flat[x], a, val)],
         symbolic_' = symbolic_
  PROVE  BytesKept'
<1>1. ASSUME NEW x \in Xs, NEW b \in Addr
      PROVE  Kept(symbolic_, concrete_', flat', x, b)
  <2> DEFINE d == (b - a) % Size
  <2>1. d \in Nat
    BY DistanceFacts DEF Addr
  <2>2. concrete_ \in [Addr -> Byte \cup {NoByte}] /\ val \in Seq(Byte \cup {NoByte})
    BY DEF TypeOK
  <2>3. concrete_'[b] = IF d < Len(val) THEN val[d + 1] ELSE concrete_[b]
    BY <2>2, OverwriteFacts
  <2>4. flat'[x][b] = IF d < Len(val) THEN val[d + 1] ELSE flat[x][b]
    <3>1. flat[x] \in [Addr -> Byte] /\ flat'[x] = Overwrite(flat[x], a, val)
      BY DEF TypeOK
    <3>2. Overwrite(flat[x], a, val)[b] = IF d < Len(val) THEN val[d + 1] ELSE flat[x][b]
      BY ONLY <3>1, a \in Addr, b \in Addr, val \in Seq(Byte), OverwriteFacts
    <3> QED BY <3>1, <3>2
  <2> HIDE DEF d
  <2>5. CASE d < Len(val)
    <3>1. val[d + 1] \in Byte
      BY <2>1, <2>5
    <3>2. val[d + 1] # NoByte
      BY <3>1, ByteFacts
    <3> QED BY <2>3, <2>4, <2>5, <3>2 DEF Kept
  <2>6. CASE ~(d < Len(val))
    <3>1. concrete_'[b] = concrete_[b] /\ flat'[x][b] = flat[x][b]
      BY <2>3, <2>4, <2>6
    <3>2. Kept(symbolic_, concrete_, flat, x, b)
      BY DEF BytesKept
    <3> QED BY <3>1, <3>2 DEF Kept
  <2> QED BY <2>5, <2>6
<1> QED BY <1>1 DEF BytesKept

\* No write of the list is at a constant address, so a load at one finds the byte of the
\* map or a fresh one.
LEMMA ConstByteOfMap ==
  ASSUME TypeOK, NEW a \in Addr
  PROVE  ConstByte(a) = IF concrete_[a] # NoByte THEN concrete_[a] ELSE Fresh(a)
<1> DEFINE Hit(i) == symbolic_[i].addr.const /\ symbolic_[i].addr.base = a
           Write == [addr : {d \in AddrExpr : ~d.const}, val : Byte]
<1>1. \A w \in Write : ~w.addr.const
  OBVIOUS
<1>2. symbolic_ \in Seq(Write)
  BY DEF TypeOK
<1> HIDE DEF Write
<1>3. \A i \in DOMAIN symbolic_ : ~Hit(i)
  BY <1>1, <1>2
<1>4. LastHit(Hit) = {}
  BY <1>3 DEF LastHit
<1> QED BY <1>4 DEF ConstByte

\* A load only names bytes that nobody wrote at a constant address.
LEMMA LoadNames ==
  ASSUME TypeOK, NEW e \in AddrExpr, NEW n \in Widths, Load(e, n), NEW a \in Addr
  PROVE  \/ concrete_'[a] = concrete_[a]
         \/ concrete_[a] = NoByte /\ concrete_'[a] = Fresh(a)
  BY ConstByteOfMap DEF Load

LEMMA LoadKeepsChunks ==
  ASSUME TypeOK, ChunksKept, NEW e \in AddrExpr, NEW n \in Widths, Load(e, n)
  PROVE  ChunksKept'
<1>1. chunks_' = chunks_
  BY DEF Load
<1>4. ASSUME NEW c \in Chunked, NEW i \in 1 .. chunks_[c].bytes
      PROVE  concrete_'[c + i - 1] = chunks_[c].val[i]
  <2> DEFINE k == chunks_[c].bytes
             v == chunks_[c].val
  <2>1. c \in Addr /\ k \in 0 .. 8 /\ v \in Seq(Byte) /\ Len(v) = k
    BY DEF Chunked, TypeOK, Chunk
  <2>2. c + k < Size /\ concrete_[c + i - 1] = v[i]
    BY <1>4 DEF ChunksKept
  <2>3. i \in 1 .. k
    BY <1>4
  <2> HIDE DEF k, v
  <2>4. c + i - 1 \in Addr
    BY <2>1, <2>2, <2>3, SymMemoryAssumption DEF Addr
  <2>5. v[i] \in Byte
    BY <2>1, <2>3
  <2>6. concrete_'[c + i - 1] = v[i]
    BY <2>2, <2>4, <2>5, LoadNames, ByteFacts
  <2> QED BY <2>6 DEF v
<1>5. Chunked' = Chunked
  BY <1>1 DEF Chunked
<1> QED BY <1>1, <1>4, <1>5 DEF ChunksKept

LEMMA LoadKeepsBytes ==
  ASSUME TypeOK, BytesKept, NEW e \in AddrExpr, NEW n \in Widths, Load(e, n)
  PROVE  BytesKept'
<1>1. symbolic_' = symbolic_ /\ flat' = flat
  BY DEF Load
<1>2. ASSUME NEW x \in Xs, NEW a \in Addr
      PROVE  Kept(symbolic_, concrete_', flat, x, a)
  <2>1. Kept(symbolic_, concrete_, flat, x, a)
    BY DEF BytesKept
  <2>2. \/ concrete_'[a] = concrete_[a]
        \/ concrete_[a] = NoByte /\ concrete_'[a] = Fresh(a)
    BY LoadNames
  <2> QED BY <2>1, <2>2, ByteFacts DEF Kept
<1> QED BY <1>1, <1>2 DEF BytesKept

\* seed writes where there is no chunk.
LEMMA SeedKeeps ==
  ASSUME TypeOK, BytesKept, NEW a \in Addr, NEW n \in Widths, Seed(a, n)
  PROVE  ChunksKept' /\ BytesKept'
<1>1. /\ chunks_' = chunks_ /\ symbolic_' = symbolic_ /\ Chunked = {} /\ ops < MaxOps
      /\ concrete_' = Overwrite(concrete_, a, NewBytes(n))
      /\ flat' = [x \in Xs |-> Overwrite(flat[x], a, NewBytes(n))]
  BY DEF Seed
<1>2. NewBytes(n) \in Seq(Byte)
  BY <1>1, NewBytesFacts DEF TypeOK
<1>3. Chunked' = {}
  BY <1>1 DEF Chunked
<1>4. BytesKept'
  BY <1>1, <1>2, OverwriteKeepsBytes
<1> QED BY <1>3, <1>4 DEF ChunksKept

-----------------------------------------------------------------------------
(* Symbolic addresses *)

\* A store at a symbolic address is the last write at each of its bytes, whatever X is.
LEMMA SymbolicStore ==
  ASSUME TypeOK, BytesKept, NEW e \in AddrExpr, NEW n \in Widths,
         ops < MaxOps, StoreSymbolic(e, n)
  PROVE  BytesKept'
<1> DEFINE val == NewBytes(n)
           Write == [addr : {d \in AddrExpr : ~d.const}, val : Byte]
           new == [i \in 1 .. n |-> [addr |-> Offset(e, i - 1), val |-> val[i]]]
<1>1. /\ val \in Seq(Byte) /\ Len(val) = n /\ n \in 1 .. 8 /\ n <= Size
  BY NewBytesFacts DEF TypeOK
<1>2. /\ symbolic_' = symbolic_ \o new
      /\ flat' = [x \in Xs |-> Overwrite(flat[x], At(e, x), val)]
      /\ chunks_' = chunks_ /\ concrete_' = concrete_
  BY DEF StoreSymbolic
<1>3. symbolic_ \in Seq(Write)
  BY DEF TypeOK
<1> DEFINE L == Len(symbolic_)
<1>4. L \in Nat /\ DOMAIN symbolic_ = 1 .. L
  BY <1>3
<1>5. /\ DOMAIN (symbolic_ \o new) = 1 .. L + n
      /\ \A i \in 1 .. L : (symbolic_ \o new)[i] = symbolic_[i]
      /\ \A i \in 1 .. n : (symbolic_ \o new)[L + i] = new[i]
  <2>1. new \in Seq({new[i] : i \in 1 .. n}) /\ Len(new) = n
    BY <1>1
  <2> HIDE DEF new, Write
  <2> QED BY <1>1, <1>3, <2>1
<1> DEFINE s == symbolic_ \o new
<1>6. \A i \in 1 .. n : new[i].addr = Offset(e, i - 1) /\ new[i].val = val[i]
  OBVIOUS
<1> HIDE DEF val, Write, new, L, s
<1>7. ASSUME NEW x \in Xs, NEW b \in Addr
      PROVE  Kept(s, concrete_, flat', x, b)
  <2> DEFINE d == (b - At(e, x)) % Size
  <2>1. x \in Addr /\ 0 \in Addr /\ Size \in Nat
    BY SymMemoryAssumption DEF Addr
  <2>2. At(e, x) \in Addr
    BY <2>1, AtOffset
  <2>3. d \in Nat /\ d < Size
    BY <2>1, <2>2, DistanceFacts DEF Addr
  <2>4. flat'[x][b] = IF d < n THEN val[d + 1] ELSE flat[x][b]
    <3>1. flat[x] \in [Addr -> Byte]
      BY DEF TypeOK
    <3>2. Overwrite(flat[x], At(e, x), val)[b]
            = IF d < Len(val) THEN val[d + 1] ELSE flat[x][b]
      BY <1>1, <2>2, <3>1, OverwriteFacts
    <3> QED BY <1>1, <1>2, <3>2
  <2>5. \A i \in 1 .. n : At(s[L + i].addr, x) = b <=> i = d + 1
    <3> TAKE i \in 1 .. n
    <3>1. i - 1 \in Addr
      BY <1>1, <2>1 DEF Addr
    <3>2. At(Offset(e, i - 1), x) = Plus(At(e, x), i - 1)
      BY <2>1, <3>1, AtOffset
    <3>3. Plus(At(e, x), i - 1) = b <=> i - 1 = d
      BY <2>2, <3>1, DistanceOfPlus
    <3>4. s[L + i].addr = Offset(e, i - 1)
      BY <1>5, <1>6 DEF s
    <3> QED BY <1>1, <2>3, <3>2, <3>3, <3>4
  <2> HIDE DEF d
  <2>6. \A i \in 1 .. L : s[i] = symbolic_[i]
    BY <1>5 DEF s
  <2>7. DOMAIN s = 1 .. L + n
    BY <1>5 DEF s
  <2>8. \A j \in 1 .. L + n : j \in 1 .. L \/ \E i \in 1 .. n : j = L + i
    <3> TAKE j \in 1 .. L + n
    <3>1. j \in 1 .. L \/ (j - L \in 1 .. n /\ j = L + (j - L))
      BY <1>1, <1>4
    <3> QED BY <3>1
  <2>9. CASE d < n
    <3>1. d + 1 \in 1 .. n /\ L + (d + 1) \in DOMAIN s
      BY <1>1, <1>4, <2>3, <2>7, <2>9
    <3>2. s[L + (d + 1)].val = val[d + 1]
      BY <1>5, <1>6, <3>1 DEF s
    <3>3. At(s[L + (d + 1)].addr, x) = b
      BY <2>5, <3>1
    <3>4. \A j \in DOMAIN s : At(s[j].addr, x) = b => j <= L + (d + 1)
      <4> TAKE j \in DOMAIN s
      <4>1. CASE j \in 1 .. L
        BY <1>4, <2>3, <4>1
      <4>2. CASE \E i \in 1 .. n : j = L + i
        BY <1>4, <2>3, <2>5, <4>2
      <4> QED BY <2>7, <2>8, <4>1, <4>2
    <3> QED BY <2>4, <2>9, <3>1, <3>2, <3>3, <3>4 DEF Last, Kept
  <2>10. CASE ~(d < n)
    <3>1. flat'[x][b] = flat[x][b]
      BY <2>4, <2>10
    <3>2. \A i \in 1 .. n : At(s[L + i].addr, x) # b
      BY <1>1, <2>3, <2>5, <2>10
    <3>3. \A j \in DOMAIN s : At(s[j].addr, x) = b => j \in 1 .. L
      BY <2>7, <2>8, <3>2
    <3>4. Kept(symbolic_, concrete_, flat, x, b)
      BY DEF BytesKept
    <3>5. CASE \/ concrete_[b] # NoByte /\ flat[x][b] = concrete_[b]
               \/ /\ \A i \in DOMAIN symbolic_ : At(symbolic_[i].addr, x) # b
                  /\ concrete_[b] = NoByte /\ flat[x][b] = Fresh(b)
      BY <1>4, <2>6, <3>1, <3>3, <3>5 DEF Kept
    <3>6. CASE \E i \in DOMAIN symbolic_ :
                 Last(symbolic_, i, b, x) /\ flat[x][b] = symbolic_[i].val
      <4>1. PICK i \in DOMAIN symbolic_ :
              Last(symbolic_, i, b, x) /\ flat[x][b] = symbolic_[i].val
        BY <3>6
      <4>2. i \in 1 .. L /\ i \in DOMAIN s
        BY <1>1, <1>4, <2>7, <4>1
      <4>3. Last(s, i, b, x)
        BY <1>4, <2>6, <3>3, <4>1, <4>2 DEF Last
      <4>4. flat'[x][b] = s[i].val
        BY <2>6, <3>1, <4>1, <4>2
      <4> QED BY <4>2, <4>3, <4>4 DEF Kept
    <3> QED BY <3>4, <3>5, <3>6 DEF Kept
  <2> QED BY <2>9, <2>10
<1>9. symbolic_' = s
  BY <1>2 DEF s
<1> QED BY <1>2, <1>7, <1>9 DEF BytesKept

-----------------------------------------------------------------------------
(* The inductive invariant *)

LEMMA IInvInit == Init => IInv
<1> SUFFICES ASSUME Init PROVE IInv
  OBVIOUS
<1>1. TypeOK /\ client \in Clients
  BY TypeInit DEF Init
<1>2. Chunked = {}
  BY DEF Init, Chunked, NoChunk
<1>3. ChunksKept
  BY <1>2 DEF ChunksKept
<1>4. BytesKept
  BY DEF Init, BytesKept, Kept
<1> QED BY <1>1, <1>3, <1>4 DEF IInv

LEMMA IInvNext == IInv /\ [Next]_vars => IInv'
<1> SUFFICES ASSUME IInv, [Next]_vars PROVE IInv'
  OBVIOUS
<1>1. TypeOK /\ client \in Clients /\ ChunksKept /\ BytesKept
  BY DEF IInv
<1>2. TypeOK'
  BY <1>1, TypeNext
<1>3. client' = client
  BY DEF Next, Load, Store, Seed, Clear, vars
<1>4. /\ client.loads \subseteq AddrExpr
      /\ client.stores \subseteq AddrExpr
      /\ client.seeds \subseteq Addr
  BY <1>1, SymMemoryAssumption
<1>5. ASSUME NEW e \in client.loads, NEW n \in Widths, Load(e, n)
      PROVE  ChunksKept' /\ BytesKept'
  BY <1>1, <1>4, <1>5, LoadKeepsChunks, LoadKeepsBytes
<1>6. ASSUME NEW e \in client.stores, NEW n \in Widths, Store(e, n)
      PROVE  ChunksKept' /\ BytesKept'
  <2>1. ops < MaxOps /\ e \in AddrExpr
    BY <1>4, <1>6 DEF Store
  <2>2. CASE StoreConst(e, n)
    <3>1. e.base + n < Size /\ e.base \in Addr
      BY <1>1, <2>1, <2>2, StoresEndBelowTop DEF StoreConst, AddrExpr
    <3>2. ChunksKept'
      BY <1>1, <2>1, <2>2, <3>1, StoreKeepsChunks
    <3>3. NewBytes(n) \in Seq(Byte)
      BY <1>1, <2>1, NewBytesFacts DEF TypeOK
    <3>4. BytesKept'
      BY <1>1, <2>2, <3>1, <3>3, OverwriteKeepsBytes DEF StoreConst
    <3> QED BY <3>2, <3>4
  <2>3. CASE StoreSymbolic(e, n)
    <3>1. BytesKept'
      BY <1>1, <2>1, <2>3, SymbolicStore
    <3>2. chunks_' = chunks_ /\ concrete_' = concrete_ /\ Chunked' = Chunked
      BY <2>3 DEF StoreSymbolic, Chunked
    <3> QED BY <1>1, <3>1, <3>2 DEF ChunksKept
  <2> QED BY <1>6, <2>2, <2>3 DEF Store
<1>7. ASSUME NEW a \in client.seeds, NEW n \in Widths, Seed(a, n)
      PROVE  ChunksKept' /\ BytesKept'
  BY <1>1, <1>4, <1>7, SeedKeeps
<1>8. ASSUME Clear PROVE ChunksKept' /\ BytesKept'
  <2>1. Chunked' = {}
    BY <1>8 DEF Clear, Chunked, NoChunk
  <2>2. BytesKept'
    BY <1>8 DEF Clear, BytesKept, Kept
  <2> QED BY <2>1, <2>2 DEF ChunksKept
<1>9. ASSUME UNCHANGED vars PROVE ChunksKept' /\ BytesKept'
  <2>1. Chunked' = Chunked
    BY <1>9 DEF vars, Chunked
  <2> QED BY <1>1, <1>9, <2>1 DEF vars, ChunksKept, BytesKept
<1>10. ChunksKept' /\ BytesKept'
  BY <1>5, <1>6, <1>7, <1>8, <1>9 DEF Next
<1> QED BY <1>1, <1>2, <1>3, <1>10 DEF IInv

LEMMA Invariance == Spec => []IInv
  BY IInvInit, IInvNext, PTL DEF Spec

-----------------------------------------------------------------------------
(* What the memory promises *)

\* The properties' sums, which wrap, are plain sums inside a chunk.
LEMMA CacheFromIInv == IInv => CacheConsistent
<1> SUFFICES ASSUME IInv PROVE CacheConsistent
  OBVIOUS
<1>1. TypeOK /\ ChunksKept
  BY DEF IInv
<1>2. Size \in Nat
  BY SymMemoryAssumption
<1>3. \A c \in Chunked : /\ c \in Addr /\ c \in Nat
                         /\ chunks_[c].bytes \in 1 .. 8
                         /\ c + chunks_[c].bytes < Size
  BY <1>1 DEF Chunked, TypeOK, Chunk, ChunksKept, Addr
<1>4. ASSUME NEW c \in Chunked, NEW i \in 0 .. chunks_[c].bytes - 1
      PROVE  Plus(c, i) = c + i
  <2> DEFINE k == chunks_[c].bytes
  <2>1. c \in Addr /\ c \in Nat /\ k \in 1 .. 8 /\ c + k < Size /\ i \in 0 .. k - 1
    BY <1>3
  <2> HIDE DEF k
  <2>2. i \in 0 .. Size /\ c + i < Size
    BY <1>2, <2>1
  <2> QED BY <2>1, <2>2, PlusFacts
<1>5. ASSUME NEW c \in Chunked, NEW i \in 1 .. chunks_[c].bytes
      PROVE  concrete_[Plus(c, i - 1)] = chunks_[c].val[i]
  <2>1. i - 1 \in 0 .. chunks_[c].bytes - 1 /\ c + (i - 1) = c + i - 1
    BY <1>3
  <2>2. Plus(c, i - 1) = c + i - 1
    BY <1>4, <2>1
  <2> QED BY <1>1, <2>2 DEF ChunksKept
<1>6. ASSUME NEW c \in Chunked, NEW d \in Chunked, c < d,
             NEW i \in 0 .. chunks_[c].bytes - 1, NEW j \in 0 .. chunks_[d].bytes - 1
      PROVE  Plus(c, i) # Plus(d, j)
  <2>1. Plus(c, i) = c + i /\ Plus(d, j) = d + j
    BY <1>4
  <2>2. c + chunks_[c].bytes <= d
    BY <1>1, <1>6 DEF ChunksKept
  <2>3. c \in Nat /\ d \in Nat /\ chunks_[c].bytes \in 1 .. 8 /\ chunks_[d].bytes \in 1 .. 8
    BY <1>3
  <2> QED BY <2>1, <2>2, <2>3
<1>7. ASSUME NEW c \in Chunked, NEW d \in Chunked, c # d,
             NEW i \in 0 .. chunks_[c].bytes - 1, NEW j \in 0 .. chunks_[d].bytes - 1
      PROVE  Plus(c, i) # Plus(d, j)
  <2>1. c < d \/ d < c
    BY <1>3, <1>7
  <2> QED BY <1>6, <2>1
<1> QED BY <1>1, <1>5, <1>7 DEF CacheConsistent

\* Which of the writes of the list wrote the byte that is there.
LEMMA BySymbolFacts ==
  ASSUME NEW a \in Addr, NEW x \in Xs
  PROVE  BySymbol(a, x) <=>
           \E i \in DOMAIN symbolic_ : Last(symbolic_, i, a, x) /\ flat[x][a] = symbolic_[i].val
  BY DEF BySymbol, LastHit, Last

\* concrete_ is finite, so the addresses above one can be counted.
LEMMA RecentFacts ==
  ASSUME NEW a \in Addr
  PROVE  a \in Recent <=> a \in Mapped /\ ~Far(a)
<1> DEFINE above == {b \in Mapped : b > a}
<1>1. Size \in Nat /\ Cap \in Nat
  BY SymMemoryAssumption
<1>2. IsFiniteSet(0 .. Size - 1)
  BY <1>1, FS_Interval
<1>3. above \subseteq 0 .. Size - 1
  BY DEF Mapped, Addr
<1>4. Cardinality(above) \in Nat
  BY <1>2, <1>3, FS_Subset, FS_CardinalityType
<1> HIDE DEF above
<1>5. Cardinality(above) < Cap <=> ~(Cardinality(above) >= Cap)
  BY <1>1, <1>4
<1> QED BY <1>5 DEF above, Recent, Far

\* What a load returns from the cache.
LEMMA ChunkLoaded ==
  ASSUME TypeOK, ChunksKept, BytesKept, NEW e \in AddrExpr, NEW n \in Widths, NEW x \in Xs,
         NEW i \in 1 .. n, ChunkHit(e, n), ~BySymbol(Plus(At(e, x), i - 1), x)
  PROVE  Loaded(e, n, x)[i] = flat[x][Plus(At(e, x), i - 1)]
<1>1. /\ Size \in Nat /\ n \in 1 .. 8 /\ i - 1 \in Addr /\ x \in Addr /\ n <= Size
      /\ e.const \in BOOLEAN /\ e.base \in Addr
  BY SymMemoryAssumption DEF Addr, AddrExpr
<1> DEFINE c == e.base
           a == Plus(At(e, x), i - 1)
<1>2. c \in Chunked /\ chunks_[c].bytes = n /\ e.const
  BY <1>1 DEF ChunkHit, Chunked
<1>3. concrete_[c + i - 1] = chunks_[c].val[i] /\ c + n < Size
  BY <1>2 DEF ChunksKept
<1>4. a = c + i - 1 /\ a \in Addr
  <2>1. c \in Addr /\ c \in Nat /\ i - 1 \in 0 .. Size /\ c + (i - 1) < Size
        /\ c + (i - 1) = c + i - 1
    BY <1>1, <1>3 DEF Addr
  <2> HIDE DEF c
  <2>2. Plus(c, i - 1) = c + i - 1 /\ Plus(c, i - 1) \in Addr
    BY <2>1, PlusFacts
  <2> QED BY <1>2, <2>2 DEF At, c
<1>5. chunks_[c].val[i] \in Byte
  <2>1. chunks_[c].val \in Seq(Byte) /\ Len(chunks_[c].val) = n
    BY <1>1, <1>2 DEF TypeOK, Chunk
  <2> QED BY <2>1
<1>6. Loaded(e, n, x)[i] = chunks_[c].val[i]
  BY DEF Loaded
<1>7. ~BySymbol(a, x)
  OBVIOUS
<1> HIDE DEF a, c
<1>8. Kept(symbolic_, concrete_, flat, x, a)
  BY <1>4 DEF BytesKept
<1>9. concrete_[a] # NoByte
  BY <1>3, <1>4, <1>5, ByteFacts
<1>10. flat[x][a] = concrete_[a]
  BY <1>4, <1>7, <1>8, <1>9, BySymbolFacts DEF Kept
<1> QED BY <1>3, <1>4, <1>6, <1>10 DEF a

\* What a load finds in the byte map or in the list.
LEMMA ByteLoaded ==
  ASSUME TypeOK, BytesKept, NEW o \in AddrExpr, NEW x \in Xs, NEW a \in Addr, At(o, x) = a,
         InTime(o, a, x)
  PROVE  IF Near(o, a) \/ Reached(a, x) THEN load_byte(o, x) = flat[x][a]
         ELSE load_byte(o, x) = Unknown /\ (flat[x][a] = Fresh(a) \/ Far(a))
<1>1. Kept(symbolic_, concrete_, flat, x, a)
  BY DEF BytesKept
<1>2. CASE o.const
  <2>1. o.base = a /\ load_byte(o, x) = ConstByte(a)
    BY <1>2 DEF At, load_byte
  <2>2. ~BySymbol(a, x) /\ Near(o, a)
    BY <1>2 DEF InTime, Near
  <2>3. ConstByte(a) = IF concrete_[a] # NoByte THEN concrete_[a] ELSE Fresh(a)
    BY ConstByteOfMap
  <2> QED BY <1>1, <2>1, <2>2, <2>3, BySymbolFacts DEF Kept
<1>3. CASE ~o.const
  <2> DEFINE Hit(j) == At(symbolic_[j].addr, x) = At(o, x)
  <2>1. load_byte(o, x) = IF a \in Recent THEN concrete_[a]
                          ELSE IF LastHit(Hit) # {} THEN symbolic_[CHOOSE j \in LastHit(Hit) : TRUE].val
                          ELSE Unknown
    BY <1>3 DEF load_byte, SymbolicByte
  <2>2. Near(o, a) <=> a \in Recent
    BY <1>3, RecentFacts DEF Near
  <2>3. \A j : j \in LastHit(Hit) <=> j \in DOMAIN symbolic_ /\ Last(symbolic_, j, a, x)
    BY DEF LastHit, Last
  <2> HIDE DEF Hit
  <2>4. CASE a \in Recent
    <3>1. ~BySymbol(a, x) /\ concrete_[a] # NoByte
      BY <2>2, <2>4 DEF InTime, Recent, Mapped
    <3>2. flat[x][a] = concrete_[a]
      BY <1>1, <3>1, BySymbolFacts DEF Kept
    <3> QED BY <2>1, <2>2, <2>4, <3>2
  <2>5. CASE a \notin Recent /\ Reached(a, x)
    <3>1. PICK i \in DOMAIN symbolic_ : Last(symbolic_, i, a, x) /\ flat[x][a] = symbolic_[i].val
      BY <2>2, <2>5, BySymbolFacts DEF InTime
    <3>2. \A j \in LastHit(Hit) : j = i
      <4>1. DOMAIN symbolic_ \subseteq Int
        BY DEF TypeOK
      <4> QED BY <2>3, <3>1, <4>1 DEF Last
    <3>3. i \in LastHit(Hit)
      BY <2>3, <3>1
    <3>4. (CHOOSE j \in LastHit(Hit) : TRUE) = i
      BY <3>2, <3>3
    <3> QED BY <2>1, <2>5, <3>1, <3>3, <3>4
  <2>6. CASE a \notin Recent /\ ~Reached(a, x)
    <3>1. LastHit(Hit) = {}
      BY <2>3, <2>6 DEF Reached, Last
    <3>2. flat[x][a] = Fresh(a) \/ Far(a)
      <4>1. a \in Mapped => Far(a)
        BY <2>6, RecentFacts
      <4>2. a \notin Mapped => concrete_[a] = NoByte
        BY DEF Mapped
      <4>3. ~\E i \in DOMAIN symbolic_ : Last(symbolic_, i, a, x)
        BY <2>6 DEF Reached, Last
      <4> QED BY <1>1, <4>1, <4>2, <4>3 DEF Kept
    <3> QED BY <2>1, <2>2, <2>6, <3>1, <3>2
  <2> QED BY <2>4, <2>5, <2>6
<1> QED BY <1>2, <1>3 DEF AddrExpr

LEMMA LoadsFromIInv == IInv => LoadsSeeLastWrites
<1> SUFFICES ASSUME IInv PROVE LoadsSeeLastWrites
  OBVIOUS
<1>1. TypeOK /\ ChunksKept /\ BytesKept /\ client.loads \subseteq AddrExpr
  BY SymMemoryAssumption DEF IInv
<1>2. SUFFICES ASSUME NEW e \in client.loads, NEW n \in Widths, NEW x \in Xs, NEW i \in 1 .. n,
                      InTime(e, Plus(At(e, x), i - 1), x)
               PROVE  IF Near(e, Plus(At(e, x), i - 1)) \/ Reached(Plus(At(e, x), i - 1), x)
                      THEN Loaded(e, n, x)[i] = flat[x][Plus(At(e, x), i - 1)]
                      ELSE /\ Loaded(e, n, x)[i] = Unknown
                           /\ \/ flat[x][Plus(At(e, x), i - 1)] = Fresh(Plus(At(e, x), i - 1))
                              \/ Far(Plus(At(e, x), i - 1))
  BY DEF LoadsSeeLastWrites
<1> DEFINE a == Plus(At(e, x), i - 1)
           o == Offset(e, i - 1)
<1>3. i - 1 \in Addr /\ x \in Addr /\ e \in AddrExpr
  BY <1>1, SymMemoryAssumption DEF Addr
<1>4. At(e, x) \in Addr /\ At(o, x) = a /\ o.const = e.const /\ o \in AddrExpr
  BY <1>3, AtOffset
<1>5. a \in Addr
  <2>1. i - 1 \in 0 .. Size
    BY <1>3, SymMemoryAssumption DEF Addr
  <2> QED BY <1>4, <2>1, PlusFacts
<1>6. CASE ChunkHit(e, n)
  <2>1. Near(e, a)
    BY <1>6 DEF ChunkHit, Near
  <2>2. ~BySymbol(a, x)
    BY <1>2, <2>1 DEF InTime
  <2>3. Loaded(e, n, x)[i] = flat[x][a]
    BY <1>1, <1>3, <1>6, <2>2, ChunkLoaded
  <2> QED BY <2>1, <2>3
<1>7. CASE ~ChunkHit(e, n)
  <2>1. Loaded(e, n, x)[i] = load_byte(o, x)
    BY <1>7 DEF Loaded
  <2>2. Near(o, a) <=> Near(e, a)
    BY <1>4 DEF Near
  <2>3. InTime(o, a, x)
    BY <1>2, <2>2 DEF InTime
  <2> HIDE DEF a, o
  <2>4. IF Near(o, a) \/ Reached(a, x) THEN load_byte(o, x) = flat[x][a]
        ELSE load_byte(o, x) = Unknown /\ (flat[x][a] = Fresh(a) \/ Far(a))
    BY <1>1, <1>4, <1>5, <2>3, ByteLoaded
  <2> QED BY <2>1, <2>2, <2>4 DEF a
<1> QED BY <1>6, <1>7

\* The cache of whole writes never goes stale and its chunks never overlap, whatever
\* the sizes and the order of the stores: looking back at one chunk is enough.
THEOREM ChunksStayIntact == Spec => []CacheConsistent
  BY Invariance, CacheFromIInv, PTL

\* A load returns, for every value of the symbol and any mixture of constant and symbolic
\* addresses, the bytes written last, except where a write of one kind was followed by one
\* of the other; and an unknown byte only where nobody wrote or Cap addresses lie above.
THEOREM MemoryIsFlat == Spec => []LoadsSeeLastWrites
  BY Invariance, LoadsFromIInv, PTL
=============================================================================
