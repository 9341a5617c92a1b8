------------------------------ MODULE SymMemory ------------------------------
(***************************************************************************)
(* The symbolic memory of lib/symx/symx.cpp: class Memory, with its byte   *)
(* map concrete_, its cache of whole multi-byte writes chunks_ and its     *)
(* list symbolic_ of writes to addresses that are not constant.            *)
(*                                                                         *)
(* Expressions are abstracted to what they denote.  One symbol X stands    *)
(* for the unknown part of an address: an address is a constant or X plus  *)
(* an offset.  Every byte written is a fresh token, so that a byte of one  *)
(* write is never mistaken for another; a multi-byte value is the sequence *)
(* of its bytes, the least significant first, and zext, shl and or put     *)
(* bytes together without changing them.                                   *)
(***************************************************************************)
EXTENDS Integers, Sequences, FiniteSets, FiniteSetsExt

CONSTANTS
  Size,        \* number of addresses (2^64 in the code); they wrap
  Xs,          \* the values of the symbol X
  Clients,     \* clients: the address expressions each stores to and loads from, and the
               \* constant addresses it seeds before it stores
  Widths,      \* sizes of loads and stores in bytes
  Cap,         \* concrete writes a symbolic load looks at (32 in the code)
  MaxOps       \* bound on the writes of a behaviour

Addr == 0 .. Size - 1

\* b->k(base, 64) or X + base.
AddrExpr == [const : BOOLEAN, base : Addr]

\* Byte i of write n is <<n, i>>.  The symbol for the byte found at a before any
\* write is Fresh(a); Unknown is the background of a symbolic load.
Fresh(a) == <<0, a>>
Unknown == <<-1, 0>>
NoByte == <<-1, 1>>

Byte == ((1 .. MaxOps) \X (1 .. 8)) \cup {Fresh(a) : a \in Addr}

NoChunk == [bytes |-> 0, val |-> <<>>]

ASSUME SymMemoryAssumption ==
  /\ Size \in Nat \ {0}
  /\ Xs \subseteq Addr
  /\ Clients \subseteq [stores : SUBSET AddrExpr, loads : SUBSET AddrExpr,
                        seeds : SUBSET Addr]
  /\ Widths \subseteq 1 .. 8
  /\ \A n \in Widths : n <= Size
  /\ Cap \in Nat
  /\ MaxOps \in Nat

\* No store at a constant address reaches the end of the address space, where the end
\* that evict_overlapping computes wraps to 0.
ASSUME StoresEndBelowTop ==
  \A c \in Clients : \A e \in c.stores, n \in Widths : e.const => e.base + n < Size

VARIABLES
  client,     \* whose calls these are
  concrete_,  \* [Addr -> byte or NoByte]
  chunks_,    \* [Addr -> chunk or NoChunk], by start address
  symbolic_,  \* sequence of writes [addr, val] of one byte
  ops,        \* writes so far
  flat        \* what a flat memory would hold, for every value of X

vars == <<client, concrete_, chunks_, symbolic_, ops, flat>>

-----------------------------------------------------------------------------
(* Addresses *)

Plus(a, n) == (a + n) % Size

\* b->add(addr, off)
Offset(e, n) == [e EXCEPT !.base = Plus(@, n)]

\* The address e denotes when X is x.
At(e, x) == IF e.const THEN e.base ELSE Plus(x, e.base)

-----------------------------------------------------------------------------
(* load *)

\* The last write of symbolic_ that satisfies Hit, if any.
LastHit(Hit(_)) == {i \in DOMAIN symbolic_ :
                      Hit(i) /\ \A j \in DOMAIN symbolic_ : Hit(j) => j <= i}

Mapped == {a \in Addr : concrete_[a] # NoByte}

\* Slip: concrete_ is walked from its beginning.
Recent_FromStart == {a \in Mapped : Cardinality({b \in Mapped : b < a}) < Cap}

\* The Cap highest addresses of concrete_: it is walked from its end.
Recent == {a \in Mapped : Cardinality({b \in Mapped : b > a}) < Cap}

\* A byte at a constant address: symbolic writes are only looked at if their
\* address is this constant, which store_byte never records.
ConstByte(a) ==
  LET Hit(i) == symbolic_[i].addr.const /\ symbolic_[i].addr.base = a
  IN IF LastHit(Hit) # {} THEN symbolic_[CHOOSE i \in LastHit(Hit) : TRUE].val
     ELSE IF concrete_[a] # NoByte THEN concrete_[a] ELSE Fresh(a)

\* The Ite chain for a byte at a symbolic address, when X is x: the writes to
\* constant addresses are tested last and therefore win.
SymbolicByte(e, x) ==
  LET Hit(i) == At(symbolic_[i].addr, x) = At(e, x)
  IN IF At(e, x) \in Recent THEN concrete_[At(e, x)]
     ELSE IF LastHit(Hit) # {} THEN symbolic_[CHOOSE i \in LastHit(Hit) : TRUE].val
     ELSE Unknown

load_byte(e, x) == IF e.const THEN ConstByte(e.base) ELSE SymbolicByte(e, x)

ChunkHit(e, n) == e.const /\ chunks_[e.base].bytes = n

\* What load returns for X = x.
Loaded(e, n, x) ==
  IF ChunkHit(e, n) THEN chunks_[e.base].val
  ELSE [i \in 1 .. n |-> load_byte(Offset(e, i - 1), x)]

\* A load leaves the fresh symbols of the unmapped bytes it met in concrete_.
Load(e, n) ==
  /\ ~ChunkHit(e, n)
  /\ e.const
  /\ concrete_' = [a \in Addr |->
                     IF \E i \in 0 .. n - 1 : a = Plus(e.base, i)
                       THEN ConstByte(a) ELSE concrete_[a]]
  /\ UNCHANGED <<client, chunks_, symbolic_, ops, flat>>

-----------------------------------------------------------------------------
(* store *)

Chunked == {a \in Addr : chunks_[a].bytes # 0}

\* lower_bound(addr), one step back if there is one.
FirstLooked(a) ==
  IF \E c \in Chunked : c < a THEN Max({c \in Chunked : c < a}) ELSE a

\* Slip: the chunk before addr is not looked at.
Evicted_NoStepBack(a, n) ==
  {c \in Chunked : c >= a /\ c < Plus(a, n)
                     /\ Plus(c, chunks_[c].bytes) > a /\ c < Plus(a, n)}

\* The chunks evict_overlapping erases.
Evicted(a, n) ==
  {c \in Chunked : c >= FirstLooked(a) /\ c < Plus(a, n)
                     /\ Plus(c, chunks_[c].bytes) > a}

NewBytes(n) == [i \in 1 .. n |-> <<ops + 1, i>>]

\* The bytes a write of val at a leaves in m.
Overwrite(m, a, val) ==
  [b \in Addr |-> LET i == (b - a) % Size
                  IN IF i < Len(val) THEN val[i + 1] ELSE m[b]]

StoreConst(e, n) ==
  /\ e.const
  /\ LET val == NewBytes(n) IN
     /\ chunks_' = [a \in Addr |-> IF a = e.base THEN [bytes |-> n, val |-> val]
                                   ELSE IF a \in Evicted(e.base, n) THEN NoChunk
                                   ELSE chunks_[a]]
     /\ concrete_' = Overwrite(concrete_, e.base, val)
     /\ flat' = [x \in Xs |-> Overwrite(flat[x], e.base, val)]
  /\ UNCHANGED symbolic_

StoreSymbolic(e, n) ==
  /\ ~e.const
  /\ LET val == NewBytes(n) IN
     /\ symbolic_' = symbolic_ \o [i \in 1 .. n |->
                       [addr |-> Offset(e, i - 1), val |-> val[i]]]
     /\ flat' = [x \in Xs |-> Overwrite(flat[x], At(e, x), val)]
  /\ UNCHANGED <<chunks_, concrete_>>

Store(e, n) ==
  /\ ops < MaxOps
  /\ ops' = ops + 1
  /\ UNCHANGED client
  /\ StoreConst(e, n) \/ StoreSymbolic(e, n)

\* seed writes bytes under the cache; the clients seed before they store at constant addresses.
Seed(a, n) ==
  /\ ops < MaxOps
  /\ ops' = ops + 1
  /\ UNCHANGED client
  /\ Chunked = {}
  /\ concrete_' = Overwrite(concrete_, a, NewBytes(n))
  /\ flat' = [x \in Xs |-> Overwrite(flat[x], a, NewBytes(n))]
  /\ UNCHANGED <<chunks_, symbolic_>>

Clear ==
  /\ concrete_' = [a \in Addr |-> NoByte]
  /\ chunks_' = [a \in Addr |-> NoChunk]
  /\ symbolic_' = <<>>
  /\ flat' = [x \in Xs |-> [a \in Addr |-> Fresh(a)]]
  /\ UNCHANGED <<client, ops>>

Init ==
  /\ client \in Clients
  /\ concrete_ = [a \in Addr |-> NoByte]
  /\ chunks_ = [a \in Addr |-> NoChunk]
  /\ symbolic_ = <<>>
  /\ ops = 0
  /\ flat = [x \in Xs |-> [a \in Addr |-> Fresh(a)]]

Next ==
  \/ \E e \in client.loads, n \in Widths : Load(e, n)
  \/ \E e \in client.stores, n \in Widths : Store(e, n)
  \/ \E a \in client.seeds, n \in Widths : Seed(a, n)
  \/ Clear

Spec == Init /\ [][Next]_vars

-----------------------------------------------------------------------------
(* What the memory promises *)

Chunk == {c \in [bytes : 0 .. 8, val : Seq(Byte)] : Len(c.val) = c.bytes}

\* Shape of the variables; only writes to unknown addresses are in symbolic_.
TypeOK ==
  /\ concrete_ \in [Addr -> Byte \cup {NoByte}]
  /\ chunks_ \in [Addr -> Chunk]
  /\ symbolic_ \in Seq([addr : {e \in AddrExpr : ~e.const}, val : Byte])
  /\ ops \in 0 .. MaxOps
  /\ flat \in [Xs -> [Addr -> Byte]]

\* Some write to an address that is not constant reached a, when X is x.
Reached(a, x) == \E i \in DOMAIN symbolic_ : At(symbolic_[i].addr, x) = a

\* The last of them wrote the byte that is there now.
BySymbol(a, x) ==
  LET Hit(i) == At(symbolic_[i].addr, x) = a
  IN \E i \in LastHit(Hit) : flat[x][a] = symbolic_[i].val

\* Cap addresses or more that concrete_ knows lie above a.
Far(a) == Cardinality({b \in Mapped : b > a}) >= Cap

\* The byte at a is in reach of a load that looks at concrete_.
Near(e, a) == e.const \/ (a \in Mapped /\ ~Far(a))

\* A load orders writes by their kind and not by time: at a constant address it never
\* sees the symbolic writes, and at another one the Cap highest constant addresses win.
\* So it is in time unless a write of one kind was followed there by one of the other.
InTime(e, a, x) == IF Near(e, a) THEN ~BySymbol(a, x) ELSE Reached(a, x) => BySymbol(a, x)

\* A load returns, for every value of the symbol, the bytes written last at the
\* addresses it reads: "so partial / aliased loads remain correct".  Only a load at a
\* symbolic address may return an unknown byte, and only for a byte that nobody wrote
\* or that has Cap constant addresses above it.
LoadsSeeLastWrites ==
  \A e \in client.loads, n \in Widths, x \in Xs :
    \A i \in 1 .. n :
      LET a == Plus(At(e, x), i - 1)
          byte == Loaded(e, n, x)[i]
      IN InTime(e, a, x) =>
           IF Near(e, a) \/ Reached(a, x) THEN byte = flat[x][a]
           ELSE byte = Unknown /\ (flat[x][a] = Fresh(a) \/ Far(a))

\* The cache holds only intact writes, a chunk's bytes are those of concrete_, and no
\* two chunks overlap, which is why evict_overlapping may look back at one chunk only.
CacheConsistent ==
  /\ TypeOK
  /\ \A c \in Chunked : \A i \in 1 .. chunks_[c].bytes :
       concrete_[Plus(c, i - 1)] = chunks_[c].val[i]
  /\ \A c, d \in Chunked :
       c # d => \A i \in 0 .. chunks_[c].bytes - 1, j \in 0 .. chunks_[d].bytes - 1 :
                  Plus(c, i) # Plus(d, j)
=============================================================================
