--------------------------- MODULE DecodingProofs ---------------------------
(***************************************************************************)
(* Proofs about Decoding, for any fields, header blocks and sizes of       *)
(* tables: the program's HPACK tables follow the senders', and a call ends *)
(* with what its peers sent.                                               *)
(***************************************************************************)
EXTENDS Decoding, FoldTheorems

\* An HPACK table keeps to its size.
Tables == {t \in [fields : Seq(Fields), max : Nat] : Len(t.fields) <= t.max}

Reps == {r \in [kind : {"size", "literal", "index", "half"}, arg : Nat \cup Fields] :
            /\ r.kind = "literal" => r.arg \in Fields
            /\ r.kind = "size" => r.arg \in Nat}

Encoders == [table : Tables, reps : Seq(Reps)]
Decoders == [table : Tables, fields : Seq(Fields), ok : BOOLEAN]

\* What item.Headers may be: some of the names, each with a field.
HeaderMaps == UNION {[N -> Fields] : N \in SUBSET {NameOf[f] : f \in Fields}}

-----------------------------------------------------------------------------
(* Tables.                                                                 *)

\* A table is made smaller from its end.
LEMMA ResizeIs ==
  ASSUME NEW t \in Tables, NEW n \in Nat
  PROVE  /\ Resize(t, n) \in Tables /\ Resize(t, n).max = n
         /\ Len(Resize(t, n).fields) = IF n < Len(t.fields) THEN n ELSE Len(t.fields)
         /\ \A k \in 1 .. Len(Resize(t, n).fields) : Resize(t, n).fields[k] = t.fields[k]
<1> DEFINE s == t.fields
           m == IF n < Len(s) THEN n ELSE Len(s)
           u == SubSeq(s, 1, m)
<1>1. s \in Seq(Fields) /\ Len(s) \in Nat /\ m \in Nat /\ m <= Len(s) /\ m <= n
  BY DEF Tables
<1>2. u \in Seq(Fields) /\ Len(u) = m /\ \A k \in 1 .. m : u[k] = s[k]
  <2> HIDE DEF s, m
  <2> QED BY <1>1
<1>3. Resize(t, n) = [fields |-> u, max |-> n]
  BY DEF Resize, Table
<1> HIDE DEF u, m
<1>4. Resize(t, n) \in Tables
  BY <1>1, <1>2, <1>3 DEF Tables
<1> QED BY <1>2, <1>3, <1>4 DEF m

\* A new field comes first.
LEMMA InsertIs ==
  ASSUME NEW t \in Tables, NEW f \in Fields
  PROVE  /\ Insert(t, f) \in Tables /\ Insert(t, f).max = t.max
         /\ Len(Insert(t, f).fields) = IF t.max < Len(t.fields) + 1 THEN t.max
                                                                  ELSE Len(t.fields) + 1
         /\ \A k \in 1 .. Len(Insert(t, f).fields) :
               Insert(t, f).fields[k] = IF k = 1 THEN f ELSE t.fields[k - 1]
<1> DEFINE s == t.fields
           w == <<f>> \o s
           m == IF t.max < Len(s) + 1 THEN t.max ELSE Len(s) + 1
           u == SubSeq(w, 1, m)
<1>1. s \in Seq(Fields) /\ Len(s) \in Nat /\ t.max \in Nat /\ m \in Nat /\ m <= Len(s) + 1
      /\ m <= t.max
  BY DEF Tables
<1>2. w \in Seq(Fields) /\ Len(w) = Len(s) + 1
      /\ \A k \in 1 .. Len(s) + 1 : w[k] = IF k = 1 THEN f ELSE s[k - 1]
  <2> HIDE DEF s
  <2> QED BY <1>1
<1>3. u \in Seq(Fields) /\ Len(u) = m /\ \A k \in 1 .. m : u[k] = w[k]
  <2> HIDE DEF s, m, w
  <2> QED BY <1>1, <1>2
<1>4. Insert(t, f) = [fields |-> u, max |-> t.max]
  <2>1. [t EXCEPT !.fields = <<f>> \o @].fields = w /\ t = [fields |-> s, max |-> t.max]
    BY DEF Tables
  <2> HIDE DEF w
  <2> QED BY <1>2, <2>1 DEF Insert, Resize, Table
<1> HIDE DEF u, m, w
<1>5. Insert(t, f) \in Tables
  BY <1>1, <1>3, <1>4 DEF Tables
<1>6. \A k \in 1 .. m : u[k] = IF k = 1 THEN f ELSE s[k - 1]
  <2> HIDE DEF s
  <2> QED BY <1>1, <1>2, <1>3
<1> QED BY <1>3, <1>4, <1>5, <1>6 DEF m

\* A prefix, place by place.
LEMMA PrefixIs ==
  ASSUME NEW S, NEW a \in Seq(S), NEW b \in Seq(S)
  PROVE  IsPrefix(a, b) <=> Len(a) <= Len(b) /\ \A k \in 1 .. Len(a) : a[k] = b[k]
<1>1. Len(a) \in Nat /\ Len(b) \in Nat /\ SubSeq(a, 1, Len(a)) = a
  OBVIOUS
<1>2. PICK n \in Nat : n = Len(a)
  BY <1>1
<1>3. ASSUME n <= Len(b)
      PROVE  SubSeq(b, 1, n) = a <=> \A k \in 1 .. n : a[k] = b[k]
  <2>1. /\ SubSeq(b, 1, n) \in Seq(S) /\ Len(SubSeq(b, 1, n)) = n
        /\ \A k \in 1 .. n : SubSeq(b, 1, n)[k] = b[k]
    BY <1>1, <1>2, <1>3
  <2>2. PICK c \in Seq(S) : c = SubSeq(b, 1, n)
    BY <2>1
  <2>3. c = a <=> \A k \in 1 .. n : a[k] = c[k]
    BY <1>2, <2>1, <2>2
  <2> QED BY <2>1, <2>2, <2>3
<1> QED BY <1>1, <1>2, <1>3 DEF IsPrefix

\* The program's table u has what the sender's, t, has, in the same places.
Follows(u, t) == IsPrefix(t.fields, u.fields)

LEMMA FollowsIs ==
  ASSUME NEW t \in Tables, NEW u \in Tables
  PROVE  /\ Follows(u, t) <=> /\ Len(t.fields) <= Len(u.fields)
                              /\ \A k \in 1 .. Len(t.fields) : t.fields[k] = u.fields[k]
         /\ Len(t.fields) \in Nat /\ Len(u.fields) \in Nat /\ t.max \in Nat /\ u.max \in Nat
         /\ Len(t.fields) <= t.max /\ Len(u.fields) <= u.max
         /\ DOMAIN t.fields = 1 .. Len(t.fields) /\ DOMAIN u.fields = 1 .. Len(u.fields)
<1>1. t.fields \in Seq(Fields) /\ u.fields \in Seq(Fields) /\ t.max \in Nat /\ u.max \in Nat
  BY DEF Tables
<1>2. Len(t.fields) <= t.max /\ Len(u.fields) <= u.max
  BY DEF Tables
<1>3. Follows(u, t) <=> /\ Len(t.fields) <= Len(u.fields)
                        /\ \A k \in 1 .. Len(t.fields) : t.fields[k] = u.fields[k]
  BY <1>1, PrefixIs DEF Follows
<1> QED BY <1>1, <1>2, <1>3

\* It follows when it is made no smaller than what the sender has,
LEMMA FollowsResized ==
  ASSUME NEW t \in Tables, NEW u \in Tables, NEW n \in Nat, Follows(u, t)
  PROVE  /\ Len(t.fields) <= n => Follows(Resize(u, n), t)
         /\ Follows(u, Resize(t, n))
<1>1. Resize(u, n) \in Tables /\ Resize(t, n) \in Tables
  BY ResizeIs
<1>2. Len(t.fields) <= n => Follows(Resize(u, n), t)
  BY <1>1, FollowsIs, ResizeIs
<1>3. Follows(u, Resize(t, n))
  BY <1>1, FollowsIs, ResizeIs
<1> QED BY <1>2, <1>3

\* and when both insert the same field, if it is not the smaller one.
LEMMA FollowsInserted ==
  ASSUME NEW t \in Tables, NEW u \in Tables, NEW f \in Fields, Follows(u, t), t.max <= u.max
  PROVE  Follows(Insert(u, f), Insert(t, f))
<1> DEFINE a == Insert(t, f)
           b == Insert(u, f)
<1>1. /\ a \in Tables /\ b \in Tables
      /\ Len(a.fields) = IF t.max < Len(t.fields) + 1 THEN t.max ELSE Len(t.fields) + 1
      /\ Len(b.fields) = IF u.max < Len(u.fields) + 1 THEN u.max ELSE Len(u.fields) + 1
      /\ \A k \in 1 .. Len(a.fields) : a.fields[k] = IF k = 1 THEN f ELSE t.fields[k - 1]
      /\ \A k \in 1 .. Len(b.fields) : b.fields[k] = IF k = 1 THEN f ELSE u.fields[k - 1]
  BY InsertIs
<1> HIDE DEF a, b
<1>2. /\ Len(t.fields) <= Len(u.fields)
      /\ \A k \in 1 .. Len(t.fields) : t.fields[k] = u.fields[k]
      /\ Len(t.fields) \in Nat /\ Len(u.fields) \in Nat /\ t.max \in Nat /\ u.max \in Nat
  BY FollowsIs
<1>3. Len(a.fields) \in Nat /\ Len(b.fields) \in Nat /\ Len(a.fields) <= Len(b.fields)
  BY <1>1, <1>2
<1>4. ASSUME NEW k \in 1 .. Len(a.fields) PROVE a.fields[k] = b.fields[k]
  <2>1. k \in 1 .. Len(b.fields) /\ (k # 1 => k - 1 \in 1 .. Len(t.fields))
    BY <1>1, <1>2, <1>3
  <2>2. k # 1 => t.fields[k - 1] = u.fields[k - 1]
    BY <1>2, <2>1
  <2> QED BY <1>1, <2>1, <2>2
<1>5. Follows(b, a)
  BY <1>1, <1>3, <1>4, FollowsIs
<1> QED BY <1>5 DEF a, b

-----------------------------------------------------------------------------
(* The folds, as sequences of steps.                                       *)

\* A step of the decoder gives a decoder.
LEMMA DecodeRepType ==
  ASSUME NEW d \in Decoders, NEW r \in Reps
  PROVE  DecodeRep(d, r) \in Decoders
<1>1. /\ d.table \in Tables /\ d.fields \in Seq(Fields) /\ d.ok \in BOOLEAN
      /\ d = [table |-> d.table, fields |-> d.fields, ok |-> d.ok]
      /\ r.kind \in {"size", "literal", "index", "half"}
  BY DEF Decoders, Reps
<1>2. Failed(d) \in Decoders
  <2>1. PICK e : e = <<>>
    OBVIOUS
  <2>2. e \in Seq(Fields)
    BY <2>1
  <2>3. [d EXCEPT !.ok = FALSE, !.fields = e] \in Decoders
    BY <1>1, <2>2 DEF Decoders
  <2> QED BY <2>1, <2>3 DEF Failed
<1>3. CASE ~ d.ok
  BY <1>1, <1>3 DEF DecodeRep
<1>4. CASE d.ok /\ r.kind = "size"
  <2>1. DecodeRep(d, r) = [d EXCEPT !.table = Resize(d.table, r.arg)]
    BY <1>1, <1>4 DEF DecodeRep
  <2>2. Resize(d.table, r.arg) \in Tables
    BY <1>1, <1>4, ResizeIs DEF Reps
  <2> QED BY <1>1, <2>1, <2>2 DEF Decoders
<1>5. CASE d.ok /\ r.kind = "literal"
  <2>1. DecodeRep(d, r) = [d EXCEPT !.table = Insert(d.table, r.arg),
                                    !.fields = Append(d.fields, r.arg)]
    BY <1>1, <1>5 DEF DecodeRep
  <2>2. Insert(d.table, r.arg) \in Tables /\ Append(d.fields, r.arg) \in Seq(Fields)
    BY <1>1, <1>5, InsertIs DEF Reps
  <2> QED BY <1>1, <2>1, <2>2 DEF Decoders
<1>6. CASE d.ok /\ r.kind = "index"
  <2>1. CASE r.arg \in DOMAIN d.table.fields
    <3>1. DecodeRep(d, r) = [d EXCEPT !.fields = Append(d.fields, d.table.fields[r.arg])]
      BY <1>1, <1>6, <2>1 DEF DecodeRep
    <3>2. d.table.fields[r.arg] \in Fields
      <4>1. d.table.fields \in Seq(Fields)
        BY <1>1 DEF Tables
      <4> QED BY <2>1, <4>1
    <3>3. Append(d.fields, d.table.fields[r.arg]) \in Seq(Fields)
      BY <1>1, <3>2
    <3> QED BY <1>1, <3>1, <3>3 DEF Decoders
  <2>2. CASE r.arg \notin DOMAIN d.table.fields
    <3>1. DecodeRep(d, r) = Failed(d)
      BY <1>1, <1>6, <2>2 DEF DecodeRep
    <3> QED BY <1>2, <3>1
  <2> QED BY <2>1, <2>2
<1>7. CASE d.ok /\ r.kind = "half"
  <2>1. DecodeRep(d, r) = Failed(d)
    BY <1>1, <1>7 DEF DecodeRep
  <2> QED BY <1>2, <2>1
<1> QED BY <1>1, <1>3, <1>4, <1>5, <1>6, <1>7

\* DecodeFull, representation by representation.
LEMMA DecodeTrace ==
  ASSUME NEW t \in Tables, NEW reps \in Seq(Reps)
  PROVE  \E a \in [0 .. Len(reps) -> Decoders] :
            /\ a[0] = [table |-> t, fields |-> <<>>, ok |-> TRUE]
            /\ a[Len(reps)] = DecodeFull(t, reps)
            /\ \A k \in 1 .. Len(reps) : a[k] = DecodeRep(a[k - 1], reps[k])
<1> DEFINE n == Len(reps)
           base == [table |-> t, fields |-> <<>>, ok |-> TRUE]
           pick == [T \in SUBSET (1 .. n) |-> Greatest(T)]
           step == [k \in 1 .. n |-> [d \in Decoders |-> DecodeRep(d, reps[k])]]
           Is(f) == f = [T \in SUBSET (DOMAIN reps) |->
                            IF T = {} THEN base
                            ELSE DecodeRep(f[T \ {Greatest(T)}], reps[Greatest(T)])]
           g == CHOOSE f : Is(f)
<1>1. n \in Nat /\ DOMAIN reps = 1 .. n /\ \A k \in 1 .. n : reps[k] \in Reps
  OBVIOUS
<1>2. base \in Decoders
  BY DEF Decoders
<1>3. \A k \in 1 .. n, d \in Decoders : step[k][d] = DecodeRep(d, reps[k])
                                        /\ step[k][d] \in Decoders
  BY <1>1, DecodeRepType
<1>4. DecodeFull(t, reps) = g[DOMAIN reps]
  BY Zenon DEF DecodeFull, FoldLeft, MapThenFoldSet, Max, Greatest
<1>5. \A T \in SUBSET (1 .. n) : T # {} => pick[T] = Greatest(T) /\ pick[T] \in T
  BY <1>1, ChainFacts
<1> HIDE DEF pick, step, base
<1>6. Is(g)
  <2>1. PICK f \in [SUBSET (1 .. n) -> Decoders] :
           \A T \in SUBSET (1 .. n) : Folded(f, T, base, pick, step)
    <3>1. \A k \in 1 .. n, d \in Decoders : step[k][d] \in Decoders
      BY <1>3
    <3>2. \A T \in SUBSET (1 .. n) : T # {} => pick[T] \in T
      BY <1>5
    <3>3. IsFiniteSet(1 .. n)
      BY <1>1, ChainFacts
    <3> HIDE DEF n
    <3> QED BY <1>2, <3>1, <3>2, <3>3, FoldExists
  <2>2. ASSUME NEW T \in SUBSET (1 .. n)
        PROVE  f[T] = IF T = {} THEN base
                      ELSE DecodeRep(f[T \ {Greatest(T)}], reps[Greatest(T)])
    <3>1. T # {} => Greatest(T) \in 1 .. n /\ f[T \ {Greatest(T)}] \in Decoders
      BY <1>5, <2>1
    <3> QED BY <1>3, <1>5, <2>1, <3>1 DEF Folded
  <2>3. Is(f)
    BY <1>1, <2>1, <2>2
  <2> HIDE DEF Is
  <2> QED BY <2>3
<1>7. g[{}] = base
  BY <1>6
<1>8. ASSUME NEW k \in 1 .. n, g[1 .. k - 1] \in Decoders
      PROVE  g[1 .. k] = step[k][g[1 .. k - 1]]
  <2>1. g[1 .. k] = DecodeRep(g[1 .. k - 1], reps[k])
    <3>1. /\ 1 .. k \in SUBSET (DOMAIN reps) /\ 1 .. k # {}
          /\ Greatest(1 .. k) = k /\ (1 .. k) \ {k} = 1 .. k - 1
      BY <1>1, ChainFacts
    <3> HIDE DEF g
    <3> QED BY <1>6, <3>1
  <2> QED BY <1>3, <1>8, <2>1
<1> HIDE DEF g
<1>9. PICK a \in [0 .. n -> Decoders] : /\ a[0] = base /\ a[n] = g[1 .. n]
                                        /\ \A k \in 1 .. n : a[k] = step[k][a[k - 1]]
  <2>1. \A k \in 1 .. n, d \in Decoders : step[k][d] \in Decoders
    BY <1>3
  <2>2. \A k \in 1 .. n : g[1 .. k - 1] \in Decoders
                           => g[1 .. k] = step[k][g[1 .. k - 1]]
    BY <1>8
  <2>3. Climbs(g, n, Decoders, base, step)
    BY <1>7, <2>2 DEF Climbs
  <2>4. \E a \in [0 .. n -> Decoders] : Chain(a, n, base, step, g[1 .. n])
    <3>1. n \in Nat
      BY <1>1
    <3> HIDE DEF n, Is
    <3> QED BY <1>2, <2>1, <2>3, <3>1, Trace
  <2> QED BY <2>4 DEF Chain
<1>10. \A k \in 1 .. n : a[k] = DecodeRep(a[k - 1], reps[k])
  <2>1. \A k \in 1 .. n : k - 1 \in 0 .. n
    BY <1>1
  <2> QED BY <1>3, <1>9, <2>1
<1> QED BY <1>1, <1>4, <1>9, <1>10 DEF base
\* An encoder before the first field.
Fresh(t, sizes) == [table |-> t, reps |-> [k \in DOMAIN sizes |-> Rep("size", sizes[k])]]

LEMMA FreshType ==
  ASSUME NEW t \in Tables, NEW sizes \in Seq(Nat)
  PROVE  /\ Fresh(t, sizes) \in Encoders
         /\ Len(Fresh(t, sizes).reps) = Len(sizes)
         /\ \A k \in 1 .. Len(sizes) : Fresh(t, sizes).reps[k] = Rep("size", sizes[k])
<1>1. Len(sizes) \in Nat /\ DOMAIN sizes = 1 .. Len(sizes)
      /\ \A k \in 1 .. Len(sizes) : sizes[k] \in Nat
  OBVIOUS
<1>2. \A k \in 1 .. Len(sizes) : Rep("size", sizes[k]) \in Reps
  BY <1>1 DEF Rep, Reps
<1>3. PICK n \in Nat : n = Len(sizes)
  BY <1>1
<1>4. PICK q : q = [k \in 1 .. n |-> Rep("size", sizes[k])]
  OBVIOUS
<1>5. q \in Seq(Reps) /\ Len(q) = n /\ \A k \in 1 .. n : q[k] = Rep("size", sizes[k])
  BY <1>2, <1>3, <1>4
<1>6. Fresh(t, sizes) = [table |-> t, reps |-> q]
  BY <1>1, <1>3, <1>4 DEF Fresh
<1> QED BY <1>3, <1>5, <1>6 DEF Encoders

\* A representation r takes the sender's table from t to u, and stands for f: it
\* is the place of f in the table, or f itself, which then comes first.
Coded(t, u, f, r) ==
    \/ r.kind = "index" /\ r.arg \in DOMAIN t.fields /\ t.fields[r.arg] = f /\ u = t
    \/ r.kind = "literal" /\ r.arg = f /\ u = Insert(t, f)

LEMMA EncodeFieldIs ==
  ASSUME NEW e \in Encoders, NEW f \in Fields
  PROVE  \E u \in Tables, r \in Reps :
            /\ EncodeField(e, f) = [table |-> u, reps |-> Append(e.reps, r)]
            /\ Coded(e.table, u, f, r) /\ u.max = e.table.max
<1>1. /\ e.table \in Tables /\ e.reps \in Seq(Reps)
      /\ e = [table |-> e.table, reps |-> e.reps]
  BY DEF Encoders
<1>2. PICK s \in Seq(Fields) : s = e.table.fields
  BY <1>1 DEF Tables
<1>3. CASE \E k \in DOMAIN s : s[k] = f
  <2> DEFINE I == {k \in 1 .. Len(s) : s[k] = f}
             i == Min(I)
             r == Rep("index", i)
  <2>1. I # {} /\ I \in SUBSET Nat
    BY <1>2, <1>3
  <2>2. i \in I
    <3> HIDE DEF I
    <3> QED BY <2>1, LeastIn DEF Min
  <2>3. SelectInSeq(s, LAMBDA g : g = f) = i
    BY <2>1 DEF SelectInSeq
  <2>4. EncodeField(e, f) = [table |-> e.table, reps |-> Append(e.reps, r)]
    <3>1. EncodeField(e, f) = [e EXCEPT !.reps = Append(e.reps, Rep("index",
                                               SelectInSeq(s, LAMBDA g : g = f)))]
      BY <1>2, <1>3 DEF EncodeField
    <3> HIDE DEF i
    <3> QED BY <1>1, <2>3, <3>1
  <2>5. i \in DOMAIN s /\ s[i] = f /\ i \in Nat
    <3>1. I \subseteq DOMAIN s /\ \A k \in I : s[k] = f
      BY <1>2
    <3> HIDE DEF I, i
    <3> QED BY <2>1, <2>2, <3>1
  <2> HIDE DEF i
  <2>6. r \in Reps /\ Coded(e.table, e.table, f, r)
    BY <1>2, <2>5 DEF Reps, Rep, Coded
  <2> QED BY <1>1, <2>4, <2>6
<1>4. CASE ~ \E k \in DOMAIN s : s[k] = f
  <2> DEFINE u == Insert(e.table, f)
             r == Rep("literal", f)
  <2>1. EncodeField(e, f) = [table |-> u, reps |-> Append(e.reps, r)]
    BY <1>2, <1>4 DEF EncodeField
  <2>2. u \in Tables /\ u.max = e.table.max
    BY <1>1, InsertIs
  <2>3. r \in Reps /\ Coded(e.table, u, f, r)
    BY DEF Reps, Rep, Coded
  <2> HIDE DEF u, r
  <2> QED BY <2>1, <2>2, <2>3
<1> QED BY <1>3, <1>4

LEMMA EncodeFieldType ==
  ASSUME NEW e \in Encoders, NEW f \in Fields
  PROVE  EncodeField(e, f) \in Encoders
<1>1. PICK u \in Tables, r \in Reps :
         EncodeField(e, f) = [table |-> u, reps |-> Append(e.reps, r)]
  BY EncodeFieldIs
<1>2. Append(e.reps, r) \in Seq(Reps)
  BY DEF Encoders
<1> QED BY <1>1, <1>2 DEF Encoders

\* Encode, field by field.
LEMMA EncodeTrace ==
  ASSUME NEW t \in Tables, NEW sizes \in Seq(Nat), NEW block \in Seq(Fields)
  PROVE  \E a \in [0 .. Len(block) -> Encoders] :
            /\ a[0] = Fresh(t, sizes)
            /\ a[Len(block)] = Encode(t, sizes, block)
            /\ \A k \in 1 .. Len(block) : a[k] = EncodeField(a[k - 1], block[k])
<1> DEFINE n == Len(block)
           base == Fresh(t, sizes)
           pick == [T \in SUBSET (1 .. n) |-> Greatest(T)]
           step == [k \in 1 .. n |-> [d \in Encoders |-> EncodeField(d, block[k])]]
           Is(f) == f = [T \in SUBSET (DOMAIN block) |->
                            IF T = {} THEN base
                            ELSE EncodeField(f[T \ {Greatest(T)}], block[Greatest(T)])]
           g == CHOOSE f : Is(f)
<1>1. n \in Nat /\ DOMAIN block = 1 .. n /\ \A k \in 1 .. n : block[k] \in Fields
  OBVIOUS
<1>2. base \in Encoders
  BY FreshType
<1>3. \A k \in 1 .. n, d \in Encoders : step[k][d] = EncodeField(d, block[k])
                                        /\ step[k][d] \in Encoders
  BY <1>1, EncodeFieldType
<1>4. Encode(t, sizes, block) = g[DOMAIN block]
  BY Zenon DEF Encode, Fresh, FoldLeft, MapThenFoldSet, Max, Greatest
<1>5. \A T \in SUBSET (1 .. n) : T # {} => pick[T] = Greatest(T) /\ pick[T] \in T
  BY <1>1, ChainFacts
<1> HIDE DEF pick, step, base
<1>6. Is(g)
  <2>1. PICK f \in [SUBSET (1 .. n) -> Encoders] :
           \A T \in SUBSET (1 .. n) : Folded(f, T, base, pick, step)
    <3>1. \A k \in 1 .. n, d \in Encoders : step[k][d] \in Encoders
      BY <1>3
    <3>2. \A T \in SUBSET (1 .. n) : T # {} => pick[T] \in T
      BY <1>5
    <3>3. IsFiniteSet(1 .. n)
      BY <1>1, ChainFacts
    <3> HIDE DEF n
    <3> QED BY <1>2, <3>1, <3>2, <3>3, FoldExists
  <2>2. ASSUME NEW T \in SUBSET (1 .. n)
        PROVE  f[T] = IF T = {} THEN base
                      ELSE EncodeField(f[T \ {Greatest(T)}], block[Greatest(T)])
    <3>1. T # {} => Greatest(T) \in 1 .. n /\ f[T \ {Greatest(T)}] \in Encoders
      BY <1>5, <2>1
    <3> QED BY <1>3, <1>5, <2>1, <3>1 DEF Folded
  <2>3. Is(f)
    BY <1>1, <2>1, <2>2
  <2> HIDE DEF Is
  <2> QED BY <2>3
<1>7. g[{}] = base
  BY <1>6
<1>8. ASSUME NEW k \in 1 .. n, g[1 .. k - 1] \in Encoders
      PROVE  g[1 .. k] = step[k][g[1 .. k - 1]]
  <2>1. g[1 .. k] = EncodeField(g[1 .. k - 1], block[k])
    <3>1. /\ 1 .. k \in SUBSET (DOMAIN block) /\ 1 .. k # {}
          /\ Greatest(1 .. k) = k /\ (1 .. k) \ {k} = 1 .. k - 1
      BY <1>1, ChainFacts
    <3> HIDE DEF g
    <3> QED BY <1>6, <3>1
  <2> QED BY <1>3, <1>8, <2>1
<1> HIDE DEF g
<1>9. PICK a \in [0 .. n -> Encoders] : /\ a[0] = base /\ a[n] = g[1 .. n]
                                        /\ \A k \in 1 .. n : a[k] = step[k][a[k - 1]]
  <2>1. \A k \in 1 .. n, d \in Encoders : step[k][d] \in Encoders
    BY <1>3
  <2>2. \A k \in 1 .. n : g[1 .. k - 1] \in Encoders
                           => g[1 .. k] = step[k][g[1 .. k - 1]]
    BY <1>8
  <2>3. Climbs(g, n, Encoders, base, step)
    BY <1>7, <2>2 DEF Climbs
  <2>4. \E a \in [0 .. n -> Encoders] : Chain(a, n, base, step, g[1 .. n])
    <3>1. n \in Nat
      BY <1>1
    <3> HIDE DEF n, Is
    <3> QED BY <1>2, <2>1, <2>3, <3>1, Trace
  <2> QED BY <2>4 DEF Chain
<1>10. \A k \in 1 .. n : a[k] = EncodeField(a[k - 1], block[k])
  <2>1. \A k \in 1 .. n : k - 1 \in 0 .. n
    BY <1>1
  <2> QED BY <1>3, <1>9, <2>1
<1> QED BY <1>1, <1>4, <1>9, <1>10 DEF base
\* A field is stored among others.
LEMMA StoreFieldType ==
  ASSUME NEW h \in HeaderMaps, NEW f \in Fields
  PROVE  StoreField(h, f) \in HeaderMaps
<1>1. PICK N \in SUBSET {NameOf[g] : g \in Fields} : h \in [N -> Fields]
  BY DEF HeaderMaps
<1> DEFINE M == N \cup {NameOf[f]}
<1>2. M \in SUBSET {NameOf[g] : g \in Fields}
  OBVIOUS
<1>3. StoreField(h, f) \in [M -> Fields]
  BY <1>1 DEF StoreField
<1> QED BY <1>2, <1>3 DEF HeaderMaps

\* StoreFields, field by field.
LEMMA StoreTrace ==
  ASSUME NEW h \in HeaderMaps, NEW block \in Seq(Fields)
  PROVE  \E a \in [0 .. Len(block) -> HeaderMaps] :
            /\ a[0] = h
            /\ a[Len(block)] = StoreFields(h, block)
            /\ \A k \in 1 .. Len(block) : a[k] = StoreField(a[k - 1], block[k])
<1> DEFINE n == Len(block)
           base == h
           pick == [T \in SUBSET (1 .. n) |-> Greatest(T)]
           step == [k \in 1 .. n |-> [d \in HeaderMaps |-> StoreField(d, block[k])]]
           Is(f) == f = [T \in SUBSET (DOMAIN block) |->
                            IF T = {} THEN base
                            ELSE StoreField(f[T \ {Greatest(T)}], block[Greatest(T)])]
           g == CHOOSE f : Is(f)
<1>1. n \in Nat /\ DOMAIN block = 1 .. n /\ \A k \in 1 .. n : block[k] \in Fields
  OBVIOUS
<1>2. base \in HeaderMaps
  OBVIOUS
<1>3. \A k \in 1 .. n, d \in HeaderMaps : step[k][d] = StoreField(d, block[k])
                                        /\ step[k][d] \in HeaderMaps
  BY <1>1, StoreFieldType
<1>4. StoreFields(h, block) = g[DOMAIN block]
  BY Zenon DEF StoreFields, FoldLeft, MapThenFoldSet, Max, Greatest
<1>5. \A T \in SUBSET (1 .. n) : T # {} => pick[T] = Greatest(T) /\ pick[T] \in T
  BY <1>1, ChainFacts
<1> HIDE DEF pick, step, base
<1>6. Is(g)
  <2>1. PICK f \in [SUBSET (1 .. n) -> HeaderMaps] :
           \A T \in SUBSET (1 .. n) : Folded(f, T, base, pick, step)
    <3>1. \A k \in 1 .. n, d \in HeaderMaps : step[k][d] \in HeaderMaps
      BY <1>3
    <3>2. \A T \in SUBSET (1 .. n) : T # {} => pick[T] \in T
      BY <1>5
    <3>3. IsFiniteSet(1 .. n)
      BY <1>1, ChainFacts
    <3> HIDE DEF n
    <3> QED BY <1>2, <3>1, <3>2, <3>3, FoldExists
  <2>2. ASSUME NEW T \in SUBSET (1 .. n)
        PROVE  f[T] = IF T = {} THEN base
                      ELSE StoreField(f[T \ {Greatest(T)}], block[Greatest(T)])
    <3>1. T # {} => Greatest(T) \in 1 .. n /\ f[T \ {Greatest(T)}] \in HeaderMaps
      BY <1>5, <2>1
    <3> QED BY <1>3, <1>5, <2>1, <3>1 DEF Folded
  <2>3. Is(f)
    BY <1>1, <2>1, <2>2
  <2> HIDE DEF Is
  <2> QED BY <2>3
<1>7. g[{}] = base
  BY <1>6
<1>8. ASSUME NEW k \in 1 .. n, g[1 .. k - 1] \in HeaderMaps
      PROVE  g[1 .. k] = step[k][g[1 .. k - 1]]
  <2>1. g[1 .. k] = StoreField(g[1 .. k - 1], block[k])
    <3>1. /\ 1 .. k \in SUBSET (DOMAIN block) /\ 1 .. k # {}
          /\ Greatest(1 .. k) = k /\ (1 .. k) \ {k} = 1 .. k - 1
      BY <1>1, ChainFacts
    <3> HIDE DEF g
    <3> QED BY <1>6, <3>1
  <2> QED BY <1>3, <1>8, <2>1
<1> HIDE DEF g
<1>9. PICK a \in [0 .. n -> HeaderMaps] : /\ a[0] = base /\ a[n] = g[1 .. n]
                                        /\ \A k \in 1 .. n : a[k] = step[k][a[k - 1]]
  <2>1. \A k \in 1 .. n, d \in HeaderMaps : step[k][d] \in HeaderMaps
    BY <1>3
  <2>2. \A k \in 1 .. n : g[1 .. k - 1] \in HeaderMaps
                           => g[1 .. k] = step[k][g[1 .. k - 1]]
    BY <1>8
  <2>3. Climbs(g, n, HeaderMaps, base, step)
    BY <1>7, <2>2 DEF Climbs
  <2>4. \E a \in [0 .. n -> HeaderMaps] : Chain(a, n, base, step, g[1 .. n])
    <3>1. n \in Nat
      BY <1>1
    <3> HIDE DEF n, Is
    <3> QED BY <1>2, <2>1, <2>3, <3>1, Trace
  <2> QED BY <2>4 DEF Chain
<1>10. \A k \in 1 .. n : a[k] = StoreField(a[k - 1], block[k])
  <2>1. \A k \in 1 .. n : k - 1 \in 0 .. n
    BY <1>1
  <2> QED BY <1>3, <1>9, <2>1
<1> QED BY <1>1, <1>4, <1>9, <1>10 DEF base
\* What the folds give.
LEMMA DecodeType ==
  ASSUME NEW t \in Tables, NEW reps \in Seq(Reps)
  PROVE  DecodeFull(t, reps) \in Decoders
<1>1. PICK a \in [0 .. Len(reps) -> Decoders] : a[Len(reps)] = DecodeFull(t, reps)
  BY DecodeTrace
<1>2. Len(reps) \in 0 .. Len(reps)
  OBVIOUS
<1> QED BY <1>1, <1>2

LEMMA EncodeType ==
  ASSUME NEW t \in Tables, NEW sizes \in Seq(Nat), NEW block \in Seq(Fields)
  PROVE  Encode(t, sizes, block) \in Encoders
<1>1. PICK a \in [0 .. Len(block) -> Encoders] : a[Len(block)] = Encode(t, sizes, block)
  BY EncodeTrace
<1>2. Len(block) \in 0 .. Len(block)
  OBVIOUS
<1> QED BY <1>1, <1>2

LEMMA StoreType ==
  ASSUME NEW h \in HeaderMaps, NEW fields \in Seq(Fields)
  PROVE  StoreFields(h, fields) \in HeaderMaps
<1>1. PICK a \in [0 .. Len(fields) -> HeaderMaps] : a[Len(fields)] = StoreFields(h, fields)
  BY StoreTrace
<1>2. Len(fields) \in 0 .. Len(fields)
  OBVIOUS
<1> QED BY <1>1, <1>2

\* A part of a sequence, place by place.
LEMMA PartIs ==
  ASSUME NEW S, NEW s \in Seq(S), NEW i \in Nat, NEW j \in Nat, i <= j, j <= Len(s)
  PROVE  /\ SubSeq(s, i + 1, j) \in Seq(S) /\ Len(SubSeq(s, i + 1, j)) = j - i
         /\ \A k \in 1 .. j - i : SubSeq(s, i + 1, j)[k] = s[i + k]
<1>1. Len(s) \in Nat /\ DOMAIN s = 1 .. Len(s)
  OBVIOUS
<1>2. \A k \in i + 1 .. j : s[k] \in S
  BY <1>1
<1>3. PICK q : q = SubSeq(s, i + 1, j)
  OBVIOUS
<1>4. q \in Seq(S) /\ Len(q) = j - i /\ \A k \in 1 .. j - i : q[k] = s[i + k]
  BY <1>1, <1>2, <1>3
<1> QED BY <1>3, <1>4

\* A sequence with one more element.
LEMMA LongerIs ==
  ASSUME NEW S, NEW s \in Seq(S), NEW x \in S
  PROVE  /\ Append(s, x) \in Seq(S) /\ Len(Append(s, x)) = Len(s) + 1
         /\ \A k \in 1 .. Len(s) : Append(s, x)[k] = s[k]
         /\ Append(s, x)[Len(s) + 1] = x
  OBVIOUS

\* A part gets longer at its end.
LEMMA PartNext ==
  ASSUME NEW S, NEW s \in Seq(S), NEW i \in Nat, NEW j \in Nat, i <= j, j + 1 <= Len(s)
  PROVE  SubSeq(s, i + 1, j + 1) = Append(SubSeq(s, i + 1, j), s[j + 1])
<1>1. Len(s) \in Nat /\ s[j + 1] \in S
  OBVIOUS
<1>2. PICK q : q = SubSeq(s, i + 1, j)
  OBVIOUS
<1>3. q \in Seq(S) /\ Len(q) = j - i /\ \A k \in 1 .. j - i : q[k] = s[i + k]
  BY <1>1, <1>2, PartIs
<1>4. PICK w : w = SubSeq(s, i + 1, j + 1)
  OBVIOUS
<1>5. /\ w \in Seq(S) /\ Len(w) = j + 1 - i
      /\ \A k \in 1 .. j + 1 - i : w[k] = s[i + k]
  <2>1. PICK h \in Nat : h = j + 1
    OBVIOUS
  <2>2. i <= h /\ h <= Len(s)
    BY <2>1
  <2>3. /\ SubSeq(s, i + 1, h) \in Seq(S) /\ Len(SubSeq(s, i + 1, h)) = h - i
        /\ \A k \in 1 .. h - i : SubSeq(s, i + 1, h)[k] = s[i + k]
    BY <2>2, PartIs
  <2> QED BY <1>4, <2>1, <2>3
<1>6. PICK v : v = Append(q, s[j + 1])
  OBVIOUS
<1>7. /\ v \in Seq(S) /\ Len(v) = j - i + 1
      /\ \A k \in 1 .. j - i : v[k] = q[k]
      /\ v[j - i + 1] = s[j + 1]
  BY <1>1, <1>3, <1>6, LongerIs
<1>8. ASSUME NEW k \in 1 .. j + 1 - i PROVE w[k] = v[k]
  <2>1. CASE k = j - i + 1
    BY <1>5, <1>7, <2>1
  <2>2. CASE k # j - i + 1
    <3>1. k \in 1 .. j - i
      BY <2>2
    <3> QED BY <1>3, <1>5, <1>7, <3>1
  <2> QED BY <2>1, <2>2
<1>9. w = v
  BY <1>5, <1>7, <1>8
<1> QED BY <1>2, <1>4, <1>6, <1>9

-----------------------------------------------------------------------------
(* A header block on its way from a sender to the program.                 *)

\* reps encodes sizes and then block, with W[k] the table after k fields.
Encodes(reps, W, t, sizes, block) ==
    /\ reps \in Seq(Reps) /\ Len(reps) = Len(sizes) + Len(block)
    /\ W \in [0 .. Len(block) -> Tables] /\ W[0] = t
    /\ \A k \in 0 .. Len(block) : W[k].max = t.max
    /\ \A k \in 1 .. Len(sizes) : reps[k] = Rep("size", sizes[k])
    /\ \A k \in 1 .. Len(block) : Coded(W[k - 1], W[k], block[k], reps[Len(sizes) + k])

\* The same for the encoder a of each number of fields, up to k.
EncodesUpto(a, k, t, sizes, block) ==
    /\ Len(a[k].reps) = Len(sizes) + k /\ a[k].table.max = t.max
    /\ \A j \in 1 .. Len(sizes) : a[k].reps[j] = Rep("size", sizes[j])
    /\ \A j \in 1 .. k : Coded(a[j - 1].table, a[j].table, block[j], a[k].reps[Len(sizes) + j])

\* Encode gives an encoding.
LEMMA EncodeIs ==
  ASSUME NEW t \in Tables, NEW sizes \in Seq(Nat), NEW block \in Seq(Fields)
  PROVE  \E W : /\ Encodes(Encode(t, sizes, block).reps, W, t, sizes, block)
                /\ Encode(t, sizes, block).table = W[Len(block)]
<1>1. PICK a \in [0 .. Len(block) -> Encoders] :
            /\ a[0] = Fresh(t, sizes)
            /\ a[Len(block)] = Encode(t, sizes, block)
            /\ \A k \in 1 .. Len(block) : a[k] = EncodeField(a[k - 1], block[k])
  BY EncodeTrace
<1>2. PICK n \in Nat, m \in Nat : n = Len(block) /\ m = Len(sizes)
  OBVIOUS
<1> DEFINE P == {k \in Nat : EncodesUpto(a, k, t, sizes, block)}
<1>3. 0 \in P
  <2>1. a[0].table = t
    BY <1>1 DEF Fresh
  <2> QED BY <1>1, <1>2, <2>1, FreshType DEF EncodesUpto
<1>4. ASSUME NEW k \in Nat, k < n, k \in P PROVE k + 1 \in P
  <2>1. k \in 0 .. n /\ k + 1 \in 1 .. n /\ k + 1 \in 0 .. n /\ (k + 1) - 1 = k
    BY <1>4
  <2>2. PICK e \in Encoders, f \in Fields : e = a[k] /\ f = block[k + 1]
    BY <1>1, <1>2, <2>1
  <2>3. PICK u \in Tables, r \in Reps :
            /\ EncodeField(e, f) = [table |-> u, reps |-> Append(e.reps, r)]
            /\ Coded(e.table, u, f, r) /\ u.max = e.table.max
    BY EncodeFieldIs
  <2>4. a[k + 1].table = u /\ a[k + 1].reps = Append(e.reps, r)
    BY <1>1, <1>2, <2>1, <2>2, <2>3
  <2>5. PICK q \in Seq(Reps) : q = e.reps /\ Len(q) = m + k
    BY <1>2, <1>4, <2>2 DEF EncodesUpto, Encoders
  <2>6. PICK w \in Seq(Reps) : /\ w = Append(q, r) /\ Len(w) = m + k + 1
                               /\ \A j \in 1 .. m + k : w[j] = q[j]
                               /\ w[m + k + 1] = r
    <3>1. PICK w : w = Append(q, r)
      OBVIOUS
    <3>2. /\ w \in Seq(Reps) /\ Len(w) = Len(q) + 1
          /\ \A j \in 1 .. Len(q) : w[j] = q[j]
          /\ w[Len(q) + 1] = r
      BY <3>1, LongerIs
    <3> QED BY <2>5, <3>1, <3>2
  <2>7. \A j \in 1 .. m : w[j] = Rep("size", sizes[j])
    BY <1>2, <1>4, <2>2, <2>5, <2>6 DEF EncodesUpto
  <2>8. ASSUME NEW j \in 1 .. k + 1
        PROVE  Coded(a[j - 1].table, a[j].table, block[j], w[m + j])
    <3>1. CASE j = k + 1
      <4>1. a[j - 1] = e /\ block[j] = f /\ a[j].table = u /\ w[m + j] = r
        BY <1>2, <2>1, <2>2, <2>4, <2>6, <3>1
      <4> QED BY <2>3, <4>1
    <3>2. CASE j # k + 1
      <4>1. j \in 1 .. k /\ m + j \in 1 .. m + k
        BY <1>2, <3>2
      <4>2. Coded(a[j - 1].table, a[j].table, block[j], q[m + j])
        BY <1>2, <1>4, <2>2, <2>5, <4>1 DEF EncodesUpto
      <4> QED BY <2>6, <4>1, <4>2
    <3> QED BY <3>1, <3>2
  <2>9. a[k + 1].table.max = t.max
    BY <1>4, <2>2, <2>3, <2>4 DEF EncodesUpto
  <2>10. Len(w) = m + (k + 1) /\ a[k + 1].reps = w
    BY <2>4, <2>5, <2>6
  <2>11. EncodesUpto(a, k + 1, t, sizes, block)
    <3>1. \A j \in 1 .. k + 1 :
             Coded(a[j - 1].table, a[j].table, block[j], a[k + 1].reps[Len(sizes) + j])
      BY <1>2, <2>8, <2>10
    <3>2. \A j \in 1 .. Len(sizes) : a[k + 1].reps[j] = Rep("size", sizes[j])
      BY <1>2, <2>7, <2>10
    <3>3. Len(a[k + 1].reps) = Len(sizes) + (k + 1)
      BY <1>2, <2>10
    <3> QED BY <2>9, <3>1, <3>2, <3>3 DEF EncodesUpto
  <2> QED BY <2>11
<1>5. \A k \in 0 .. n : EncodesUpto(a, k, t, sizes, block)
  <2>1. \A k \in 0 .. n : k \in P
    <3> HIDE DEF P
    <3> QED BY <1>2, <1>3, <1>4, NumbersUpto
  <2> QED BY <2>1
<1>6. PICK W : W = [k \in 0 .. n |-> a[k].table]
  OBVIOUS
<1>7. /\ W \in [0 .. n -> Tables] /\ W[0] = t /\ W[n] = a[n].table
      /\ \A k \in 0 .. n : W[k].max = t.max
  <2>1. \A k \in 0 .. n : a[k].table \in Tables
    BY <1>1, <1>2 DEF Encoders
  <2>2. a[0].table = t
    BY <1>1 DEF Fresh
  <2> QED BY <1>2, <1>5, <1>6, <2>1, <2>2 DEF EncodesUpto
<1>8. ASSUME NEW k \in 1 .. n
      PROVE  Coded(W[k - 1], W[k], block[k], a[n].reps[m + k])
  <2>1. W[k - 1] = a[k - 1].table /\ W[k] = a[k].table
    BY <1>2, <1>6
  <2>2. n \in 0 .. n
    BY <1>2
  <2> QED BY <1>2, <1>5, <2>1, <2>2 DEF EncodesUpto
<1>9. /\ a[n].reps \in Seq(Reps) /\ Len(a[n].reps) = m + n
      /\ \A k \in 1 .. m : a[n].reps[k] = Rep("size", sizes[k])
  <2>1. n \in 0 .. n
    BY <1>2
  <2>2. a[n] \in Encoders
    BY <1>1, <1>2, <2>1
  <2> QED BY <1>2, <1>5, <2>1, <2>2 DEF EncodesUpto, Encoders
<1> QED BY <1>1, <1>2, <1>7, <1>8, <1>9 DEF Encodes

\* The fields in the first p representations, of which m are sizes.
After(p, m) == IF p < m THEN 0 ELSE p - m

LEMMA AfterIs ==
  ASSUME NEW p \in Nat, NEW m \in Nat
  PROVE  After(p, m) \in Nat
  BY DEF After

\* The program's table u after the first p of them.
InStep(u, p, W, m) == /\ Follows(u, W[After(p, m)])
                      /\ p >= m => W[After(p, m)].max <= u.max

\* The sizes a sender owes are no smaller than what it has in its table, and
\* the last is that of the table.
Owes(t, sizes) == \A k \in 1 .. Len(sizes) : /\ Len(t.fields) <= sizes[k]
                                             /\ k = Len(sizes) => sizes[k] = t.max

\* The decoder e has handled one representation more than d, the one after p,
\* and has taken it for what it stands for.
Decoded(e, d, p, W, sizes, block) ==
    /\ e.ok /\ InStep(e.table, p + 1, W, Len(sizes))
    /\ e.fields = IF p < Len(sizes) THEN d.fields ELSE Append(d.fields, block[p + 1 - Len(sizes)])

LEMMA DecodeRepIs ==
  ASSUME NEW t \in Tables, NEW sizes \in Seq(Nat), NEW block \in Seq(Fields), Owes(t, sizes),
         NEW reps, NEW W, Encodes(reps, W, t, sizes, block),
         NEW d \in Decoders, d.ok,
         NEW p \in Nat, p < Len(reps), InStep(d.table, p, W, Len(sizes))
  PROVE  Decoded(DecodeRep(d, reps[p + 1]), d, p, W, sizes, block)
<1>1. PICK m \in Nat, n \in Nat : m = Len(sizes) /\ n = Len(block)
  OBVIOUS
<1>2. /\ reps \in Seq(Reps) /\ Len(reps) = m + n
      /\ W \in [0 .. n -> Tables] /\ W[0] = t
      /\ \A k \in 0 .. n : W[k].max = t.max
      /\ \A k \in 1 .. m : reps[k] = Rep("size", sizes[k])
      /\ \A k \in 1 .. n : Coded(W[k - 1], W[k], block[k], reps[m + k])
  BY <1>1 DEF Encodes
<1>3. PICK r \in Reps, u \in Tables : r = reps[p + 1] /\ u = d.table
  <2>1. p + 1 \in 1 .. Len(reps)
    BY <1>1, <1>2
  <2> QED BY <1>2, <2>1 DEF Decoders
<1>4. /\ d.fields \in Seq(Fields) /\ d.ok = TRUE
      /\ d = [table |-> u, fields |-> d.fields, ok |-> d.ok]
  BY <1>3 DEF Decoders
<1>5. CASE p < m
  <2>1. p + 1 \in 1 .. m /\ reps[p + 1] = Rep("size", sizes[p + 1]) /\ sizes[p + 1] \in Nat
    BY <1>1, <1>2, <1>5
  <2>2. PICK z \in Nat : z = sizes[p + 1]
    BY <2>1
  <2>3. DecodeRep(d, r) = [table |-> Resize(u, z), fields |-> d.fields, ok |-> d.ok]
    <3>1. r.kind = "size" /\ r.arg = z
      BY <1>3, <2>1, <2>2 DEF Rep
    <3>2. DecodeRep(d, r) = [d EXCEPT !.table = Resize(u, z)]
      BY <1>3, <1>4, <3>1 DEF DecodeRep
    <3> QED BY <1>4, <3>2
  <2>4. Follows(u, t) /\ W[After(p + 1, m)] = t
    BY <1>1, <1>2, <1>3, <1>5 DEF InStep, After
  <2>5. Len(t.fields) <= z /\ (p + 1 = m => z = t.max)
    BY <1>1, <2>1, <2>2 DEF Owes
  <2>6. Follows(Resize(u, z), t) /\ Resize(u, z).max = z
    BY <1>3, <2>4, <2>5, FollowsResized, ResizeIs
  <2>7. t.max \in Nat
    BY DEF Tables
  <2>8. InStep(Resize(u, z), p + 1, W, m)
    BY <1>1, <1>5, <2>4, <2>5, <2>6, <2>7 DEF InStep
  <2> QED BY <1>1, <1>3, <1>4, <1>5, <2>3, <2>8 DEF Decoded
<1>6. CASE p >= m
  <2>1. PICK k \in 1 .. n : k = p + 1 - m
    <3>1. p < m + n
      BY <1>1, <1>2
    <3> QED BY <1>6, <3>1
  <2>2. k \in Nat /\ k - 1 \in 0 .. n /\ k \in 0 .. n /\ m + k = p + 1
    BY <1>1, <1>6, <2>1
  <2>3. PICK v \in Tables, w \in Tables, f \in Fields :
            v = W[k - 1] /\ w = W[k] /\ f = block[k]
    <3>1. W[k - 1] \in Tables /\ W[k] \in Tables
      BY <1>2, <2>2
    <3>2. block[k] \in Fields
      BY <1>1, <2>1
    <3> QED BY <3>1, <3>2
  <2>4. Coded(v, w, f, r) /\ v.max = t.max /\ w.max = t.max
    BY <1>2, <1>3, <2>1, <2>2, <2>3
  <2>5. After(p, m) = k - 1 /\ After(p + 1, m) = k
    BY <1>1, <1>6, <2>1 DEF After
  <2>6. Follows(u, v) /\ v.max <= u.max
    BY <1>1, <1>3, <1>6, <2>3, <2>5 DEF InStep
  <2>7. CASE r.kind = "index" /\ r.arg \in DOMAIN v.fields /\ v.fields[r.arg] = f /\ w = v
    <3>1. r.arg \in DOMAIN u.fields /\ u.fields[r.arg] = f
      <4>1. /\ Len(v.fields) <= Len(u.fields)
            /\ \A l \in 1 .. Len(v.fields) : v.fields[l] = u.fields[l]
            /\ Len(v.fields) \in Nat /\ Len(u.fields) \in Nat
            /\ DOMAIN v.fields = 1 .. Len(v.fields) /\ DOMAIN u.fields = 1 .. Len(u.fields)
        BY <2>6, FollowsIs
      <4> QED BY <2>7, <4>1
    <3>2. /\ DecodeRep(d, r).table = u /\ DecodeRep(d, r).fields = Append(d.fields, f)
          /\ DecodeRep(d, r).ok = d.ok
      <4>1. r.arg \in DOMAIN d.table.fields /\ d.table.fields[r.arg] = f
        BY <1>3, <3>1
      <4>2. DecodeRep(d, r) = [d EXCEPT !.fields = Append(d.fields, d.table.fields[r.arg])]
        BY <1>4, <2>7, <4>1 DEF DecodeRep
      <4>3. PICK h : h = Append(d.fields, f)
        OBVIOUS
      <4>4. [d EXCEPT !.fields = h].table = u /\ [d EXCEPT !.fields = h].fields = h
            /\ [d EXCEPT !.fields = h].ok = d.ok
        BY <1>3 DEF Decoders
      <4>5. DecodeRep(d, r) = [d EXCEPT !.fields = h]
        BY <4>1, <4>2, <4>3
      <4> QED BY <4>3, <4>4, <4>5
    <3>3. InStep(u, p + 1, W, m)
      BY <1>1, <1>6, <2>3, <2>5, <2>6, <2>7 DEF InStep
    <3> QED BY <1>1, <1>3, <1>4, <1>6, <2>1, <2>3, <3>2, <3>3 DEF Decoded
  <2>8. CASE r.kind = "literal" /\ r.arg = f /\ w = Insert(v, f)
    <3>1. DecodeRep(d, r) = [table |-> Insert(u, f), fields |-> Append(d.fields, f),
                             ok |-> d.ok]
      <4>1. DecodeRep(d, r) = [d EXCEPT !.table = Insert(u, f), !.fields = Append(d.fields, f)]
        BY <1>3, <1>4, <2>8 DEF DecodeRep
      <4> QED BY <1>4, <4>1
    <3>2. Follows(Insert(u, f), w) /\ Insert(u, f).max = u.max
      BY <1>3, <2>6, <2>8, FollowsInserted, InsertIs
    <3>3. InStep(Insert(u, f), p + 1, W, m)
      BY <1>1, <1>6, <2>3, <2>4, <2>5, <2>6, <3>2 DEF InStep
    <3> QED BY <1>1, <1>3, <1>4, <1>6, <2>1, <2>3, <3>1, <3>3 DEF Decoded
  <2> QED BY <2>4, <2>7, <2>8 DEF Coded
<1> QED BY <1>1, <1>5, <1>6

\* Any part of an encoding is decoded to the fields it has, by a table that is
\* in step with the sender's where it begins, and then is where it ends.
LEMMA DecodePart ==
  ASSUME NEW t \in Tables, NEW sizes \in Seq(Nat), NEW block \in Seq(Fields), Owes(t, sizes),
         NEW reps, NEW W, Encodes(reps, W, t, sizes, block),
         NEW i \in Nat, NEW j \in Nat, i <= j, j <= Len(reps),
         NEW u \in Tables, InStep(u, i, W, Len(sizes)),
         NEW r, r = DecodeFull(u, SubSeq(reps, i + 1, j))
  PROVE  /\ r \in Decoders /\ InStep(r.table, j, W, Len(sizes))
         /\ r.fields = SubSeq(block, After(i, Len(sizes)) + 1, After(j, Len(sizes)))
<1>1. PICK m \in Nat, n \in Nat, l \in Nat : m = Len(sizes) /\ n = Len(block) /\ l = j - i
  OBVIOUS
<1>2. reps \in Seq(Reps) /\ Len(reps) = m + n
  BY <1>1 DEF Encodes
<1>3. PICK part : part = SubSeq(reps, i + 1, j)
  OBVIOUS
<1>4. part \in Seq(Reps) /\ Len(part) = l /\ \A k \in 1 .. l : part[k] = reps[i + k]
  <2>1. /\ part \in Seq(Reps) /\ Len(part) = j - i
        /\ \A k \in 1 .. j - i : part[k] = reps[i + k]
    BY <1>2, <1>3, PartIs
  <2> QED BY <1>1, <2>1
<1>5. PICK d \in [0 .. l -> Decoders] :
            /\ d[0] = [table |-> u, fields |-> <<>>, ok |-> TRUE]
            /\ d[l] = r
            /\ \A k \in 1 .. l : d[k] = DecodeRep(d[k - 1], part[k])
  BY <1>3, <1>4, DecodeTrace
<1> DEFINE Good(k) == /\ d[k].ok /\ InStep(d[k].table, i + k, W, m)
                      /\ d[k].fields = SubSeq(block, After(i, m) + 1, After(i + k, m))
           P == {k \in Nat : Good(k)}
<1>6. 0 \in P
  <2>1. PICK z \in Nat : z = After(i, m)
    BY AfterIs
  <2>2. SubSeq(block, z + 1, z) = <<>>
    OBVIOUS
  <2>3. i + 0 = i
    OBVIOUS
  <2>4. d[0].table = u /\ d[0].fields = <<>> /\ d[0].ok
    BY <1>5
  <2>5. InStep(d[0].table, i, W, m)
    BY <1>1, <2>4
  <2> QED BY <2>1, <2>2, <2>3, <2>4, <2>5
<1>7. ASSUME NEW k \in Nat, k < l, k \in P PROVE k + 1 \in P
  <2>1. PICK p \in Nat : p = i + k
    OBVIOUS
  <2>2. p + 1 = i + (k + 1) /\ p < m + n /\ k + 1 \in 1 .. l /\ k \in 0 .. l /\ (k + 1) - 1 = k
    BY <1>1, <1>2, <1>7, <2>1
  <2>3. PICK e \in Decoders : e = d[k]
    BY <1>5, <2>2
  <2>4. e.ok /\ InStep(e.table, p, W, m) /\ e.fields = SubSeq(block, After(i, m) + 1, After(p, m))
    BY <1>7, <2>1, <2>3
  <2>5. d[k + 1] = DecodeRep(e, reps[p + 1])
    BY <1>4, <1>5, <2>2, <2>3
  <2>6. /\ d[k + 1].ok /\ InStep(d[k + 1].table, p + 1, W, m)
        /\ d[k + 1].fields = IF p < m THEN e.fields ELSE Append(e.fields, block[p + 1 - m])
    <3>1. p < Len(reps) /\ InStep(e.table, p, W, Len(sizes))
      BY <1>1, <1>2, <2>2, <2>4
    <3>2. Decoded(DecodeRep(e, reps[p + 1]), e, p, W, sizes, block)
      BY <2>4, <3>1, DecodeRepIs
    <3> QED BY <1>1, <2>5, <3>2 DEF Decoded
  <2>7. d[k + 1].fields = SubSeq(block, After(i, m) + 1, After(p + 1, m))
    <3>1. CASE p < m
      <4>1. After(p + 1, m) = After(p, m)
        BY <3>1 DEF After
      <4> QED BY <2>4, <2>6, <3>1, <4>1
    <3>2. CASE p >= m
      <4>1. PICK a \in Nat, b \in Nat : a = After(i, m) /\ b = After(p, m)
        BY AfterIs
      <4>2. b + 1 = After(p + 1, m) /\ b + 1 = p + 1 - m /\ a <= b /\ b + 1 <= Len(block)
        BY <1>1, <2>1, <2>2, <3>2, <4>1 DEF After
      <4>3. SubSeq(block, a + 1, b + 1) = Append(SubSeq(block, a + 1, b), block[b + 1])
        BY <4>2, PartNext
      <4>4. e.fields = SubSeq(block, a + 1, b)
        BY <2>4, <4>1
      <4>5. d[k + 1].fields = Append(e.fields, block[b + 1])
        BY <2>6, <3>2, <4>2
      <4> QED BY <4>1, <4>2, <4>3, <4>4, <4>5
    <3> QED BY <3>1, <3>2
  <2>8. Good(k + 1)
    <3> HIDE DEF P
    <3> QED BY <2>2, <2>6, <2>7
  <2> QED BY <2>8
<1>8. Good(l)
  <2>1. l \in P
    <3>1. \A k \in 0 .. l : k \in P
      <4> HIDE DEF P
      <4> QED BY <1>6, <1>7, NumbersUpto
    <3> QED BY <3>1
  <2> QED BY <2>1
<1>9. i + l = j /\ l \in 0 .. l
  BY <1>1
<1> QED BY <1>1, <1>5, <1>8, <1>9

\* Fields can be stored in two parts.
LEMMA StoreParts ==
  ASSUME NEW h \in HeaderMaps, NEW block \in Seq(Fields), NEW i \in Nat, i <= Len(block)
  PROVE  StoreFields(StoreFields(h, SubSeq(block, 1, i)), SubSeq(block, i + 1, Len(block)))
            = StoreFields(h, block)
<1>1. PICK n \in Nat, l \in Nat : n = Len(block) /\ l = n - i
  OBVIOUS
<1>2. PICK x, y : x = SubSeq(block, 1, i) /\ y = SubSeq(block, i + 1, n)
  OBVIOUS
<1>3. x \in Seq(Fields) /\ Len(x) = i /\ \A k \in 1 .. i : x[k] = block[k]
  <2>1. PICK z \in Nat : z = 0
    OBVIOUS
  <2>2. /\ SubSeq(block, z + 1, i) \in Seq(Fields) /\ Len(SubSeq(block, z + 1, i)) = i - z
        /\ \A k \in 1 .. i - z : SubSeq(block, z + 1, i)[k] = block[z + k]
    BY <2>1, PartIs
  <2> QED BY <1>2, <2>1, <2>2
<1>4. y \in Seq(Fields) /\ Len(y) = l /\ \A k \in 1 .. l : y[k] = block[i + k]
  BY <1>1, <1>2, PartIs
<1>5. PICK a \in [0 .. n -> HeaderMaps] :
            /\ a[0] = h /\ a[n] = StoreFields(h, block)
            /\ \A k \in 1 .. n : a[k] = StoreField(a[k - 1], block[k])
  BY <1>1, StoreTrace
<1>6. PICK b \in [0 .. i -> HeaderMaps] :
            /\ b[0] = h /\ b[i] = StoreFields(h, x)
            /\ \A k \in 1 .. i : b[k] = StoreField(b[k - 1], x[k])
  BY <1>3, StoreTrace
<1>7. StoreFields(h, x) = a[i] /\ a[i] \in HeaderMaps
  <2> DEFINE P == {k \in Nat : b[k] = a[k]}
  <2>1. 0 \in P
    BY <1>5, <1>6
  <2>2. ASSUME NEW k \in Nat, k < i, k \in P PROVE k + 1 \in P
    <3>1. k + 1 \in 1 .. i /\ k + 1 \in 1 .. n /\ (k + 1) - 1 = k
      BY <1>1, <2>2
    <3> QED BY <1>3, <1>5, <1>6, <2>2, <3>1
  <2>3. \A k \in 0 .. i : k \in P
    <3> HIDE DEF P
    <3> QED BY <2>1, <2>2, NumbersUpto
  <2>4. i \in 0 .. i /\ i \in 0 .. n
    BY <1>1
  <2> QED BY <1>5, <1>6, <2>3, <2>4
<1>8. PICK c \in [0 .. l -> HeaderMaps] :
            /\ c[0] = a[i] /\ c[l] = StoreFields(a[i], y)
            /\ \A k \in 1 .. l : c[k] = StoreField(c[k - 1], y[k])
  BY <1>4, <1>7, StoreTrace
<1>9. c[l] = a[n]
  <2> DEFINE P == {k \in Nat : c[k] = a[i + k]}
  <2>1. 0 \in P
    BY <1>8
  <2>2. ASSUME NEW k \in Nat, k < l, k \in P PROVE k + 1 \in P
    <3>1. k + 1 \in 1 .. l /\ i + (k + 1) \in 1 .. n /\ (k + 1) - 1 = k
          /\ (i + (k + 1)) - 1 = i + k
      BY <1>1, <2>2
    <3>2. c[k + 1] = StoreField(c[k], block[i + (k + 1)])
      BY <1>4, <1>8, <3>1
    <3>3. a[i + (k + 1)] = StoreField(a[i + k], block[i + (k + 1)])
      BY <1>5, <3>1
    <3> QED BY <2>2, <3>2, <3>3
  <2>3. \A k \in 0 .. l : k \in P
    <3> HIDE DEF P
    <3> QED BY <2>1, <2>2, NumbersUpto
  <2>4. l \in 0 .. l /\ i + l = n
    BY <1>1
  <2> QED BY <2>3, <2>4
<1> QED BY <1>1, <1>2, <1>5, <1>7, <1>8, <1>9

\* What the program makes of a block that comes in two parts, or in one and an
\* empty one, with no representation cut in two: its table is in step with the
\* sender's, and the fields are the block's.
LEMMA BlockParts ==
  ASSUME NEW t \in Tables, NEW u \in Tables, NEW sizes \in Seq(Nat), NEW block \in Seq(Fields),
         Owes(t, sizes), Follows(u, t), sizes = <<>> => t.max <= u.max,
         NEW e, e = Encode(t, sizes, block),
         NEW c \in Nat, c <= 2 * Len(e.reps), c % 2 = 0,
         NEW first, first = DecodeFull(u, FirstPart(e.reps, c)),
         NEW second, second = DecodeFull(first.table, SecondPart(e.reps, c))
  PROVE  /\ Follows(second.table, e.table) /\ e.table.max <= second.table.max
         /\ \A h \in HeaderMaps : StoreFields(StoreFields(h, first.fields), second.fields)
                                     = StoreFields(h, block)
         /\ c = 2 * Len(e.reps) => first.fields = block
<1>1. PICK W : Encodes(e.reps, W, t, sizes, block) /\ e.table = W[Len(block)]
  BY EncodeIs
<1>2. PICK reps \in Seq(Reps) : reps = e.reps
  BY <1>1 DEF Encodes
<1>3. PICK m \in Nat, n \in Nat, N \in Nat : m = Len(sizes) /\ n = Len(block) /\ N = Len(reps)
  <2>1. Len(sizes) \in Nat /\ Len(block) \in Nat /\ Len(reps) \in Nat
    OBVIOUS
  <2> QED BY <2>1
<1>4. N = m + n /\ W[0] = t /\ W \in [0 .. n -> Tables] /\ W[n].max = t.max
      /\ W[0].max = t.max
  BY <1>1, <1>2, <1>3 DEF Encodes
<1>5. PICK h \in Nat : c = 2 * h /\ h <= N /\ c \div 2 = h /\ (c + 1) \div 2 = h
  <2>1. c <= 2 * N
    BY <1>2, <1>3
  <2>2. PICK h \in Nat : c = 2 * h
    OBVIOUS
  <2>3. h <= N /\ c \div 2 = h /\ (c + 1) \div 2 = h
    BY <2>1, <2>2
  <2> QED BY <2>2, <2>3
<1>6. FirstPart(reps, c) = SubSeq(reps, 1, h)
  <2>1. PICK q : q = SubSeq(reps, 1, h)
    OBVIOUS
  <2>2. q \in Seq(Reps)
    BY <1>3, <1>5, <2>1
  <2>3. q \o <<>> = q
    BY <2>2
  <2>4. FirstPart(reps, c) = q \o <<>>
    BY <1>5, <2>1 DEF FirstPart
  <2> QED BY <2>1, <2>3, <2>4
<1>7. SecondPart(reps, c) = SubSeq(reps, h + 1, N)
  <2>1. PICK q : q = SubSeq(reps, h + 1, N)
    OBVIOUS
  <2>2. q \in Seq(Reps)
    BY <1>3, <1>5, <2>1, PartIs
  <2>3. <<>> \o q = q
    BY <2>2
  <2>4. SecondPart(reps, c) = <<>> \o q
    <3>1. ~ (c % 2 = 1)
      OBVIOUS
    <3> QED BY <1>3, <1>5, <2>1, <3>1, Zenon DEF SecondPart
  <2> QED BY <2>1, <2>3, <2>4
<1>8. PICK i \in Nat : i = After(h, m) /\ i <= n
  <2>1. After(h, m) <= n
    BY <1>4, <1>5 DEF After
  <2> QED BY <2>1, AfterIs
<1>9. After(0, m) = 0 /\ After(N, m) = n
  BY <1>3, <1>4 DEF After
<1>10. InStep(u, 0, W, m)
  <2>1. Len(sizes) = 0 => sizes = <<>>
    OBVIOUS
  <2> QED BY <1>3, <1>4, <1>9, <2>1 DEF InStep
<1>11. PICK z \in Nat : z = 0
  OBVIOUS
<1>12. /\ first \in Decoders /\ InStep(first.table, h, W, m)
       /\ first.fields = SubSeq(block, 1, i)
  <2>1. first = DecodeFull(u, SubSeq(reps, z + 1, h))
    BY <1>2, <1>6, <1>11
  <2>2. InStep(u, z, W, Len(sizes)) /\ z <= h /\ h <= Len(reps)
    BY <1>3, <1>5, <1>10, <1>11
  <2>3. /\ first \in Decoders /\ InStep(first.table, h, W, Len(sizes))
        /\ first.fields = SubSeq(block, After(z, Len(sizes)) + 1, After(h, Len(sizes)))
    BY <1>1, <1>2, <2>1, <2>2, DecodePart
  <2>4. After(z, Len(sizes)) + 1 = 1
    BY <1>3, <1>9, <1>11
  <2> QED BY <1>3, <1>8, <2>3, <2>4
<1>13. /\ InStep(second.table, N, W, m) /\ second.fields = SubSeq(block, i + 1, n)
  <2>1. second = DecodeFull(first.table, SubSeq(reps, h + 1, N))
    BY <1>2, <1>7
  <2>2. InStep(first.table, h, W, Len(sizes)) /\ h <= N /\ N <= Len(reps)
        /\ first.table \in Tables
    BY <1>3, <1>5, <1>12 DEF Decoders
  <2>3. /\ InStep(second.table, N, W, Len(sizes))
        /\ second.fields = SubSeq(block, After(h, Len(sizes)) + 1, After(N, Len(sizes)))
    BY <1>1, <1>2, <2>1, <2>2, DecodePart
  <2> QED BY <1>3, <1>8, <1>9, <2>3
<1>14. Follows(second.table, e.table) /\ e.table.max <= second.table.max
  BY <1>1, <1>3, <1>4, <1>9, <1>13 DEF InStep
<1>15. ASSUME NEW headers \in HeaderMaps
       PROVE  StoreFields(StoreFields(headers, first.fields), second.fields)
                 = StoreFields(headers, block)
  BY <1>3, <1>8, <1>12, <1>13, StoreParts
<1>16. c = 2 * Len(e.reps) => first.fields = block
  <2> SUFFICES ASSUME c = 2 * Len(e.reps) PROVE first.fields = block
    OBVIOUS
  <2>1. h = N
    BY <1>2, <1>3, <1>5
  <2>2. i = n
    BY <1>8, <1>9, <2>1
  <2>3. SubSeq(block, 1, Len(block)) = block
    OBVIOUS
  <2> QED BY <1>3, <1>12, <2>2, <2>3
<1> QED BY <1>14, <1>15, <1>16

\* However it is cut, the program goes on with a table, and with fields.
LEMMA BlockTypes ==
  ASSUME NEW t \in Tables, NEW u \in Tables, NEW sizes \in Seq(Nat), NEW block \in Seq(Fields),
         NEW e, e = Encode(t, sizes, block),
         NEW c \in Nat, c <= 2 * Len(e.reps),
         NEW first, first = DecodeFull(u, FirstPart(e.reps, c)),
         NEW second, second = DecodeFull(first.table, SecondPart(e.reps, c))
  PROVE  first \in Decoders /\ second \in Decoders /\ e \in Encoders
<1>1. e \in Encoders
  BY EncodeType
<1>2. PICK reps \in Seq(Reps) : reps = e.reps
  BY <1>1 DEF Encoders
<1>3. PICK N \in Nat : N = Len(reps)
  OBVIOUS
<1>4. PICK h \in Nat, k \in Nat : c \div 2 = h /\ (c + 1) \div 2 = k /\ h <= N /\ k <= N
  <2>1. c <= 2 * N
    BY <1>2, <1>3
  <2> QED BY <2>1
<1>5. PICK half \in Seq(Reps) : half = IF c % 2 = 1 THEN <<Half>> ELSE <<>>
  <2>1. Half \in Reps
    BY DEF Half, Rep, Reps
  <2>2. <<Half>> \in Seq(Reps)
    BY <2>1
  <2>3. <<>> \in Seq(Reps)
    OBVIOUS
  <2> QED BY <2>2, <2>3
<1>6. FirstPart(reps, c) \in Seq(Reps)
  <2>1. SubSeq(reps, 1, h) \in Seq(Reps)
    BY <1>3, <1>4
  <2> QED BY <1>4, <1>5, <2>1 DEF FirstPart
<1>7. SecondPart(reps, c) \in Seq(Reps)
  <2>1. SubSeq(reps, k + 1, N) \in Seq(Reps)
    BY <1>3, <1>4, PartIs
  <2> QED BY <1>3, <1>4, <1>5, <2>1 DEF SecondPart
<1>8. first \in Decoders
  BY <1>2, <1>6, DecodeType
<1>9. second \in Decoders
  <2>1. first.table \in Tables
    BY <1>8 DEF Decoders
  <2> QED BY <1>2, <1>7, <2>1, DecodeType
<1> QED BY <1>1, <1>8, <1>9

-----------------------------------------------------------------------------
(* The invariant.                                                          *)

Slots == [Directions -> [headers : HeaderMaps, body : Seq(Nat)]]

Stages == {<<"headers", "in">>, <<"data", "in">>, <<"headers", "out">>, <<"data", "out">>,
           <<"trailers", "out">>, Panicked}

Types ==
    /\ enc \in [Directions -> Tables] /\ dec \in [Directions -> Tables]
    /\ owed \in [Directions -> Seq(Nat)]
    /\ stage \in Stages /\ rest \in Seq(Nat)
    /\ item \in Slots /\ message \in Slots /\ sent \in Slots
    /\ unusual \in 0 .. MaxUnusual
    /\ upset \in SUBSET Directions /\ split \in SUBSET Directions /\ soiled \in BOOLEAN

\* The program's tables follow the senders', and are no smaller once the
\* senders have told what they owe.
TablesInv ==
    \A d \in Directions :
       /\ Len(owed[d]) <= unusual /\ Owes(enc[d], owed[d])
       /\ d \notin upset => /\ Follows(dec[d], enc[d])
                            /\ owed[d] = <<>> => enc[d].max <= dec[d].max

\* The slot has the headers that were sent in the call, until it is reset.
HeadersInv ==
    \A d \in Directions \ upset : d = "in" \/ ~ soiled =>
       /\ BetweenCalls => item[d].headers = <<>> /\ message[d].headers = sent[d].headers
       /\ ~ BetweenCalls /\ stage # Panicked => item[d].headers = sent[d].headers

\* None of the five bytes before a message is in a body.
Clean(body) == \A k \in 1 .. Len(body) : body[k] > 5

\* The stages of a call in which the body of direction d is there.
WithBody(d) == IF d = "in"
               THEN {<<"headers", "out">>, <<"data", "out">>, <<"trailers", "out">>}
               ELSE {<<"headers", "out">>, <<"trailers", "out">>}

\* A body is empty until its message is handled, whole if that is in one frame,
\* and then the one that was sent.
BodiesInv ==
    /\ \A d \in Directions :
          /\ Clean(sent[d].body)
          /\ BetweenCalls => item[d].body = <<>>
    /\ stage \in {<<"data", "in">>, <<"headers", "out">>}
          => item["out"].body = <<>> /\ sent["out"].body = <<>>
    /\ \A d \in Directions \ split :
          /\ Clean(item[d].body)
          /\ BetweenCalls => message[d].body = sent[d].body
          /\ stage \in WithBody(d) => item[d].body = sent[d].body
          /\ stage = <<"data", d>> => /\ item[d].body = <<>> /\ Len(rest) >= 5
                                      /\ sent[d].body = SubSeq(rest, 6, Len(rest))

IndInv == Types /\ TablesInv /\ HeadersInv /\ BodiesInv

LEMMA EmptyFacts ==
  /\ EmptySlot \in Slots
  /\ \A d \in Directions : EmptySlot[d].headers = <<>> /\ EmptySlot[d].body = <<>>
<1>1. <<>> \in HeaderMaps
  <2>1. {} \in SUBSET {NameOf[f] : f \in Fields}
    OBVIOUS
  <2>2. <<>> \in [{} -> Fields]
    <3>1. <<>> \in [1 .. 0 -> Fields]
      OBVIOUS
    <3>2. 1 .. 0 = {}
      OBVIOUS
    <3> QED BY <3>1, <3>2
  <2> QED BY <2>1, <2>2 DEF HeaderMaps
<1>2. <<>> \in Seq(Nat)
  OBVIOUS
<1> QED BY <1>1, <1>2 DEF EmptySlot, EmptyItem, Slots

\* The slot p is s with fields stored among the headers of d.
StoredAs(p, s, d, fields) ==
    /\ \A e \in Directions : /\ p[e].body = s[e].body
                             /\ e # d => p[e].headers = s[e].headers
    /\ p[d].headers = StoreFields(s[d].headers, fields)

LEMMA StoredInIs ==
  ASSUME NEW slot \in Slots, NEW d \in Directions, NEW fields \in Seq(Fields)
  PROVE  /\ StoredIn(slot, d, fields) \in Slots
         /\ StoredAs(StoredIn(slot, d, fields), slot, d, fields)
<1>1. slot[d].headers \in HeaderMaps
  BY DEF Slots
<1>2. PICK h \in HeaderMaps : h = StoreFields(slot[d].headers, fields)
  BY <1>1, StoreType
<1>3. StoredIn(slot, d, fields) = [slot EXCEPT ![d].headers = h]
  BY <1>2 DEF StoredIn
<1>4. PICK p : p = [slot EXCEPT ![d].headers = h]
  OBVIOUS
<1>5. \A e \in Directions : slot[e] \in [headers : HeaderMaps, body : Seq(Nat)]
  BY DEF Slots
<1>6. p = [e \in Directions |-> IF e = d THEN [slot[e] EXCEPT !.headers = h] ELSE slot[e]]
  BY <1>4 DEF Slots
<1>7. p[d] = [headers |-> h, body |-> slot[d].body]
  BY <1>5, <1>6
<1>8. p \in Slots
  BY <1>5, <1>6, <1>7 DEF Slots
<1>9. ASSUME NEW e \in Directions
      PROVE  /\ p[e].body = slot[e].body
             /\ p[e].headers = IF e = d THEN h ELSE slot[e].headers
  BY <1>6, <1>7
<1> QED BY <1>2, <1>3, <1>4, <1>8, <1>9 DEF StoredAs

-----------------------------------------------------------------------------
(* Header blocks.                                                          *)

\* What Block makes of the slot, with the fields x of the HEADERS frame and y of
\* the CONTINUATION frame.
Stored(d, block, ends, x, y, whole) ==
    LET stored == StoredIn(item, d, x)
        left   == IF ends THEN EmptySlot ELSE stored
    IN  /\ item' = IF whole THEN left ELSE StoredIn(left, d, y)
        /\ message' = IF ends THEN stored ELSE EmptySlot
        /\ soiled' = (soiled \/ (ends /\ ~ whole))
        /\ d \notin upset' =>
              /\ \A h \in HeaderMaps : StoreFields(StoreFields(h, x), y) = StoreFields(h, block)
              /\ whole => x = block

\* The types of what a block changes, except the slot.
BlockTyped == /\ enc' \in [Directions -> Tables] /\ dec' \in [Directions -> Tables]
              /\ owed' \in [Directions -> Seq(Nat)]
              /\ unusual' \in 0 .. MaxUnusual
              /\ upset \subseteq upset' /\ upset' \in SUBSET Directions /\ soiled' \in BOOLEAN

LEMMA CountIs ==
  ASSUME unusual \in 0 .. MaxUnusual, NEW isUnusual \in BOOLEAN, Count(isUnusual)
  PROVE  /\ unusual' \in 0 .. MaxUnusual /\ unusual <= unusual'
         /\ isUnusual => unusual' = unusual + 1
  BY DecodingAssumption DEF Count

LEMMA BlockStep ==
  ASSUME Types, TablesInv, NEW d \in Directions, NEW block \in Seq(Fields),
         NEW ends \in BOOLEAN, Block(d, block, ends)
  PROVE  /\ BlockTyped /\ TablesInv'
         /\ \E x \in Seq(Fields), y \in Seq(Fields), whole \in BOOLEAN :
               Stored(d, block, ends, x, y, whole)
<1>1. PICK t \in Tables, u \in Tables, sizes \in Seq(Nat) :
         t = enc[d] /\ u = dec[d] /\ sizes = owed[d]
  BY DEF Types
<1>2. PICK e \in Encoders : e = Encode(t, sizes, block)
  BY EncodeType
<1>3. PICK c \in Cuts(e.reps) :
        LET whole  == c = 2 * Len(e.reps)
            first  == DecodeFull(u, FirstPart(e.reps, c))
            second == DecodeFull(first.table, SecondPart(e.reps, c))
            stored == StoredIn(item, d, first.fields)
            left   == IF ends THEN EmptySlot ELSE stored
        IN  /\ Count(~ whole)
            /\ enc' = [enc EXCEPT ![d] = e.table]
            /\ owed' = [owed EXCEPT ![d] = <<>>]
            /\ dec' = [dec EXCEPT ![d] = second.table]
            /\ item' = IF whole THEN left ELSE StoredIn(left, d, second.fields)
            /\ message' = IF ends THEN stored ELSE EmptySlot
            /\ upset' = IF c % 2 = 1 THEN upset \cup {d} ELSE upset
            /\ soiled' = (soiled \/ (ends /\ ~ whole))
  BY <1>1, <1>2, Zenon DEF Block, ParserOf, Continued
<1>4. PICK first, second : /\ first = DecodeFull(u, FirstPart(e.reps, c))
                           /\ second = DecodeFull(first.table, SecondPart(e.reps, c))
  OBVIOUS
<1>5. PICK whole \in BOOLEAN : whole = (c = 2 * Len(e.reps))
  OBVIOUS
<1>6. /\ Count(~ whole)
      /\ enc' = [enc EXCEPT ![d] = e.table]
      /\ owed' = [owed EXCEPT ![d] = <<>>]
      /\ dec' = [dec EXCEPT ![d] = second.table]
      /\ item' = IF whole THEN IF ends THEN EmptySlot ELSE StoredIn(item, d, first.fields)
                 ELSE StoredIn(IF ends THEN EmptySlot ELSE StoredIn(item, d, first.fields),
                               d, second.fields)
      /\ message' = IF ends THEN StoredIn(item, d, first.fields) ELSE EmptySlot
      /\ upset' = IF c % 2 = 1 THEN upset \cup {d} ELSE upset
      /\ soiled' = (soiled \/ (ends /\ ~ whole))
  BY <1>3, <1>4, <1>5, Zenon
<1>7. c \in Nat /\ c <= 2 * Len(e.reps)
  <2>1. Len(e.reps) \in Nat
    BY DEF Encoders
  <2> QED BY <2>1 DEF Cuts
<1>8. /\ first \in Decoders /\ second \in Decoders /\ e.table \in Tables
      /\ first.fields \in Seq(Fields) /\ second.fields \in Seq(Fields)
      /\ second.table \in Tables
  <2>1. first \in Decoders /\ second \in Decoders
    BY <1>2, <1>4, <1>7, BlockTypes
  <2> QED BY <2>1 DEF Decoders, Encoders
<1>9. /\ unusual' \in 0 .. MaxUnusual /\ unusual <= unusual'
  BY <1>6, CountIs DEF Types
<1>10. upset \subseteq upset' /\ upset' \in SUBSET Directions
  BY <1>6 DEF Types
<1>11. BlockTyped
  <2>1. <<>> \in Seq(Nat)
    OBVIOUS
  <2> QED BY <1>6, <1>8, <1>9, <1>10, <2>1 DEF Types, BlockTyped
<1>12. d \notin upset' =>
          /\ Follows(second.table, e.table) /\ e.table.max <= second.table.max
          /\ \A h \in HeaderMaps : StoreFields(StoreFields(h, first.fields), second.fields)
                                      = StoreFields(h, block)
          /\ whole => first.fields = block
  <2> SUFFICES ASSUME d \notin upset'
               PROVE  /\ Follows(second.table, e.table) /\ e.table.max <= second.table.max
                      /\ \A h \in HeaderMaps :
                            StoreFields(StoreFields(h, first.fields), second.fields)
                               = StoreFields(h, block)
                      /\ whole => first.fields = block
    OBVIOUS
  <2>1. c % 2 = 0
    <3>1. ~ (c % 2 = 1)
      BY <1>6
    <3> QED BY <1>7, <3>1
  <2>2. Owes(t, sizes) /\ Follows(u, t) /\ (sizes = <<>> => t.max <= u.max)
    BY <1>1, <1>10 DEF TablesInv
  <2>3. /\ Follows(second.table, e.table) /\ e.table.max <= second.table.max
        /\ \A h \in HeaderMaps : StoreFields(StoreFields(h, first.fields), second.fields)
                                    = StoreFields(h, block)
        /\ c = 2 * Len(e.reps) => first.fields = block
    BY <1>2, <1>4, <1>7, <2>1, <2>2, BlockParts
  <2> QED BY <1>5, <2>3
<1>13. Stored(d, block, ends, first.fields, second.fields, whole)
  BY <1>6, <1>12, Zenon DEF Stored
<1>14. TablesInv'
  <2> SUFFICES ASSUME NEW b \in Directions
               PROVE  /\ Len(owed'[b]) <= unusual' /\ Owes(enc'[b], owed'[b])
                      /\ b \notin upset' => /\ Follows(dec'[b], enc'[b])
                                            /\ owed'[b] = <<>> => enc'[b].max <= dec'[b].max
    BY DEF TablesInv
  <2>1. CASE b = d
    <3>1. enc'[b] = e.table /\ dec'[b] = second.table /\ owed'[b] = <<>>
      BY <1>6, <2>1 DEF Types
    <3>2. Len(<<>>) = 0
      OBVIOUS
    <3> QED BY <1>9, <1>12, <2>1, <3>1, <3>2 DEF Owes
  <2>2. CASE b # d
    <3>1. enc'[b] = enc[b] /\ dec'[b] = dec[b] /\ owed'[b] = owed[b]
      BY <1>6, <2>2 DEF Types
    <3>2. Len(owed[b]) \in Nat
      BY DEF Types
    <3> QED BY <1>9, <1>10, <3>1, <3>2 DEF TablesInv, Types
  <2> QED BY <2>1, <2>2
<1> QED BY <1>8, <1>11, <1>13, <1>14

\* A block that does not end the call leaves the slot with its fields,
Opened(d, block) ==
    /\ item' \in Slots /\ message' = EmptySlot /\ soiled' = soiled
    /\ \A e \in Directions :
          /\ item'[e].body = item[e].body
          /\ e # d => item'[e].headers = item[e].headers
    /\ d \notin upset' => item'[d].headers = StoreFields(item[d].headers, block)

LEMMA BlockOpens ==
  ASSUME Types, TablesInv, NEW d \in Directions, NEW block \in Seq(Fields),
         Block(d, block, FALSE)
  PROVE  BlockTyped /\ TablesInv' /\ Opened(d, block)
<1>1. FALSE \in BOOLEAN
  OBVIOUS
<1>2. /\ BlockTyped /\ TablesInv'
      /\ \E x \in Seq(Fields), y \in Seq(Fields), whole \in BOOLEAN :
            Stored(d, block, FALSE, x, y, whole)
  BY <1>1, BlockStep
<1>3. PICK x \in Seq(Fields), y \in Seq(Fields), whole \in BOOLEAN :
         Stored(d, block, FALSE, x, y, whole)
  BY <1>2
<1>4. PICK s \in Slots : s = item
  BY DEF Types
<1>5. PICK h \in HeaderMaps : h = s[d].headers
  BY DEF Slots
<1>6. PICK p \in Slots : p = StoredIn(s, d, x)
  BY StoredInIs
<1>7. PICK q \in Slots : q = StoredIn(p, d, y)
  BY StoredInIs
<1>8. /\ item' = IF whole THEN p ELSE q
      /\ message' = EmptySlot /\ soiled' = soiled
      /\ d \notin upset' => /\ StoreFields(StoreFields(h, x), y) = StoreFields(h, block)
                            /\ whole => x = block
  BY <1>3, <1>4, <1>5, <1>6, <1>7 DEF Stored, Types
<1>9. /\ \A e \in Directions : /\ p[e].body = s[e].body
                               /\ e # d => p[e].headers = s[e].headers
      /\ p[d].headers = StoreFields(h, x)
  <2>1. StoredAs(p, s, d, x)
    BY <1>6, StoredInIs
  <2> QED BY <1>5, <2>1 DEF StoredAs
<1>10. /\ \A e \in Directions : /\ q[e].body = p[e].body
                                /\ e # d => q[e].headers = p[e].headers
       /\ q[d].headers = StoreFields(p[d].headers, y)
  <2>1. StoredAs(q, p, d, y)
    BY <1>7, StoredInIs
  <2> QED BY <2>1 DEF StoredAs
<1>11. CASE whole
  BY <1>4, <1>5, <1>8, <1>9, <1>11, <1>2 DEF Opened
<1>12. CASE ~ whole
  BY <1>4, <1>5, <1>8, <1>9, <1>10, <1>12, <1>2 DEF Opened
<1> QED BY <1>11, <1>12

\* and one that ends it hands the slot over, and leaves it empty but for what
\* comes after the end.
Closed(d, block) ==
    /\ item' \in Slots /\ message' \in Slots /\ (soiled => soiled')
    /\ \A e \in Directions :
          /\ item'[e].body = <<>> /\ message'[e].body = item[e].body
          /\ e # d => item'[e].headers = <<>> /\ message'[e].headers = item[e].headers
    /\ ~ soiled' => /\ item'[d].headers = <<>>
                    /\ d \notin upset' => message'[d].headers = StoreFields(item[d].headers, block)

LEMMA BlockCloses ==
  ASSUME Types, TablesInv, NEW d \in Directions, NEW block \in Seq(Fields),
         Block(d, block, TRUE)
  PROVE  BlockTyped /\ TablesInv' /\ Closed(d, block)
<1>1. TRUE \in BOOLEAN
  OBVIOUS
<1>2. /\ BlockTyped /\ TablesInv'
      /\ \E x \in Seq(Fields), y \in Seq(Fields), whole \in BOOLEAN :
            Stored(d, block, TRUE, x, y, whole)
  BY <1>1, BlockStep
<1>3. PICK x \in Seq(Fields), y \in Seq(Fields), whole \in BOOLEAN :
         Stored(d, block, TRUE, x, y, whole)
  BY <1>2
<1>4. PICK s \in Slots : s = item
  BY DEF Types
<1>5. PICK p \in Slots : p = StoredIn(s, d, x)
  BY StoredInIs
<1>6. PICK z \in Slots : /\ z = EmptySlot
                         /\ \A e \in Directions : z[e].headers = <<>> /\ z[e].body = <<>>
  BY EmptyFacts
<1>7. PICK q \in Slots : q = StoredIn(z, d, y)
  BY StoredInIs
<1>8. /\ item' = IF whole THEN z ELSE q
      /\ message' = p
      /\ soiled' = (soiled \/ ~ whole)
      /\ d \notin upset' /\ whole => x = block
  BY <1>3, <1>4, <1>5, <1>6, <1>7, Zenon DEF Stored
<1>9. /\ \A e \in Directions : /\ p[e].body = s[e].body
                               /\ e # d => p[e].headers = s[e].headers
      /\ p[d].headers = StoreFields(s[d].headers, x)
  <2>1. StoredAs(p, s, d, x)
    BY <1>5, StoredInIs
  <2> QED BY <2>1 DEF StoredAs
<1>10. \A e \in Directions : /\ q[e].body = z[e].body
                             /\ e # d => q[e].headers = z[e].headers
  <2>1. StoredAs(q, z, d, y)
    BY <1>7, StoredInIs
  <2> QED BY <2>1 DEF StoredAs
<1>11. (soiled => soiled') /\ (~ soiled' => whole)
  BY <1>8, Zenon
<1>12. /\ item' \in Slots /\ message' \in Slots
       /\ \A e \in Directions :
             /\ item'[e].body = <<>> /\ message'[e].body = item[e].body
             /\ e # d => item'[e].headers = <<>> /\ message'[e].headers = item[e].headers
  BY <1>4, <1>6, <1>8, <1>9, <1>10
<1>13. whole => item'[d].headers = <<>>
  BY <1>6, <1>8
<1>14. whole /\ d \notin upset' => message'[d].headers = StoreFields(item[d].headers, block)
  BY <1>4, <1>8, <1>9
<1> QED BY <1>2, <1>11, <1>12, <1>13, <1>14, Zenon DEF Closed

-----------------------------------------------------------------------------
(* The steps.                                                              *)

\* The stages of a call are different.
LEMMA StageFacts ==
  /\ <<"headers", "in">> # <<"data", "in">> /\ <<"headers", "in">> # <<"headers", "out">>
  /\ <<"headers", "in">> # <<"data", "out">> /\ <<"headers", "in">> # <<"trailers", "out">>
  /\ <<"headers", "in">> # Panicked /\ <<"data", "in">> # <<"headers", "out">>
  /\ <<"data", "in">> # <<"data", "out">> /\ <<"data", "in">> # <<"trailers", "out">>
  /\ <<"data", "in">> # Panicked /\ <<"headers", "out">> # <<"data", "out">>
  /\ <<"headers", "out">> # <<"trailers", "out">> /\ <<"headers", "out">> # Panicked
  /\ <<"data", "out">> # <<"trailers", "out">> /\ <<"data", "out">> # Panicked
  /\ <<"trailers", "out">> # Panicked
  BY DEF Panicked

\* A message is five bytes of prefix, and then the body.
LEMMA MessageIs ==
  ASSUME NEW n \in Nat
  PROVE  /\ FivePlus(n) \in Seq(Nat) /\ Len(FivePlus(n)) = 5 + n
         /\ SubSeq(FivePlus(n), 6, 5 + n) \in Seq(Nat)
         /\ Clean(SubSeq(FivePlus(n), 6, 5 + n))
<1>1. PICK m \in Nat : m = 5 + n
  OBVIOUS
<1>2. PICK s : s = [k \in 1 .. m |-> k]
  OBVIOUS
<1>3. s \in Seq(Nat) /\ Len(s) = m /\ \A k \in 1 .. m : s[k] = k
  BY <1>2
<1>4. FivePlus(n) = s
  BY <1>1, <1>2 DEF FivePlus
<1>5. PICK i \in Nat : i = 5
  OBVIOUS
<1>6. PICK b : b = SubSeq(s, i + 1, m)
  OBVIOUS
<1>7. b \in Seq(Nat) /\ Len(b) = m - i /\ \A k \in 1 .. m - i : b[k] = s[i + k]
  BY <1>1, <1>3, <1>5, <1>6, PartIs
<1>8. \A k \in 1 .. Len(b) : b[k] > 5
  BY <1>1, <1>3, <1>5, <1>7
<1>9. b = SubSeq(FivePlus(n), 6, 5 + n)
  BY <1>1, <1>4, <1>5, <1>6
<1> QED BY <1>1, <1>3, <1>4, <1>7, <1>8, <1>9 DEF Clean

\* A header block with a message to follow.
LEMMA HeadersStep ==
  ASSUME IndInv, NEW d \in Directions, NEW block \in Seq(Fields), Headers(d, block)
  PROVE  IndInv'
<1>1. Types /\ TablesInv /\ HeadersInv /\ BodiesInv
  BY DEF IndInv
<1>2. /\ stage = <<"headers", d>> /\ stage' = <<"data", d>>
      /\ Block(d, block, FALSE)
      /\ split' = IF d = "in" THEN {} ELSE split
  BY DEF Headers
<1>3. BlockTyped /\ TablesInv' /\ Opened(d, block)
  BY <1>1, <1>2, BlockOpens
<1>4. PICK n \in Nat, before \in Slots :
         /\ before = (IF d = "in" THEN EmptySlot ELSE sent)
         /\ rest' = FivePlus(n)
         /\ sent' = [StoredIn(before, d, block) EXCEPT ![d].body = SubSeq(FivePlus(n), 6, 5 + n)]
  <2>1. (IF d = "in" THEN EmptySlot ELSE sent) \in Slots
    BY <1>1, EmptyFacts DEF Types
  <2>2. PICK n \in BodyLengths :
           /\ rest' = FivePlus(n)
           /\ sent' = LET before == IF d = "in" THEN EmptySlot ELSE sent
                      IN  [StoredIn(before, d, block) EXCEPT
                              ![d].body = SubSeq(FivePlus(n), 6, 5 + n)]
    BY DEF Headers
  <2>3. n \in Nat
    BY DecodingAssumption
  <2> QED BY <2>1, <2>2, <2>3
<1>5. PICK b : b = SubSeq(FivePlus(n), 6, 5 + n)
  OBVIOUS
<1>6. b \in Seq(Nat) /\ Clean(b) /\ rest' \in Seq(Nat) /\ Len(rest') = 5 + n
      /\ b = SubSeq(rest', 6, Len(rest'))
  BY <1>4, <1>5, MessageIs
<1>7. PICK q \in Slots : q = StoredIn(before, d, block) /\ StoredAs(q, before, d, block)
  BY StoredInIs
<1>8. /\ sent' \in Slots /\ sent'[d].body = b
      /\ sent'[d].headers = StoreFields(before[d].headers, block)
      /\ \A e \in Directions : e # d => /\ sent'[e].body = before[e].body
                                        /\ sent'[e].headers = before[e].headers
  <2>1. sent' = [q EXCEPT ![d].body = b]
    BY <1>4, <1>5, <1>7
  <2>2. \A e \in Directions : q[e] \in [headers : HeaderMaps, body : Seq(Nat)]
    BY DEF Slots
  <2>3. sent' = [e \in Directions |-> IF e = d THEN [q[e] EXCEPT !.body = b] ELSE q[e]]
    BY <2>1 DEF Slots
  <2>4. sent'[d] = [headers |-> q[d].headers, body |-> b]
    BY <2>2, <2>3
  <2>5. sent' \in Slots
    BY <1>6, <2>2, <2>3, <2>4 DEF Slots
  <2>6. \A e \in Directions : e # d => sent'[e] = q[e]
    BY <2>3
  <2> QED BY <1>7, <2>4, <2>5, <2>6 DEF StoredAs
<1>9. d = "in" \/ d = "out"
  BY DEF Directions
<1>10. Types'
  <2>1. <<"data", d>> \in Stages
    BY <1>9 DEF Stages
  <2>2. EmptySlot \in Slots
    BY EmptyFacts
  <2> QED BY <1>1, <1>2, <1>3, <1>6, <1>8, <2>1, <2>2 DEF Types, BlockTyped, Opened
<1>11. HeadersInv'
  <2> SUFFICES ASSUME NEW e \in Directions, e \notin upset', e = "in" \/ ~ soiled'
               PROVE  item'[e].headers = sent'[e].headers /\ ~ BetweenCalls'
    BY DEF HeadersInv
  <2>1. e \notin upset /\ (e = "in" \/ ~ soiled)
    BY <1>3 DEF BlockTyped, Opened
  <2>2. ~ BetweenCalls'
    BY <1>2, <1>9, StageFacts DEF BetweenCalls
  <2>3. CASE d = "in"
    <3>1. BetweenCalls
      BY <1>2, <2>3 DEF BetweenCalls
    <3>2. item[e].headers = <<>> /\ before[e].headers = <<>>
      BY <1>1, <1>4, <2>1, <2>3, <3>1, EmptyFacts DEF HeadersInv
    <3> QED BY <1>3, <1>8, <2>2, <3>2 DEF Opened
  <2>4. CASE d = "out"
    <3>1. ~ BetweenCalls /\ stage # Panicked
      BY <1>2, <2>4, StageFacts DEF BetweenCalls
    <3>2. item[e].headers = sent[e].headers /\ before = sent
      BY <1>1, <1>4, <2>1, <2>4, <3>1 DEF HeadersInv
    <3> QED BY <1>3, <1>8, <2>2, <3>2 DEF Opened
  <2> QED BY <1>9, <2>3, <2>4
<1>12. BodiesInv'
  <2>1. \A e \in Directions : item'[e].body = item[e].body
    BY <1>3 DEF Opened
  <2>2. \A e \in Directions : Clean(<<>>) /\ Clean(before[e].body)
    <3>1. Clean(<<>>)
      BY DEF Clean
    <3> QED BY <1>1, <1>4, <3>1, EmptyFacts DEF BodiesInv
  <2>3. \A e \in Directions : Clean(sent'[e].body)
    BY <1>6, <1>8, <2>2
  <2>4. ~ BetweenCalls'
    BY <1>2, <1>9, StageFacts DEF BetweenCalls
  <2>5. CASE d = "in"
    <3>1. BetweenCalls
      BY <1>2, <2>5 DEF BetweenCalls
    <3>2. \A e \in Directions : item'[e].body = <<>>
      BY <1>1, <2>1, <3>1 DEF BodiesInv
    <3>3. sent'["out"].body = <<>>
      BY <1>4, <1>8, <2>5, EmptyFacts DEF Directions
    <3>4. \A e \in Directions : stage' \notin WithBody(e) /\ (stage' = <<"data", e>> => e = d)
      BY <1>2, <2>5, StageFacts DEF WithBody
    <3>5. ASSUME NEW e \in Directions, stage' = <<"data", e>>
          PROVE  /\ item'[e].body = <<>> /\ Len(rest') >= 5
                 /\ sent'[e].body = SubSeq(rest', 6, Len(rest'))
      <4>1. e = d
        BY <3>4, <3>5
      <4>2. Len(rest') >= 5
        BY <1>6
      <4> QED BY <1>6, <1>8, <3>2, <4>1, <4>2
    <3>6. item'["out"].body = <<>>
      BY <3>2 DEF Directions
    <3>7. \A e \in Directions : Clean(item'[e].body)
      BY <2>2, <3>2
    <3> QED BY <2>3, <2>4, <3>3, <3>4, <3>5, <3>6, <3>7 DEF BodiesInv
  <2>6. CASE d = "out"
    <3>1. stage = <<"headers", "out">> /\ stage' = <<"data", "out">> /\ split' = split
          /\ before = sent
      BY <1>2, <1>4, <2>6
    <3>2. item["out"].body = <<>> /\ (\A e \in Directions \ split : Clean(item[e].body))
          /\ ("in" \notin split => item["in"].body = sent["in"].body)
      BY <1>1, <3>1 DEF BodiesInv, WithBody, Directions
    <3>3. /\ stage' \notin {<<"data", "in">>, <<"headers", "out">>}
          /\ stage' \notin WithBody("out") /\ stage' # <<"data", "in">>
      BY <3>1, StageFacts DEF WithBody
    <3>4. sent'["in"].body = sent["in"].body
      BY <1>8, <2>6, <3>1 DEF Directions
    <3>5. ASSUME NEW e \in Directions, stage' = <<"data", e>>
          PROVE  /\ item'[e].body = <<>> /\ Len(rest') >= 5
                 /\ sent'[e].body = SubSeq(rest', 6, Len(rest'))
      <4>1. e = d
        BY <2>6, <3>3, <3>5 DEF Directions
      <4>2. Len(rest') >= 5
        BY <1>6
      <4>3. item'[d].body = <<>>
        BY <2>1, <2>6, <3>2
      <4> QED BY <1>6, <1>8, <4>1, <4>2, <4>3
    <3>6. \A e \in Directions \ split' : Clean(item'[e].body)
      BY <2>1, <3>1, <3>2
    <3>7. ASSUME NEW e \in Directions \ split', stage' \in WithBody(e)
          PROVE  item'[e].body = sent'[e].body
      <4>1. e = "in" /\ "in" \notin split
        BY <3>1, <3>3, <3>7 DEF Directions
      <4> QED BY <2>1, <3>2, <3>4, <4>1 DEF Directions
    <3> QED BY <2>3, <2>4, <3>3, <3>5, <3>6, <3>7 DEF BodiesInv
  <2> QED BY <1>9, <2>5, <2>6
<1> QED BY <1>3, <1>10, <1>11, <1>12 DEF IndInv

\* The block that ends the call.
LEMMA EndOfCallStep ==
  ASSUME IndInv, NEW block \in Seq(Fields), EndOfCall(block)
  PROVE  IndInv'
<1>1. Types /\ TablesInv /\ HeadersInv /\ BodiesInv
  BY DEF IndInv
<1>2. /\ stage \in {<<"headers", "out">>, <<"trailers", "out">>}
      /\ stage' = <<"headers", "in">> /\ rest' = rest /\ split' = split
      /\ Block("out", block, TRUE) /\ sent' = StoredIn(sent, "out", block)
  BY DEF EndOfCall
<1>3. "out" \in Directions /\ "in" \in Directions /\ "in" # "out"
  BY DEF Directions
<1>4. BlockTyped /\ TablesInv' /\ Closed("out", block)
  BY <1>1, <1>2, <1>3, BlockCloses
<1>5. sent' \in Slots /\ StoredAs(sent', sent, "out", block)
  BY <1>1, <1>2, <1>3, StoredInIs DEF Types
<1>6. Types'
  <2>1. <<"headers", "in">> \in Stages
    BY DEF Stages
  <2> QED BY <1>1, <1>2, <1>4, <1>5, <2>1 DEF Types, BlockTyped, Closed
<1>7. ~ BetweenCalls /\ stage # Panicked /\ BetweenCalls'
  BY <1>2, StageFacts DEF BetweenCalls
<1>8. HeadersInv'
  <2> SUFFICES ASSUME NEW e \in Directions, e \notin upset', e = "in" \/ ~ soiled'
               PROVE  item'[e].headers = <<>> /\ message'[e].headers = sent'[e].headers
    BY <1>7 DEF HeadersInv
  <2>1. e \notin upset /\ (e = "in" \/ ~ soiled)
    BY <1>4 DEF BlockTyped, Closed
  <2>2. item[e].headers = sent[e].headers
    BY <1>1, <1>7, <2>1 DEF HeadersInv
  <2>3. CASE e = "in"
    BY <1>3, <1>4, <1>5, <2>2, <2>3 DEF Closed, StoredAs
  <2>4. CASE e = "out" /\ ~ soiled'
    BY <1>3, <1>4, <1>5, <2>2, <2>4 DEF Closed, StoredAs
  <2> QED BY <2>3, <2>4 DEF Directions
<1>9. BodiesInv'
  <2>1. \A e \in Directions : sent'[e].body = sent[e].body
    BY <1>5 DEF StoredAs
  <2>2. \A e \in Directions : item'[e].body = <<>> /\ message'[e].body = item[e].body
    BY <1>4 DEF Closed
  <2>3. Clean(<<>>)
    BY DEF Clean
  <2>4. \A e \in Directions : stage \in WithBody(e)
    BY <1>2 DEF WithBody
  <2>5. /\ stage' \notin {<<"data", "in">>, <<"headers", "out">>}
        /\ \A e \in Directions : stage' \notin WithBody(e) /\ stage' # <<"data", e>>
    BY <1>2, StageFacts DEF WithBody, Directions
  <2> QED BY <1>1, <1>2, <2>1, <2>2, <2>3, <2>4, <2>5 DEF BodiesInv
<1> QED BY <1>4, <1>6, <1>8, <1>9 DEF IndInv

\* A frame with the next k bytes of a message.
LEMMA DataStep ==
  ASSUME IndInv, NEW d \in Directions, NEW k \in 1 .. Len(rest), Data(d, k)
  PROVE  IndInv'
<1>1. Types /\ TablesInv /\ HeadersInv /\ BodiesInv
  BY DEF IndInv
<1>2. PICK s \in Seq(Nat), part \in BOOLEAN : s = rest /\ part = (k < Len(s) \/ d \in split)
  BY <1>1 DEF Types
<1>3. PICK data : data = SubSeq(s, 1, k)
  OBVIOUS
<1>4. k \in Nat /\ k >= 1 /\ k <= Len(s) /\ Len(s) \in Nat
  BY <1>2
<1>5. /\ stage = <<"data", d>> /\ Count(k < Len(s))
      /\ \/ k < 5 /\ stage' = Panicked /\ UNCHANGED <<rest, item, split>>
         \/ /\ k >= 5
            /\ \E kept \in {TRUE, ~ part} :
                 item' = IF kept THEN [item EXCEPT ![d].body = @ \o EncodedMessage(data)]
                                 ELSE item
            /\ rest' = SubSeq(s, k + 1, Len(s))
            /\ stage' = CASE k < Len(s) -> stage
                          [] k = Len(s) /\ d = "in" -> <<"headers", "out">>
                          [] k = Len(s) /\ d = "out" -> <<"trailers", "out">>
            /\ split' = IF part THEN split \cup {d} ELSE split
      /\ UNCHANGED <<enc, owed, dec, message, sent, upset, soiled>>
  BY <1>2, <1>3, Zenon DEF Data
<1>6. d = "in" \/ d = "out"
  BY DEF Directions
<1>7. unusual' \in 0 .. MaxUnusual /\ unusual <= unusual'
  <2>1. CASE k < Len(s)
    <3>1. Count(TRUE)
      BY <1>5, <2>1, Zenon DEF Count
    <3> QED BY <1>1, <3>1, CountIs DEF Types
  <2>2. CASE ~ (k < Len(s))
    <3>1. Count(FALSE)
      BY <1>5, <2>2, Zenon DEF Count
    <3> QED BY <1>1, <3>1, CountIs DEF Types
  <2> QED BY <2>1, <2>2
<1>8. TablesInv'
  BY <1>1, <1>5, <1>7 DEF TablesInv, Types
<1>9. ~ BetweenCalls /\ stage # Panicked
  BY <1>5, <1>6, StageFacts DEF BetweenCalls
<1>10. CASE k < 5
  <2>1. stage' = Panicked /\ rest' = rest /\ item' = item /\ split' = split
    BY <1>4, <1>5, <1>10
  <2>2. Types'
    BY <1>1, <1>5, <1>7, <2>1 DEF Types, Stages
  <2>3. ~ BetweenCalls'
    BY <2>1, StageFacts DEF BetweenCalls
  <2>4. HeadersInv'
    BY <2>1, <2>3 DEF HeadersInv
  <2>5. /\ stage' \notin {<<"data", "in">>, <<"headers", "out">>}
        /\ \A e \in Directions : stage' \notin WithBody(e) /\ stage' # <<"data", e>>
    BY <2>1, StageFacts DEF WithBody, Directions
  <2>6. BodiesInv'
    BY <1>1, <1>5, <2>1, <2>3, <2>5 DEF BodiesInv
  <2> QED BY <1>8, <2>2, <2>4, <2>6 DEF IndInv
<1>11. CASE k >= 5
  <2>1. PICK kept \in {TRUE, ~ part} :
           item' = IF kept THEN [item EXCEPT ![d].body = @ \o EncodedMessage(data)] ELSE item
    <3>1. ~ (k < 5)
      BY <1>4, <1>11
    <3> QED BY <1>5, <3>1, Zenon
  <2>2. /\ rest' = SubSeq(s, k + 1, Len(s))
        /\ split' = IF part THEN split \cup {d} ELSE split
    BY <1>4, <1>5, <1>11
  <2>3. k < Len(s) => stage' = stage
    BY <1>4, <1>5, <1>11
  <2>4. ~ (k < Len(s)) /\ d = "in" => stage' = <<"headers", "out">>
    BY <1>4, <1>5, <1>11
  <2>5. ~ (k < Len(s)) /\ d = "out" => stage' = <<"trailers", "out">>
    BY <1>4, <1>5, <1>11
  <2>6. data \in Seq(Nat) /\ Len(data) = k
    BY <1>3, <1>4
  <2>7. EncodedMessage(data) \in Seq(Nat)
    <3>1. PICK i \in Nat : i = 5
      OBVIOUS
    <3>2. SubSeq(data, i + 1, k) \in Seq(Nat)
      BY <1>4, <1>11, <2>6, <3>1, PartIs
    <3> QED BY <2>6, <3>1, <3>2 DEF EncodedMessage
  <2>8. PICK b \in Seq(Nat) : b = item[d].body \o EncodedMessage(data)
    <3>1. item[d].body \in Seq(Nat)
      BY <1>1 DEF Types, Slots
    <3>2. item[d].body \o EncodedMessage(data) \in Seq(Nat)
      BY <2>7, <3>1
    <3> QED BY <3>2
  <2>9. /\ item' \in Slots
        /\ \A e \in Directions : /\ item'[e].headers = item[e].headers
                                 /\ e # d => item'[e].body = item[e].body
        /\ kept => item'[d].body = b
    <3>1. CASE ~ kept
      BY <1>1, <2>1, <3>1 DEF Types
    <3>2. CASE kept
      <4>1. item' = [item EXCEPT ![d].body = b]
        BY <2>1, <2>8, <3>2
      <4>2. \A e \in Directions : item[e] \in [headers : HeaderMaps, body : Seq(Nat)]
        BY <1>1 DEF Types, Slots
      <4>3. item' = [e \in Directions |-> IF e = d THEN [item[e] EXCEPT !.body = b] ELSE item[e]]
        BY <1>1, <4>1 DEF Types, Slots
      <4>4. item'[d] = [headers |-> item[d].headers, body |-> b]
        BY <4>2, <4>3
      <4>5. \A e \in Directions : e # d => item'[e] = item[e]
        BY <4>3
      <4>6. item' \in Slots
        BY <4>2, <4>3, <4>4 DEF Slots
      <4>7. \A e \in Directions : item'[e].headers = item[e].headers
        BY <4>4, <4>5
      <4> QED BY <4>4, <4>5, <4>6, <4>7
    <3> QED BY <3>1, <3>2
  <2>10. Types'
    <3>1. rest' \in Seq(Nat)
      BY <1>4, <2>2, PartIs
    <3>2. stage' \in Stages
      BY <1>1, <1>6, <2>3, <2>4, <2>5 DEF Types, Stages
    <3>3. split' \in SUBSET Directions
      BY <1>1, <2>2 DEF Types
    <3> QED BY <1>1, <1>5, <1>7, <2>9, <3>1, <3>2, <3>3 DEF Types
  <2>11. ~ BetweenCalls' /\ stage' # Panicked
    BY <1>6, <1>9, <2>3, <2>4, <2>5, StageFacts DEF BetweenCalls
  <2>12. HeadersInv'
    BY <1>1, <1>5, <1>9, <2>9, <2>11 DEF HeadersInv
  <2>13. BodiesInv'
    <3>1. CASE d \in split'
      <4>1. d = "in" => stage' # <<"data", "out">>
        BY <1>5, <2>3, <2>4, StageFacts
      <4>2. stage' = <<"headers", "out">> => d = "in"
        BY <1>5, <1>6, <2>3, <2>5, StageFacts
      <4>3. stage' = <<"data", "in">> => d = "in"
        BY <1>5, <1>6, <2>3, <2>5, StageFacts
      <4>4. split \subseteq split'
        BY <2>2
      <4>5. d = "in" => item["out"].body = <<>> /\ sent["out"].body = <<>>
        BY <1>1, <1>5 DEF BodiesInv
      <4>6. d = "out" => stage \in WithBody("in")
        BY <1>5 DEF WithBody
      <4>7. ASSUME NEW e \in Directions \ split'
            PROVE  /\ Clean(item'[e].body)
                   /\ stage' \in WithBody(e) => item'[e].body = sent'[e].body
                   /\ stage' # <<"data", e>>
        <5>1. e # d /\ e \notin split
          BY <3>1, <4>4
        <5>2. item'[e].body = item[e].body /\ Clean(item[e].body)
          BY <1>1, <2>9, <5>1 DEF BodiesInv
        <5>3. item[e].body = sent[e].body
          <6>1. CASE d = "in"
            BY <4>5, <5>1, <6>1 DEF Directions
          <6>2. CASE d = "out"
            BY <1>1, <4>6, <5>1, <6>2 DEF Directions, BodiesInv
          <6> QED BY <1>6, <6>1, <6>2
        <5>4. stage' # <<"data", e>>
          BY <1>5, <1>6, <2>3, <2>4, <2>5, <5>1, StageFacts DEF Directions
        <5> QED BY <1>5, <5>2, <5>3, <5>4
      <4>8. d = "in" => item'["out"].body = <<>> /\ sent'["out"].body = <<>>
        BY <1>5, <2>9, <4>5 DEF Directions
      <4> QED BY <1>1, <1>5, <2>11, <4>2, <4>3, <4>7, <4>8 DEF BodiesInv
    <3>2. CASE d \notin split'
      <4>1. ~ part /\ d \notin split /\ ~ (k < Len(s)) /\ split' = split /\ kept
        BY <1>2, <2>1, <2>2, <3>2
      <4>2. k = Len(s)
        BY <1>4, <4>1
      <4>3. data = s
        BY <1>3, <4>2
      <4>4. /\ item[d].body = <<>> /\ sent[d].body = SubSeq(s, 6, Len(s))
        BY <1>1, <1>2, <1>5, <4>1 DEF BodiesInv
      <4>5. b = sent[d].body
        <5>1. b = <<>> \o sent[d].body
          BY <2>8, <4>3, <4>4 DEF EncodedMessage
        <5>2. sent[d].body \in Seq(Nat)
          BY <1>1 DEF Types, Slots
        <5> QED BY <5>1, <5>2
      <4>6. item'[d].body = sent[d].body
        BY <2>9, <4>1, <4>5
      <4>7. \A e \in Directions : Clean(sent[e].body)
        BY <1>1 DEF BodiesInv
      <4>8. CASE d = "in"
        <5>1. stage' = <<"headers", "out">>
          BY <2>4, <4>1, <4>8
        <5>2. item["out"].body = <<>> /\ sent["out"].body = <<>>
          BY <1>1, <1>5, <4>8 DEF BodiesInv
        <5>3. \A e \in Directions : item'[e].body = sent[e].body
          BY <2>9, <4>6, <4>8, <5>2 DEF Directions
        <5>4. \A e \in Directions : stage' # <<"data", e>>
          BY <5>1, StageFacts DEF Directions
        <5>5. item'["out"].body = <<>>
          BY <5>2, <5>3 DEF Directions
        <5> QED BY <1>5, <2>11, <4>7, <5>2, <5>3, <5>4, <5>5 DEF BodiesInv
      <4>9. CASE d = "out"
        <5>1. stage' = <<"trailers", "out">>
          BY <2>5, <4>1, <4>9
        <5>2. "in" \notin split => item["in"].body = sent["in"].body
          <6>1. stage \in WithBody("in")
            BY <1>5, <4>9 DEF WithBody
          <6> QED BY <1>1, <6>1 DEF BodiesInv, Directions
        <5>3. \A e \in Directions \ split : item'[e].body = sent[e].body
          BY <2>9, <4>6, <4>9, <5>2 DEF Directions
        <5>4. /\ stage' \notin {<<"data", "in">>, <<"headers", "out">>}
              /\ \A e \in Directions : stage' # <<"data", e>>
          BY <5>1, StageFacts DEF Directions
        <5> QED BY <1>5, <2>11, <4>1, <4>7, <5>3, <5>4 DEF BodiesInv
      <4> QED BY <1>6, <4>8, <4>9
    <3> QED BY <3>1, <3>2
  <2> QED BY <1>8, <2>10, <2>12, <2>13 DEF IndInv
<1> QED BY <1>4, <1>10, <1>11

\* SETTINGS, sent in direction d.
LEMMA SettingsStep ==
  ASSUME IndInv, NEW d \in Directions, NEW v \in Announced, Settings(d, v)
  PROVE  IndInv'
<1>1. Types /\ TablesInv /\ HeadersInv /\ BodiesInv
  BY DEF IndInv
<1>2. PICK o \in Directions : o = Other(d) /\ o # d
  BY DEF Other, Directions
<1>3. v \in Nat
  BY DecodingAssumption
<1>4. PICK n \in Nat : n = (IF v < TableSize THEN v ELSE TableSize)
  BY <1>3, DecodingAssumption
<1>5. PICK t \in Tables, u \in Tables, w \in Tables, sizes \in Seq(Nat) :
         t = enc[o] /\ u = dec[o] /\ w = dec[d] /\ sizes = owed[o]
  BY <1>1 DEF Types
<1>6. PICK r : r = Resize(t, n)
  OBVIOUS
<1>7. PICK z : z = Resize(w, v)
  OBVIOUS
<1>8. PICK more : more = Append(sizes, n)
  OBVIOUS
<1>9. /\ stage # Panicked /\ Count(TRUE)
      /\ enc' = [enc EXCEPT ![o] = r] /\ owed' = [owed EXCEPT ![o] = more]
      /\ dec' = [dec EXCEPT ![d] = z]
      /\ upset' = IF v < enc[d].max THEN upset \cup {d} ELSE upset
      /\ UNCHANGED <<stage, rest, item, message, sent, split, soiled>>
  BY <1>2, <1>4, <1>5, <1>6, <1>7, <1>8 DEF Settings, TakeUp, ParserOf
<1>10. unusual' \in 0 .. MaxUnusual /\ unusual' = unusual + 1
  BY <1>1, <1>9, CountIs DEF Types
<1>11. /\ more \in Seq(Nat) /\ Len(more) = Len(sizes) + 1 /\ more[Len(sizes) + 1] = n
       /\ \A k \in 1 .. Len(sizes) : more[k] = sizes[k]
  BY <1>8, LongerIs
<1>12. /\ r \in Tables /\ r.max = n
       /\ Len(r.fields) = IF n < Len(t.fields) THEN n ELSE Len(t.fields)
  BY <1>6, ResizeIs
<1>13. z \in Tables /\ z.max = v
  BY <1>3, <1>7, ResizeIs
<1>14. upset \subseteq upset' /\ upset' \in SUBSET Directions
  BY <1>1, <1>9 DEF Types
<1>15. Types'
  BY <1>1, <1>9, <1>10, <1>11, <1>12, <1>13, <1>14 DEF Types
<1>16. HeadersInv' /\ BodiesInv'
  BY <1>1, <1>9, <1>14 DEF HeadersInv, BodiesInv, BetweenCalls
<1>17. TablesInv'
  <2> SUFFICES ASSUME NEW b \in Directions
               PROVE  /\ Len(owed'[b]) <= unusual' /\ Owes(enc'[b], owed'[b])
                      /\ b \notin upset' => /\ Follows(dec'[b], enc'[b])
                                            /\ owed'[b] = <<>> => enc'[b].max <= dec'[b].max
    BY DEF TablesInv
  <2>1. /\ Len(owed[b]) <= unusual /\ Owes(enc[b], owed[b])
        /\ b \notin upset => /\ Follows(dec[b], enc[b])
                             /\ owed[b] = <<>> => enc[b].max <= dec[b].max
    BY <1>1 DEF TablesInv
  <2>2. Len(owed[b]) \in Nat /\ unusual \in Nat
    BY <1>1 DEF Types
  <2>3. CASE b = o
    <3>1. enc'[b] = r /\ owed'[b] = more /\ dec'[b] = u
      BY <1>1, <1>2, <1>5, <1>9, <2>3 DEF Types
    <3>2. Len(more) <= unusual'
      BY <1>5, <1>10, <1>11, <2>1, <2>2, <2>3
    <3>3. Owes(r, more)
      <4> SUFFICES ASSUME NEW k \in 1 .. Len(more)
                   PROVE  Len(r.fields) <= more[k] /\ (k = Len(more) => more[k] = r.max)
        BY DEF Owes
      <4>1. Len(t.fields) \in Nat /\ Len(sizes) \in Nat
        BY FollowsIs
      <4>2. CASE k = Len(more)
        BY <1>11, <1>12, <4>1, <4>2
      <4>3. CASE k # Len(more)
        <5>1. k \in 1 .. Len(sizes) /\ sizes[k] \in Nat
          BY <1>11, <4>1, <4>3
        <5>2. Len(t.fields) <= sizes[k]
          BY <1>5, <2>1, <2>3, <5>1 DEF Owes
        <5> QED BY <1>11, <1>12, <4>1, <4>3, <5>1, <5>2
      <4> QED BY <4>2, <4>3
    <3>4. b \notin upset' => Follows(u, r)
      BY <1>5, <1>6, <1>14, <2>1, <2>3, FollowsResized
    <3>5. more # <<>>
      BY <1>11
    <3> QED BY <3>1, <3>2, <3>3, <3>4, <3>5
  <2>4. CASE b = d
    <3>1. enc'[b] = enc[b] /\ owed'[b] = owed[b] /\ dec'[b] = z
      BY <1>1, <1>2, <1>9, <2>4 DEF Types
    <3>2. PICK e \in Tables : e = enc[b]
      BY <1>1 DEF Types
    <3>3. Len(e.fields) \in Nat /\ e.max \in Nat /\ Len(e.fields) <= e.max
      BY FollowsIs
    <3>4. b \notin upset' => e.max <= v
      BY <1>3, <1>9, <2>4, <3>2, <3>3
    <3>5. b \notin upset' => Follows(z, e)
      BY <1>3, <1>5, <1>7, <1>14, <2>1, <2>4, <3>2, <3>3, <3>4, FollowsResized
    <3> QED BY <1>10, <1>13, <2>1, <2>2, <3>1, <3>2, <3>4, <3>5
  <2> QED BY <1>2, <2>3, <2>4 DEF Directions
<1> QED BY <1>15, <1>16, <1>17 DEF IndInv

-----------------------------------------------------------------------------
(* The theorems.                                                           *)

LEMMA InitInv == Init => IndInv
<1> SUFFICES ASSUME Init PROVE IndInv
  OBVIOUS
<1>1. PICK t \in Tables : /\ t = Table(<<>>, TableSize) /\ t.fields = <<>>
                          /\ t.max = TableSize
  <2>1. PICK x : x = <<>>
    OBVIOUS
  <2>2. x \in Seq(Fields) /\ Len(x) = 0
    BY <2>1
  <2>3. PICK t : t = [fields |-> x, max |-> TableSize]
    OBVIOUS
  <2>4. t \in Tables
    BY <2>2, <2>3, DecodingAssumption DEF Tables
  <2> QED BY <2>1, <2>3, <2>4 DEF Table
<1>2. /\ enc = [d \in Directions |-> t] /\ dec = [d \in Directions |-> t]
      /\ owed = [d \in Directions |-> <<>>] /\ stage = <<"headers", "in">> /\ rest = <<>>
      /\ item = EmptySlot /\ message = EmptySlot /\ sent = EmptySlot
      /\ unusual = 0 /\ upset = {} /\ split = {} /\ soiled = FALSE
  BY <1>1 DEF Init
<1>3. Types
  <2>1. <<>> \in Seq(Nat)
    OBVIOUS
  <2>2. owed \in [Directions -> Seq(Nat)] /\ rest \in Seq(Nat)
    BY <1>2, <2>1
  <2>3. unusual \in 0 .. MaxUnusual
    BY <1>2, DecodingAssumption
  <2>4. stage \in Stages
    BY <1>2 DEF Stages
  <2>5. item \in Slots /\ message \in Slots /\ sent \in Slots
    BY <1>2, EmptyFacts
  <2>6. enc \in [Directions -> Tables] /\ dec \in [Directions -> Tables]
    BY <1>2
  <2>7. upset \in SUBSET Directions /\ split \in SUBSET Directions /\ soiled \in BOOLEAN
    BY <1>2
  <2> QED BY <2>2, <2>3, <2>4, <2>5, <2>6, <2>7 DEF Types
<1>4. TablesInv
  <2>1. Len(<<>>) = 0
    OBVIOUS
  <2>2. Owes(t, <<>>)
    BY <2>1 DEF Owes
  <2>3. Follows(t, t) /\ t.max <= t.max
    BY FollowsIs
  <2> QED BY <1>2, <2>1, <2>2, <2>3 DEF TablesInv
<1>5. HeadersInv
  BY <1>2, EmptyFacts, StageFacts DEF HeadersInv, BetweenCalls
<1>6. BodiesInv
  <2>1. Clean(<<>>)
    BY DEF Clean
  <2> QED BY <1>2, <2>1, EmptyFacts, StageFacts DEF BodiesInv, WithBody, Directions
<1> QED BY <1>3, <1>4, <1>5, <1>6 DEF IndInv

LEMMA NextInv == IndInv /\ [Next]_vars => IndInv'
<1> SUFFICES ASSUME IndInv, [Next]_vars PROVE IndInv'
  OBVIOUS
<1>1. "in" \in Directions /\ "out" \in Directions
  BY DEF Directions
<1>2. ASSUME NEW block \in Requests, Headers("in", block) PROVE IndInv'
  <2>1. block \in Seq(Fields)
    BY DecodingAssumption
  <2> QED BY <1>1, <1>2, <2>1, HeadersStep
<1>3. ASSUME NEW block \in Responses, Headers("out", block) PROVE IndInv'
  <2>1. block \in Seq(Fields)
    BY DecodingAssumption
  <2> QED BY <1>1, <1>3, <2>1, HeadersStep
<1>4. ASSUME NEW block \in Trailers, EndOfCall(block) PROVE IndInv'
  <2>1. block \in Seq(Fields)
    BY DecodingAssumption
  <2> QED BY <1>4, <2>1, EndOfCallStep
<1>5. ASSUME NEW d \in Directions, NEW k \in 1 .. Len(rest), Data(d, k) PROVE IndInv'
  BY <1>5, DataStep
<1>6. ASSUME NEW d \in Directions, NEW v \in Announced, Settings(d, v) PROVE IndInv'
  BY <1>6, SettingsStep
<1>7. CASE UNCHANGED vars
  BY <1>7 DEF vars, IndInv, Types, TablesInv, HeadersInv, BodiesInv, BetweenCalls
<1> QED BY <1>2, <1>3, <1>4, <1>5, <1>6, <1>7 DEF Next

\* The invariant holds: no step of the peers or of the program breaks it.
THEOREM Inductive == Spec => []IndInv
  BY InitInv, NextInv, PTL DEF Spec

\* The elements of a sequence.
LEMMA ElementsIn ==
  ASSUME NEW S, NEW s \in Seq(S)
  PROVE  ToSet(s) \subseteq S /\ \A x \in ToSet(s) : \E k \in 1 .. Len(s) : x = s[k]
  BY DEF ToSet

\* The tables keep to their sizes, and no byte of a prefix gets into a body.
THEOREM DecodingTypes == Spec => []TypeOK
<1>1. IndInv => TypeOK
  <2> SUFFICES ASSUME IndInv PROVE TypeOK
    OBVIOUS
  <2>1. Types /\ TablesInv /\ BodiesInv
    BY DEF IndInv
  <2>2. ASSUME NEW d \in Directions
        PROVE  /\ ToSet(enc[d].fields) \cup ToSet(dec[d].fields) \subseteq Fields
               /\ Len(enc[d].fields) <= enc[d].max
               /\ Len(dec[d].fields) <= dec[d].max
               /\ Len(owed[d]) <= MaxUnusual
               /\ d \notin split => ToSet(item[d].body) \cap 1 .. 5 = {}
    <3>1. PICK t \in Tables, u \in Tables : t = enc[d] /\ u = dec[d]
      BY <2>1 DEF Types
    <3>2. /\ t.fields \in Seq(Fields) /\ u.fields \in Seq(Fields)
          /\ Len(t.fields) <= t.max /\ Len(u.fields) <= u.max
      BY DEF Tables
    <3>3. ToSet(t.fields) \subseteq Fields /\ ToSet(u.fields) \subseteq Fields
      BY <3>2, ElementsIn
    <3>4. Len(owed[d]) <= MaxUnusual
      <4>1. Len(owed[d]) \in Nat /\ Len(owed[d]) <= unusual /\ unusual \in 0 .. MaxUnusual
        BY <2>1 DEF Types, TablesInv
      <4> QED BY <4>1, DecodingAssumption
    <3>5. ASSUME d \notin split PROVE ToSet(item[d].body) \cap 1 .. 5 = {}
      <4>1. PICK b \in Seq(Nat) : b = item[d].body
        BY <2>1 DEF Types, Slots
      <4>2. Clean(b)
        BY <2>1, <3>5, <4>1 DEF BodiesInv
      <4>3. ASSUME NEW x \in ToSet(b) PROVE x \notin 1 .. 5
        <5>1. PICK k \in 1 .. Len(b) : x = b[k]
          BY ElementsIn
        <5> QED BY <4>2, <5>1 DEF Clean
      <4> QED BY <4>1, <4>3
    <3> QED BY <3>1, <3>2, <3>3, <3>4, <3>5
  <2> QED BY <2>1, <2>2 DEF TypeOK, Types
<1> QED BY <1>1, Inductive, PTL

\* For as long as no representation has been cut in two, and no table has been
\* announced that is smaller than the one in the other direction, the program
\* has what the sender has in its table, in the same places.
THEOREM TablesFollow == Spec => []TablesAgree
<1>1. IndInv => TablesAgree
  BY DEF IndInv, TablesInv, Follows, TablesAgree
<1> QED BY <1>1, Inductive, PTL

\* What a call ends with is what its peers sent.
THEOREM CallsAsSent == Spec => []AsSent
<1>1. IndInv => AsSent
  BY DEF IndInv, HeadersInv, BodiesInv, AsSent
<1> QED BY <1>1, Inductive, PTL
=============================================================================
