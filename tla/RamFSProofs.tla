----------------------------- MODULE RamFSProofs -----------------------------
(***************************************************************************)
(* Theorems about RamFS, for any width of int, any names, any offsets and  *)
(* any bytes written.                                                      *)
(***************************************************************************)
EXTENDS RamFS, MinMaxProofs, SequenceTheorems

Ints == -KeyHalf .. KeyHalf - 1

\* A file as the inner std::map holds it.
IsFile(f) == /\ f = [k \in DOMAIN f |-> f[k]]
             /\ DOMAIN f \subseteq Ints
             /\ \A k \in DOMAIN f : f[k] \in Nat

\* The keys of a file are an interval from 0.
Whole(f) == DOMAIN f = 0 .. Cardinality(DOMAIN f) - 1

Inv ==
  /\ files = [n \in DOMAIN files |-> files[n]]
  /\ DOMAIN files \subseteq Names /\ IsFiniteSet(DOMAIN files)
  /\ \A n \in DOMAIN files : IsFile(files[n])
  /\ skipped \subseteq DOMAIN files
  /\ answer.code \in {"OK", "ENOENT", "EEXIST", "EINVAL"} /\ answer.size \in Nat
  /\ \A n \in DOMAIN files \ skipped : Whole(files[n])
-----------------------------------------------------------------------------
(***************************************************************************)
(* Keys and maps.                                                          *)
(***************************************************************************)

\* An offset becomes an int, and itself if it is one.
LEMMA KeyOfOffset ==
  ASSUME NEW off \in Nat
  PROVE  Key(off) \in Ints /\ (off < KeyHalf => Key(off) = off)
<1>1. \A h \in Nat \ {0} : \A x \in Nat : (x + h) % (2 * h) \in 0 .. 2 * h - 1
  OBVIOUS
<1>2. \A h \in Nat \ {0} : \A x \in Nat : x < h => (x + h) % (2 * h) = x + h
  OBVIOUS
<1>3. (off + KeyHalf) % (2 * KeyHalf) \in 0 .. 2 * KeyHalf - 1
  BY <1>1, KeyAssumption
<1>4. off < KeyHalf => (off + KeyHalf) % (2 * KeyHalf) = off + KeyHalf
  BY <1>2, KeyAssumption
<1> QED  BY <1>3, <1>4, KeyAssumption DEF Key, Ints

\* There are as many keys as a 32-bit count holds at least, so size() is exact.
LEMMA FileSize ==
  ASSUME NEW f, IsFile(f)
  PROVE  IsFiniteSet(DOMAIN f) /\ Cardinality(DOMAIN f) \in Nat
<1>1. IsFiniteSet(Ints)
  BY KeyAssumption, FS_Interval DEF Ints
<1> QED  BY <1>1, FS_Subset, FS_CardinalityType DEF IsFile

\* A file with the keys below its size and no others is whole.
LEMMA WholeFile ==
  ASSUME NEW f, NEW m \in Nat, DOMAIN f = 0 .. m - 1
  PROVE  Whole(f) /\ Cardinality(DOMAIN f) = m
<1>1. Cardinality(0 .. m - 1) = m
  BY FS_Interval
<1> QED  BY <1>1 DEF Whole

\* In a whole file no key is that of an offset beyond int.
LEMMA WholeIsSmall ==
  ASSUME NEW f, IsFile(f), Whole(f)
  PROVE  Cardinality(DOMAIN f) <= KeyHalf
<1>1. Cardinality(DOMAIN f) \in Nat
  BY FileSize
<1>2. CASE Cardinality(DOMAIN f) = 0
  BY <1>2, KeyAssumption
<1>3. CASE Cardinality(DOMAIN f) # 0
  <2>1. Cardinality(DOMAIN f) - 1 \in Ints
    BY <1>1, <1>3 DEF Whole, IsFile
  <2> QED  BY <1>1, <2>1, KeyAssumption DEF Ints
<1> QED  BY <1>2, <1>3

\* operator[] leaves a file a map from ints to bytes.
LEMMA FilledFile ==
  ASSUME NEW f, IsFile(f), NEW K \in SUBSET Ints
  PROVE  /\ IsFile(Filled(f, K))
         /\ K \subseteq DOMAIN f => Filled(f, K) = f
<1>1. IsFile(Filled(f, K))
  BY DEF IsFile, Filled, At
<1>2. ASSUME K \subseteq DOMAIN f PROVE Filled(f, K) = f
  <2>1. DOMAIN f \cup K = DOMAIN f
    BY <1>2
  <2>2. Filled(f, K) = [k \in DOMAIN f |-> f[k]]
    BY <2>1 DEF Filled, At
  <2> QED  BY <2>2 DEF IsFile
<1> QED  BY <1>1, <1>2
-----------------------------------------------------------------------------
(***************************************************************************)
(* What each handler makes of the file it is called for.                   *)
(***************************************************************************)

\* How many bytes a read in range takes.
LEMMA ReadInRange ==
  ASSUME Inv, NEW n, Exists(n), NEW off \in Nat, NEW len \in Nat, off < Size(n)
  PROVE  /\ ReadSize(n, off, len) \in Nat /\ off + ReadSize(n, off, len) <= Size(n)
         /\ ReadSize(n, off, len) = IF off + len < Size(n) THEN len ELSE Size(n) - off
<1>1. Size(n) \in Nat
  BY FileSize DEF Inv, Size, Exists
<1> QED  BY <1>1 DEF ReadSize

\* A read inserts nothing into a whole file.
LEMMA ReadFile ==
  ASSUME Inv, NEW n, Exists(n), NEW off \in Nat, NEW len \in Nat, off < Size(n),
         NEW f, f = Filled(files[n], {Key(off + i) : i \in 0 .. ReadSize(n, off, len) - 1})
  PROVE  IsFile(f) /\ (Whole(files[n]) => f = files[n])
<1> DEFINE size == ReadSize(n, off, len)
           K == {Key(off + i) : i \in 0 .. size - 1}
<1>0. /\ size \in Nat /\ off + size <= Size(n) /\ IsFile(files[n]) /\ Size(n) \in Nat
      /\ Size(n) = Cardinality(DOMAIN files[n])
  BY ReadInRange, FileSize DEF Inv, Exists, Size
<1> HIDE DEF size
<1>1. \A i \in 0 .. size - 1 : Key(off + i) \in Ints /\ (off + i < KeyHalf => Key(off + i) = off + i)
  BY <1>0, KeyOfOffset
<1>2. K \in SUBSET Ints
  BY <1>1
<1>3. ASSUME Whole(files[n]) PROVE K \subseteq DOMAIN files[n]
  <2>1. Size(n) <= KeyHalf
    BY <1>0, <1>3, WholeIsSmall
  <2>2. \A i \in 0 .. size - 1 : Key(off + i) = off + i /\ off + i \in 0 .. Size(n) - 1
    BY <1>0, <1>1, <2>1, KeyAssumption
  <2> QED  BY <1>0, <1>3, <2>2 DEF Whole
<1>4. f = Filled(files[n], K)
  BY DEF size
<1> QED  BY <1>0, <1>2, <1>3, <1>4, FilledFile

\* What ramfs_write leaves under the keys of f.
Written(f, off, data) ==
  LET Last(k) == Max({i \in 1 .. Len(data) : Key(off + i - 1) = k})
      keys == {Key(off + i - 1) : i \in 1 .. Len(data)}
  IN  [k \in DOMAIN f \cup keys |-> IF k \in keys THEN data[Last(k)] ELSE f[k]]

\* A write leaves a file a map from ints to bytes, also where its keys wrap
\* around.
LEMMA WrittenFile ==
  ASSUME NEW f, IsFile(f), NEW off \in Nat, NEW data \in Seq(Nat)
  PROVE  IsFile(Written(f, off, data))
<1> DEFINE keys == {Key(off + i - 1) : i \in 1 .. Len(data)}
           At1(k) == {i \in 1 .. Len(data) : Key(off + i - 1) = k}
<1>0. Len(data) \in Nat
  OBVIOUS
<1>1. \A i \in 1 .. Len(data) : Key(off + i - 1) \in Ints
  <2> SUFFICES ASSUME NEW i \in 1 .. Len(data) PROVE Key(off + i - 1) \in Ints
    OBVIOUS
  <2>1. off + i - 1 \in Nat
    BY <1>0
  <2> QED  BY <2>1, KeyOfOffset
<1>2. ASSUME NEW k \in keys PROVE Max(At1(k)) \in 1 .. Len(data)
  <2>1. At1(k) # {} /\ At1(k) \in SUBSET (1 .. Len(data)) /\ At1(k) \in SUBSET Nat
    OBVIOUS
  <2>2. IsFiniteSet(1 .. Len(data))
    BY <1>0, FS_Interval
  <2>3. IsFiniteSet(At1(k))
    BY <2>1, <2>2, FS_Subset
  <2> QED  BY <2>1, <2>3, MaxOfFinite
<1>3. \A k \in keys : data[Max(At1(k))] \in Nat
  BY <1>2, ElementOfSeq
<1>4. Written(f, off, data) =
        [k \in DOMAIN f \cup keys |-> IF k \in keys THEN data[Max(At1(k))] ELSE f[k]]
  BY DEF Written
<1>5. keys \subseteq Ints
  BY <1>1
<1> HIDE DEF keys, At1
<1> QED  BY <1>3, <1>4, <1>5 DEF IsFile

\* A write that stays within int and skips nothing has each byte under its own
\* key, and leaves a whole file whole.
LEMMA WrittenWhole ==
  ASSUME NEW f, IsFile(f), Whole(f), NEW off \in Nat, NEW data \in Seq(Nat),
         off <= Cardinality(DOMAIN f), off + Len(data) <= KeyHalf
  PROVE  LET end == off + Len(data)
             size == Cardinality(DOMAIN f)
             g == Written(f, off, data)
         IN  /\ DOMAIN g = 0 .. (IF end > size THEN end ELSE size) - 1
             /\ \A k \in DOMAIN g : g[k] = IF k \in off .. end - 1 THEN data[k - off + 1]
                                           ELSE f[k]
<1> DEFINE end == off + Len(data)
           size == Cardinality(DOMAIN f)
           g == Written(f, off, data)
           keys == {Key(off + i - 1) : i \in 1 .. Len(data)}
           At1(k) == {i \in 1 .. Len(data) : Key(off + i - 1) = k}
<1>0. Len(data) \in Nat /\ size \in Nat /\ KeyHalf \in Nat /\ DOMAIN f = 0 .. size - 1
  BY FileSize, KeyAssumption DEF Whole
<1>1. ASSUME NEW i \in 1 .. Len(data) PROVE Key(off + i - 1) = off + i - 1
  <2>1. off + i - 1 \in Nat /\ off + i - 1 < KeyHalf
    BY <1>0
  <2> QED  BY <2>1, KeyOfOffset
<1>2. keys = off .. end - 1
  <2>1. keys = {off + i - 1 : i \in 1 .. Len(data)}
    BY <1>1
  <2>2. \A k \in off .. end - 1 : k - off + 1 \in 1 .. Len(data) /\ k = off + (k - off + 1) - 1
    BY <1>0
  <2>3. \A i \in 1 .. Len(data) : off + i - 1 \in off .. end - 1
    BY <1>0
  <2> QED  BY <2>1, <2>2, <2>3
<1>3. ASSUME NEW k \in off .. end - 1 PROVE Max(At1(k)) = k - off + 1
  <2>1. k \in Int /\ k - off + 1 \in 1 .. Len(data)
    BY <1>0
  <2>2. \A i \in 1 .. Len(data) : (Key(off + i - 1) = k) <=> (i = k - off + 1)
    <3>1. \A i \in 1 .. Len(data) : (off + i - 1 = k) <=> (i = k - off + 1)
      BY <1>0, <2>1
    <3> QED  BY <1>1, <3>1
  <2> DEFINE j == k - off + 1
  <2>4. j \in 1 .. Len(data) /\ \A i \in 1 .. Len(data) : (Key(off + i - 1) = k) <=> (i = j)
    BY <2>1, <2>2
  <2> HIDE DEF j
  <2>3. At1(k) = {j} /\ {j} \in SUBSET Nat
    BY <2>4
  <2>5. Max(At1(k)) = j
    BY <2>3, MaxOfFinite, FS_Singleton
  <2> QED  BY <2>5 DEF j
<1>4. g = [k \in DOMAIN f \cup keys |-> IF k \in keys THEN data[Max(At1(k))] ELSE f[k]]
  BY DEF Written
<1> HIDE DEF g, keys, At1
<1>5. DOMAIN g = 0 .. (IF end > size THEN end ELSE size) - 1
  <2>1. DOMAIN g = 0 .. size - 1 \cup off .. end - 1
    BY <1>0, <1>2, <1>4
  <2>2. off \in Nat /\ off <= size /\ off <= end /\ end \in Nat
    BY <1>0
  <2>3. \A k : k \in 0 .. size - 1 \/ k \in off .. end - 1
                 <=> k \in 0 .. (IF end > size THEN end ELSE size) - 1
    BY <1>0, <2>2
  <2> HIDE DEF end, size
  <2> QED  BY <2>1, <2>3
<1>6. \A k \in DOMAIN g : g[k] = IF k \in off .. end - 1 THEN data[k - off + 1] ELSE f[k]
  BY <1>2, <1>3, <1>4
<1> QED  BY <1>5, <1>6 DEF g

\* What ramfs_truncate leaves under the keys of f.
Resized(f, length) ==
  IF Cardinality(DOMAIN f) > length THEN Cut(f, length)
  ELSE Enlarged(f, Cardinality(DOMAIN f), length)

\* A truncate does so too, and leaves a whole file whole.
LEMMA ResizedFile ==
  ASSUME NEW f, IsFile(f), NEW length \in 0 .. KeyHalf - 1
  PROVE  /\ IsFile(Resized(f, length))
         /\ Whole(f) =>
              /\ DOMAIN Resized(f, length) = 0 .. length - 1
              /\ \A k \in 0 .. length - 1 :
                   Resized(f, length)[k] = IF k < Cardinality(DOMAIN f) THEN f[k] ELSE 0
<1> DEFINE size == Cardinality(DOMAIN f)
           g == Resized(f, length)
<1>0. size \in Nat /\ length \in Nat /\ length < KeyHalf /\ KeyHalf \in Nat
  BY FileSize, KeyAssumption
<1>1. CASE size > length
  <2>1. g = Cut(f, length)
    BY <1>1 DEF Resized
  <2>2. IsFile(g)
    BY <2>1 DEF Cut, IsFile
  <2>3. ASSUME Whole(f)
        PROVE  /\ DOMAIN g = 0 .. length - 1
               /\ \A k \in 0 .. length - 1 : g[k] = IF k < size THEN f[k] ELSE 0
    <3>1. DOMAIN f = 0 .. size - 1 /\ length \in DOMAIN f
      BY <1>0, <1>1, <2>3 DEF Whole
    <3>2. g = [k \in {j \in 0 .. size - 1 : j < length} |-> f[k]]
      BY <2>1, <3>1 DEF Cut
    <3>3. {j \in 0 .. size - 1 : j < length} = 0 .. length - 1
      BY <1>0, <1>1
    <3> HIDE DEF g, size
    <3> QED  BY <1>0, <1>1, <3>2, <3>3
  <2> QED  BY <2>2, <2>3
<1>2. CASE ~(size > length)
  <2> DEFINE more == size .. length - 1
  <2>1. g = [k \in DOMAIN f \cup more |-> IF k \in more THEN 0 ELSE f[k]]
    BY <1>2 DEF Resized, Enlarged
  <2>2. more \subseteq Ints
    BY <1>0 DEF Ints
  <2>3. IsFile(g)
    <3> HIDE DEF g, more
    <3> QED  BY <2>1, <2>2 DEF IsFile
  <2>4. ASSUME Whole(f)
        PROVE  /\ DOMAIN g = 0 .. length - 1
               /\ \A k \in 0 .. length - 1 : g[k] = IF k < size THEN f[k] ELSE 0
    <3>1. DOMAIN f = 0 .. size - 1
      BY <2>4 DEF Whole
    <3>2. 0 .. size - 1 \cup more = 0 .. length - 1
      BY <1>0, <1>2
    <3>3. \A k \in 0 .. length - 1 : k \in more <=> ~(k < size)
      BY <1>0, <1>2
    <3> HIDE DEF g, size, more
    <3> QED  BY <2>1, <3>1, <3>2, <3>3
  <2> QED  BY <2>3, <2>4
<1> QED  BY <1>1, <1>2
-----------------------------------------------------------------------------
(***************************************************************************)
(* The invariant.                                                          *)
(***************************************************************************)

\* A handler that puts g in the place of the file n.
LEMMA FileReplaced ==
  ASSUME Inv, NEW n, Exists(n), NEW g, IsFile(g), files' = [files EXCEPT ![n] = g],
         skipped' = skipped \/ skipped' = skipped \cup {n}, n \in skipped' \/ Whole(g),
         answer'.code \in {"OK", "ENOENT", "EEXIST", "EINVAL"}, answer'.size \in Nat
  PROVE  Inv'
<1>1. /\ DOMAIN files' = DOMAIN files /\ files'[n] = g
      /\ \A m \in DOMAIN files : m # n => files'[m] = files[m]
      /\ files' = [m \in DOMAIN files' |-> files'[m]]
  BY DEF Exists
<1> QED  BY <1>1 DEF Inv, Exists

\* Before the first call there are no files.
LEMMA RamInvInit == Init => Inv
<1> SUFFICES ASSUME Init PROVE Inv
  OBVIOUS
<1>1. DOMAIN <<>> = {} /\ IsFiniteSet({}) /\ <<>> = [n \in {} |-> <<>>[n]]
  BY FS_EmptySet
<1> QED  BY <1>1 DEF Init, Inv

\* The invariant is inductive.
LEMMA RamInvStep == Inv /\ [Next]_vars => Inv'
<1> SUFFICES ASSUME Inv, [Next]_vars PROVE Inv'
  OBVIOUS
<1>1. ASSUME UNCHANGED <<files, skipped>>,
             answer'.code \in {"OK", "ENOENT", "EEXIST", "EINVAL"}, answer'.size \in Nat
      PROVE  Inv'
  BY <1>1 DEF Inv
<1>2. CASE UNCHANGED vars
  BY <1>1, <1>2 DEF vars, Inv
<1>3. ASSUME NEW n \in Names, Create(n) PROVE Inv'
  <2>1. CASE Exists(n)
    BY <1>1, <1>3, <2>1 DEF Create, Answers
  <2>2. CASE ~Exists(n)
    <3>1. /\ files' = [m \in DOMAIN files \cup {n} |-> IF m = n THEN <<>> ELSE files[m]]
          /\ skipped' = skipped /\ answer'.code = "OK" /\ answer'.size = 0
      BY <1>3, <2>2 DEF Create, Answers
    <3>2. DOMAIN <<>> = 0 .. 0 - 1 /\ IsFile(<<>>)
      <4>1. DOMAIN <<>> = {} /\ <<>> = [k \in {} |-> <<>>[k]]
        OBVIOUS
      <4> QED  BY <4>1 DEF IsFile
    <3>3. Whole(<<>>)
      BY <3>2, WholeFile
    <3>4. IsFiniteSet(DOMAIN files \cup {n})
      BY FS_AddElement DEF Inv
    <3>5. /\ DOMAIN files' = DOMAIN files \cup {n} /\ files'[n] = <<>>
          /\ \A m \in DOMAIN files : files'[m] = files[m]
          /\ files' = [m \in DOMAIN files' |-> files'[m]]
      BY <2>2, <3>1 DEF Exists
    <3> QED  BY <3>1, <3>2, <3>3, <3>4, <3>5 DEF Inv
  <2> QED  BY <2>1, <2>2
<1>4. ASSUME NEW n \in Names, CreateSpecial(n) \/ Open(n) PROVE Inv'
  <2>1. UNCHANGED <<files, skipped>>
    BY <1>4 DEF CreateSpecial, Open, NotFound
  <2>2. answer'.code \in {"OK", "ENOENT", "EEXIST", "EINVAL"} /\ answer'.size = 0
    <3>1. CASE CreateSpecial(n) /\ Exists(n)
      BY <3>1 DEF CreateSpecial, Answers
    <3>2. CASE CreateSpecial(n) /\ ~Exists(n)
      BY <3>2 DEF CreateSpecial, Answers
    <3>3. CASE Open(n)
      BY <3>3 DEF Open, NotFound, Answers
    <3> QED  BY <1>4, <3>1, <3>2, <3>3
  <2> QED  BY <1>1, <2>1, <2>2
<1>5. ASSUME NEW n \in Names, Unlink(n) PROVE Inv'
  <2>1. /\ files' = [m \in DOMAIN files \ {n} |-> files[m]]
        /\ skipped' = skipped \ {n} /\ answer'.code = "OK" /\ answer'.size = 0
    BY <1>5 DEF Unlink, Answers
  <2>2. IsFiniteSet(DOMAIN files \ {n})
    BY FS_Subset DEF Inv
  <2> QED  BY <2>1, <2>2 DEF Inv
<1>6. ASSUME NEW n \in Names, Getattr(n) PROVE Inv'
  <2>1. Exists(n) => Size(n) \in Nat
    BY FileSize DEF Exists, Size, Inv
  <2> QED  BY <1>1, <1>6, <2>1 DEF Getattr, NotFound, Answers
<1>7. ASSUME NEW n \in Names, NEW off \in Offsets, NEW len \in Lengths, Read(n, off, len)
      PROVE  Inv'
  <2>0. off \in Nat /\ len \in Nat
    BY OffsetsAssumption, DataAssumption DEF Lengths
  <2>1. CASE Exists(n) /\ off < Size(n)
    <3> DEFINE f == Filled(files[n], {Key(off + i) : i \in 0 .. ReadSize(n, off, len) - 1})
    <3>1. ~(off >= Size(n))
      BY <2>0, <2>1, FileSize DEF Inv, Exists, Size
    <3>2. /\ files' = [files EXCEPT ![n] = f] /\ skipped' = skipped
          /\ answer'.code = "OK" /\ answer'.size = ReadSize(n, off, len)
      BY <1>7, <2>1, <3>1 DEF Read, NotFound, Answers
    <3>3. IsFile(f) /\ (Whole(files[n]) => f = files[n])
      BY <2>0, <2>1, ReadFile
    <3>4. answer'.size \in Nat
      BY <2>0, <2>1, <3>2, ReadInRange
    <3> HIDE DEF f
    <3>5. n \in skipped' \/ Whole(f)
      BY <2>1, <3>2, <3>3 DEF Inv, Exists
    <3> QED  BY <2>1, <3>2, <3>3, <3>4, <3>5, FileReplaced
  <2>2. CASE ~(Exists(n) /\ off < Size(n))
    BY <1>1, <1>7, <2>2 DEF Read, NotFound, Answers
  <2> QED  BY <2>1, <2>2
<1>8. ASSUME NEW n \in Names, NEW off \in Offsets, NEW data \in Data, Write(n, off, data)
      PROVE  Inv'
  <2>0. off \in Nat /\ data \in Seq(Nat) /\ Len(data) \in Nat
    BY OffsetsAssumption, DataAssumption
  <2>1. CASE Exists(n)
    <3> DEFINE g == Written(files[n], off, data)
    <3>1. /\ files' = [files EXCEPT ![n] = g]
          /\ skipped' = IF Skips(n, off, data) THEN skipped \cup {n} ELSE skipped
          /\ answer'.code = "OK" /\ answer'.size = Len(data)
      <4>1. files' = [files EXCEPT ![n] = g]
        BY <1>8, <2>1, Zenon DEF Write, NotFound, Written
      <4>2. /\ skipped' = IF Skips(n, off, data) THEN skipped \cup {n} ELSE skipped
            /\ answer'.code = "OK" /\ answer'.size = Len(data)
        BY <1>8, <2>1 DEF Write, NotFound, Answers
      <4> QED  BY <4>1, <4>2
    <3>2. IsFile(files[n]) /\ IsFile(g) /\ Size(n) \in Nat
      BY <2>0, <2>1, WrittenFile, FileSize DEF Inv, Exists, Size
    <3>3. n \in skipped' \/ Whole(g)
      <4> SUFFICES ASSUME n \notin skipped' PROVE Whole(g)
        OBVIOUS
      <4>1. n \notin skipped /\ ~Skips(n, off, data)
        BY <3>1
      <4>2. Whole(files[n]) /\ off <= Cardinality(DOMAIN files[n]) /\ off + Len(data) <= KeyHalf
        BY <2>0, <2>1, <3>2, <4>1, KeyAssumption DEF Inv, Skips, Size, Exists
      <4> DEFINE m == IF off + Len(data) > Size(n) THEN off + Len(data) ELSE Size(n)
      <4>3. DOMAIN g = 0 .. m - 1
        BY <2>0, <3>2, <4>2, WrittenWhole DEF Size
      <4>4. m \in Nat
        BY <2>0, <3>2
      <4> HIDE DEF m, g
      <4> QED  BY <4>3, <4>4, WholeFile
    <3> HIDE DEF g
    <3> QED  BY <2>0, <2>1, <3>1, <3>2, <3>3, FileReplaced
  <2>2. CASE ~Exists(n)
    BY <1>1, <1>8, <2>2 DEF Write, NotFound, Answers
  <2> QED  BY <2>1, <2>2
<1>9. ASSUME NEW n \in Names, NEW length \in 0 .. KeyHalf - 1, Truncate(n, length)
      PROVE  Inv'
  <2>1. CASE Exists(n)
    <3> DEFINE g == Resized(files[n], length)
    <3>1. /\ files' = [files EXCEPT ![n] = g] /\ skipped' = skipped
          /\ answer'.code = "EINVAL" /\ answer'.size = 0
      BY <1>9, <2>1 DEF Truncate, NotFound, Resized, Size, Answers
    <3>2. IsFile(files[n]) /\ IsFile(g)
      BY <2>1, ResizedFile DEF Inv, Exists
    <3>3. Whole(files[n]) => DOMAIN g = 0 .. length - 1
      BY <3>2, ResizedFile
    <3> HIDE DEF g
    <3>5. answer'.code \in {"OK", "ENOENT", "EEXIST", "EINVAL"} /\ answer'.size \in Nat
      BY <3>1
    <3>4. n \in skipped' \/ Whole(g)
      <4>1. length \in Nat
        BY KeyAssumption
      <4> QED  BY <2>1, <3>1, <3>3, <4>1, WholeFile DEF Inv, Exists
    <3> QED  BY <2>1, <3>1, <3>2, <3>4, <3>5, FileReplaced
  <2>2. CASE ~Exists(n)
    BY <1>1, <1>9, <2>2 DEF Truncate, NotFound, Answers
  <2> QED  BY <2>1, <2>2
<1>10. CASE Readdir
  <2>1. Cardinality(DOMAIN files) \in Nat
    BY FS_CardinalityType DEF Inv
  <2> QED  BY <1>1, <1>10, <2>1 DEF Readdir, Answers
<1>11. CASE Grant \/ NotImplemented
  BY <1>1, <1>11 DEF Grant, NotImplemented, Answers
<1> QED
  BY <1>2, <1>3, <1>4, <1>5, <1>6, <1>7, <1>8, <1>9, <1>10, <1>11 DEF Next

\* The invariant holds in every state ramfs can reach.
LEMMA RamInvariant == Spec => []Inv
BY RamInvInit, RamInvStep, PTL DEF Spec

\* Whatever is called in whatever order, keys are ints and bytes are bytes.
THEOREM RamTypeCorrect == Spec => []TypeOK
<1>1. Inv => TypeOK
  BY DEF Inv, TypeOK, IsFile, Ints
<1> QED  BY <1>1, RamInvariant, PTL

\* As long as no write skips past the end of a file or out of int, its keys are
\* the numbers below its size: neither the operator[] of a read, nor the erase
\* of a truncate, nor an overlapping write makes or leaves a gap.
THEOREM FilesAreDense == Spec => []Dense
<1>1. Inv => Dense
  BY DEF Inv, Dense, Whole, Size
<1> QED  BY <1>1, RamInvariant, PTL
-----------------------------------------------------------------------------
(***************************************************************************)
(* RamFS implements ByteFS.  The contents of which nothing is promised are *)
(* told apart from every sequence of bytes.                                *)
(***************************************************************************)
Apart == Unspecified \notin Seq(Nat)

\* The bytes under the keys from 0 on.
BytesOf(f) == [i \in 1 .. Cardinality(DOMAIN f) |-> At(f, i - 1)]

\* The refinement mapping.
View ==
  [n \in DOMAIN files |->
     IF n \in skipped THEN Unspecified
     ELSE [i \in 1 .. Size(n) |-> At(files[n], i - 1)]]

\* The bytes of a whole file are all the bytes it has.
LEMMA BytesOfFile ==
  ASSUME NEW f, IsFile(f), Whole(f)
  PROVE  /\ BytesOf(f) \in Seq(Nat) /\ Len(BytesOf(f)) = Cardinality(DOMAIN f)
         /\ \A i \in 1 .. Cardinality(DOMAIN f) : BytesOf(f)[i] = f[i - 1]
<1> DEFINE size == Cardinality(DOMAIN f)
<1>0. size \in Nat /\ DOMAIN f = 0 .. size - 1 /\ \A k \in DOMAIN f : f[k] \in Nat
  BY FileSize DEF Whole, IsFile
<1>1. BytesOf(f) = [i \in 1 .. size |-> At(f, i - 1)]
  BY DEF BytesOf
<1> HIDE DEF size
<1>2. \A i \in 1 .. size : At(f, i - 1) = f[i - 1] /\ f[i - 1] \in Nat
  BY <1>0 DEF At
<1>3. BytesOf(f) \in [1 .. size -> Nat]
  BY <1>1, <1>2
<1>4. BytesOf(f) \in Seq(Nat) /\ Len(BytesOf(f)) = size
  BY <1>0, <1>3
<1>5. \A i \in 1 .. size : BytesOf(f)[i] = f[i - 1]
  BY <1>1, <1>2
<1> QED  BY <1>4, <1>5 DEF size

\* What the mapping shows of a file.
LEMMA ViewOfFile ==
  ASSUME Inv, Apart, NEW n \in DOMAIN files
  PROVE  /\ n \in skipped => View[n] = Unspecified
         /\ n \notin skipped =>
              /\ View[n] = BytesOf(files[n]) /\ View[n] # Unspecified
              /\ View[n] \in Seq(Nat) /\ Len(View[n]) = Size(n)
<1>1. n \notin skipped => View[n] = BytesOf(files[n])
  BY DEF View, BytesOf, Size
<1>2. n \notin skipped =>
        BytesOf(files[n]) \in Seq(Nat) /\ Len(BytesOf(files[n])) = Size(n)
  BY BytesOfFile DEF Inv, Size
<1> QED  BY <1>1, <1>2 DEF View, Apart

\* The mapping has the names there are.
LEMMA ViewIsFunction ==
  /\ View = [n \in DOMAIN View |-> View[n]] /\ DOMAIN View = DOMAIN files
BY DEF View

\* The mapping across a handler that puts another file in the place of n.
LEMMA ViewReplaced ==
  ASSUME Inv, Inv', Apart, NEW n, Exists(n), NEW g, files' = [files EXCEPT ![n] = g],
         skipped' = skipped \/ skipped' = skipped \cup {n}
  PROVE  /\ View' = [View EXCEPT ![n] = View'[n]]
         /\ n \in skipped' => View'[n] = Unspecified
         /\ n \notin skipped' => View'[n] = BytesOf(g)
<1>1. /\ DOMAIN files' = DOMAIN files /\ files'[n] = g
      /\ \A m \in DOMAIN files : m # n => files'[m] = files[m]
  BY DEF Exists, Inv
<1>2. \A m \in DOMAIN files : m # n => (m \in skipped' <=> m \in skipped)
  OBVIOUS
<1>3. \A m \in DOMAIN files : m # n => View'[m] = View[m]
  BY <1>1, <1>2 DEF View, Size
<1>4. View' = [m \in DOMAIN files |-> View'[m]] /\ View = [m \in DOMAIN files |-> View[m]]
  BY <1>1 DEF View
<1>5. View' = [View EXCEPT ![n] = View'[n]]
  <2> DEFINE V == View
             W == View'
  <2>1. W = [m \in DOMAIN files |-> W[m]] /\ V = [m \in DOMAIN files |-> V[m]]
        /\ \A m \in DOMAIN files : m # n => W[m] = V[m]
    BY <1>3, <1>4
  <2> HIDE DEF V, W
  <2>2. W = [V EXCEPT ![n] = W[n]]
    BY <2>1 DEF Exists
  <2> QED  BY <2>2 DEF V, W
<1>6. n \in skipped' => View'[n] = Unspecified
  BY <1>1 DEF View, Exists
<1>7. n \notin skipped' => View'[n] = BytesOf(g)
  BY <1>1 DEF View, BytesOf, Size, Exists
<1> QED  BY <1>5, <1>6, <1>7

\* A write that skips nothing puts its bytes between what was before and what
\* was behind them.
LEMMA WrittenBytes ==
  ASSUME NEW f, IsFile(f), Whole(f), NEW off \in Nat, NEW data \in Seq(Nat),
         off <= Cardinality(DOMAIN f), off + Len(data) <= KeyHalf
  PROVE  BytesOf(Written(f, off, data))
           = SubSeq(BytesOf(f), 1, off) \o data
             \o SubSeq(BytesOf(f), off + Len(data) + 1, Len(BytesOf(f)))
<1> DEFINE end == off + Len(data)
           size == Cardinality(DOMAIN f)
           g == Written(f, off, data)
           all == IF end > size THEN end ELSE size
           s == BytesOf(f)
           before == SubSeq(s, 1, off)
           behind == SubSeq(s, end + 1, Len(s))
<1>0. /\ size \in Nat /\ Len(data) \in Nat /\ end \in Nat /\ all \in Nat
      /\ DOMAIN f = 0 .. size - 1 /\ off <= size
      /\ end = off + Len(data) /\ end <= all
  BY FileSize DEF Whole
<1>1. s \in Seq(Nat) /\ Len(s) = size /\ \A i \in 1 .. size : s[i] = f[i - 1]
  BY BytesOfFile
<1>2. /\ DOMAIN g = 0 .. all - 1
      /\ \A k \in DOMAIN g : g[k] = IF k \in off .. end - 1 THEN data[k - off + 1] ELSE f[k]
  BY WrittenWhole
<1>3. IsFile(g) /\ Whole(g) /\ Cardinality(DOMAIN g) = all
  <2>1. IsFile(g)
    BY WrittenFile
  <2> HIDE DEF g, all
  <2> QED  BY <1>0, <1>2, <2>1, WholeFile
<1>4. /\ BytesOf(g) \in Seq(Nat) /\ Len(BytesOf(g)) = all
      /\ \A i \in 1 .. all : BytesOf(g)[i] = g[i - 1]
  <2> HIDE DEF g, all
  <2> QED  BY <1>3, BytesOfFile
<1> HIDE DEF g, s, size
<1>5. \A i \in 1 .. size : s[i] \in Nat
  BY <1>1, ElementOfSeq
<1>6. /\ before \in Seq(Nat) /\ Len(before) = off
      /\ \A i \in 1 .. off : before[i] = s[i]
  <2>1. \A i \in 1 .. off : s[i] \in Nat
    BY <1>0, <1>5
  <2>2. 1 \in Int /\ off \in Int
    OBVIOUS
  <2>3. /\ before \in Seq(Nat) /\ Len(before) = IF 1 <= off THEN off - 1 + 1 ELSE 0
        /\ \A i \in 1 .. off - 1 + 1 : before[i] = s[1 + i - 1]
    BY <2>1, <2>2, SubSeqProperties
  <2> HIDE DEF before
  <2>4. off - 1 + 1 = off /\ \A i \in 1 .. off : 1 + i - 1 = i
    OBVIOUS
  <2> QED  BY <2>3, <2>4
<1>7. /\ behind \in Seq(Nat) /\ Len(behind) = all - end
      /\ \A i \in 1 .. all - end : behind[i] = s[end + i]
  <2>1. \A i \in end + 1 .. Len(s) : s[i] \in Nat
    BY <1>0, <1>1, <1>5
  <2>2. end + 1 \in Int /\ Len(s) \in Int
    BY <1>0, <1>1
  <2> HIDE DEF end
  <2>3. /\ behind \in Seq(Nat)
        /\ Len(behind) = IF end + 1 <= Len(s) THEN Len(s) - (end + 1) + 1 ELSE 0
        /\ \A i \in 1 .. Len(s) - (end + 1) + 1 : behind[i] = s[end + 1 + i - 1]
    BY <2>1, <2>2, SubSeqProperties
  <2> HIDE DEF behind
  <2>4. all - end = IF end + 1 <= Len(s) THEN Len(s) - (end + 1) + 1 ELSE 0
    BY <1>0, <1>1
  <2>5. \A i \in 1 .. all - end : i \in 1 .. Len(s) - (end + 1) + 1 /\ end + 1 + i - 1 = end + i
    BY <1>0, <1>1
  <2> QED  BY <2>3, <2>4, <2>5
<1> HIDE DEF before, behind
<1> DEFINE front == before \o data
<1>8. /\ front \in Seq(Nat) /\ Len(front) = end
      /\ \A i \in 1 .. end : front[i] = IF i <= off THEN before[i] ELSE data[i - off]
  BY <1>6, ConcatProperties
<1> HIDE DEF front
<1>9. /\ front \o behind \in Seq(Nat) /\ Len(front \o behind) = all
      /\ \A i \in 1 .. all : (front \o behind)[i] =
                               IF i <= end THEN front[i] ELSE behind[i - end]
  <2>1. /\ front \o behind \in Seq(Nat) /\ Len(front \o behind) = Len(front) + Len(behind)
        /\ \A i \in 1 .. Len(front) + Len(behind) :
             (front \o behind)[i] = IF i <= Len(front) THEN front[i] ELSE behind[i - Len(front)]
    BY <1>7, <1>8, ConcatProperties
  <2> HIDE DEF end, all
  <2>2. Len(front) + Len(behind) = all
    BY <1>0, <1>7, <1>8
  <2> QED  BY <1>8, <2>1, <2>2
<1>10. ASSUME NEW i \in 1 .. all PROVE BytesOf(g)[i] = (front \o behind)[i]
  <2>1. i - 1 \in DOMAIN g /\ BytesOf(g)[i] = g[i - 1]
    BY <1>0, <1>2, <1>4
  <2>2. CASE i <= off
    <3>1. /\ i \in 1 .. off /\ i \in 1 .. end /\ i \in 1 .. size /\ i <= end
          /\ i - 1 \notin off .. end - 1
      BY <1>0, <2>2
    <3> HIDE DEF end, all
    <3>2. g[i - 1] = f[i - 1] /\ s[i] = f[i - 1]
      BY <1>1, <1>2, <2>1, <3>1
    <3>3. (front \o behind)[i] = front[i] /\ front[i] = before[i] /\ before[i] = s[i]
      BY <1>6, <1>8, <1>9, <2>2, <3>1
    <3> QED  BY <2>1, <3>2, <3>3
  <2>3. CASE i > off /\ i <= end
    <3>1. /\ i \in 1 .. end /\ ~(i <= off) /\ i - 1 \in off .. end - 1
          /\ i - 1 - off + 1 = i - off
      BY <1>0, <2>3
    <3> HIDE DEF end, all
    <3> QED  BY <1>2, <1>8, <1>9, <2>1, <2>3, <3>1
  <2>4. CASE i > end
    <3>1. /\ i - end \in 1 .. all - end /\ i \in 1 .. size /\ ~(i <= end)
          /\ i - 1 \notin off .. end - 1 /\ end + (i - end) = i
      BY <1>0, <2>4
    <3> HIDE DEF end, all
    <3> QED  BY <1>1, <1>2, <1>7, <1>9, <2>1, <3>1
  <2>5. i \in Nat
    BY <1>0
  <2>6. i <= off \/ (i > off /\ i <= end) \/ i > end
    BY <1>0, <2>5
  <2> HIDE DEF end, all
  <2> QED  BY <2>2, <2>3, <2>4, <2>6
<1>11. BytesOf(g) = front \o behind
  <2> HIDE DEF all
  <2> QED  BY <1>4, <1>9, <1>10, SeqEqual
<1> QED  BY <1>1, <1>11 DEF front, before, behind, g, s, size

\* A file that is given a length keeps its bytes below it, and has zeros behind
\* them.
LEMMA ResizedBytes ==
  ASSUME NEW f, IsFile(f), Whole(f), NEW length \in 0 .. KeyHalf - 1
  PROVE  BytesOf(Resized(f, length)) =
           [i \in 1 .. length |-> IF i <= Len(BytesOf(f)) THEN BytesOf(f)[i] ELSE 0]
<1> DEFINE g == Resized(f, length)
           size == Cardinality(DOMAIN f)
           s == BytesOf(f)
<1>0. size \in Nat /\ length \in Nat
  BY FileSize, KeyAssumption
<1>1. Len(s) = size /\ \A i \in 1 .. size : s[i] = f[i - 1]
  BY BytesOfFile
<1>2. /\ DOMAIN g = 0 .. length - 1
      /\ \A k \in 0 .. length - 1 : g[k] = IF k < size THEN f[k] ELSE 0
  BY ResizedFile
<1> HIDE DEF g, s, size
<1>3. Cardinality(DOMAIN g) = length
  BY <1>0, <1>2, WholeFile
<1>4. ASSUME NEW i \in 1 .. length
      PROVE  At(g, i - 1) = IF i <= Len(s) THEN s[i] ELSE 0
  <2>1. i - 1 \in 0 .. length - 1 /\ (i - 1 < size <=> i <= size)
        /\ (i <= size => i \in 1 .. size)
    BY <1>0
  <2> QED  BY <1>1, <1>2, <2>1 DEF At
<1>5. BytesOf(g) = [i \in 1 .. length |-> IF i <= Len(s) THEN s[i] ELSE 0]
  BY <1>3, <1>4 DEF BytesOf
<1> QED  BY <1>5 DEF g, s

\* What a read in range returns is the bytes asked for, as far as there are any.
LEMMA ReadBytes ==
  ASSUME Inv, NEW n, Exists(n), Whole(files[n]), NEW off \in Nat, NEW len \in Nat,
         off < Size(n), NEW last, last = IF off + len < Size(n) THEN off + len ELSE Size(n)
  PROVE  /\ Len(SubSeq(BytesOf(files[n]), off + 1, last)) = ReadSize(n, off, len)
         /\ SubSeq(BytesOf(files[n]), off + 1, last) =
              [i \in 1 .. ReadSize(n, off, len) |-> At(files[n], Key(off + i - 1))]
<1> DEFINE size == ReadSize(n, off, len)
           s == BytesOf(files[n])
           bytes == SubSeq(s, off + 1, last)
           f == files[n]
<1>0. /\ size \in Nat /\ off + size = last /\ last <= Size(n) /\ Size(n) \in Nat
      /\ last \in Nat
  <2>1. Size(n) \in Nat /\ size \in Nat /\ size = IF off + len < Size(n) THEN len ELSE Size(n) - off
    BY ReadInRange, FileSize DEF Inv, Exists, Size
  <2> HIDE DEF size
  <2> QED  BY <2>1
<1>1. /\ IsFile(f) /\ Size(n) <= KeyHalf /\ DOMAIN f = 0 .. Size(n) - 1
      /\ Len(s) = Size(n) /\ \A i \in 1 .. Size(n) : s[i] = f[i - 1] /\ f[i - 1] \in Nat
  <2>1. IsFile(f) /\ Whole(f) /\ Size(n) = Cardinality(DOMAIN f)
    BY DEF Inv, Exists, Size
  <2>2. DOMAIN f = 0 .. Size(n) - 1 /\ \A k \in DOMAIN f : f[k] \in Nat
    BY <2>1 DEF Whole, IsFile
  <2>3. \A i \in 1 .. Size(n) : i - 1 \in 0 .. Size(n) - 1
    BY <1>0
  <2>4. \A i \in 1 .. Size(n) : f[i - 1] \in Nat
    BY <2>2, <2>3
  <2>5. Len(s) = Size(n) /\ \A i \in 1 .. Size(n) : s[i] = f[i - 1]
    BY <2>1, BytesOfFile
  <2> QED  BY <2>1, <2>2, <2>4, <2>5, WholeIsSmall
<1> HIDE DEF size, s, f
<1>2. /\ bytes \in Seq(Nat) /\ Len(bytes) = size
      /\ \A i \in 1 .. size : bytes[i] = s[off + i]
  <2>1. \A i \in off + 1 .. last : s[i] \in Nat
    BY <1>0, <1>1
  <2>2. off + 1 \in Int /\ last \in Int
    BY <1>0
  <2>3. /\ bytes \in Seq(Nat)
        /\ Len(bytes) = IF off + 1 <= last THEN last - (off + 1) + 1 ELSE 0
        /\ \A i \in 1 .. last - (off + 1) + 1 : bytes[i] = s[off + 1 + i - 1]
    BY <2>1, <2>2, SubSeqProperties
  <2> HIDE DEF bytes
  <2>4. size = IF off + 1 <= last THEN last - (off + 1) + 1 ELSE 0
    BY <1>0
  <2>5. \A i \in 1 .. size : i \in 1 .. last - (off + 1) + 1 /\ off + 1 + i - 1 = off + i
    BY <1>0
  <2> QED  BY <2>3, <2>4, <2>5
<1> HIDE DEF bytes
<1>3. ASSUME NEW i \in 1 .. size PROVE bytes[i] = At(f, Key(off + i - 1))
  <2>1. /\ off + i - 1 \in Nat /\ off + i - 1 \in 0 .. Size(n) - 1 /\ off + i - 1 < KeyHalf
        /\ off + i \in 1 .. Size(n)
    BY <1>0, <1>1, KeyAssumption
  <2>2. Key(off + i - 1) = off + i - 1
    BY <2>1, KeyOfOffset
  <2> QED  BY <1>1, <1>2, <2>1, <2>2 DEF At
<1>4. bytes = [i \in 1 .. size |-> bytes[i]]
  BY <1>0, <1>2, LenProperties
<1>5. bytes = [i \in 1 .. size |-> At(f, Key(off + i - 1))]
  BY <1>3, <1>4
<1> QED  BY <1>2, <1>5 DEF size, bytes, s, f
-----------------------------------------------------------------------------
\* What ByteFS knows of a name.
LEMMA NamesOfView ==
  ASSUME Inv, Apart, NEW n
  PROVE  /\ Bytes!Exists(n) <=> Exists(n)
         /\ Bytes!Specified(n) <=> Exists(n) /\ n \notin skipped
<1>1. Bytes!Exists(n) <=> n \in DOMAIN View
  BY DEF Bytes!Exists, View
<1>2. Bytes!Specified(n) <=> n \in DOMAIN View /\ View[n] # Unspecified
  BY <1>1 DEF Bytes!Specified, View
<1> QED  BY <1>1, <1>2, ViewOfFile, ViewIsFunction DEF Exists

\* A handler that leaves the map alone leaves the bytes alone.
LEMMA ViewUnchanged ==
  ASSUME UNCHANGED <<files, skipped>>
  PROVE  View' = View
BY DEF View, Size

\* -ENOENT is a refusal.
LEMMA RefusedCall ==
  ASSUME Inv, Apart, NEW call, NEW n, NotFound(call, n)
  PROVE  Bytes!Refuses(call, n)
<1>1. ~Bytes!Exists(n) /\ View' = View
  BY NamesOfView, ViewUnchanged DEF NotFound
<1> QED  BY <1>1 DEF NotFound, Answers, Bytes!Refuses, Bytes!Answers, View

\* ramfs_create, step for step.
LEMMA CreateIsCreate ==
  ASSUME Inv, Inv', Apart, NEW n \in Names, Create(n)
  PROVE  Bytes!Create(n)
<1>0. Bytes!Exists(n) <=> Exists(n)
  BY NamesOfView
<1>1. CASE Exists(n)
  <2>1. View' = View /\ Bytes!Answers(<<"create", n>>, "EEXIST", 0, <<>>)
    BY <1>1, ViewUnchanged DEF Create, Answers, Bytes!Answers
  <2> QED  BY <1>0, <1>1, <2>1 DEF Bytes!Create, View
<1>2. CASE ~Exists(n)
  <2>1. /\ files' = [m \in DOMAIN files \cup {n} |-> IF m = n THEN <<>> ELSE files[m]]
        /\ UNCHANGED skipped /\ Bytes!Answers(<<"create", n>>, "OK", 0, <<>>)
    BY <1>2 DEF Create, Answers, Bytes!Answers
  <2>2. n \notin skipped
    BY <1>2 DEF Inv, Exists
  <2>3. /\ DOMAIN files' = DOMAIN files \cup {n} /\ files'[n] = <<>>
        /\ \A m \in DOMAIN files : files'[m] = files[m]
    BY <1>2, <2>1 DEF Exists
  <2>4. \A m \in DOMAIN files : View'[m] = View[m]
    BY <2>1, <2>3 DEF View, Size
  <2>5. View'[n] = <<>>
    <3>1. Cardinality(DOMAIN <<>>) = 0
      <4>1. DOMAIN <<>> = {}
        OBVIOUS
      <4> QED  BY <4>1, FS_EmptySet
    <3>2. View'[n] = [i \in 1 .. 0 |-> At(<<>>, i - 1)]
      BY <2>1, <2>2, <2>3, <3>1 DEF View, Size
    <3>3. [i \in 1 .. 0 |-> At(<<>>, i - 1)] = <<>>
      OBVIOUS
    <3> QED  BY <3>2, <3>3
  <2>6. DOMAIN View' = DOMAIN View \cup {n} /\ View' = [m \in DOMAIN View' |-> View'[m]]
    BY <2>3 DEF View
  <2>7. View' = [m \in DOMAIN View \cup {n} |-> IF m = n THEN <<>> ELSE View[m]]
    <3>1. DOMAIN View = DOMAIN files
      BY DEF View
    <3>2. PICK V, W : V = View /\ W = View'
      OBVIOUS
    <3>3. W = [m \in DOMAIN V \cup {n} |-> IF m = n THEN <<>> ELSE V[m]]
      BY <2>4, <2>5, <2>6, <3>1, <3>2
    <3> QED  BY <3>2, <3>3
  <2> QED  BY <1>0, <1>2, <2>1, <2>7 DEF Bytes!Create, View
<1> QED  BY <1>1, <1>2

\* ramfs_unlink, step for step.
LEMMA UnlinkIsRemove ==
  ASSUME Inv, Inv', Apart, NEW n \in Names, Unlink(n)
  PROVE  Bytes!Remove(n)
<1>1. /\ files' = [m \in DOMAIN files \ {n} |-> files[m]] /\ skipped' = skipped \ {n}
      /\ Bytes!Answers(<<"remove", n>>, "OK", 0, <<>>)
  BY DEF Unlink, Answers, Bytes!Answers
<1>2. DOMAIN files' = DOMAIN files \ {n} /\ \A m \in DOMAIN files \ {n} : files'[m] = files[m]
  BY <1>1
<1>3. \A m \in DOMAIN files \ {n} : View'[m] = View[m]
  BY <1>1, <1>2 DEF View, Size
<1>4. /\ DOMAIN View' = DOMAIN View \ {n} /\ View' = [m \in DOMAIN View' |-> View'[m]]
      /\ DOMAIN View = DOMAIN files
  BY <1>2 DEF View
<1>5. View' = [m \in DOMAIN View \ {n} |-> View[m]]
  <2>1. PICK V, W : V = View /\ W = View'
    OBVIOUS
  <2>2. W = [m \in DOMAIN V \ {n} |-> V[m]]
    BY <1>3, <1>4, <2>1
  <2> QED  BY <2>1, <2>2
<1> QED  BY <1>1, <1>5 DEF Bytes!Remove, Bytes!Restrict, View

\* ramfs_read changes no byte, though operator[] may insert some, and returns
\* those asked for.
LEMMA ReadIsRead ==
  ASSUME Inv, Inv', Apart, NEW n \in Names, NEW off \in Offsets, NEW len \in Lengths,
         Read(n, off, len)
  PROVE  Bytes!Read(n, off, len)
<1> DEFINE call == <<"read", n, off, len>>
           last == IF off + len < Size(n) THEN off + len ELSE Size(n)
<1>0. off \in Nat /\ len \in Nat
  BY OffsetsAssumption, DataAssumption DEF Lengths
<1>1. CASE ~Exists(n)
  <2>1. NotFound(call, n)
    BY <1>1 DEF Read
  <2> QED  BY <2>1, RefusedCall DEF Bytes!Read
<1>2. CASE Exists(n) /\ n \in skipped
  <2>1. Bytes!Exists(n) /\ ~Bytes!Specified(n)
    BY <1>2, NamesOfView
  <2>2. answer'.call = call
    BY <1>2 DEF Read, Answers, NotFound
  <2>3. View' = View
    <3>1. CASE UNCHANGED <<files, skipped>>
      BY <3>1, ViewUnchanged
    <3>2. CASE off < Size(n)
      <4> DEFINE f == Filled(files[n], {Key(off + i) : i \in 0 .. ReadSize(n, off, len) - 1})
      <4>1. ~(off >= Size(n))
        BY <1>0, <1>2, <3>2, FileSize DEF Inv, Exists, Size
      <4>2. files' = [files EXCEPT ![n] = f] /\ skipped' = skipped
        BY <1>2, <4>1 DEF Read, NotFound
      <4> HIDE DEF f
      <4>3. View' = [View EXCEPT ![n] = View'[n]] /\ View'[n] = Unspecified
        BY <1>2, <4>2, ViewReplaced
      <4>4. View[n] = Unspecified /\ n \in DOMAIN View
        BY <1>2, ViewOfFile, ViewIsFunction DEF Exists
      <4>5. View = [m \in DOMAIN View |-> View[m]]
        BY ViewIsFunction
      <4>6. PICK V, W : V = View /\ W = View'
        OBVIOUS
      <4>7. W = V
        BY <4>3, <4>4, <4>5, <4>6
      <4> QED  BY <4>6, <4>7
    <3> QED  BY <1>2, <3>1, <3>2 DEF Read, NotFound
  <2> QED  BY <2>1, <2>2, <2>3 DEF Bytes!Read, View
<1>3. CASE Exists(n) /\ n \notin skipped
  <2>0. /\ Bytes!Exists(n) /\ Bytes!Specified(n) /\ View[n] = BytesOf(files[n])
        /\ Len(View[n]) = Size(n) /\ Whole(files[n]) /\ Size(n) \in Nat
    BY <1>3, NamesOfView, ViewOfFile, FileSize DEF Inv, Exists, Size
  <2>1. CASE off >= Size(n)
    <3>1. /\ ~(off < Size(n)) /\ UNCHANGED <<files, skipped>>
          /\ Bytes!Answers(call, "EINVAL", 0, <<>>)
      BY <1>0, <1>3, <2>0, <2>1 DEF Read, NotFound, Answers, Bytes!Answers
    <3>2. View' = View /\ ~(off < Len(View[n]))
      BY <2>0, <3>1, ViewUnchanged
    <3> QED  BY <2>0, <3>1, <3>2 DEF Bytes!Read, View
  <2>2. CASE off < Size(n)
    <3> DEFINE f == Filled(files[n], {Key(off + i) : i \in 0 .. ReadSize(n, off, len) - 1})
               size == ReadSize(n, off, len)
    <3>1. ~(off >= Size(n))
      BY <1>0, <2>0, <2>2
    <3>2. /\ files' = [files EXCEPT ![n] = f] /\ skipped' = skipped
          /\ answer' = [call |-> call, code |-> "OK", size |-> size,
                        bytes |-> [i \in 1 .. size |-> At(files[n], Key(off + i - 1))]]
      BY <1>3, <3>1 DEF Read, NotFound, Answers
    <3>3. f = files[n]
      BY <1>0, <1>3, <2>0, <2>2, ReadFile
    <3>4. files' = files
      BY <3>2, <3>3 DEF Inv
    <3>5. View' = View /\ off < Len(View[n])
      BY <2>0, <2>2, <3>2, <3>4, ViewUnchanged
    <3> DEFINE bytes == SubSeq(View[n], off + 1,
                               IF off + len < Len(View[n]) THEN off + len ELSE Len(View[n]))
    <3>6. /\ Len(bytes) = size
          /\ bytes = [i \in 1 .. size |-> At(files[n], Key(off + i - 1))]
      <4>1. /\ Len(View[n]) = Size(n) /\ View[n] = BytesOf(files[n])
            /\ last = IF off + len < Size(n) THEN off + len ELSE Size(n)
        BY <2>0
      <4>2. bytes = SubSeq(BytesOf(files[n]), off + 1, last)
        BY <4>1
      <4> HIDE DEF last, bytes
      <4>3. /\ Len(SubSeq(BytesOf(files[n]), off + 1, last)) = size
            /\ SubSeq(BytesOf(files[n]), off + 1, last) =
                 [i \in 1 .. size |-> At(files[n], Key(off + i - 1))]
        <5>1. PICK l : l = last
          OBVIOUS
        <5>2. l = IF off + len < Size(n) THEN off + len ELSE Size(n)
          BY <4>1, <5>1
        <5>3. /\ Len(SubSeq(BytesOf(files[n]), off + 1, l)) = ReadSize(n, off, len)
              /\ SubSeq(BytesOf(files[n]), off + 1, l) =
                   [i \in 1 .. ReadSize(n, off, len) |-> At(files[n], Key(off + i - 1))]
          <6>1. Exists(n) /\ Whole(files[n]) /\ off \in Nat /\ len \in Nat /\ off < Size(n)
            BY <1>0, <1>3, <2>0, <2>2
          <6>2. \A m : m = (IF off + len < Size(n) THEN off + len ELSE Size(n)) =>
                  Len(SubSeq(BytesOf(files[n]), off + 1, m)) = ReadSize(n, off, len)
            BY <6>1, ReadBytes
          <6>3. Len(SubSeq(BytesOf(files[n]), off + 1, l)) = ReadSize(n, off, len)
            BY <5>2, <6>2
          <6> QED  BY <5>2, <6>1, <6>3, ReadBytes
        <5> QED  BY <5>1, <5>3
      <4> QED  BY <4>2, <4>3
    <3>7. Bytes!Answers(call, "OK", Len(bytes), bytes)
      BY <3>2, <3>6 DEF Bytes!Answers
    <3> QED  BY <2>0, <3>5, <3>7 DEF Bytes!Read, View
  <2> QED  BY <1>0, <2>0, <2>1, <2>2
<1> QED  BY <1>1, <1>2, <1>3

\* ramfs_write, step for step; one that skips ends the promise for its file.
LEMMA WriteIsWrite ==
  ASSUME Inv, Inv', Apart, NEW n \in Names, NEW off \in Offsets, NEW data \in Data,
         Write(n, off, data)
  PROVE  Bytes!Write(n, off, data)
<1> DEFINE call == <<"write", n, off, data>>
           stop == off + Len(data)
<1>0. off \in Nat /\ data \in Seq(Nat) /\ Len(data) \in Nat
  BY OffsetsAssumption, DataAssumption
<1>1. CASE ~Exists(n)
  <2>1. NotFound(call, n)
    BY <1>1 DEF Write
  <2> QED  BY <2>1, RefusedCall DEF Bytes!Write
<1>2. CASE Exists(n)
  <2> DEFINE g == Written(files[n], off, data)
  <2>0. Bytes!Exists(n) /\ (Bytes!Specified(n) <=> n \notin skipped)
    BY <1>2, NamesOfView
  <2>1. files' = [files EXCEPT ![n] = g]
    BY <1>2, Zenon DEF Write, NotFound, Written
  <2>2. /\ skipped' = IF Skips(n, off, data) THEN skipped \cup {n} ELSE skipped
        /\ Bytes!Answers(call, "OK", Len(data), <<>>)
    BY <1>2 DEF Write, NotFound, Answers, Bytes!Answers
  <2>3. /\ View' = [View EXCEPT ![n] = View'[n]]
        /\ n \in skipped' => View'[n] = Unspecified
        /\ n \notin skipped' => View'[n] = BytesOf(g)
    <3>1. skipped' = skipped \/ skipped' = skipped \cup {n}
      BY <2>2
    <3> HIDE DEF g
    <3> QED  BY <1>2, <2>1, <3>1, ViewReplaced
  <2> DEFINE now == IF ~Bytes!Specified(n) THEN Unspecified
                    ELSE IF off > Len(View[n]) \/ stop > KeyHalf THEN Unspecified
                    ELSE SubSeq(View[n], 1, off) \o data
                         \o SubSeq(View[n], stop + 1, Len(View[n]))
  <2>4. View'[n] = now
    <3>1. CASE n \in skipped
      BY <2>0, <2>2, <2>3, <3>1
    <3>2. CASE n \notin skipped
      <4>1. /\ View[n] = BytesOf(files[n]) /\ Len(View[n]) = Size(n) /\ Whole(files[n])
            /\ IsFile(files[n])
        BY <1>2, <3>2, ViewOfFile DEF Inv, Exists
      <4>2. Skips(n, off, data) <=> off > Len(View[n]) \/ stop > KeyHalf
        BY <4>1 DEF Skips
      <4>3. CASE Skips(n, off, data)
        BY <2>0, <2>2, <2>3, <4>2, <4>3
      <4>4. CASE ~Skips(n, off, data)
        <5>1. off <= Cardinality(DOMAIN files[n]) /\ off + Len(data) <= KeyHalf
          BY <1>0, <4>1, <4>2, <4>4, KeyAssumption, FileSize DEF Size
        <5>2. BytesOf(g) = SubSeq(View[n], 1, off) \o data
                             \o SubSeq(View[n], stop + 1, Len(View[n]))
          BY <1>0, <4>1, <5>1, WrittenBytes
        <5> QED  BY <2>0, <2>2, <2>3, <3>2, <4>2, <4>4, <5>2
      <4> QED  BY <4>3, <4>4
    <3> QED  BY <3>1, <3>2
  <2>5. View' = [View EXCEPT ![n] = now]
    BY <2>3, <2>4
  <2> QED  BY <2>0, <2>2, <2>5 DEF Bytes!Write, View
<1> QED  BY <1>1, <1>2

\* ramfs_truncate, step for step.
LEMMA TruncateIsResize ==
  ASSUME Inv, Inv', Apart, NEW n \in Names, NEW length \in 0 .. KeyHalf - 1,
         Truncate(n, length)
  PROVE  Bytes!Resize(n, length)
<1> DEFINE call == <<"resize", n, length>>
<1>1. CASE ~Exists(n)
  <2>1. NotFound(call, n)
    BY <1>1 DEF Truncate
  <2> QED  BY <2>1, RefusedCall DEF Bytes!Resize
<1>2. CASE Exists(n)
  <2> DEFINE g == Resized(files[n], length)
  <2>0. Bytes!Exists(n) /\ (Bytes!Specified(n) <=> n \notin skipped)
    BY <1>2, NamesOfView
  <2>1. /\ files' = [files EXCEPT ![n] = g] /\ skipped' = skipped
        /\ Bytes!Answers(call, "EINVAL", 0, <<>>)
    BY <1>2 DEF Truncate, NotFound, Resized, Size, Answers, Bytes!Answers
  <2>2. /\ View' = [View EXCEPT ![n] = View'[n]]
        /\ n \in skipped' => View'[n] = Unspecified
        /\ n \notin skipped' => View'[n] = BytesOf(g)
    <3> HIDE DEF g
    <3> QED  BY <1>2, <2>1, ViewReplaced
  <2> DEFINE now == IF ~Bytes!Specified(n) THEN Unspecified
                    ELSE [i \in 1 .. length |-> IF i <= Len(View[n]) THEN View[n][i] ELSE 0]
  <2>3. View'[n] = now
    <3>1. CASE n \in skipped
      BY <2>0, <2>1, <2>2, <3>1
    <3>2. CASE n \notin skipped
      <4>1. View[n] = BytesOf(files[n]) /\ Whole(files[n]) /\ IsFile(files[n])
        BY <1>2, <3>2, ViewOfFile DEF Inv, Exists
      <4>2. BytesOf(g) = [i \in 1 .. length |-> IF i <= Len(View[n]) THEN View[n][i] ELSE 0]
        BY <4>1, ResizedBytes
      <4> QED  BY <2>0, <2>1, <2>2, <3>2, <4>2
    <3> QED  BY <3>1, <3>2
  <2>4. View' = [View EXCEPT ![n] = now]
    BY <2>2, <2>3
  <2> QED  BY <2>0, <2>1, <2>4 DEF Bytes!Resize, View
<1> QED  BY <1>1, <1>2

\* The empty map is an empty file system.
LEMMA InitIsInit == Init => Bytes!Init
<1> SUFFICES ASSUME Init PROVE Bytes!Init
  OBVIOUS
<1>1. DOMAIN files = {}
  <2>1. DOMAIN <<>> = {}
    OBVIOUS
  <2> QED  BY <2>1 DEF Init
<1>2. View = <<>>
  <2>1. DOMAIN View = {} /\ View = [m \in DOMAIN View |-> View[m]]
    BY <1>1 DEF View
  <2>2. PICK V : V = View
    OBVIOUS
  <2>3. V = <<>>
    BY <2>1, <2>2
  <2> QED  BY <2>2, <2>3
<1> QED  BY <1>2 DEF Init, Bytes!Init, View

\* Every handler is a call of ByteFS.
LEMMA StepIsStep ==
  ASSUME Inv, Inv', Apart, Next
  PROVE  Bytes!Next
<1>1. ASSUME NEW n \in Names, Create(n) PROVE Bytes!Next
  BY <1>1, CreateIsCreate DEF Bytes!Next
<1>2. ASSUME NEW n \in Names, CreateSpecial(n) PROVE Bytes!Next
  <2>1. View' = View /\ (Bytes!Exists(n) <=> Exists(n))
    BY <1>2, ViewUnchanged, NamesOfView DEF CreateSpecial
  <2>2. Bytes!CreateSpecial(n)
    BY <1>2, <2>1 DEF CreateSpecial, Answers, Bytes!CreateSpecial, Bytes!Answers, View
  <2> QED  BY <2>2 DEF Bytes!Next
<1>3. ASSUME NEW n \in Names, Unlink(n) PROVE Bytes!Next
  BY <1>3, UnlinkIsRemove DEF Bytes!Next
<1>4. ASSUME NEW n \in Names, Open(n) PROVE Bytes!Next
  <2>1. CASE Exists(n)
    <3>1. View' = View /\ Bytes!Exists(n) /\ Bytes!Answers(<<"open", n>>, "OK", 0, <<>>)
      BY <1>4, <2>1, ViewUnchanged, NamesOfView DEF Open, NotFound, Answers, Bytes!Answers
    <3>2. Bytes!Open(n)
      BY <3>1 DEF Bytes!Open, View
    <3> QED  BY <3>2 DEF Bytes!Next
  <2>2. CASE ~Exists(n)
    <3>1. NotFound(<<"open", n>>, n)
      BY <1>4, <2>2 DEF Open
    <3>2. Bytes!Open(n)
      BY <3>1, RefusedCall DEF Bytes!Open
    <3> QED  BY <3>2 DEF Bytes!Next
  <2> QED  BY <2>1, <2>2
<1>5. ASSUME NEW n \in Names, Getattr(n) PROVE Bytes!Next
  <2>1. CASE Exists(n)
    <3>1. /\ View' = View /\ Bytes!Exists(n)
          /\ answer' = [call |-> <<"stat", n>>, code |-> "OK", size |-> Size(n), bytes |-> <<>>]
      BY <1>5, <2>1, ViewUnchanged, NamesOfView DEF Getattr, NotFound, Answers
    <3>2. (IF Bytes!Specified(n) THEN Len(View[n]) ELSE answer'.size) = Size(n)
      BY <2>1, <3>1, NamesOfView, ViewOfFile DEF Exists
    <3>3. Bytes!Answers(<<"stat", n>>, "OK",
                        IF Bytes!Specified(n) THEN Len(View[n]) ELSE answer'.size, <<>>)
      BY <3>1, <3>2 DEF Bytes!Answers
    <3>4. Bytes!Stat(n)
      BY <3>1, <3>3 DEF Bytes!Stat, View
    <3> QED  BY <3>4 DEF Bytes!Next
  <2>2. CASE ~Exists(n)
    <3>1. NotFound(<<"stat", n>>, n)
      BY <1>5, <2>2 DEF Getattr
    <3>2. Bytes!Stat(n)
      BY <3>1, RefusedCall DEF Bytes!Stat
    <3> QED  BY <3>2 DEF Bytes!Next
  <2> QED  BY <2>1, <2>2
<1>6. ASSUME NEW n \in Names, NEW off \in Offsets, NEW len \in Lengths, Read(n, off, len)
      PROVE  Bytes!Next
  <2>1. len \in Bytes!Lengths
    BY DEF Lengths, Bytes!Lengths
  <2> QED  BY <1>6, <2>1, ReadIsRead DEF Bytes!Next
<1>7. ASSUME NEW n \in Names, NEW off \in Offsets, NEW data \in Data, Write(n, off, data)
      PROVE  Bytes!Next
  BY <1>7, WriteIsWrite DEF Bytes!Next
<1>8. ASSUME NEW n \in Names, NEW length \in 0 .. KeyHalf - 1, Truncate(n, length)
      PROVE  Bytes!Next
  BY <1>8, TruncateIsResize DEF Bytes!Next
<1>9. CASE Readdir
  <2>1. View' = View /\ DOMAIN View = DOMAIN files
    BY <1>9, ViewUnchanged, ViewIsFunction DEF Readdir
  <2>2. Bytes!Answers(<<"list">>, "OK", Cardinality(DOMAIN View), <<>>)
    BY <1>9, <2>1 DEF Readdir, Answers, Bytes!Answers
  <2>3. Bytes!List
    <3>1. DOMAIN [n \in DOMAIN files |->
                    IF n \in skipped THEN Unspecified
                    ELSE [i \in 1 .. Size(n) |-> At(files[n], i - 1)]] = DOMAIN files
      OBVIOUS
    <3>2. Bytes!Answers(<<"list">>, "OK", Cardinality(DOMAIN files), <<>>)
      BY <2>1, <2>2
    <3>3. Bytes!Cardinality(DOMAIN files) = Cardinality(DOMAIN files)
      BY DEF Bytes!Cardinality, Cardinality
    <3> QED  BY <2>1, <3>1, <3>2, <3>3 DEF Bytes!List, View
  <2> QED  BY <2>3 DEF Bytes!Next
<1>10. CASE Grant \/ NotImplemented
  <2>1. View' = View
    BY <1>10, ViewUnchanged DEF Grant, NotImplemented
  <2>2. Bytes!Grant \/ Bytes!Decline
    BY <1>10, <2>1 DEF Grant, NotImplemented, Answers, Bytes!Grant, Bytes!Decline,
       Bytes!Answers, View
  <2> QED  BY <2>2 DEF Bytes!Next
<1> QED
  BY <1>1, <1>2, <1>3, <1>4, <1>5, <1>6, <1>7, <1>8, <1>9, <1>10 DEF Next

\* The map of maps is a file system of byte sequences, for every width of int:
\* each call, in whatever order, does to the bytes what ByteFS says and answers
\* so, to every file that no write has skipped in.
THEOREM RamIsByteFS ==
  ASSUME Unspecified \notin Seq(Nat)
  PROVE  Spec => ImplementsByteFS
<1>0. Apart
  BY DEF Apart
<1>1. Init => Bytes!Init
  BY InitIsInit
<1>2. Inv /\ Inv' /\ [Next]_vars => Bytes!Next \/ (View' = View /\ answer' = answer)
  <2> SUFFICES ASSUME Inv, Inv', [Next]_vars
               PROVE  Bytes!Next \/ (View' = View /\ answer' = answer)
    OBVIOUS
  <2>1. CASE UNCHANGED vars
    BY <2>1, ViewUnchanged DEF vars
  <2>2. CASE Next
    BY <1>0, <2>2, StepIsStep
  <2> QED  BY <2>1, <2>2
<1>3. Bytes!Next \/ (View' = View /\ answer' = answer)
        => [Bytes!Next]_<<[n \in DOMAIN files |->
                             IF n \in skipped THEN Unspecified
                             ELSE [i \in 1 .. Size(n) |-> At(files[n], i - 1)]], answer>>
  BY DEF View
<1> QED
  BY <1>1, <1>2, <1>3, RamInvariant, PTL DEF Spec, ImplementsByteFS, Bytes!Spec
=============================================================================
