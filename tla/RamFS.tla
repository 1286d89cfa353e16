------------------------------- MODULE RamFS --------------------------------
(***************************************************************************)
(* The in-memory example fuse-examples/ramfs/fuse-test.cpp: a std::map     *)
(* from names to files, each a std::map from int keys to bytes.  Nothing   *)
(* makes the keys of a file start at 0 and leave none out; its size is how *)
(* many there are.  operator[] inserts a zero under a key it does not      *)
(* find, also where it stands on the right of an assignment.               *)
(*                                                                         *)
(* One action per handler, as under fuse_main -s.  Which calls the kernel  *)
(* passes on does not matter: every handler may be called at any time, a   *)
(* truncate with lengths that are ints (the loop of ramfs_truncate counts  *)
(* with one).                                                              *)
(***************************************************************************)
EXTENDS Integers, Sequences, FiniteSets, FiniteSetsExt

CONSTANTS
  Names,        \* file names, without the slash strip_leading_slash removes
  Offsets,      \* offsets callers use
  Data,         \* byte sequences callers write
  KeyHalf       \* int keys run from -KeyHalf to KeyHalf - 1: 2^31 in the build

ASSUME OffsetsAssumption == Offsets \subseteq Nat
ASSUME DataAssumption == Data \subseteq Seq(Nat)
ASSUME KeyAssumption == KeyHalf \in Nat \ {0}

VARIABLES
  files,        \* FileMap: name -> (key -> byte)
  answer,       \* the last call and what it returned
  skipped       \* history: names of files some write has skipped past the end of

vars == <<files, answer, skipped>>

Lengths == {Len(data) : data \in Data}

\* off_t is converted to int where it becomes a key; mutant: it is not.
KeyWide(off) == off
Key(off) == ((off + KeyHalf) % (2 * KeyHalf)) - KeyHalf

Size(n) == Cardinality(DOMAIN files[n])

\* file_exists
Exists(n) == n \in DOMAIN files

\* operator[] of a file that has no such key inserts a zero.
At(f, k) == IF k \in DOMAIN f THEN f[k] ELSE 0
Filled(f, K) == [k \in DOMAIN f \cup K |-> At(f, k)]

Answers(call, code, size, bytes) ==
  answer' = [call |-> call, code |-> code, size |-> size, bytes |-> bytes]

NotFound(call, n) ==
  ~Exists(n) /\ Answers(call, "ENOENT", 0, <<>>) /\ UNCHANGED <<files, skipped>>
-----------------------------------------------------------------------------
\* ramfs_create, for a regular file and for anything else.
Create(n) ==
  \/ /\ Exists(n) /\ Answers(<<"create", n>>, "EEXIST", 0, <<>>)
     /\ UNCHANGED <<files, skipped>>
  \/ /\ ~Exists(n) /\ Answers(<<"create", n>>, "OK", 0, <<>>)
     /\ files' = [m \in DOMAIN files \cup {n} |-> IF m = n THEN <<>> ELSE files[m]]
     /\ UNCHANGED skipped

CreateSpecial(n) ==
  /\ Answers(<<"create special", n>>, IF Exists(n) THEN "EEXIST" ELSE "EINVAL", 0, <<>>)
  /\ UNCHANGED <<files, skipped>>

\* ramfs_unlink does not ask whether there is such a file.
Unlink(n) ==
  /\ files' = [m \in DOMAIN files \ {n} |-> files[m]]
  /\ skipped' = skipped \ {n}
  /\ Answers(<<"remove", n>>, "OK", 0, <<>>)

\* ramfs_open
Open(n) ==
  \/ NotFound(<<"open", n>>, n)
  \/ Exists(n) /\ Answers(<<"open", n>>, "OK", 0, <<>>) /\ UNCHANGED <<files, skipped>>

\* ramfs_getattr, ramfs_fgetattr
Getattr(n) ==
  \/ NotFound(<<"stat", n>>, n)
  \/ /\ Exists(n) /\ Answers(<<"stat", n>>, "OK", Size(n), <<>>)
     /\ UNCHANGED <<files, skipped>>

\* Mutant: the size asked for is not cut to what there is.
ReadSizeUncut(n, off, len) == len

\* How many bytes ramfs_read takes.
ReadSize(n, off, len) == IF off + len > Size(n) THEN Size(n) - off ELSE len

\* ramfs_read looks each byte up with operator[].
Read(n, off, len) ==
  LET call == <<"read", n, off, len>>
      size == ReadSize(n, off, len)
  IN  \/ NotFound(call, n)
      \/ /\ Exists(n) /\ off >= Size(n)
         /\ Answers(call, "EINVAL", 0, <<>>)
         /\ UNCHANGED <<files, skipped>>
      \/ /\ Exists(n) /\ off < Size(n)
         /\ files' = [files EXCEPT ![n] = Filled(@, {Key(off + i) : i \in 0 .. size - 1})]
         /\ Answers(call, "OK", size, [i \in 1 .. size |-> At(files[n], Key(off + i - 1))])
         /\ UNCHANGED skipped

Skips(n, off, data) == off > Size(n) \/ off + Len(data) > KeyHalf

\* ramfs_write assigns byte after byte; of two under one key the later stays.
Write(n, off, data) ==
  LET call == <<"write", n, off, data>>
      Last(k) == Max({i \in 1 .. Len(data) : Key(off + i - 1) = k})
      keys == {Key(off + i - 1) : i \in 1 .. Len(data)}
  IN  \/ NotFound(call, n)
      \/ /\ Exists(n)
         /\ files' = [files EXCEPT ![n] =
                       [k \in DOMAIN @ \cup keys |->
                          IF k \in keys THEN data[Last(k)] ELSE @[k]]]
         /\ skipped' = IF Skips(n, off, data) THEN skipped \cup {n} ELSE skipped
         /\ Answers(call, "OK", Len(data), <<>>)

\* file.erase(file.find(length), file.end()): nothing if there is no such key.
Cut(f, length) ==
  IF length \in DOMAIN f THEN [k \in {j \in DOMAIN f : j < length} |-> f[k]] ELSE f

\* Mutant: the loop runs from the key after to the length.
EnlargedBehind(f, size, length) ==
  [k \in DOMAIN f \cup size + 1 .. length |-> IF k \in DOMAIN f THEN f[k] ELSE 0]

\* The keys from size() on become zeros, those that are there already as well.
Enlarged(f, size, length) ==
  [k \in DOMAIN f \cup size .. length - 1 |->
     IF k \in size .. length - 1 THEN 0 ELSE f[k]]

\* ramfs_truncate returns -EINVAL also when it did what it was asked to.
Truncate(n, length) ==
  LET call == <<"resize", n, length>>
  IN  \/ NotFound(call, n)
      \/ /\ Exists(n)
         /\ files' = [files EXCEPT ![n] =
                       IF Size(n) > length THEN Cut(@, length)
                       ELSE Enlarged(@, Size(n), length)]
         /\ Answers(call, "EINVAL", 0, <<>>)
         /\ UNCHANGED skipped

\* ramfs_readdir of the root; of its answer, the number of names.
Readdir ==
  /\ Answers(<<"list">>, "OK", Cardinality(DOMAIN files), <<>>)
  /\ UNCHANGED <<files, skipped>>

\* ramfs_access and ramfs_opendir; and the handlers that are not implemented.
Grant == Answers(<<"access">>, "OK", 0, <<>>) /\ UNCHANGED <<files, skipped>>
NotImplemented == Answers(<<"other">>, "EINVAL", 0, <<>>) /\ UNCHANGED <<files, skipped>>
-----------------------------------------------------------------------------
Init ==
  /\ files = <<>>
  /\ answer = [call |-> <<"init">>, code |-> "OK", size |-> 0, bytes |-> <<>>]
  /\ skipped = {}

\* ramfs_oper
Next ==
  \/ \E n \in Names :
       \/ Create(n) \/ CreateSpecial(n) \/ Unlink(n) \/ Open(n) \/ Getattr(n)
       \/ \E off \in Offsets, len \in Lengths : Read(n, off, len)
       \/ \E off \in Offsets, data \in Data : Write(n, off, data)
       \/ \E length \in 0 .. KeyHalf - 1 : Truncate(n, length)
  \/ Readdir \/ Grant \/ NotImplemented

Spec == Init /\ [][Next]_vars
-----------------------------------------------------------------------------
(***************************************************************************)
(* Properties.                                                             *)
(***************************************************************************)

\* Keys are ints, bytes are bytes, and only files there are have been skipped in.
TypeOK ==
  /\ \A n \in DOMAIN files :
       /\ n \in Names
       /\ DOMAIN files[n] \subseteq -KeyHalf .. KeyHalf - 1
       /\ files[n] \in [DOMAIN files[n] -> Nat]
  /\ skipped \subseteq DOMAIN files
  /\ answer.code \in {"OK", "ENOENT", "EEXIST", "EINVAL"} /\ answer.size \in Nat

\* A file has the keys from 0 to its size, with none left out, unless some
\* write has skipped past its end: what size(), the range check of ramfs_read
\* and find() in ramfs_truncate take for granted.
Dense ==
  \A n \in DOMAIN files \ skipped : DOMAIN files[n] = 0 .. Size(n) - 1

\* The map of maps is a file system of byte sequences: every call, in whatever
\* order, does to the files and answers what it says.
CONSTANT Unspecified

Bytes == INSTANCE ByteFS WITH
  Name <- Names, Offset <- Offsets, Datum <- Data, Limit <- KeyHalf,
  files <- [n \in DOMAIN files |->
              IF n \in skipped THEN Unspecified
              ELSE [i \in 1 .. Size(n) |-> At(files[n], i - 1)]]

ImplementsByteFS == Bytes!Spec
=============================================================================
