------------------------------- MODULE ByteFS -------------------------------
(***************************************************************************)
(* What an in-memory file system promises of the bytes of its files.  A    *)
(* file is the sequence of its bytes as long as no write skips past its    *)
(* end and it stays within a limit; from then on, until it is removed,     *)
(* nothing is promised of it but its name.                                 *)
(***************************************************************************)
EXTENDS Integers, Sequences, FiniteSets, Functions

CONSTANTS
  Name,         \* file names
  Offset,       \* offsets callers use
  Datum,        \* sequences of bytes callers write; 0 is a byte
  Limit,        \* size up to which the promise holds
  Unspecified   \* contents of which nothing is promised

VARIABLES
  files,        \* names in use -> contents
  answer        \* the last call and what it returned

Lengths == {Len(data) : data \in Datum}

Answers(call, code, size, bytes) ==
  answer' = [call |-> call, code |-> code, size |-> size, bytes |-> bytes]

Exists(n) == n \in DOMAIN files
Specified(n) == Exists(n) /\ files[n] # Unspecified

\* A call about a name not in use is refused.
Refuses(call, n) == ~Exists(n) /\ Answers(call, "ENOENT", 0, <<>>) /\ UNCHANGED files

Init ==
  /\ files = <<>>
  /\ answer = [call |-> <<"init">>, code |-> "OK", size |-> 0, bytes |-> <<>>]
-----------------------------------------------------------------------------
Create(n) ==
  LET call == <<"create", n>>
  IN  \/ Exists(n) /\ Answers(call, "EEXIST", 0, <<>>) /\ UNCHANGED files
      \/ /\ ~Exists(n)
         /\ files' = [m \in DOMAIN files \cup {n} |-> IF m = n THEN <<>> ELSE files[m]]
         /\ Answers(call, "OK", 0, <<>>)

\* Only regular files can be created.
CreateSpecial(n) ==
  /\ Answers(<<"create special", n>>, IF Exists(n) THEN "EEXIST" ELSE "EINVAL", 0, <<>>)
  /\ UNCHANGED files

\* To remove a file that does not exist succeeds as well.
Remove(n) ==
  /\ files' = Restrict(files, DOMAIN files \ {n})
  /\ Answers(<<"remove", n>>, "OK", 0, <<>>)

Open(n) ==
  \/ Refuses(<<"open", n>>, n)
  \/ Exists(n) /\ Answers(<<"open", n>>, "OK", 0, <<>>) /\ UNCHANGED files

Stat(n) ==
  \/ Refuses(<<"stat", n>>, n)
  \/ /\ Exists(n) /\ UNCHANGED files
     /\ Answers(<<"stat", n>>, "OK",
                IF Specified(n) THEN Len(files[n]) ELSE answer'.size, <<>>)

\* What there is of the bytes asked for, and an error at the end of the file.
Read(n, off, len) ==
  LET call == <<"read", n, off, len>>
      bytes == SubSeq(files[n], off + 1, IF off + len < Len(files[n]) THEN off + len
                                         ELSE Len(files[n]))
  IN  \/ Refuses(call, n)
      \/ /\ Specified(n) /\ UNCHANGED files
         /\ IF off < Len(files[n]) THEN Answers(call, "OK", Len(bytes), bytes)
            ELSE Answers(call, "EINVAL", 0, <<>>)
      \/ /\ Exists(n) /\ ~Specified(n) /\ UNCHANGED files
         /\ answer'.call = call

Write(n, off, data) ==
  LET call == <<"write", n, off, data>>
      f == files[n]
      end == off + Len(data)
  IN  \/ Refuses(call, n)
      \/ /\ Exists(n)
         /\ Answers(call, "OK", Len(data), <<>>)
         /\ files' = [files EXCEPT ![n] =
                       IF ~Specified(n) THEN Unspecified
                       ELSE IF off > Len(f) \/ end > Limit THEN Unspecified
                       ELSE SubSeq(f, 1, off) \o data \o SubSeq(f, end + 1, Len(f))]

\* The file gets the length, and the caller an error all the same.
Resize(n, length) ==
  LET call == <<"resize", n, length>>
  IN  \/ Refuses(call, n)
      \/ /\ Exists(n)
         /\ Answers(call, "EINVAL", 0, <<>>)
         /\ files' = [files EXCEPT ![n] =
                       IF ~Specified(n) THEN Unspecified
                       ELSE [i \in 1 .. length |->
                               IF i <= Len(files[n]) THEN files[n][i] ELSE 0]]

List ==
  /\ Answers(<<"list">>, "OK", Cardinality(DOMAIN files), <<>>)
  /\ UNCHANGED files

\* What is allowed to everyone, and what is not offered.
Grant == Answers(<<"access">>, "OK", 0, <<>>) /\ UNCHANGED files
Decline == Answers(<<"other">>, "EINVAL", 0, <<>>) /\ UNCHANGED files
-----------------------------------------------------------------------------
Next ==
  \/ \E n \in Name :
       \/ Create(n) \/ CreateSpecial(n) \/ Remove(n) \/ Open(n) \/ Stat(n)
       \/ \E off \in Offset, len \in Lengths : Read(n, off, len)
       \/ \E off \in Offset, data \in Datum : Write(n, off, data)
       \/ \E length \in 0 .. Limit - 1 : Resize(n, length)
  \/ List \/ Grant \/ Decline

Spec == Init /\ [][Next]_<<files, answer>>
=============================================================================
