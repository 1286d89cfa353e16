------------------------------- MODULE FlatFS -------------------------------
(***************************************************************************)
(* What a flat file system with hard links promises: a map from names to   *)
(* files, each with an identity and the looks a user can see.  A call      *)
(* changes one name, or the looks of one file, and nothing else.           *)
(***************************************************************************)
EXTENDS Functions

CONSTANTS
  Name,      \* file names
  Id,        \* identities of files
  Look,      \* what a file may look like
  NewLook    \* what a file just made may look like

VARIABLE
  files      \* names in use -> [id, look]

Ids == {files[n].id : n \in DOMAIN files}

Init == files = <<>>

\* The names of S, and the files they name, are what they were.
Same(S) == Restrict(files', S) = Restrict(files, S)
-----------------------------------------------------------------------------
Create(n) ==
  /\ n \notin DOMAIN files
  /\ DOMAIN files' = DOMAIN files \cup {n}
  /\ files'[n].id \in Id \ Ids
  /\ files'[n].look \in NewLook
  /\ Same(DOMAIN files)

Remove(n) ==
  /\ files' = Restrict(files, DOMAIN files \ {n})

Join(o, n) ==
  /\ n \notin DOMAIN files
  /\ DOMAIN files' = DOMAIN files \cup {n}
  /\ files'[n] = files[o]
  /\ Same(DOMAIN files)

\* A file that has the new name already loses it.
Move(o, n) ==
  /\ o # n
  /\ DOMAIN files' = (DOMAIN files \ {o}) \cup {n}
  /\ files'[n] = files[o]
  /\ Same(DOMAIN files \ {o, n})

\* All names of the file show the change.
Change(n) ==
  /\ DOMAIN files' = DOMAIN files
  /\ files'[n].id = files[n].id
  /\ files'[n].look \in Look
  /\ \A m \in DOMAIN files :
       files'[m] = IF files[m].id = files[n].id THEN files'[n] ELSE files[m]

Next ==
  \/ \E n \in DOMAIN files : Remove(n) \/ Change(n)
  \/ \E n \in Name : \/ Create(n)
                     \/ \E o \in DOMAIN files : Join(o, n) \/ Move(o, n)

Spec == Init /\ [][Next]_files
=============================================================================
