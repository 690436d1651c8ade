------------------------------ MODULE FileSpec ------------------------------
(***************************************************************************)
(* What a file system promises: a file is a sequence of bytes, and an open *)
(* one is read and written at its position.  It stays as it was written    *)
(* until it is truncated, open or closed; no two handles share a file.     *)
(***************************************************************************)
EXTENDS Sequences, Integers

CONSTANTS Handle, Name, Byte, Absent, EOF, Nothing

VARIABLES content,     \* the bytes of each file, or Absent
          handle,      \* Nothing, or the file and the position of an open one
          got,         \* what the last read returned
          broken       \* the promise has been called off

Opened(h, n) ==
  /\ handle[h] = Nothing
  /\ \A g \in Handle : handle[g] # Nothing => handle[g].name # n
  /\ handle' = [handle EXCEPT ![h] = [name |-> n, pos |-> 0]]
  /\ content' = [content EXCEPT ![n] = IF @ = Absent THEN <<>> ELSE @]
  /\ got' = Nothing

Moved(h, n) == handle' = [handle EXCEPT ![h].pos = n]

(* One byte: over the one at the position, or after the last.              *)
Written(h, b) ==
  LET f == handle[h]  c == content[f.name]
  IN  /\ content' = [content EXCEPT ![f.name] =
                       SubSeq(c, 1, f.pos) \o <<b>> \o SubSeq(c, f.pos + 2, Len(c))]
      /\ Moved(h, f.pos + 1) /\ got' = Nothing

ReadNext(h) ==
  LET f == handle[h]  c == content[f.name]
  IN  /\ UNCHANGED content
      /\ \/ f.pos < Len(c) /\ got' = c[f.pos + 1] /\ Moved(h, f.pos + 1)
         \/ f.pos >= Len(c) /\ got' = EOF /\ UNCHANGED handle

Sought(h) ==
  /\ \E n \in 0..Len(content[handle[h].name]) : Moved(h, n)
  /\ got' = Nothing /\ UNCHANGED content

Truncated(h) ==
  /\ content' = [content EXCEPT ![handle[h].name] = <<>>]
  /\ Moved(h, 0) /\ got' = Nothing

Closed(h) ==
  /\ handle' = [handle EXCEPT ![h] = Nothing]
  /\ got' = Nothing /\ UNCHANGED content

Rests == UNCHANGED <<content, handle, got>>

FileNext ==
  \/ broken' \/ Rests
  \/ \E h \in Handle :
       \/ \E n \in Name : Opened(h, n)
       \/ /\ handle[h] # Nothing
          /\ \/ \E b \in Byte : Written(h, b)
             \/ ReadNext(h) \/ Sought(h) \/ Truncated(h) \/ Closed(h)

FileInit ==
  /\ content \in [Name -> {Absent}] /\ handle = [h \in Handle |-> Nothing]
  /\ got = Nothing /\ ~broken

FilesKept == FileInit /\ [][FileNext]_<<content, handle, got>>
=============================================================================
