------------------------------ MODULE PosixFS ------------------------------
(***************************************************************************)
(* The host filesystem the file handlers write to (the operating system,   *)
(* not code of this repository).  A name is bound to an inode; an open     *)
(* file is an inode and an offset held by the goroutine that opened it, so *)
(* a goroutine keeps writing to its inode after the name is removed or     *)
(* renamed away.  Creating an existing name truncates the inode it is      *)
(* bound to (O_CREAT|O_TRUNC, as os.Create does).                          *)
(***************************************************************************)
EXTENDS Naturals, Sequences

CONSTANTS
    Names,      \* file names
    Inodes,     \* inode numbers; a bound on the files ever created
    Bytes,      \* chunk values
    Zero,       \* the value read from a hole
    None        \* no inode

VARIABLES
    link,       \* link[n]: the inode name n is bound to, or None
    data,       \* data[i]: the bytes of inode i
    nextIno     \* the next inode number to allocate

FSTypeOK ==
    /\ link \in [Names -> Inodes \cup {None}]
    /\ data \in [Inodes -> Seq(Bytes \cup {Zero})]
    /\ nextIno \in Nat

Exists(n) == link[n] # None
Contents(n) == data[link[n]]

\* The inode os.Create(n) opens: the one n is bound to, else a fresh one.
InodeFor(n) == IF link[n] = None THEN nextIno ELSE link[n]

\* os.Create(n): bind n to a fresh inode, or truncate the one it names.
Create(n) ==
    /\ link[n] = None => nextIno \in Inodes
    /\ data' = [data EXCEPT ![InodeFor(n)] = <<>>]
    /\ link' = [link EXCEPT ![n] = InodeFor(n)]
    /\ nextIno' = IF link[n] = None THEN nextIno + 1 ELSE nextIno

\* pwrite of chunk c at offset o of bytes b: writing past the end leaves a hole.
WriteAt(b, o, c) ==
    [k \in 1 .. IF Len(b) > o THEN Len(b) ELSE o + 1 |->
        IF k = o + 1 THEN c ELSE IF k <= Len(b) THEN b[k] ELSE Zero]

\* A write through an open file: inode i at offset o.
Write(i, o, c) ==
    /\ data' = [data EXCEPT ![i] = WriteAt(@, o, c)]
    /\ UNCHANGED <<link, nextIno>>

\* os.Remove(n): unbind the name; removing a missing name changes nothing.
Remove(n) ==
    /\ link' = [link EXCEPT ![n] = None]
    /\ UNCHANGED <<data, nextIno>>

\* os.Rename(a, b), when a exists: b now names a's inode, a names nothing.
Rename(a, b) ==
    /\ link[a] # None
    /\ link' = [link EXCEPT ![b] = link[a], ![a] = None]
    /\ UNCHANGED <<data, nextIno>>
=============================================================================
