----------------------------- MODULE ByteStream -----------------------------
(***************************************************************************)
(* What the writer and then a reader of one file promise together (spec    *)
(* 4.2, 4.3, 4.5, 8): ByteFile's writer, and once it is closed, readers    *)
(* that see exactly the bytes written.  A reader has a cursor in [0, N],   *)
(* N the file's length; every byte it returns is tagged with the position  *)
(* it came from, so that a byte from the wrong place is a wrong result:    *)
(*   readByte   the byte at the cursor, or an exception at N;              *)
(*   read(n)    the min(n, N - cursor) bytes from the cursor;              *)
(*   eof()      whether the cursor is at N;                                *)
(*   seek(p)    the cursor moves to any p in [0, N] (spec 8).              *)
(***************************************************************************)
EXTENDS ByteFile

VARIABLES
    rcursor,  \* the reader's position in the file
    ropen,    \* a reader is open
    rres      \* the reader's last call: kind, argument, what it returned

svars == <<content, cursor, open, rcursor, ropen, rres>>

rvars == <<rcursor, ropen, rres>>

Result(kind, arg, got) == [kind |-> kind, arg |-> arg, got |-> got]

NoResult == Result("none", 0, << >>)

\* The k bytes from position p, each with its position.
Bytes(p, k) == [i \in 1 .. k |-> << p + i - 1, content[p + i] >>]

SInit ==
    /\ FInit
    /\ rcursor = 0
    /\ ropen = FALSE
    /\ rres = NoResult

\* A reader is opened on the committed, non-empty file.
ROpen ==
    /\ ~open /\ ~ropen
    /\ Len(content) > 0
    /\ rcursor' = 0
    /\ ropen' = TRUE
    /\ rres' = NoResult

RByte ==
    /\ ropen
    /\ IF rcursor < Len(content)
       THEN /\ rcursor' = rcursor + 1
            /\ rres' = Result("bytes", 0, Bytes(rcursor, 1))
       ELSE /\ rres' = Result("exception", 0, << >>)
            /\ UNCHANGED rcursor
    /\ UNCHANGED ropen

RRead(n) ==
    /\ ropen
    /\ LET k == IF n <= Len(content) - rcursor THEN n ELSE Len(content) - rcursor
       IN  /\ rcursor' = rcursor + k
           /\ rres' = Result("bytes", n, Bytes(rcursor, k))
    /\ UNCHANGED ropen

REof ==
    /\ ropen
    /\ rres' = Result(IF rcursor = Len(content) THEN "eof" ELSE "more", 0, << >>)
    /\ UNCHANGED <<rcursor, ropen>>

RSeek(p) ==
    /\ ropen
    /\ p <= Len(content)
    /\ rcursor' = p
    /\ rres' = Result("seek", p, << >>)
    /\ UNCHANGED ropen

RClose ==
    /\ ropen
    /\ ropen' = FALSE
    /\ rres' = NoResult
    /\ UNCHANGED rcursor

SNext ==
    \/ FNext /\ UNCHANGED rvars
    \/ /\ UNCHANGED <<content, cursor, open>>
       /\ \/ ROpen
          \/ RByte
          \/ \E n \in 1 .. MaxLength : RRead(n)
          \/ REof
          \/ \E p \in 0 .. MaxLength : RSeek(p)
          \/ RClose

SSpec == SInit /\ [][SNext]_svars
=============================================================================
