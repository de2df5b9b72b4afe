------------------------------ MODULE ByteFile ------------------------------
(***************************************************************************)
(* What a writer stream over a file promises (spec 4.3, 4.5): a sequence   *)
(* of bytes and a cursor.  A write stores its bytes at the cursor,         *)
(* overwriting or extending the file, and moves the cursor past them; a    *)
(* seek moves the cursor anywhere in [0, length]; flushing changes         *)
(* nothing a client can observe; closing ends the writer.                  *)
(***************************************************************************)
EXTENDS Naturals, Sequences

CONSTANTS Byte, MaxLength

VARIABLES content, cursor, open

fvars == <<content, cursor, open>>

\* The file after writing d at position p <= Len(c).
Overwrite(c, p, d) ==
    [i \in 1 .. IF p + Len(d) > Len(c) THEN p + Len(d) ELSE Len(c) |->
        IF p < i /\ i <= p + Len(d) THEN d[i - p] ELSE c[i]]

FInit ==
    /\ content = << >>
    /\ cursor = 0
    /\ open = TRUE

Put(d) ==
    /\ open
    /\ content' = Overwrite(content, cursor, d)
    /\ cursor' = cursor + Len(d)
    /\ UNCHANGED open

Seek(s) ==
    /\ open
    /\ s <= Len(content)
    /\ cursor' = s
    /\ UNCHANGED <<content, open>>

Close ==
    /\ open
    /\ open' = FALSE
    /\ UNCHANGED <<content, cursor>>

FNext ==
    \/ \E n \in 1 .. MaxLength : \E d \in [1 .. n -> Byte] : Put(d)
    \/ \E s \in 0 .. MaxLength : Seek(s)
    \/ Close

FSpec == FInit /\ [][FNext]_fvars
=============================================================================
