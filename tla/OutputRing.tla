----------------------------- MODULE OutputRing -----------------------------
(***************************************************************************)
(* The bounded output of one process: _ManagedProcess.append and the       *)
(* cursors of ProcessSessionManager.read.  A chunk is the cursor of its    *)
(* first byte and its length; the ring holds at most MaxBytes bytes and    *)
(* loses whole chunks at its old end.                                      *)
(***************************************************************************)
EXTENDS Naturals, Sequences, Functions, Selection

CONSTANT MaxBytes    \* max_output_bytes

ASSUME MaxBytesAssumption == MaxBytes \in Nat \ {0}

Chunk == [at : Nat, len : Nat \ {0}]
NoOutput == [chunks |-> <<>>, next |-> 0]

\* Where the first retained byte stands; the end when nothing is retained.
Earliest(out) == IF out.chunks = <<>> THEN out.next ELSE out.chunks[1].at

\* The chunks that may stay: from each on at most MaxBytes bytes follow.
Kept(out) ==
    Selected(out.chunks, {c \in Range(out.chunks) : out.next - c.at <= MaxBytes})

Appended(out, n) ==
    LET new == [chunks |-> Append(out.chunks, [at |-> out.next, len |-> n]),
                next   |-> out.next + n]
    IN  [new EXCEPT !.chunks = Kept(new)]

\* ---------------------------------------------------------------- reading

Lost(out, cursor) == cursor < Earliest(out)

Entries(out, cursor) ==
    LET start == IF Lost(out, cursor) THEN Earliest(out) ELSE cursor
    IN  Selected(out.chunks, {c \in Range(out.chunks) : c.at >= start})
=============================================================================
