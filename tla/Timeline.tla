------------------------------ MODULE Timeline ------------------------------
(***************************************************************************)
(* The Timeline of a Session: an append-only log of summaries over its     *)
(* Transcript (core/history.py), and the plans core/compaction.py derives  *)
(* from it.  The Transcript is abstracted to the number of its complete    *)
(* units (Turns 1 .. n); a summary is abstracted to the units it covers.   *)
(***************************************************************************)
EXTENDS Naturals, Sequences, FiniteSets, SequencesExt, FiniteSetsExt

(* A fine record summarises one unit, a macro record several; a checkpoint *)
(* ends, and thereby commits, the transaction of the records before it.    *)
Fine(u) == [kind |-> "fine", cover |-> {u}]
Macro(us) == [kind |-> "macro", cover |-> us]
Checkpoint(us) == [kind |-> "checkpoint", cover |-> us]

(* The transaction [first, last] record i belongs to: the longest run of   *)
(* neighbours of one identity that no checkpoint interrupts.               *)
SameGroupUnnamed(tl, i, j) == \A k \in i .. j : tl[k].kind = "checkpoint" => k = j

SameGroup(tl, i, j) ==
    \A k \in i .. j : /\ tl[k].tx = tl[i].tx
                      /\ tl[k].kind = "checkpoint" => k = j

(* A record counts once its transaction has its checkpoint.                *)
Committed(tl) ==
    {i \in DOMAIN tl : \E j \in i .. Len(tl) :
        tl[j].kind = "checkpoint" /\ SameGroup(tl, i, j)}

Derived(tl) == {i \in Committed(tl) : tl[i].kind # "checkpoint"}

Superseded(tl) ==
    UNION {tl[i].cover : i \in {j \in Derived(tl) : tl[j].kind = "macro"}}

(* What a Provider request shows: macros hide the fine records they cover. *)
Logical(tl) ==
    {i \in Derived(tl) : tl[i].kind = "macro" \/ tl[i].cover \cap Superseded(tl) = {}}

ActiveFine(tl) == {i \in Logical(tl) : tl[i].kind = "fine"}

CoveredEnd(tl) == Max({0} \cup UNION {tl[i].cover : i \in Derived(tl)})

(* A new transaction, named after its first line, sealed by a checkpoint.  *)
Transaction(tl, derived) ==
    LET us == UNION {derived[i].cover : i \in DOMAIN derived}
        records == Append(derived, Checkpoint(us))
    IN  [i \in DOMAIN records |->
            [kind |-> records[i].kind, cover |-> records[i].cover, tx |-> Len(tl) + 1]]

(***************************************************************************)
(* Plans                                                                   *)
(***************************************************************************)
(* An L4 epoch takes a prefix of the units beyond the coverage: as many as *)
(* the budget admits, or the first alone when it is oversized.             *)
Epochs(n, tl) ==
    {(CoveredEnd(tl) + 1) .. k : k \in (CoveredEnd(tl) + 1) .. n}

EpochRecords(us) == [i \in 1 .. Cardinality(us) |-> Fine(Min(us) + i - 1)]

(* An L5 epoch takes the oldest transaction of fine records that are all   *)
(* still active.                                                           *)
FineGroups(tl) ==
    {g \in {{i \in DOMAIN tl : i < j /\ SameGroup(tl, i, j)} :
               j \in {k \in Committed(tl) : tl[k].kind = "checkpoint"}} :
        g \cap ActiveFine(tl) # {} /\ \A i \in g : tl[i].kind = "fine"}

AgingEpoch(tl) ==
    LET groups == FineGroups(tl)
        oldest == CHOOSE g \in groups : \A h \in groups : Min(g) <= Min(h)
    IN  IF groups = {} \/ ~ oldest \subseteq ActiveFine(tl) THEN {}
        ELSE UNION {tl[i].cover : i \in oldest}

=============================================================================
