----------------------------- MODULE LfsAtomic -----------------------------
(***************************************************************************)
(* What littlefs promises of every operation that changes the disk: the    *)
(* durable value is the one before the operation until, in one step, it is *)
(* the one the operation is to bring about; success is reported only when  *)
(* it is; and a power loss leaves one of the two.  LfsPair implements this *)
(* for one metadata pair, LfsTree for the tree of directories, LfsFile for *)
(* the contents of a file.                                                 *)
(***************************************************************************)
CONSTANT Nothing

VARIABLES
    value,      \* what a mount would find on the disk now
    pending,    \* what the operation under way will make of it, or Nothing
    result      \* how the last operation ended

atomicVars == <<value, pending, result>>

Begin ==
    /\ pending = Nothing /\ pending' # Nothing
    /\ result' = "busy"
    /\ UNCHANGED value

TakeEffect ==
    /\ pending # Nothing /\ value' = pending
    /\ UNCHANGED <<pending, result>>

\* An error and a power loss may come before or after the value changed.
End ==
    /\ pending # Nothing /\ pending' = Nothing
    /\ value' \in {value, pending}
    /\ result' \in {"ok", "error", "lost"}
    /\ result' = "ok" => value' = pending

AtomicNext == Begin \/ TakeEffect \/ End

AtomicSpec == pending = Nothing /\ [][AtomicNext]_atomicVars
=============================================================================
