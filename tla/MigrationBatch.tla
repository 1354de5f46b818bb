--------------------------- MODULE MigrationBatch ---------------------------
(***************************************************************************)
(* What an invocation of the migration tool guarantees of the source     *)
(* tree: between invocations nothing changes; while one runs a file       *)
(* changes only as a whole, from its bytes to the bytes of its complete   *)
(* migration; an invocation that is cut short may leave the one file it   *)
(* was writing torn, holding a prefix of its migration.  Spec 5 asks for  *)
(* atomic writes, which is this with every Abort leaving no torn file     *)
(* (MigrationRunner's AtomicWrite).  How the tool gets there (discovery, *)
(* reading, backups, the open and the write) is MigrationRunner's.        *)
(***************************************************************************)
EXTENDS Naturals, Sequences

CONSTANTS
    Files,          \* the files of the source tree
    Rewrite(_, _),  \* Rewrite(f, b): the bytes a complete migration of f leaves when f holds b
    EmptyLines      \* the lines an empty file reads as

VARIABLES
    disk,           \* disk[f]: the bytes of f
    busy            \* an invocation is running

vars == <<disk, busy>>

Init == DOMAIN disk = Files /\ ~busy

Begin == ~busy /\ busy' /\ UNCHANGED disk

\* One file replaced, in one step, by its migration.
Migrate(f) ==
    /\ busy
    /\ disk' = [disk EXCEPT ![f] = Rewrite(f, disk[f])]
    /\ UNCHANGED busy

\* The invocation ends: completed, failed or interrupted.
End == busy /\ ~busy' /\ UNCHANGED disk

\* The invocation is cut short while f is written: f is left empty or
\* with the first k lines of its migration.
Abort(f) ==
    LET new == Rewrite(f, disk[f])
    IN  /\ busy /\ ~busy'
        /\ \E torn \in {EmptyLines} \cup {SubSeq(new.lines, 1, k) : k \in 1..(Len(new.lines) - 1)} :
              disk' = [disk EXCEPT ![f] = [new EXCEPT !.lines = torn]]

Next == Begin \/ (\E f \in Files : Migrate(f) \/ Abort(f)) \/ End

Spec == Init /\ [][Next]_vars
=============================================================================
