---------------------------- MODULE MigrateFile ----------------------------
(***************************************************************************)
(* One source file under repeated non-dry-run invocations of              *)
(* src/tools/migrate_log_levels.py: each invocation runs migrate_file on   *)
(* the content on disk and, as main() does, writes result.new_content back *)
(* when result.changes is non-empty.  The file's base name and initial     *)
(* content range over the sets the .cfg gives.                             *)
(***************************************************************************)
EXTENDS LogLevelMigration, TLC

CONSTANTS
    Names,      \* base names the file may have
    Contents,   \* contents (line sequences) the file may start with
    MaxPasses   \* number of invocations explored

ASSUME MaxPasses \in Nat \ {0}

VARIABLES
    name,       \* the file's base name
    disk,       \* the file's content on disk
    original,   \* its content before the first invocation (history)
    result,     \* the MigrationResult of the last invocation
    passes      \* invocations so far

vars == <<name, disk, original, result, passes>>

NoResult == [skipped |-> FALSE, error |-> FALSE, original |-> NoContent,
             new |-> NoContent, changes |-> <<>>]

Init ==
    /\ name \in Names
    /\ disk \in Contents
    /\ original = disk
    /\ result = NoResult
    /\ passes = 0

\* main(), lines 269-304, for this file in a non-dry run: migrate_file,
\* then (skipped, error and no-change results aside) write new_content.
Invoke ==
    /\ passes < MaxPasses
    /\ LET r == migrate_file(name, TRUE, disk)
       IN /\ result' = r
          /\ disk' = IF ~r.skipped /\ ~r.error /\ r.changes # <<>>
                     THEN r.new ELSE disk
    /\ passes' = passes + 1
    /\ UNCHANGED <<name, original>>

Next == Invoke

Spec == Init /\ [][Next]_vars

-----------------------------------------------------------------------------
Token == [ctx : {"bound", "word", "v2scope"}, qual : {"log_level", "log_level_v2"},
          name : STRING, tail : BOOLEAN]

TypeOK ==
    /\ name \in Names
    /\ disk \in Seq([kind : Directives \cup {"Code"}, toks : Seq(Token)])
    /\ original \in Contents
    /\ result.skipped \in BOOLEAN /\ result.error \in BOOLEAN
    /\ \A c \in ToSet(result.changes) : c[1] \in 1..Len(result.original)
    /\ passes \in 0..MaxPasses

\* Reported changes are exactly the edit (spec 4.4): the new content, less
\* the include line the injector may have added, differs from the original
\* at the reported line numbers and nowhere else, each reported pair is
\* that line before and after, and changes is non-empty iff new_content
\* differs from original_content.
ReportedChangesExact ==
    LET new == result.new
        old == result.original
        lines == {c[1] : c \in ToSet(result.changes)}
    IN
    ~result.skipped /\ ~result.error =>
        /\ \E rest \in {new} \cup {RemoveAt(new, i) : i \in
                            {i \in DOMAIN new : new[i] = INCLUDE_LINE}} :
              /\ Len(rest) = Len(old)
              /\ lines = {i \in DOMAIN old : rest[i] # old[i]}
              /\ \A c \in ToSet(result.changes) :
                    c[1] \in DOMAIN old /\ c[2] = old[c[1]] /\ c[3] = rest[c[1]]
        /\ (result.changes # <<>>) <=> (new # old)

\* Include single shot (spec 4.5, 8): after the first invocation, a
\* migrated file that had no log_level.h include holds exactly one include
\* line more and nothing else new; one that had one gains no line; and no
\* later invocation adds any line.
IncludeSingleShot ==
    LET Count(s) == Len(SelectSeq(s, LAMBDA l : l = INCLUDE_LINE))
        hadHeader == \E i \in DOMAIN original : original[i].kind \in LevelHeaderInclude
        migrated  == MigrateLines(original) # original
    IN  passes >= 1 /\ ~should_skip_file(name).skip =>
          IF migrated /\ ~hadHeader
          THEN /\ Count(disk) = Count(original) + 1
               /\ Len(disk) = Len(original) + 1
          ELSE Len(disk) = Len(original)

\* Spec 4.5, insertion point, as the spec words it: after the last include
\* of the kcenon/thread family; otherwise after the last include of any
\* kind; otherwise after a leading guard; otherwise at the top.
SpecInsertIndex(lines) ==
    LET thread == SelectLastInSeq(lines, LAMBDA l : l.kind \in ThreadInclude)
        any    == SelectLastInSeq(lines, LAMBDA l : l.kind \in StartsWithInclude)
        guard  == SelectInSeq(lines, LAMBDA l : l.kind \in HeaderGuard)
    IN  IF thread # 0 THEN thread ELSE IF any # 0 THEN any ELSE guard

\* The include the injector adds sits where spec 4.5 places it.
IncludeAtSpecPosition ==
    LET rewritten == MigrateLines(result.original)
    IN  Len(result.new) = Len(result.original) + 1 =>
            result.new = InsertAt(rewritten, SpecInsertIndex(rewritten) + 1, INCLUDE_LINE)
=============================================================================
