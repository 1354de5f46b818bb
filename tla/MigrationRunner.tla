--------------------------- MODULE MigrationRunner ---------------------------
(***************************************************************************)
(* main() of src/tools/migrate_log_levels.py over a small source tree,     *)
(* invoked again and again by a user with any choice of --dry-run and      *)
(* --backup and of the path argument.  One process runs at a time and     *)
(* handles the discovered files one after the other.  A process may be    *)
(* interrupted (Ctrl-C, kill) between any two of its file-system steps,   *)
(* and the backup copy, the open for writing and the write may raise an   *)
(* OSError, which main() does not catch.                                   *)
(*                                                                         *)
(* A file's bytes on disk are [lines, eol]: its line sequence and its     *)
(* line terminator.  open(..., 'r') reads with universal newlines, so the *)
(* program sees only the lines; open(..., 'w') writes '\n' terminators;   *)
(* shutil.copy2 copies the bytes as they are.                              *)
(***************************************************************************)
EXTENDS LogLevelMigration, Integers, TLC

CONSTANTS
    Tree,            \* the files under the root directory, in sorted path order
    BaseName,        \* BaseName[f]: the file's base name
    Unreadable,      \* files whose open(..., 'r') raises
    InitialContent,  \* InitialContent[f]: the lines f may hold initially
    Eols,            \* line terminators files may have initially
    Root, Missing,   \* the root directory and a path that does not exist
    NoBackup,        \* model value: no .bak sibling exists
    MaxRuns,         \* invocations of the tool explored
    MaxInterrupts,   \* interrupts explored, over all invocations
    MaxIOErrors      \* OSErrors of copy/open/write explored, over all invocations

Files == ToSet(Tree)

ASSUME /\ Unreadable \subseteq Files
       /\ Root \notin Files /\ Missing \notin Files
       /\ MaxRuns \in Nat \ {0}
       /\ MaxInterrupts \in Nat /\ MaxIOErrors \in Nat

\* SUPPORTED_EXTENSIONS (line 50)
SUPPORTED_EXTENSIONS == {".cpp", ".hpp", ".h", ".cc", ".cxx", ".hxx"}

Targets == {Root, Missing} \cup Files

VARIABLES
    disk,        \* disk[f]: the bytes of f
    bak,         \* bak[f]: the bytes of f.bak, or NoBackup
    pc,          \* "idle" between invocations, else where the process is
    args,        \* [dry, backup, target] of the running invocation
    files,       \* the list find_files returned
    idx,         \* index in files of the file being handled
    pending,     \* result.new_content of the file being written
    counters,    \* [changed, skipped, total] of the running invocation
    exitCode,    \* exit status of the last invocation, or -1 while running
    summary,     \* the last invocation printed its summary
    runs, interrupts, ioErrors,  \* bounds
    pristine,    \* history: disk before the first invocation
    atStart,     \* history: disk when the running invocation started
    unbacked     \* history: files some invocation opened for writing without --backup

vars == <<disk, bak, pc, args, files, idx, pending, counters, exitCode,
          summary, runs, interrupts, ioErrors, pristine, atStart, unbacked>>

-----------------------------------------------------------------------------
\* Path.suffix of a base name: from its last dot, "" for a leading dot.
Suffix(nm) ==
    LET dots == {i \in 2..Len(nm) : SubSeq(nm, i, i) = "."}
    IN  IF dots = {} THEN "" ELSE SubSeq(nm, Max(dots), Len(nm))

EndsWith(nm, ext) ==
    Len(nm) >= Len(ext) /\ SubSeq(nm, Len(nm) - Len(ext) + 1, Len(nm)) = ext

\* find_files (lines 217-230).  The rglob results are collected per
\* extension and then sorted, so the list is the tree order filtered.
find_files(target) ==
    IF target \in Files
    THEN IF Suffix(BaseName[target]) \in SUPPORTED_EXTENSIONS
         THEN <<target>> ELSE <<>>
    ELSE SelectSeq(Tree, LAMBDA f :
                     \E ext \in SUPPORTED_EXTENSIONS : EndsWith(BaseName[f], ext))

\* What f.read() returns, split into lines: the terminators are gone.
ReadLines(f) == disk[f].lines

\* The bytes f.write(new_content) leaves.
Written(lines) == [lines |-> lines, eol |-> "LF"]

Running == pc \notin {"idle"}

-----------------------------------------------------------------------------
Init ==
    /\ disk \in [Files -> [lines : UNION Range(InitialContent), eol : Eols]]
    /\ \A f \in Files : disk[f].lines \in InitialContent[f]
    /\ bak = [f \in Files |-> NoBackup]
    /\ pc = "idle"
    /\ args = [dry |-> FALSE, backup |-> FALSE, target |-> Root]
    /\ files = <<>>
    /\ idx = 0
    /\ pending = NoContent
    /\ counters = [changed |-> 0, skipped |-> 0, total |-> 0]
    /\ exitCode = 0
    /\ summary = FALSE
    /\ runs = 0 /\ interrupts = 0 /\ ioErrors = 0
    /\ pristine = disk
    /\ atStart = disk
    /\ unbacked = {}

\* Lines 249-259: parse the arguments, reject a missing path with exit
\* code 1, discover the files, stop with exit code 0 when there are none.
Start ==
    /\ pc = "idle"
    /\ runs < MaxRuns
    /\ \E dry, backup \in BOOLEAN, target \in Targets :
         LET found == find_files(target)
         IN /\ args' = [dry |-> dry, backup |-> backup, target |-> target]
            /\ files' = found
            /\ pc' = IF target = Missing \/ found = <<>> THEN "idle" ELSE "loop"
            /\ exitCode' = IF target = Missing THEN 1
                           ELSE IF found = <<>> THEN 0 ELSE -1
    /\ runs' = runs + 1
    /\ idx' = 1
    /\ counters' = [changed |-> 0, skipped |-> 0, total |-> 0]
    /\ summary' = FALSE
    /\ atStart' = disk
    /\ UNCHANGED <<disk, bak, pending, interrupts, ioErrors, pristine, unbacked>>

\* Mutant: files_changed counted before the no-change check.
ProcessFile_count_unchanged ==
    /\ pc = "loop"
    /\ idx <= Len(files)
    /\ LET f == files[idx]
           r == migrate_file(BaseName[f], f \notin Unreadable, ReadLines(f))
           write == ~r.error /\ ~r.skipped /\ r.changes # <<>> /\ ~args.dry
       IN /\ counters' =
               IF r.error THEN counters
               ELSE IF r.skipped THEN [counters EXCEPT !.skipped = @ + 1]
               ELSE [counters EXCEPT !.changed = @ + 1,
                                     !.total = @ + Len(r.changes)]
          /\ pending' = r.new
          /\ pc' = IF ~write THEN "loop"
                   ELSE IF args.backup THEN "backup" ELSE "open"
          /\ idx' = IF write THEN idx ELSE idx + 1
    /\ UNCHANGED <<disk, bak, args, files, exitCode, summary, runs,
                   interrupts, ioErrors, pristine, atStart, unbacked>>

\* Mutant: the no-change branch (line 281) falls through to the write.
ProcessFile_write_unchanged ==
    /\ pc = "loop"
    /\ idx <= Len(files)
    /\ LET f == files[idx]
           r == migrate_file(BaseName[f], f \notin Unreadable, ReadLines(f))
           write == ~r.error /\ ~r.skipped /\ ~args.dry
       IN /\ counters' =
               IF r.error THEN counters
               ELSE IF r.skipped THEN [counters EXCEPT !.skipped = @ + 1]
               ELSE IF r.changes = <<>> THEN counters
               ELSE [counters EXCEPT !.changed = @ + 1,
                                     !.total = @ + Len(r.changes)]
          /\ pending' = r.new
          /\ pc' = IF ~write THEN "loop"
                   ELSE IF args.backup THEN "backup" ELSE "open"
          /\ idx' = IF write THEN idx ELSE idx + 1
    /\ UNCHANGED <<disk, bak, args, files, exitCode, summary, runs,
                   interrupts, ioErrors, pristine, atStart, unbacked>>

\* Mutant: the index also advanced for a file that is about to be written.
ProcessFile_double_advance ==
    /\ pc = "loop"
    /\ idx <= Len(files)
    /\ LET f == files[idx]
           r == migrate_file(BaseName[f], f \notin Unreadable, ReadLines(f))
           write == ~r.error /\ ~r.skipped /\ r.changes # <<>> /\ ~args.dry
       IN /\ counters' =
               IF r.error THEN counters
               ELSE IF r.skipped THEN [counters EXCEPT !.skipped = @ + 1]
               ELSE IF r.changes = <<>> THEN counters
               ELSE [counters EXCEPT !.changed = @ + 1,
                                     !.total = @ + Len(r.changes)]
          /\ pending' = r.new
          /\ pc' = IF ~write THEN "loop"
                   ELSE IF args.backup THEN "backup" ELSE "open"
          /\ idx' = idx + 1
    /\ UNCHANGED <<disk, bak, args, files, exitCode, summary, runs,
                   interrupts, ioErrors, pristine, atStart, unbacked>>

\* One iteration of the loop of lines 268-304 up to the write: migrate_file,
\* the error / skipped / no-change branches, the counters, then either the
\* next file (dry run) or the backup-and-write steps below.
ProcessFile ==
    /\ pc = "loop"
    /\ idx <= Len(files)
    /\ LET f == files[idx]
           r == migrate_file(BaseName[f], f \notin Unreadable, ReadLines(f))
           write == ~r.error /\ ~r.skipped /\ r.changes # <<>> /\ ~args.dry
       IN /\ counters' =
               IF r.error THEN counters
               ELSE IF r.skipped THEN [counters EXCEPT !.skipped = @ + 1]
               ELSE IF r.changes = <<>> THEN counters
               ELSE [counters EXCEPT !.changed = @ + 1,
                                     !.total = @ + Len(r.changes)]
          /\ pending' = r.new
          /\ pc' = IF ~write THEN "loop"
                   ELSE IF args.backup THEN "backup" ELSE "open"
          /\ idx' = IF write THEN idx ELSE idx + 1
    /\ UNCHANGED <<disk, bak, args, files, exitCode, summary, runs,
                   interrupts, ioErrors, pristine, atStart, unbacked>>

\* The first k lines of a write or copy cut short; an empty file for k = 0.
Prefix(lines, k) == IF k = 0 THEN EmptyContent ELSE SubSeq(lines, 1, k)

\* The bytes of a copy of b cut short after k lines.
Torn(b, k) == [lines |-> Prefix(b.lines, k), eol |-> b.eol]

\* Mutant: the backup copied after the write, so it holds the new content.
Backup_after_write ==
    /\ pc = "backup"
    /\ bak' = [bak EXCEPT ![files[idx]] = Written(pending)]
    /\ pc' = "open"
    /\ UNCHANGED <<disk, args, files, idx, pending, counters, exitCode,
                   summary, runs, interrupts, ioErrors, pristine, atStart, unbacked>>

\* shutil.copy2(filepath, filepath + '.bak') (line 301), first step:
\* copyfile opens the destination with 'wb', truncating any old .bak.
Backup ==
    /\ pc = "backup"
    /\ bak' = [bak EXCEPT ![files[idx]] = Torn(disk[files[idx]], 0)]
    /\ pc' = "copy"
    /\ UNCHANGED <<disk, args, files, idx, pending, counters, exitCode,
                   summary, runs, interrupts, ioErrors, pristine, atStart, unbacked>>

\* copy2, second step: the bytes are copied (and the metadata).
BackupCopy ==
    /\ pc = "copy"
    /\ bak' = [bak EXCEPT ![files[idx]] = disk[files[idx]]]
    /\ pc' = "open"
    /\ UNCHANGED <<disk, args, files, idx, pending, counters, exitCode,
                   summary, runs, interrupts, ioErrors, pristine, atStart, unbacked>>

\* open(filepath, 'w') (line 303) truncates the file.
OpenForWrite ==
    /\ pc = "open"
    /\ disk' = [disk EXCEPT ![files[idx]] = Written(EmptyContent)]
    /\ pc' = "write"
    /\ unbacked' = IF args.backup THEN unbacked ELSE unbacked \cup {files[idx]}
    /\ UNCHANGED <<bak, args, files, idx, pending, counters, exitCode,
                   summary, runs, interrupts, ioErrors, pristine, atStart>>

\* Mutant: the content written one line short.
WriteContent_drop_last ==
    /\ pc = "write"
    /\ disk' = [disk EXCEPT ![files[idx]] =
                 Written(SubSeq(pending, 1, Len(pending) - 1))]
    /\ pc' = "loop"
    /\ idx' = idx + 1
    /\ UNCHANGED <<bak, args, files, pending, counters, exitCode, summary,
                   runs, interrupts, ioErrors, pristine, atStart, unbacked>>

\* f.write(result.new_content) and close (line 304); on to the next file.
WriteContent ==
    /\ pc = "write"
    /\ disk' = [disk EXCEPT ![files[idx]] = Written(pending)]
    /\ pc' = "loop"
    /\ idx' = idx + 1
    /\ UNCHANGED <<bak, args, files, pending, counters, exitCode, summary,
                   runs, interrupts, ioErrors, pristine, atStart, unbacked>>

\* An OSError from copy2, open or write propagates out of main(): the
\* process ends with a traceback and exit status 1, no summary.  copy2
\* may fail before it opens the .bak, or during the copy, leaving a prefix
\* of the source in it; a failed write may leave a prefix of the new lines.
IOError ==
    /\ pc \in {"backup", "copy", "open", "write"}
    /\ ioErrors < MaxIOErrors
    /\ \/ pc \in {"backup", "open"} /\ UNCHANGED <<disk, bak>>
       \/ pc = "copy" /\ UNCHANGED disk
          /\ \E k \in 0..(Len(disk[files[idx]].lines) - 1) :
                bak' = [bak EXCEPT ![files[idx]] = Torn(disk[files[idx]], k)]
       \/ pc = "write" /\ UNCHANGED bak
          /\ \E k \in 0..(Len(pending) - 1) :
                disk' = [disk EXCEPT ![files[idx]] = Written(Prefix(pending, k))]
    /\ pc' = "idle"
    /\ exitCode' = 1
    /\ ioErrors' = ioErrors + 1
    /\ UNCHANGED <<args, files, idx, pending, counters, summary, runs,
                   interrupts, pristine, atStart, unbacked>>

\* Ctrl-C or a kill between two file-system steps of a running process.
Interrupt ==
    /\ Running
    /\ interrupts < MaxInterrupts
    /\ pc' = "idle"
    /\ exitCode' = 130
    /\ interrupts' = interrupts + 1
    /\ UNCHANGED <<disk, bak, args, files, idx, pending, counters, summary,
                   runs, ioErrors, pristine, atStart, unbacked>>

\* Lines 306-319: the loop is done; print the summary and return (exit 0).
Finish ==
    /\ pc = "loop"
    /\ idx > Len(files)
    /\ summary' = TRUE
    /\ exitCode' = 0
    /\ pc' = "idle"
    /\ UNCHANGED <<disk, bak, args, files, idx, pending, counters, runs,
                   interrupts, ioErrors, pristine, atStart, unbacked>>

Next ==
    \/ Start
    \/ ProcessFile
    \/ Backup
    \/ BackupCopy
    \/ OpenForWrite
    \/ WriteContent
    \/ IOError
    \/ Interrupt
    \/ Finish

Spec == Init /\ [][Next]_vars

-----------------------------------------------------------------------------
\* Refinement of MigrationBatch.  A file between its open and its write is
\* still seen with the bytes it had when read; the write then replaces
\* them by its whole migration in one step, and an interrupt or OSError
\* there is the abstract Abort.
MigratedBytes(f, b) == Written(migrate_file(BaseName[f], f \notin Unreadable, b.lines).new)

InFlight(f) == pc \in {"open", "write"} /\ idx \in DOMAIN files /\ files[idx] = f

AbstractDisk == [f \in Files |-> IF InFlight(f) THEN atStart[f] ELSE disk[f]]

Batch == INSTANCE MigrationBatch WITH
            disk <- AbstractDisk, busy <- Running, Rewrite <- MigratedBytes,
            EmptyLines <- EmptyContent

-----------------------------------------------------------------------------
TypeOK ==
    /\ \A f \in Files : disk[f].eol \in Eols \cup {"LF"}
    /\ \A f \in Files : bak[f] = NoBackup \/ bak[f].eol \in Eols
    /\ pc \in {"idle", "loop", "backup", "copy", "open", "write"}
    /\ args.dry \in BOOLEAN /\ args.backup \in BOOLEAN /\ args.target \in Targets
    /\ idx \in 0..(Len(files) + 1)
    /\ pc \in {"backup", "copy", "open", "write"} => idx \in DOMAIN files
    /\ counters \in [changed : Nat, skipped : Nat, total : Nat]
    /\ exitCode \in {-1, 0, 1, 130}
    /\ summary \in BOOLEAN
    /\ runs \in 0..MaxRuns /\ interrupts \in 0..MaxInterrupts
    /\ ioErrors \in 0..MaxIOErrors

\* The content a complete write of f by the running invocation leaves.
Migrated(f) ==
    Written(migrate_file(BaseName[f], TRUE, atStart[f].lines).new)

\* What --backup is for (spec 6): as long as every invocation that wrote a
\* file used --backup, the file's original bytes survive, on disk or in its
\* .bak, through any interrupts and OSErrors.  copy2 truncates an old .bak
\* before copying (line 301), so a good backup can be lost; the original
\* is then still on disk, because the source is opened for writing only
\* after a complete copy, and a written file never needs rewriting.
OriginalRecoverable ==
    \A f \in Files \ unbacked : pristine[f] \in {disk[f], bak[f]}

\* After an invocation without --dry-run printed its summary, every file it
\* handled is fully migrated: running the tool again would change nothing
\* (spec 8, idempotence), even when earlier invocations were cut short.
CompletedRunIsFixpoint ==
    summary /\ ~args.dry =>
        \A f \in ToSet(files) :
            ~should_skip_file(BaseName[f]).skip /\ f \notin Unreadable =>
                LineChanges(disk[f].lines) = <<>>

\* The summary is true to the disk: "Files changed" counts exactly the files
\* the invocation modified, or with --dry-run the files it would modify
\* while the disk stays byte-identical (spec 8, dry-run purity).
SummaryMatchesDisk ==
    summary =>
        IF args.dry
        THEN /\ disk = atStart
             /\ counters.changed = Cardinality({f \in ToSet(files) :
                    migrate_file(BaseName[f], f \notin Unreadable,
                                 atStart[f].lines).changes # <<>>})
        ELSE counters.changed = Cardinality({f \in ToSet(files) : disk[f] # atStart[f]})

\* Spec 5: writes are atomic, so when no invocation is running every file
\* holds either the bytes it had when the last invocation started or that
\* invocation's complete new content, never a truncated one.
AtomicWrite ==
    ~Running => \A f \in Files : disk[f] \in {atStart[f], Migrated(f)}

\* Spec 7: an error in one file does not abort the batch and the summary is
\* always printed; only an interrupt or a missing path ends an invocation
\* that found files without its summary.
SummaryAlwaysPrinted ==
    pc = "idle" /\ runs > 0 /\ exitCode # 130 /\ args.target # Missing
        /\ files # <<>> => summary


\* The tool implements the batch guarantee: outside an invocation no file
\* changes; within one every file is either as it was or its complete
\* migration, except the single file an interrupt or OSError cuts short
\* (main's loop, lines 268-319).
BatchRefined == Batch!Spec

\* Spec 4.4: the rewrite is line-based and a line is changed iff its text
\* differs, so a reviewed change list is the whole edit.  Hence a file the
\* tool rewrites keeps its line terminators: the lines it does not report
\* keep their bytes (main() writes with open(..., 'w'), line 303).
LineEndingsPreserved ==
    \A f \in Files : disk[f].lines # pristine[f].lines => disk[f].eol = pristine[f].eol

\* Text-mode I/O rewrites every line terminator of a file it writes (lines
\* 171 and 303), so the tool must write only files it really changes: a
\* file whose original content needs no migration keeps its exact bytes,
\* CRLF endings included, through any sequence of invocations, interrupts
\* and errors.
UnchangedFilesKeepBytes ==
    \A f \in Files :
        migrate_file(BaseName[f], f \notin Unreadable, pristine[f].lines).changes = <<>>
            => disk[f] = pristine[f]
=============================================================================
