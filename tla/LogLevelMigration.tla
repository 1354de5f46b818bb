------------------------- MODULE LogLevelMigration -------------------------
(***************************************************************************)
(* The pure part of src/tools/migrate_log_levels.py: the mapping table,    *)
(* the skip filter, the line rewriter (create_migration_pattern and       *)
(* migrate_line), the include check and the include insertion, and        *)
(* migrate_file that strings them together.  Nothing here has state: the  *)
(* modules MigrateFile and MigrationRunner use these operators in their   *)
(* actions.                                                                *)
(*                                                                         *)
(* Text abstraction.  A file's content is the sequence of its lines, as   *)
(* content.split('\n') gives it; '\n'.join is its inverse, so the model   *)
(* keeps the sequence and never the joined string.  A line is a record    *)
(* [kind, toks]:                                                           *)
(*   - kind = "Code": an ordinary line, toks the occurrences of            *)
(*     <qualifier>::<name> on it, in order (text between them is not     *)
(*     represented);                                                       *)
(*   - any other kind: a preprocessor line, toks = <<>>, one kind per      *)
(*     way the tool's regular expressions can classify such a line (see   *)
(*     the sets below).                                                    *)
(* A token is [ctx, qual, name, tail]:                                     *)
(*   ctx  what precedes the qualifier: "bound" (a non-word character or   *)
(*        the start, e.g. " log_level::" or "thread::log_level::"),       *)
(*        "word" (a word character, e.g. "my_log_level::"), or "v2scope"  *)
(*        (the text "_v2::", e.g. "log_level_v2::log_level::" or          *)
(*        "thread_v2::log_level::");                                       *)
(*   qual "log_level" or "log_level_v2";                                   *)
(*   name the identifier after "::";                                       *)
(*   tail TRUE when a non-word character (or the end) follows the name,   *)
(*        FALSE when the name runs on ("log_level::infos").               *)
(* A replacement never changes the text around an occurrence, so the ctx  *)
(* and tail of the other tokens of the line are unaffected by it.          *)
(***************************************************************************)
EXTENDS Naturals, Sequences, FiniteSets, SequencesExt

\* LEVEL_MAPPINGS (lines 59-66): the one spelling change is warning -> warn.
LEVEL_MAPPINGS ==
       ("trace" :> "trace") @@ ("debug" :> "debug") @@ ("info" :> "info")
    @@ ("warning" :> "warn") @@ ("error" :> "error")
    @@ ("critical" :> "critical")

\* SKIP_PATTERNS (lines 53-56).  Both regexes escape their only
\* metacharacter, so each matches exactly the literal text below.
SKIP_PATTERNS == <<"logger_interface.h", "thread_logger.h">>

\* re.search of a literal pattern: the pattern occurs in the text.
SearchText(pattern, text) ==
    \E i \in 0..(Len(text) - Len(pattern)) :
        SubSeq(text, i + 1, i + Len(pattern)) = pattern

\* should_skip_file: the first pattern found in the base name wins and
\* supplies the reason.
should_skip_file(filename) ==
    LET hit == SelectInSeq(SKIP_PATTERNS, LAMBDA p : SearchText(p, filename))
    IN  IF hit = 0 THEN [skip |-> FALSE, reason |-> ""]
                   ELSE [skip |-> TRUE,  reason |-> SKIP_PATTERNS[hit]]

-----------------------------------------------------------------------------
(***************************************************************************)
(* Preprocessor line kinds and the regular expressions they satisfy.       *)
(*   IncStd        #include <vector>                                       *)
(*   IncThread     #include <kcenon/thread/core/thread_pool.h>             *)
(*   IncLevel      #include <kcenon/thread/core/log_level.h>  (the exact   *)
(*                 include_line the tool inserts)                          *)
(*   IncOtherLevel #include "log_level.h"  (another header of that name)   *)
(*   IncCommented  // #include <kcenon/thread/core/log_level.h>           *)
(*   Pragma        #pragma once                                            *)
(*   Guard         #ifndef FOO_H                                           *)
(***************************************************************************)
Directives ==
    {"IncStd", "IncThread", "IncLevel", "IncOtherLevel", "IncCommented",
     "Pragma", "Guard"}

\* line.startswith('#include')                                  (line 139)
StartsWithInclude == {"IncStd", "IncThread", "IncLevel", "IncOtherLevel"}
\* re.search(r'#include\s*[<"]kcenon/thread/', line)            (line 136)
ThreadInclude == {"IncThread", "IncLevel", "IncCommented"}
\* re.search(r'#include\s*[<"].*log_level\.h[>"]', content)     (line 120)
LevelHeaderInclude == {"IncLevel", "IncOtherLevel", "IncCommented"}
\* include_line in content                                      (line 153)
HoldsIncludeLine == {"IncLevel", "IncCommented"}
\* startswith('#pragma once') or re.match(r'#ifndef\s+\w+_H')   (line 145)
HeaderGuard == {"Pragma", "Guard"}

\* The line add_log_level_include inserts (include_line, line 152).
INCLUDE_LINE == [kind |-> "IncLevel", toks |-> <<>>]

\* Content of an empty file: ''.split('\n') is [''].
EmptyContent == << [kind |-> "Code", toks |-> <<>>] >>

-----------------------------------------------------------------------------
(***************************************************************************)
(* Pattern Rewriter.                                                       *)
(***************************************************************************)

\* create_migration_pattern:
\*   (?<!log_level_v2::)(?<!_v2::)\blog_level::(trace|...|critical)\b
\* The first look-behind is implied by the second (both end in "_v2::").
\* No level name is a prefix of another, so with tail = FALSE no
\* alternative can match.
MatchesPattern(t) ==
    /\ t.ctx = "bound"
    /\ t.qual = "log_level"
    /\ t.name \in DOMAIN LEVEL_MAPPINGS
    /\ t.tail

\* replace_match: log_level_v2::<mapped name>.
replace_match(t) == [t EXCEPT !.qual = "log_level_v2",
                              !.name = LEVEL_MAPPINGS[t.name]]

\* Mutant: pattern.sub(..., count=1), only the first occurrence replaced.
migrate_line_first_only(line) ==
    LET first == SelectInSeq(line.toks, MatchesPattern)
    IN  IF first = 0 THEN line
        ELSE [line EXCEPT !.toks[first] = replace_match(line.toks[first])]

\* migrate_line: pattern.sub over every occurrence of the line.
migrate_line(line) ==
    [line EXCEPT !.toks = [i \in DOMAIN line.toks |->
                              IF MatchesPattern(line.toks[i])
                              THEN replace_match(line.toks[i])
                              ELSE line.toks[i]]]

\* The loop of migrate_file over the lines (lines 177-187): the new lines,
\* and the changes as <<1-based line number, old line, new line>> in file
\* order.  strip() only removes layout whitespace, which lines do not carry.
MigrateLines(lines) == [i \in DOMAIN lines |-> migrate_line(lines[i])]

\* Mutant: the line number recorded without the "+ 1" of line 185.
LineChanges_zero_based(lines) ==
    SelectSeq([i \in DOMAIN lines |-> <<i - 1, lines[i], migrate_line(lines[i])>>],
              LAMBDA c : c[2] # c[3])

LineChanges(lines) ==
    SelectSeq([i \in DOMAIN lines |-> <<i, lines[i], migrate_line(lines[i])>>],
              LAMBDA c : c[2] # c[3])

-----------------------------------------------------------------------------
(***************************************************************************)
(* Include Injector.                                                       *)
(***************************************************************************)

UsesV2(lines) ==
    \E i \in DOMAIN lines : \E j \in DOMAIN lines[i].toks :
        lines[i].toks[j].qual = "log_level_v2"

\* Mutant: only the exact include line counts as an existing include.
needs_include_update_exact(lines) ==
    /\ UsesV2(lines)
    /\ ~\E i \in DOMAIN lines : lines[i].kind \in HoldsIncludeLine

\* needs_include_update
needs_include_update(lines) ==
    /\ UsesV2(lines)
    /\ ~\E i \in DOMAIN lines : lines[i].kind \in LevelHeaderInclude

\* The scan of lines 134-140 as a left-to-right recursion; idx is
\* insert_index (0-based, so "insert after line idx" in 1-based terms).
RECURSIVE IncludeScan(_, _, _)
IncludeScan(lines, i, idx) ==
    IF i > Len(lines) THEN idx
    ELSE IncludeScan(lines, i + 1,
            IF lines[i].kind \in ThreadInclude THEN i
            ELSE IF lines[i].kind \in StartsWithInclude /\ idx = -1 THEN i
            ELSE idx)

\* Lines 142-149: with no include, after the first guard line, else 0.
InsertIndex(lines) ==
    LET scanned == IncludeScan(lines, 1, -1)
        guard   == SelectInSeq(lines, LAMBDA l : l.kind \in HeaderGuard)
    IN  IF scanned # -1 THEN scanned ELSE guard

\* add_log_level_include: lines.insert(insert_index, include_line) unless
\* the include line is already in the content.
add_log_level_include(lines) ==
    IF \E i \in DOMAIN lines : lines[i].kind \in HoldsIncludeLine
    THEN lines
    ELSE InsertAt(lines, InsertIndex(lines) + 1, INCLUDE_LINE)

-----------------------------------------------------------------------------
(***************************************************************************)
(* migrate_file (lines 159-193) on a file with base name `name`, whose     *)
(* read either fails (readable = FALSE) or returns `content`.             *)
(***************************************************************************)
NoContent == <<>>   \* MigrationResult's "" before anything is read

migrate_file(name, readable, content) ==
    LET skip    == should_skip_file(name)
        changes == LineChanges(content)
        rewritten == MigrateLines(content)
    IN
    IF skip.skip
    THEN [skipped |-> TRUE, error |-> FALSE, original |-> NoContent,
          new |-> NoContent, changes |-> <<>>]
    ELSE IF ~readable
    THEN [skipped |-> FALSE, error |-> TRUE, original |-> NoContent,
          new |-> NoContent, changes |-> <<>>]
    ELSE [skipped |-> FALSE, error |-> FALSE, original |-> content,
          new |-> IF changes # <<>> /\ needs_include_update(rewritten)
                  THEN add_log_level_include(rewritten)
                  ELSE rewritten,
          changes |-> changes]

-----------------------------------------------------------------------------
(***************************************************************************)
(* Diff/Report Engine: what main() prints for one file (lines 271-297).   *)
(* A diff is the pair of contents difflib.unified_diff compares; its hunk *)
(* layout and colours are rendering.                                       *)
(***************************************************************************)
NoView == [kind |-> "none"]

\* print_diff (lines 196-214).
print_diff(r) ==
    IF r.changes = <<>> /\ r.original = r.new THEN NoView
    ELSE [kind |-> "diff", from |-> r.original, to |-> r.new]

\* The error, skip and no-change notices, then the diff (--diff) or the
\* change list (--verbose or --dry-run) of a changed file.
Reported(r, dry, diff, verbose) ==
    IF r.error THEN [kind |-> "error"]
    ELSE IF r.skipped THEN IF verbose THEN [kind |-> "skipped"] ELSE NoView
    ELSE IF r.changes = <<>> THEN IF verbose THEN [kind |-> "nochange"] ELSE NoView
    ELSE IF diff THEN print_diff(r)
    ELSE IF verbose \/ dry THEN [kind |-> "list", changes |-> r.changes]
    ELSE NoView

=============================================================================
