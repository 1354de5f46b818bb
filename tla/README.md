# TLA+ models of the log-level migration tool and its scripts

This directory holds TLA+ models of the repository's Python tooling. The
main model is `src/tools/migrate_log_levels.py`. It rewrites legacy
`log_level::<name>` occurrences in C++ sources to `log_level_v2::<name>`
and adds the `log_level.h` include where needed. The benchmark scripts
under `src/scripts/` are modelled too: the regression checker CI gates
on, the dashboard generator, and the three publishing scripts (badge,
README table, Markdown report) that read the same `baseline.json`.

## 1. Inventory

### The migration tool (`src/tools/migrate_log_levels.py`)

| Part | Code | State | Operations |
|---|---|---|---|
| Mapping Table | `LEVEL_MAPPINGS` (58-66) | constant | lookup; `warning` maps to `warn` |
| Skip Filter | `SKIP_PATTERNS`, `should_skip_file` (52-56, 81-89) | none | substring search of the base name; the first hit wins |
| Pattern Rewriter | `create_migration_pattern`, `migrate_line` (92-112) | none | regex `sub` over every occurrence on a line, with look-behinds and `\b` |
| Include Injector | `needs_include_update`, `add_log_level_include` (115-156) | none | regex checks for an existing include; a scan for the insertion point; `list.insert` |
| Per-file migration | `migrate_file` (159-193) | a `MigrationResult` | read, skip and error paths, the line loop, the change list, include injection |
| File Discovery | `find_files` (217-230) | none | file mode uses `Path.suffix`; directory mode uses `rglob` per extension, then `sorted` |
| Runner / CLI | `main` (233-319) | the files on disk, `.bak` files, counters | argument checks, the per-file loop, `shutil.copy2` backup, `open(...,'w')` then `write`, the summary |
| Diff/Report | `print_diff`, the reporting branch of `main` (196-214, 271-297) | none | per file: an error notice, skip and no-change notices under `--verbose`, then the diff (`--diff`) or the change list (`--verbose` or `--dry-run`) |

How the parts interact: `main` discovers files, then calls `migrate_file`
on each file in sorted order. `migrate_file` calls the skip filter, then
the rewriter on every line, then the injector. `main` then counts the
result and, unless `--dry-run` is given, writes the file (after a backup
when `--backup` is given). Only one process runs; there are no threads.

Hard behaviours:

- An interrupt or kill between any two file-system steps.
- An `OSError` from the copy, the open or the write; `main` does not catch it.
- Repeated invocations over a tree that an earlier invocation left half done.
- Text-mode I/O, which normalises line endings.
- The look-behind, word-boundary and include-detection regexes at their edges.
- The insertion-point scan with its `-1` sentinel.

### Benchmark scripts (`src/scripts/`)

| Script | Code modelled | State |
|---|---|---|
| `check_performance_regression.py` | `load_json`, `check_regression`, `generate_regression_report`, `main` (10-118) | the two documents, the name-indexed dicts, the loop position, the regression and improvement lists, the report, the exit status |
| `generate_performance_dashboard.py` | `load_historical_data`, `load_latest_metrics`, `calculate_changes`, `main` (297-451) | the files found, the history series, the latest metrics, the page's badges and chart series |
| `update_performance_badge.py` | `extract_throughput`, `determine_color`, `main` (10-65) | the badge |
| `update_readme_performance.py` | `load_benchmark_results`, `extract_metrics`, `update_readme`, `main` (12-118) | the README file, run after run |
| `generate_performance_report.py` | `extract_key_metrics`, `calculate_change`, `generate_report`, `main` (46-199) | the report's key rows and recommendation |

How they interact: each is a separate sequential process started by CI.
The regression checker's exit status gates the build. The badge, README
and report scripts all read one `baseline.json` and publish its
throughput, in whatever order CI runs them.

The hazards of every part are listed, each at its source line, in
`PROJECT.json` under `hazards`.

## 2. Modules

| Module | Models | Kind |
|---|---|---|
| `LogLevelMigration` | Mapping table, skip filter, rewriter, injector, `migrate_file`, and the Diff/Report view (`print_diff`, `Reported`) | pure operators (`IncludeScan` is RECURSIVE) |
| `MigrateFile` | one file under repeated invocations of `migrate_file` plus the write | state machine; checks the per-file properties |
| `MigrationRunner` | `main` over a small tree: discovery, the loop, backup, truncating open, write, summary, interrupts, `OSError`s, repeated runs | state machine; composes `LogLevelMigration`; refines `MigrationBatch` |
| `MigrationBatch` | what an invocation guarantees of the tree: files change only to their complete migration, and only during an invocation; an aborted invocation may leave the one file it was writing torn | abstract specification |
| `RegressionCheck` | the regression checker | state machine (one action per loop iteration) |
| `BenchmarkData` | the benchmark document and how each script extracts its numbers from it (first match or last match) | shared operators |
| `Dashboard` | the dashboard generator | state machine (one action per history file) |
| `ReadmeUpdate` | the README updater, run repeatedly | state machine (component of `Publishing`); `SubMarkers` is RECURSIVE and is checked against the declarative `Inside` |
| `Publishing` | badge, README and report scripts over one `baseline.json` (or none), in any order, with the report loading every JSON file of its directory | composition: `R == INSTANCE ReadmeUpdate WITH data <- doc, NoData <- Missing, ...` shares the document and README.md, and `RunReadme` is `R!Run` |
| `MC*` | model values, small document and content sets | MC modules |

### Data abstraction

A file is its sequence of lines, as `split('\n')` produces them; the join
is the inverse. A line is a record `[kind, toks]`:

- `kind` is `"Code"`, or one of seven preprocessor-line kinds. There is one
  kind for each way the tool's five regexes classify such a line (for
  example `IncCommented`, `// #include <kcenon/thread/core/log_level.h>`,
  matches the include-detection regex but is not a `#include` line).
- `toks` holds the `<qualifier>::<name>` occurrences on the line, in order.

A token records four things:

- what precedes it: a non-word character, a word character, or `_v2::`;
- its qualifier;
- its name;
- whether a word character follows it.

This is exactly the information the regex
`(?<!log_level_v2::)(?<!_v2::)\blog_level::(…)\b` looks at. A file on disk
in `MigrationRunner` is `[lines, eol]`. Reading drops the `eol`; writing
produces `"LF"`; `shutil.copy2` copies both fields.

### Correspondence between the runner and the code

`MigrationRunner`'s `pc` is where `main` is:

- `idle`: between processes;
- `loop`: at the top of the `for` loop;
- `backup`: before `shutil.copy2`;
- `copy`: inside `shutil.copy2`, after it has opened the `.bak` with `wb`;
- `open`: before `open(...,'w')`;
- `write`: between that open and `f.write`.

Each action is one stretch of `main` between two file-system effects:

- `Start`: lines 249-262;
- `ProcessFile`: a loop iteration up to the write, with all its `continue`
  branches and counters;
- `Backup`: line 301, up to `copy2` truncating the `.bak`;
- `BackupCopy`: line 301, the copy of the bytes into the `.bak`;
- `OpenForWrite`: the truncation at line 303;
- `WriteContent`: line 304;
- `Finish`: lines 306-319.

`Interrupt` and `IOError` are the environment's failures. An interrupt
stops the process at exit 130. An error stops it at exit 1 with a
traceback. A failed write may leave any prefix of the new lines, and a
failed `copy2` any prefix of the original in the `.bak`. `unbacked` records
the files some invocation opened for writing without `--backup`.
`pristine` (the disk before any run) and `atStart` (the disk when the
current run started) are history variables used only by properties.

### Benchmark data abstraction

A benchmark record is `[cls, ips, cpu]`:

- `cls` says which of the substrings the scripts test for the name
  contains: `Throughput`, `TaskSubmission`, both, or neither.
- `ips` is `items_per_second` and `cpu` is `cpu_time` in ns. Both are
  integers; a missing key reads as 0.

The regression checker's records are `[name, cpu]` instead. There, `cpu`
may be `NoTime` (no key), and a document may be `Missing` or `Corrupt`.

Float percentages become exact integer cross-multiplications. For
example, `(c - b) / b * 100 > t` becomes `(c - b) * 100 > t * b`, and
`v >= 1240000 * 0.95` becomes `v * 100 >= 1240000 * 95`. The latencies of
the report and the dashboard are compared in ns against 800; the scripts
use µs against 0.8, which is the same ratio.

A README is a sequence of integer segments: `START`, `END`, `TEXT`, or a
natural number `v`, the generated table showing throughput `v`. Text
formatting (`format_throughput`, HTML, Markdown) is layout and is left
out.

### Refinement and fairness of the runner

`MigrationRunner` instantiates `MigrationBatch` with this mapping:

- `busy` is `pc # "idle"`.
- The abstract disk is the real disk, except that the file between its
  truncating open and its write is shown with the bytes it had when read.
- `WriteContent` is then the abstract `Migrate`.
- An interrupt or `OSError` during the write is the abstract `Abort`.
- Every other step is a stutter or `Begin`/`End`.

`BatchRefined` (`Spec => Batch!Spec`) is checked as a property. Spec §5
promises more than this: atomic writes, that is, no torn file after an
abort. That stronger promise is `AtomicWrite`, which fails (run
`runner_interrupt`).

No liveness is checked for the runner: an invocation that is neither
interrupted nor failed reaches `Finish` in a bounded number of steps of
a single loop, so there is nothing a model checker adds there.

## 3. Runs

| Run | Config | Expect | What it shows |
|---|---|---|---|
| `migrate_file` | `MCMigrateFile.cfg` | pass | Every file of 1-3 lines drawn from 15 line forms (every token context, every directive kind, a two-token line), under three base names, over two invocations. The reported changes are exactly the edit (`ReportedChangesExact`), and the include is added at most once over both invocations (`IncludeSingleShot`). |
| `include_position` | `MCIncludePosition.cfg` | violation | The include goes after the **first** plain `#include`, where spec §4.5 says after the last. |
| `runner` | `MCMigrationRunner.cfg` | pass | Four files (a `.cpp` with two possible contents, a skipped `thread_logger.h`, an unreadable `.h`, a `.txt`), with LF or CRLF endings. Three invocations with any flags and any target, plus one interrupt and one `OSError` at any point, inside `copy2` included. A file's original is always on disk or in its `.bak` while every invocation that wrote it used `--backup` (`OriginalRecoverable`), although a torn `.bak` is reachable. After a completed non-dry run, every handled file is a fixpoint. The summary matches the disk. A file whose original content needs no migration keeps its exact bytes, CRLF included (`UnchangedFilesKeepBytes`). The runner refines `MigrationBatch`. |
| `runner_interrupt` | `MCRunnerInterrupt.cfg` | violation | An interrupt after the truncating open leaves an empty file (spec §5 promises atomic writes). |
| `runner_write_error` | `MCRunnerWriteError.cfg` | violation | An `OSError` in the copy or open aborts the batch without a summary (spec §7). |
| `runner_line_endings` | `MCRunnerLineEndings.cfg` | violation | A CRLF file that needs migration is written back with LF on every line, so lines the change list does not report also change on disk (spec §4.4: the rewrite is line-based). |
| `regression` | `MCRegressionCheck.cfg` | pass | All pairs of documents of up to two records over two names, with times 0, 94, 100, 105, 106 or none, plus missing and corrupt files, at threshold 5. Exactly the benchmarks beyond the threshold are reported (the 105 case tests the strict boundary). Exit 0 means no regression. |
| `regression_unmeasured` | `MCRegressionUnmeasured.cfg` | violation | A current record with `cpu_time` 0 or without the key is reported as a 100% improvement. |
| `dashboard` | `MCDashboard.cfg` | pass | `data_dir` holds a dated result, its own `baseline.json` or not, and a commit result whose SHA sorts after that top file. Each file holds up to two records (corrupt files included), and the window is 2. Every file with throughput has its date on the axis (`ThroughputFilesDated`). Under `FairSpec` the page is always written, unless the file `load_latest_metrics` picks is corrupt (`DashboardWrittenUnlessLatestCorrupt`). The violation runs below use three dated files and no top file. |
| `dashboard_chart` | `MCDashboardChart.cfg` | violation | A file with two Throughput records adds two throughput points and one date, so the chart, which pairs `dates[i]` with `throughput[i]`, plots the later points under the wrong dates (`ChartSeriesAligned`). |
| `dashboard_badge` | `MCDashboardBadge.cfg` | violation | A latency change overwrites the throughput badge (line 395). |
| `publishing` | `MCPublishing.cfg` | pass | Throughputs 11% below, 5% above and 13% above the baseline, and latencies within and beyond 1%, with the badge, README and report scripts in every order, over one or two UTC days. It also covers a missing `baseline.json` and a corrupt second JSON file in the report's directory. The report's recommendation agrees with its arrow. Every throughput README.md shows is the report's. README.md ranges over every README of up to five segments, with markers in any number and order, and is updated twice: on the same day the second update changes nothing, on a later day it changes only the date stamps (`UpdateIdempotent`), and no text outside a metrics section is ever lost (`ProseUnchanged`). |

Findings reproduced by running the Python code on real inputs:

- the `include_position` finding;
- `runner_line_endings` (a CRLF file comes back with LF endings);
- `regression_unmeasured` (the script exits 0, reporting a 100% improvement);
- `dashboard_chart` (`BM_Throughput/8` of 2024-01-01 is plotted under 2024-01-02);
- `dashboard_badge` (a "positive -12.5%" badge on the throughput card).

Further disagreements the models reach are recorded as hazards in
`PROJECT.json` rather than as runs:

- The badge takes the first Throughput record, while the README and the
  report take the last.
- The report's latency arrow ignores the 1% band.
- `update_readme` is silent on reversed markers.
- A corrupt latest file crashes the dashboard.

Every property of a passing run has a mutant in `PROJECT.json`. Each
mutant is a plausible bug in the mapped code that TLC catches:

- a 0-based line number;
- an include check that sees only the exact line;
- `count=1`;
- the backup taken after the write;
- the counter bumped on the no-change branch;
- the index advanced twice;
- the last line of a write dropped;
- the no-change branch falling through to the write;
- a change of exactly the threshold counted;
- the loop index advanced twice in the regression checker;
- the loop left early;
- the date taken from the file name;
- the date test on the latency series;
- the history loop without its `try`;
- the generated block without its end marker;
- a greedy `.*`;
- the arrows reversed;
- the README taking the first match.

**Idempotence.** The spec credits idempotence to the look-behind alone.
The model shows it holds for a simpler reason: a replacement never
produces `log_level::`, so the look-behind is not what makes a second run
a no-op. `CompletedRunIsFixpoint` still catches a rewriter that stops
early (`count=1`).

### Bounds

- Three lines per file are enough to place a legacy token after, between
  or before directives. That covers every branch of the insertion scan
  (thread include, plain include, guard, top) and both orders of two
  includes.
- Two invocations show idempotence.
- Four files cover all four outcomes of the loop: skipped, error,
  unchanged and changed.
- Three runs with one interrupt and one error reach "a run after a broken
  run" with and without `--backup`.
- Regression: two names and two records per document allow a repeated
  name, a name in only one document, and both orders. The times hit
  exactly +5% (105) and beyond it (106), -6% (94), and a zero baseline.
- Dashboard: three paths and a window of two make the window drop a file
  whenever the top-level `baseline.json` exists. A commit directory `e5a1...`
  sorts after it, so the latest file is not the last one found.
  Two records per file allow zero, one or two Throughput records in a
  file.
- README: five segments allow two sections, stray and reversed markers,
  and text between them.

### Fairness and deadlock

One liveness property is checked, the dashboard's, under `FairSpec == Spec /\ WF_vars(Next)`. Every
action of `Dashboard` is a step of `main`'s single sequential flow, and
  none of them waits on anything or on anyone else, so weak fairness of
  the whole next-state relation is what running the script means. Every
model describes a program that stops: bounded runs, or a script that
writes its output and exits. So `CHECK_DEADLOCK FALSE` marks the
legitimate final states.

## 4. Not modelled

- The text of the diff (difflib's hunks and context lines), the ANSI
  colours and the message wording. The view keeps what is shown: the
  pair of contents diffed, or the change list.
- `argparse` wording.
- The dashboard's `HTML_TEMPLATE` (lines 1-295), the report's
  per-file detail tables (142-165), `format_number`, and the README's and
  dashboard's throughput strings: layout. The badge's `format_throughput`
  is modelled (below).
- `parse_baseline`'s regexes are abstracted to which figures
  BASELINE.md yields.
- Other programs writing the source tree while the tool runs. Spec §5
  rules this out (a single flow of control, no locking); the
  read-then-write window is listed as a hazard.

### Badge message

`format_throughput` is modelled by what it does. A message is
`[m, d, unit]`, meaning m / 10^d in units of M, K or 1. Python formats
the double nearest to `value / 1_000_000` (or `/ 1_000`), so `RoundedSet`
rounds the exact quotient to the nearest integer. A tie of `/ 1_000` is
exact in binary and goes to the even neighbour; a tie of `/ 1_000_000` at
`.2f` depends on the binary value, and the model lets it go either way.
No property is stated on the wording.

### README date

`extract_metrics` stamps the README table with `datetime.utcnow()`
(line 26). `ReadmeUpdate` keeps the table as `Table(v, d)`, the throughput
`v` on day `d`, and `NextDay` advances the UTC day up to `MaxDays`. Two
days are enough to tell "changes nothing" from "changes only the date".

## 5. Plan

1. A property relating the dashboard's cards to its chart, once the
   intended meaning of `data_dir/baseline.json` is known. Today the cards
   may describe another run than the chart's last point (hazard at
   line 350).
2. The README table text (`format_throughput` with `.2f K`) in the same
   form as the badge, so that README and report figures can be compared
   as shown rather than as raw numbers.
