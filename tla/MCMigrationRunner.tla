------------------------- MODULE MCMigrationRunner -------------------------
(***************************************************************************)
(* Model-checking instance of MigrationRunner: a root directory with a     *)
(* file to migrate, an interface file the skip filter protects, an        *)
(* unreadable header and a file of an unsupported type.                    *)
(***************************************************************************)
EXTENDS MigrationRunner

CONSTANTS fPool, fLogger, fUtil, fNotes

Ln(kind) == [kind |-> kind, toks |-> <<>>]
Code(q, nm) == [kind |-> "Code", toks |-> << [ctx |-> "bound", qual |-> q,
                                               name |-> nm, tail |-> TRUE] >>]

\* #include <vector> / #include <kcenon/thread/core/thread_pool.h> /
\* log(log_level::warning, log_level::info);
Legacy == << Ln("IncStd"), Ln("IncThread"),
             [kind |-> "Code", toks |-> << Code("log_level", "warning").toks[1],
                                           Code("log_level", "info").toks[1] >>] >>
\* #pragma once / auto lvl = log_level_v2::info;
Current == << Ln("Pragma"), Code("log_level_v2", "info") >>

MCTree == <<fLogger, fNotes, fPool, fUtil>>
MCBaseName == (fPool :> "pool.cpp") @@ (fLogger :> "thread_logger.h")
           @@ (fUtil :> "util.h") @@ (fNotes :> "notes.txt")
MCInitialContent == (fPool :> {Legacy, Current}) @@ (fLogger :> {Legacy})
           @@ (fUtil :> {Legacy}) @@ (fNotes :> {Legacy})
=============================================================================
