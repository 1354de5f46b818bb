--------------------------- MODULE MCMigrateFile ---------------------------
(***************************************************************************)
(* Model-checking instance of MigrateFile: every file of at most three     *)
(* lines built from the occurrence forms and preprocessor lines below.    *)
(***************************************************************************)
EXTENDS MigrateFile

Tok(ctx, qual, nm, tail) == [ctx |-> ctx, qual |-> qual, name |-> nm, tail |-> tail]

\* log_level::info, log_level::warning, log_level_v2::warn,
\* thread_v2::log_level::info, my_log_level::error, log_level::infos,
\* log_level::verbose
MCTokens ==
    { Tok("bound", "log_level", "info", TRUE),
      Tok("bound", "log_level", "warning", TRUE),
      Tok("bound", "log_level_v2", "warn", TRUE),
      Tok("v2scope", "log_level", "info", TRUE),
      Tok("word", "log_level", "error", TRUE),
      Tok("bound", "log_level", "info", FALSE),
      Tok("bound", "log_level", "verbose", TRUE) }

MCLines ==
    {[kind |-> "Code", toks |-> <<t>>] : t \in MCTokens}
    \cup {[kind |-> "Code", toks |-> <<>>],
          [kind |-> "Code", toks |-> << Tok("bound", "log_level", "warning", TRUE),
                                        Tok("bound", "log_level", "info", TRUE) >>]}
    \cup {[kind |-> d, toks |-> <<>>] : d \in Directives}

MCContents == BoundedSeq(MCLines, 3) \ {<<>>}

MCNames == {"pool.cpp", "thread_logger.h", "logger_interface.hpp"}
=============================================================================
