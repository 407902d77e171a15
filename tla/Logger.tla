-------------------------------- MODULE Logger --------------------------------
(***************************************************************************)
(* The logger (src/src/logger.c) as far as it decides anything: the level  *)
(* it is made with and the messages that pass it.  What it writes and      *)
(* where are left out.                                                     *)
(***************************************************************************)
EXTENDS Integers

LOG_CRITICAL == 0
LOG_ERROR == 1
LOG_WARNING == 2
LOG_INFO == 3
LOG_DEBUG == 4
LOG_MARK == 5
LOG_LAST == 6

\* Mutant: the level is taken as it is.
CLAMP_not(x, a, b) == x

CLAMP(x, a, b) == IF x < a THEN a ELSE IF x > b THEN b ELSE x

\* Before it is made and after logger_destroy.
NoLogger == [live |-> FALSE, max_level |-> LOG_ERROR]

\* logger_new_file and logger_new_console.
logger_new_fp(max_level) == [live |-> TRUE, max_level |-> CLAMP(max_level, LOG_ERROR, LOG_MARK)]

\* Whether logger_trace_va hands a message of this level to the handler.
Traced(logger, level) == logger.max_level >= CLAMP(level, LOG_ERROR, LOG_MARK)
=============================================================================
