---------------------------- MODULE MCNovaFormat ----------------------------
(* A stderr handler and a file handler at NOTSET, and the error publisher *)
(* at ERROR.                                                               *)
EXTENDS NovaFormat

CONSTANTS t1, t2, hs, hf, hp

MCAllHandlers == <<hs, hf, hp>>
MCStreamAndFile == <<hs, hf>>
MCStreamAndPublisher == <<hs, hp>>
MCHandlerLevel == [h \in {hs, hf, hp} |-> IF h = hp THEN ERROR ELSE 0]
\* One method below INFO, one just above it, exception() with and without
\* the environment line, the excepthook (CRITICAL) and WritableLogger
\* (INFO); an empty context dict takes the path of no keyword.
MCCalls == [method : {"debug", "audit"}, ctx : {"absent", "rc"}, env : {FALSE}]
           \cup [method : {"exception"}, ctx : {"absent", "rc"}, env : BOOLEAN]
           \cup [method : {"excepthook", "write"}, ctx : {"absent"}, env : {FALSE}]
\* A library logger that is not a NovaLogger, logging one warning.
MCPlainCalls == [method : {"plain"}, ctx : {"absent"}, env : {FALSE}]
=============================================================================
