------------------------------- MODULE NovaLog -------------------------------
(***************************************************************************)
(* The logger configuration of src/nova/log.py.                            *)
(*                                                                         *)
(* NovaLogger.setup_from_flags gives a named logger the level of the       *)
(* default_log_levels pairs naming it or a dotted ancestor.               *)
(* NovaRootLogger.setup_from_flags (re)attaches the root's syslog, file,   *)
(* stderr and error-publishing handlers from FLAGS.  setup() replaces the  *)
(* root logger by a NovaRootLogger and calls reset(); reset() reruns       *)
(* setup_from_flags on every NovaLogger and "should be called if FLAGS     *)
(* changes".                                                               *)
(*                                                                         *)
(* Logger names are sequences of characters, so that the startswith test   *)
(* is modelled by what it does.  A handler is a record with an identity;   *)
(* removeHandler removes that object, addHandler appends it unless there.  *)
(***************************************************************************)
EXTENDS Integers, Sequences, SequencesExt, FiniteSets

CONSTANTS
    LoggerNames,    \* names passed to getLogger (character sequences)
    LevelConfigs,   \* candidate FLAGS.default_log_levels: sequences of <<name, level>>
    LogFiles,       \* candidate FLAGS.logfile values besides None
    LogDirs,        \* candidate FLAGS.logdir values besides None
    MaxHandlers,    \* bound on the handler objects created
    None

VARIABLES
    flags,          \* the FLAGS the logging options are read from
    isSetUp,        \* logging.root is a NovaRootLogger (setup() has run)
    root,           \* the root logger: handlers list, handler attributes, level
    loggers,        \* level of every NovaLogger created by getLogger
    synced          \* no FLAGS change since the last setup()/reset()

vars == <<flags, isSetUp, root, loggers, synced>>

Levels == {"NOTSET", "DEBUG", "INFO", "WARN"}
Flags == [use_syslog : BOOLEAN, logfile : LogFiles \cup {None},
          logdir : LogDirs \cup {None}, use_stderr : BOOLEAN,
          publish_errors : BOOLEAN, verbose : BOOLEAN, default_log_levels : LevelConfigs]
\* '<logdir>/<binary>.log': the log file _get_log_file_path makes of a logdir.
DirLog(d) == [dir |-> d, file |-> "binary.log"]
Paths == LogFiles \cup {DirLog(d) : d \in LogDirs}
Handler == [id : 1..MaxHandlers, kind : {"basic", "syslog", "file", "stream", "publish"},
            path : Paths \cup {None}]

-----------------------------------------------------------------------------
(* NovaLogger levels                                                       *)

StartsWith(s, p) == Len(p) <= Len(s) /\ SubSeq(s, 1, Len(p)) = p

\* Mutant: the prefix test without the dot ("a.b" also matches "a.bc").
matches_no_dot(name, logger) == name = logger \/ StartsWith(name, logger)

\* self.name == logger or self.name.startswith("%s." % logger)
matches(name, logger) == name = logger \/ StartsWith(name, logger \o <<".">>)

\* NovaLogger.setup_from_flags: the level of the last pair that matches.
setup_from_flags_level(name, pairs) ==
    FoldLeft(LAMBDA lvl, pr : IF matches(name, pr[1]) THEN pr[2] ELSE lvl, "NOTSET", pairs)

-----------------------------------------------------------------------------
(* NovaRootLogger handlers                                                 *)

\* Mutant: the logdir itself is opened as the log file (binary name not joined).
log_path_no_join(f) == IF f.logfile # None THEN f.logfile
                       ELSE IF f.logdir # None THEN f.logdir ELSE None

\* _get_log_file_path: logfile, else logdir/<binary>.log, else None.
LogPath(f) == IF f.logfile # None THEN f.logfile
              ELSE IF f.logdir # None THEN DirLog(f.logdir) ELSE None

RemoveHandler(r, h) == [r EXCEPT !.handlers = SelectSeq(@, LAMBDA x : x # h)]

\* Create a handler object and addHandler it; `field` names the attribute
\* that keeps it ("none" for the error publisher, kept by nobody).
AddNew(r, kind, path, field) ==
    LET h == [id |-> r.nextId, kind |-> kind, path |-> path]
        r1 == [r EXCEPT !.handlers = Append(@, h), !.nextId = @ + 1]
    IN  IF field = "none" THEN r1 ELSE [r1 EXCEPT ![field] = h]

Syslog(r, f) ==
    LET r1 == IF r.syslog # None THEN [RemoveHandler(r, r.syslog) EXCEPT !.syslog = None] ELSE r
    IN  IF f.use_syslog THEN AddNew(r1, "syslog", None, "syslog") ELSE r1

FileLog(r, f) ==
    LET p == LogPath(f)
    IN  IF p # None
        THEN IF p # r.logpath
             THEN [AddNew(RemoveHandler(r, r.filelog), "file", p, "filelog") EXCEPT !.logpath = p]
             ELSE r
        ELSE RemoveHandler(r, r.filelog)

\* Mutant: the old stderr handler is forgotten but left attached.
stream_keep_old(r, f) ==
    LET r1 == [r EXCEPT !.streamlog = None]
    IN  IF f.use_stderr THEN AddNew(r1, "stream", None, "streamlog") ELSE r1

StreamLog(r, f) ==
    LET r1 == IF r.streamlog # None THEN [RemoveHandler(r, r.streamlog) EXCEPT !.streamlog = None]
              ELSE r
    IN  IF f.use_stderr THEN AddNew(r1, "stream", None, "streamlog") ELSE r1

\* Mutant: the level is raised to DEBUG for verbose but never lowered.
level_only_verbose(r, f) == IF f.verbose THEN [r EXCEPT !.level = "DEBUG"] ELSE r

RootLevel(r, f) == [r EXCEPT !.level = IF f.verbose THEN "DEBUG" ELSE "INFO"]

\* NovaRootLogger.setup_from_flags, in the order of the code.
setup_from_flags(r, f) ==
    LET r1 == StreamLog(FileLog(Syslog(r, f), f), f)
        r2 == IF f.publish_errors THEN AddNew(r1, "publish", None, "none") ELSE r1
    IN  RootLevel(r2, f)

\* NovaRootLogger.__init__: no handlers, attributes None, then
\* NovaLogger.__init__ runs setup_from_flags.
NewRootLogger(nextId, f) ==
    setup_from_flags([handlers |-> <<>>, syslog |-> None, filelog |-> None,
                      streamlog |-> None, logpath |-> None, level |-> "NOTSET",
                      nextId |-> nextId], f)


-----------------------------------------------------------------------------
(* Actions                                                                 *)

NoLogger == [handlers |-> <<>>, syslog |-> None, filelog |-> None, streamlog |-> None,
             logpath |-> None, level |-> "NOTSET", nextId |-> 1]

\* Before setup() the root is the plain logging root, possibly with a
\* handler some library attached (logging.basicConfig).
Init ==
    /\ flags \in Flags
    /\ isSetUp = FALSE
    /\ root \in {NoLogger,
                 [NoLogger EXCEPT !.handlers = <<[id |-> 1, kind |-> "basic", path |-> None]>>,
                                  !.nextId = 2]}
    /\ loggers = [n \in LoggerNames |-> None]
    /\ synced = TRUE

\* Some FLAGS value changes (flag file reloaded, options parsed again).
ChangeFlags(f) ==
    /\ f # flags
    /\ flags' = f
    /\ synced' = FALSE
    /\ UNCHANGED <<isSetUp, root, loggers>>

\* logging.getLogger(name) creates a NovaLogger; its __init__ runs
\* NovaLogger.setup_from_flags.
GetLogger(n) ==
    /\ loggers[n] = None
    /\ loggers' = [loggers EXCEPT ![n] = setup_from_flags_level(n, flags.default_log_levels)]
    /\ UNCHANGED <<flags, isSetUp, root, synced>>

\* Mutant: reset() reconfigures only the root, leaving named loggers at
\* the levels they got when created.
reset_root_only == loggers

\* reset(): setup_from_flags on every NovaLogger of the manager, the root
\* (registered as "nova") included once setup() has run.
ResetLoggers ==
    [n \in LoggerNames |-> IF loggers[n] = None THEN None
                           ELSE setup_from_flags_level(n, flags.default_log_levels)]

reset ==
    /\ isSetUp => setup_from_flags(root, flags).nextId <= MaxHandlers + 1
    /\ root' = IF isSetUp THEN setup_from_flags(root, flags) ELSE root
    /\ loggers' = ResetLoggers
    /\ synced' = TRUE
    /\ UNCHANGED <<flags, isSetUp>>

\* setup(): if the root is not yet a NovaRootLogger, drop the old root's
\* handlers, install NovaRootLogger("nova") (whose __init__ runs
\* setup_from_flags) and call reset().
setup ==
    /\ ~isSetUp
    /\ isSetUp' = TRUE
    /\ root' = setup_from_flags(NewRootLogger(root.nextId, flags), flags)
    /\ root'.nextId <= MaxHandlers + 1
    /\ loggers' = ResetLoggers
    /\ synced' = TRUE
    /\ UNCHANGED flags

Next ==
    \/ \E f \in Flags : ChangeFlags(f)
    \/ \E n \in LoggerNames : GetLogger(n)
    \/ reset
    \/ setup

Spec == Init /\ [][Next]_vars

-----------------------------------------------------------------------------
(* Properties                                                              *)

TypeOK ==
    /\ flags \in Flags
    /\ isSetUp \in BOOLEAN
    /\ root.handlers \in Seq(Handler)
    /\ {root.syslog, root.filelog, root.streamlog} \subseteq Handler \cup {None}
    /\ root.logpath \in Paths \cup {None}
    /\ root.nextId \in 1..(MaxHandlers + 1)
    /\ root.level \in Levels
    /\ loggers \in [LoggerNames -> Levels \cup {None}]
    /\ synced \in BOOLEAN

Attached(kind) == SelectSeq(root.handlers, LAMBDA h : h.kind = kind)

\* Across any sequence of FLAGS changes, reset() and setup() calls the root
\* never has two syslog, two file or two stderr handlers attached (each
\* message would be written twice).
NoDuplicateHandlers ==
    \A k \in {"syslog", "file", "stream"} : Len(Attached(k)) <= 1

\* After setup() or reset() following a FLAGS change, the root writes to
\* syslog and stderr exactly when the flags say so, at the verbose level,
\* and no handler of the pre-setup root survives.
HandlersFollowFlags ==
    isSetUp /\ synced =>
        /\ (Len(Attached("syslog")) = 1) = flags.use_syslog
        /\ (Len(Attached("stream")) = 1) = flags.use_stderr
        /\ root.level = IF flags.verbose THEN "DEBUG" ELSE "INFO"
        /\ Attached("basic") = <<>>

\* The documented rule as a reference: a pair applies to the logger it
\* names and to that logger's descendants by dotted components; the last
\* applicable pair wins.
RECURSIVE SplitDots(_)
SplitDots(s) ==
    IF \A i \in DOMAIN s : s[i] # "."
    THEN <<s>>
    ELSE LET d == CHOOSE i \in DOMAIN s : s[i] = "." /\ \A j \in 1..(i - 1) : s[j] # "."
         IN  <<SubSeq(s, 1, d - 1)>> \o SplitDots(SubSeq(s, d + 1, Len(s)))

IsAncestorOrSelf(logger, name) == IsPrefix(SplitDots(logger), SplitDots(name))

ReferenceLevel(name, pairs) ==
    LET hits == {i \in DOMAIN pairs : IsAncestorOrSelf(pairs[i][1], name)}
    IN  IF hits = {} THEN "NOTSET" ELSE pairs[Max(hits)][2]

\* Every NovaLogger, once reset() has followed the last FLAGS change, has
\* the level default_log_levels gives its name or a dotted ancestor
\* ("a.b" covers "a.b.c" but not "a.bc").
LoggerLevelsFollowFlags ==
    synced => \A n \in LoggerNames :
                  loggers[n] # None => loggers[n] = ReferenceLevel(n, flags.default_log_levels)

\* reset() "should be called if FLAGS changes": afterwards the root logs to
\* a file exactly when the flags name one, and to that file.
FileLogFollowsFlags ==
    isSetUp /\ synced =>
        /\ (Len(Attached("file")) = 1) = (LogPath(flags) # None)
        /\ \A i \in DOMAIN Attached("file") : Attached("file")[i].path = LogPath(flags)

\* With publish_errors set, each error is published once: after setup()
\* or reset() exactly one PublishErrorsHandler is attached, none without it.
PublishErrorsOnce ==
    isSetUp /\ synced => Len(Attached("publish")) = IF flags.publish_errors THEN 1 ELSE 0

=============================================================================
