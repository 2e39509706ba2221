------------------------------ MODULE NovaFormat ------------------------------
(***************************************************************************)
(* Records through nova.log (src/nova/log.py): a thread calls a NovaLogger *)
(* method; _update_extra picks the request context (the "context" keyword, *)
(* else the thread's local.store.context) and copies it into the record's *)
(* extra; isEnabledFor filters on the logger's level; every handler whose *)
(* level admits the record emits it under that handler's own lock: a      *)
(* PublishErrorsHandler publishes record.msg as it is, every other handler *)
(* formats the record.                                                    *)
(* Every handler shares one NovaFormatter (NovaLogger.addHandler), whose  *)
(* format() first stores the format string in self._fmt, appends the     *)
(* debug suffix with "+=" (a read and a later write), then formats with   *)
(* whatever self._fmt holds.                                               *)
(*                                                                         *)
(* Threads are native threads: a switch may fall between any two of these *)
(* steps.  A format string is abstracted to which base string it started *)
(* from and how many debug suffixes it carries.                           *)
(***************************************************************************)
EXTENDS Integers, Sequences, FiniteSets

CONSTANTS
    Threads,        \* threads that log one call each
    HandlerOrder,   \* the root's handlers, in the order callHandlers visits them
    HandlerLevel,   \* handler -> its level (PublishErrorsHandler(ERROR) has ERROR)
    Publishers,     \* the PublishErrorsHandlers among them
    DebugSuffix,    \* FLAGS.logging_debug_format_suffix is non-empty
    None

VARIABLES
    loggerLevel,    \* effective level of the logger (root: DEBUG if verbose, else INFO)
    localCtx,       \* thread -> local.store.context: "rc" or None
    pc,             \* thread -> where it is
    call,           \* thread -> the call it made
    recs,           \* thread -> the records its call hands to the handlers
    ri,             \* thread -> index of the record being handled
    hi,             \* thread -> index of the handler being visited
    lock,           \* handler -> the thread holding its lock, or None
    fmt,            \* _formatter._fmt
    tmp,            \* thread -> the value of self._fmt read for "+="
    out,            \* formatted lines: [t, r, h, fmt]
    published       \* error notifications: [t, r, h]

vars == <<loggerLevel, localCtx, pc, call, recs, ri, hi, lock, fmt, tmp, out, published>>

\* The logging levels, with nova's AUDIT = INFO + 1.
DEBUG == 10
INFO == 20
AUDIT == 21
WARNING == 30
ERROR == 40
CRITICAL == 50

Handlers == {HandlerOrder[i] : i \in DOMAIN HandlerOrder}
\* WritableLogger(logger, level=logging.INFO).write(msg): logger.log(self.level, msg).
WritableLoggerLevel == INFO
\* handle_exception, installed as sys.excepthook by setup(): root.critical
\* with exc_info only when FLAGS.verbose, which set the root's level to DEBUG.
HandleExceptionExc == loggerLevel = DEBUG
\* "plain": a logging.Logger that is not a NovaLogger (created before nova.log
\* set the logger class), which setup() re-parents under the Nova root; it
\* logs without _update_extra.
Method == {"debug", "info", "audit", "error", "exception", "excepthook", "write", "plain"}
LevelOf == [debug |-> DEBUG, info |-> INFO, audit |-> AUDIT, error |-> ERROR, exception |-> ERROR,
            excepthook |-> CRITICAL, write |-> WritableLoggerLevel, plain |-> WARNING]
\* method, the "context" keyword (absent, a RequestContext, an empty dict),
\* and for exception() whether extra carries an 'environment'; the hook and
\* WritableLogger pass no keywords.
Ctx == {"absent", "rc", "empty"}
Calls == [method : {"debug", "info", "audit", "error"}, ctx : Ctx, env : {FALSE}]
         \cup [method : {"exception"}, ctx : Ctx, env : BOOLEAN]
         \cup [method : {"excepthook", "write", "plain"}, ctx : {"absent"}, env : {FALSE}]
Fmt == [base : {"context", "default"}, sfx : 0..Cardinality(Threads)]
\* inst: the record has the 'instance' attribute _update_extra puts in extra.
Record == [level : {DEBUG, INFO, AUDIT, WARNING, ERROR, CRITICAL}, rid : BOOLEAN, exc : BOOLEAN,
           inst : BOOLEAN, n : 1..2]

-----------------------------------------------------------------------------

\* _update_extra: the keyword context unless absent or falsy, else the
\* thread-local one; _dictify_context of a RequestContext has a request_id.
ContextOf(t, c) == IF c.ctx = "rc" THEN "rc" ELSE localCtx[t]

\* _update_extra always sets extra['instance']: the instance_format of the
\* "instance" keyword, else ''.  Only a NovaLogger method runs it.
HasInstance(c) == c.method # "plain"

\* The records a call makes: exception() logs the error with exc_info and,
\* when extra has an environment, a second error line; each only if
\* isEnabledFor(level).  A plain logger's record has no extra at all.
RecordsOf(t, c) ==
    LET nova == HasInstance(c)
        rid == nova /\ ContextOf(t, c) = "rc"
        exc == c.method = "exception" \/ (c.method = "excepthook" /\ HandleExceptionExc)
        r1 == [level |-> LevelOf[c.method], rid |-> rid, exc |-> exc, inst |-> nova, n |-> 1]
        r2 == [level |-> ERROR, rid |-> rid, exc |-> FALSE, inst |-> nova, n |-> 2]
        all == IF c.method = "exception" /\ c.env THEN <<r1, r2>> ELSE <<r1>>
    IN  IF LevelOf[c.method] >= loggerLevel THEN all ELSE <<>>

Rec(t) == recs[t][ri[t]]
Hdl(t) == HandlerOrder[hi[t]]

\* After a handler: the next handler, else the next record, else done.
Advance(t) ==
    IF hi[t] < Len(HandlerOrder)
    THEN /\ hi' = [hi EXCEPT ![t] = @ + 1] /\ ri' = ri /\ pc' = [pc EXCEPT ![t] = "visit"]
    ELSE IF ri[t] < Len(recs[t])
    THEN /\ hi' = [hi EXCEPT ![t] = 1] /\ ri' = [ri EXCEPT ![t] = @ + 1]
         /\ pc' = [pc EXCEPT ![t] = "visit"]
    ELSE /\ UNCHANGED <<hi, ri>> /\ pc' = [pc EXCEPT ![t] = "done"]

\* Mutant: the handler's level is not compared with the record's.
visit_ignore_level(t) ==
    /\ pc[t] = "visit"
    /\ lock[Hdl(t)] = None
    /\ lock' = [lock EXCEPT ![Hdl(t)] = t]
    /\ pc' = [pc EXCEPT ![t] = IF Hdl(t) \in Publishers THEN "publish" ELSE "set"]
    /\ UNCHANGED <<ri, hi, loggerLevel, localCtx, call, recs, fmt, tmp, out, published>>

-----------------------------------------------------------------------------

Init ==
    /\ loggerLevel \in {DEBUG, INFO}
    /\ localCtx \in [Threads -> {"rc", None}]
    /\ pc = [t \in Threads |-> "idle"]
    /\ call = [t \in Threads |-> None]
    /\ recs = [t \in Threads |-> <<>>]
    /\ ri = [t \in Threads |-> 1]
    /\ hi = [t \in Threads |-> 1]
    /\ lock = [h \in Handlers |-> None]
    /\ fmt = [base |-> "default", sfx |-> 0]
    /\ tmp = [t \in Threads |-> fmt]
    /\ out = {}
    /\ published = {}

\* A NovaLogger method: _update_extra, isEnabledFor, _log.
Call(t, c) ==
    /\ pc[t] = "idle"
    /\ call' = [call EXCEPT ![t] = c]
    /\ recs' = [recs EXCEPT ![t] = RecordsOf(t, c)]
    /\ pc' = [pc EXCEPT ![t] = IF RecordsOf(t, c) = <<>> THEN "done" ELSE "visit"]
    /\ UNCHANGED <<loggerLevel, localCtx, ri, hi, lock, fmt, tmp, out, published>>

\* callHandlers: a handler below the record's level is passed over;
\* otherwise Handler.handle takes the handler's lock and calls its emit.
Visit(t) ==
    /\ pc[t] = "visit"
    /\ IF Rec(t).level < HandlerLevel[Hdl(t)]
       THEN /\ Advance(t) /\ UNCHANGED lock
       ELSE /\ lock[Hdl(t)] = None
            /\ lock' = [lock EXCEPT ![Hdl(t)] = t]
            /\ pc' = [pc EXCEPT ![t] = IF Hdl(t) \in Publishers THEN "publish" ELSE "set"]
            /\ UNCHANGED <<ri, hi>>
    /\ UNCHANGED <<loggerLevel, localCtx, call, recs, fmt, tmp, out, published>>

\* format(): self._fmt = context or default format string.
SetFmt(t) ==
    /\ pc[t] = "set"
    /\ fmt' = [base |-> IF Rec(t).rid THEN "context" ELSE "default", sfx |-> 0]
    /\ pc' = [pc EXCEPT ![t] = IF Rec(t).level = DEBUG /\ DebugSuffix THEN "read" ELSE "format"]
    /\ UNCHANGED <<loggerLevel, localCtx, call, recs, ri, hi, lock, tmp, out, published>>

\* self._fmt += " " + suffix: the read ...
ReadFmt(t) ==
    /\ pc[t] = "read"
    /\ tmp' = [tmp EXCEPT ![t] = fmt]
    /\ pc' = [pc EXCEPT ![t] = "write"]
    /\ UNCHANGED <<loggerLevel, localCtx, call, recs, ri, hi, lock, fmt, out, published>>

\* ... and the write back.
WriteFmt(t) ==
    /\ pc[t] = "write"
    /\ fmt' = [tmp[t] EXCEPT !.sfx = @ + 1]
    /\ pc' = [pc EXCEPT ![t] = "format"]
    /\ UNCHANGED <<loggerLevel, localCtx, call, recs, ri, hi, lock, tmp, out, published>>

\* logging.Formatter.format: self._fmt % record.__dict__ raises KeyError
\* for a key the record lacks: %(instance)s of both format strings, and
\* %(request_id)s, %(user_id)s, %(project_id)s of the context string, which
\* only a record with a request context has.
Formattable(r, f) == r.inst /\ (f.base = "context" => r.rid)

\* Format with the current self._fmt; emit writes the line, or passes the
\* KeyError to handleError and writes nothing.  Then Handler.handle
\* releases the lock.
Format(t) ==
    /\ pc[t] = "format"
    /\ out' = IF Formattable(Rec(t), fmt) THEN out \cup {[t |-> t, r |-> Rec(t), h |-> Hdl(t), fmt |-> fmt]}
              ELSE out
    /\ lock' = [lock EXCEPT ![Hdl(t)] = None]
    /\ Advance(t)
    /\ UNCHANGED <<loggerLevel, localCtx, call, recs, fmt, tmp, published>>

\* Mutant: the publisher notifies with the formatted record, as a
\* handler's emit usually does.
publish_formats(t) ==
    /\ pc[t] = "publish"
    /\ out' = out \cup {[t |-> t, r |-> Rec(t), h |-> Hdl(t), fmt |-> fmt]}
    /\ lock' = [lock EXCEPT ![Hdl(t)] = None]
    /\ Advance(t)
    /\ UNCHANGED <<loggerLevel, localCtx, call, recs, fmt, tmp, published>>

\* PublishErrorsHandler.emit: notify 'error_notification' with record.msg,
\* without formatting; then Handler.handle releases the lock.
Publish(t) ==
    /\ pc[t] = "publish"
    /\ published' = published \cup {[t |-> t, r |-> Rec(t), h |-> Hdl(t)]}
    /\ lock' = [lock EXCEPT ![Hdl(t)] = None]
    /\ Advance(t)
    /\ UNCHANGED <<loggerLevel, localCtx, call, recs, fmt, tmp, out>>

Next ==
    \E t \in Threads :
        \/ \E c \in Calls : Call(t, c)
        \/ Visit(t) \/ SetFmt(t) \/ ReadFmt(t) \/ WriteFmt(t) \/ Format(t) \/ Publish(t)

Spec == Init /\ [][Next]_vars

-----------------------------------------------------------------------------
(* Properties                                                              *)

TypeOK ==
    /\ loggerLevel \in {DEBUG, INFO}
    /\ localCtx \in [Threads -> {"rc", None}]
    /\ pc \in [Threads -> {"idle", "visit", "set", "read", "write", "format", "publish", "done"}]
    /\ recs \in [Threads -> Seq(Record)]
    /\ lock \in [Handlers -> Threads \cup {None}]
    /\ fmt \in Fmt
    /\ out \subseteq [t : Threads, r : Record, h : Handlers \ Publishers, fmt : Fmt]
    /\ published \subseteq [t : Threads, r : Record, h : Publishers]

\* The format a line should get: the context format string when the call
\* or, failing that, the thread had a request context, the default one
\* otherwise, plus one debug suffix for a DEBUG record when the suffix flag
\* is set.
Expected(o) ==
    [base |-> IF call[o.t].method # "plain" /\ (call[o.t].ctx = "rc" \/ localCtx[o.t] = "rc")
              THEN "context" ELSE "default",
     sfx |-> IF o.r.level = DEBUG /\ DebugSuffix THEN 1 ELSE 0]

\* Every line is formatted with the format string of its own call's
\* context and level, whatever other threads log at the same time.
FormatMatchesRecord ==
    \A o \in out : o.fmt = Expected(o)

\* A call that returned wrote each of its records to exactly the handlers
\* whose level admits it (PublishErrorsHandler only takes errors), and
\* made the records isEnabledFor lets through: none below the logger's
\* level, and exception() adds the environment line only when asked.
DeliveredToAdmittingHandlers ==
    \A t \in Threads : pc[t] = "done" =>
        /\ {<<o.r, o.h>> : o \in {x \in out : x.t = t}} \cup {<<o.r, o.h>> : o \in {x \in published : x.t = t}}
             = {rh \in {recs[t][i] : i \in DOMAIN recs[t]} \X Handlers : rh[1].level >= HandlerLevel[rh[2]]}
        /\ \A i \in DOMAIN recs[t] : recs[t][i].level >= loggerLevel

=============================================================================
