-------------------------------- MODULE Client --------------------------------
(* The client of a cluster: it runs the statements of a file, then those typed*)
(* at its prompt, one call of the server it is connected to after the other.  *)
(*                                                                            *)
(* A call, what the server does with it and what the client does with the     *)
(* answer are one step.  Which server leads may change between any two of     *)
(* them; what a leader does to replicate a command is Replication's subject.  *)
EXTENDS Statements

CONSTANTS Server,   \* the addresses of the cluster
          Nil,      \* the empty address; no connection
          NoFile,   \* no -batch flag
          Options,  \* the command lines the client may be started with
          Lines,    \* the lines that may be typed, trimmed; <<>> also for ^D
          Exit,     \* the line "exit"
          MaxRuns,  \* bound: texts executed
          MaxLines, \* bound: lines typed at one prompt
          MaxLate   \* bound: requests left behind at a time

VARIABLES
    options,                  \* the flags of the command line
    at,                       \* where the client is
    conn,                     \* the server that raftServer and conn stand for
    first, buf, exit,         \* the shell's text, buf and exit
    submitted, commands,      \* what Format was given, and its result
    pos, tries,               \* Execute's loop variables
    result,                   \* whether the current command has a result
    appended,                 \* the statements in the leaders' log
    late,                     \* requests of calls that the client has given up on
    run, reported,            \* Execute is called the run-th time; what it said
    typed, lines, answered    \* what was typed at this prompt; commands answered OK

shellVars   == <<first, buf, exit>>
textVars    == <<submitted, commands>>
loopVars    == <<pos, tries, result>>
clusterVars == <<appended, late>>
typedVars   == <<typed, lines>>
vars == <<options, at, conn, shellVars, textVars, loopVars, clusterVars, run, reported,
          typedVars, answered>>
-------------------------------------------------------------------------------
Place == {"connecting", "reading", "prompt", "continuing", "executing", "exited", "panicked"}

\* The flags: attempts, retryOnBadCommand, interactive, server and batch.
Option == [attempts : Nat, retry : BOOLEAN, interactive : BOOLEAN,
           server : Server \cup {Nil}, file : Seq(Token) \cup {NoFile}]

ASSUME OptionAssumption == Options \subseteq Option
ASSUME LineAssumption == Lines \cup {Exit} \subseteq Seq(Token)
ASSUME NilAssumption == Nil \notin Server
ASSUME BoundAssumption == MaxRuns \in Nat /\ MaxLines \in Nat /\ MaxLate \in Nat

\* A command on its way: the which-th Execute it is of, its place there, its text.
Request == [run : Nat, pos : Nat, data : Seq(Token)]

Init ==
    /\ options \in Options
    /\ at = "connecting"
    /\ conn = Nil
    /\ first = <<>> /\ buf = <<>> /\ exit = FALSE
    /\ submitted = <<>> /\ commands = <<>>
    /\ pos = 1 /\ tries = 0 /\ result = FALSE
    /\ appended = <<>> /\ late = {}
    /\ run = 0 /\ reported = "nothing"
    /\ typed = <<>> /\ lines = 0
    /\ answered = {}

(* InitializeClient: only an address that cannot be dialled, the empty one,   *)
(* gives no client, and it does so every time.  No attempts, no connection.   *)
InitializeClient ==
    /\ at = "connecting"
    /\ conn' = IF options.attempts > 0 THEN options.server ELSE Nil
    /\ at' = IF options.attempts > 0 /\ conn' = Nil THEN "exited"
             ELSE IF options.file # NoFile THEN "reading"
             ELSE "prompt"
    /\ UNCHANGED <<options, shellVars, textVars, loopVars, clusterVars, run, reported,
                   typedVars, answered>>
-------------------------------------------------------------------------------
(* Execute is called with what Format makes of a text; if that is an error,   *)
(* with nothing.                                                              *)
StartExecute(text, sanitize) ==
    /\ at' = "executing"
    /\ submitted' = text
    /\ commands' = Format(text, sanitize)
    /\ pos' = 1 /\ tries' = 0 /\ result' = FALSE
    /\ run' = run + 1
    /\ reported' = "nothing"
    /\ UNCHANGED <<options, conn, clusterVars, answered>>

InBatch == run = 1 /\ options.file # NoFile

\* Execute returns to Batch, or to the shell.
EndExecute_KeepsBuffer(how) ==
    /\ reported' = how
    /\ buf' = buf
    /\ at' = IF exit \/ (InBatch /\ ~ options.interactive) THEN "exited" ELSE "prompt"
EndExecute(how) ==
    /\ reported' = how
    /\ buf' = <<>>
    /\ at' = IF exit \/ (InBatch /\ ~ options.interactive) THEN "exited" ELSE "prompt"

Batch ==
    /\ at = "reading"
    /\ StartExecute(options.file, FALSE)
    /\ UNCHANGED <<shellVars, typedVars>>
-------------------------------------------------------------------------------
(* The shell.  A first line that ends in a semicolon is all of the text.      *)
Complete(line) == line # <<>> /\ line[Len(line)] = Semi

TypeFirst(line) ==
    /\ at = "prompt"
    /\ run < MaxRuns
    /\ IF line \in {<<>>, Exit}
       THEN at' = "exited" /\ UNCHANGED <<shellVars, textVars, loopVars, run, reported,
                                          options, conn, clusterVars, typedVars, answered>>
       ELSE /\ first' = line
            /\ buf' = buf \o line
            /\ typed' = line /\ lines' = 1
            /\ UNCHANGED exit
            /\ IF Complete(line)
               THEN StartExecute(buf', TRUE)
               ELSE /\ at' = "continuing"
                    /\ UNCHANGED <<options, conn, textVars, loopVars, clusterVars, run,
                                   reported, answered>>

(* Further lines are read into a variable of the loop's body: the condition   *)
(* and the buffer keep to the first line, and only an empty line, which is    *)
(* taken for the end of the input, leads out.                                 *)
TypeMore(line) ==
    /\ at = "continuing"
    /\ buf' = buf \o first
    /\ UNCHANGED first
    /\ IF line = <<>>
       THEN exit' = TRUE /\ StartExecute(buf', TRUE) /\ UNCHANGED typedVars
       ELSE /\ lines < MaxLines
            /\ typed' = typed \o line /\ lines' = lines + 1
            /\ UNCHANGED <<options, at, conn, exit, textVars, loopVars, clusterVars, run,
                           reported, answered>>
-------------------------------------------------------------------------------
(* Execute.                                                                   *)
Command == commands[pos]
CurrentRequest == [run |-> run, pos |-> pos, data |-> Command]

\* Not a query and not empty: a leader appends it.
Appends(command) == command # <<>> /\ ~ CommandIsRO(command)

Serve == appended' = IF Appends(Command) THEN Append(appended, CurrentRequest) ELSE appended

Calls_OnceMore ==
    at = "executing" /\ pos <= Len(commands) /\ tries <= options.attempts /\ conn # Nil
Calls == at = "executing" /\ pos <= Len(commands) /\ tries < options.attempts /\ conn # Nil

NextCommand ==
    /\ pos' = pos + 1
    /\ tries' = 0
    /\ result' = FALSE
    /\ UNCHANGED <<at, buf, reported>>

(* An error, of the call or of the command, ends the batch or is tried again. *)
Fail_TriesAgain(hasResult) ==
    /\ result' = hasResult
    /\ UNCHANGED pos
    /\ tries' = tries + 1
    /\ UNCHANGED <<at, buf, reported>>
Fail_SkipsCommand(hasResult) ==
    IF options.retry
    THEN /\ result' = hasResult
         /\ UNCHANGED pos
         /\ tries' = tries + 1
         /\ UNCHANGED <<at, buf, reported>>
    ELSE NextCommand
Fail(hasResult) ==
    /\ result' = hasResult
    /\ UNCHANGED pos
    /\ IF options.retry
       THEN tries' = tries + 1 /\ UNCHANGED <<at, buf, reported>>
       ELSE EndExecute("error") /\ UNCHANGED tries

\* What no step of Execute changes.
ShellOnly == <<options, first, exit, textVars, run, typedVars>>

\* OK: replicated to a majority, or read.
Succeed ==
    /\ Calls
    /\ Command # <<>>
    /\ Serve
    /\ answered' = answered \cup {<<run, pos>>}
    /\ NextCommand
    /\ UNCHANGED <<ShellOnly, conn, late>>

\* Aborted: not replicated, although in the leader's log; a query SQLite
\* does not take; InvalidArgument for the empty command.
Reject ==
    /\ Calls
    /\ Serve
    /\ Fail(TRUE)
    /\ UNCHANGED <<ShellOnly, conn, late, answered>>

(* No leader: FailedPrecondition, with the leader the server heard of last.   *)
Redirect_Uncounted ==
    /\ Calls
    /\ conn' \in (Server \ {conn}) \cup {Nil}
    /\ result' = TRUE
    /\ UNCHANGED <<ShellOnly, tries, clusterVars, answered, pos, at, buf, reported>>
Redirect ==
    /\ Calls
    /\ conn' \in (Server \ {conn}) \cup {Nil}
    /\ tries' = tries + 1
    /\ result' = TRUE
    /\ UNCHANGED <<ShellOnly, clusterVars, answered, pos, at, buf, reported>>

(* The call fails.  The server may handle the request all the same, later.    *)
LeaveBehind ==
    \/ UNCHANGED late
    \/ Appends(Command) /\ Cardinality(late) < MaxLate /\ late' = late \cup {CurrentRequest}

Break ==
    /\ Calls
    /\ LeaveBehind
    /\ Fail(FALSE)
    /\ UNCHANGED <<ShellOnly, conn, appended, answered>>

(* Attempts used up: the loop ends as after an OK.  The answer of a query is  *)
(* read then; after errors only there is none, and a nil pointer is followed. *)
GiveUp ==
    /\ at = "executing"
    /\ pos <= Len(commands)
    /\ tries = options.attempts
    /\ IF CommandIsRO(Command) /\ ~ result
       THEN at' = "panicked" /\ UNCHANGED <<loopVars, buf, reported>>
       ELSE NextCommand
    /\ UNCHANGED <<ShellOnly, conn, clusterVars, answered>>

\* A method of the nil raftServer is called.
CallNobody ==
    /\ at = "executing"
    /\ pos <= Len(commands)
    /\ tries < options.attempts
    /\ conn = Nil
    /\ at' = "panicked"
    /\ UNCHANGED <<ShellOnly, conn, loopVars, buf, reported, clusterVars, answered>>

FinishExecute ==
    /\ at = "executing"
    /\ pos > Len(commands)
    /\ EndExecute("ok")
    /\ UNCHANGED <<ShellOnly, conn, loopVars, clusterVars, answered>>

(* ^C ends the process, also during a call.                                   *)
Interrupt ==
    /\ at \notin {"exited", "panicked"}
    /\ at' = "exited"
    /\ IF Calls THEN LeaveBehind ELSE UNCHANGED late
    /\ UNCHANGED <<ShellOnly, conn, loopVars, buf, reported, appended, answered>>

\* A server that leads comes to a request nobody waits for.
HandleLate(request) ==
    /\ late' = late \ {request}
    /\ appended' = Append(appended, request)
    /\ UNCHANGED <<ShellOnly, at, conn, loopVars, buf, reported, answered>>
-------------------------------------------------------------------------------
ExecuteNext ==
    Succeed \/ Reject \/ Redirect \/ Break \/ GiveUp \/ CallNobody \/ FinishExecute

Next ==
    \/ InitializeClient \/ Batch
    \/ \E line \in Lines \cup {Exit} : TypeFirst(line) \/ TypeMore(line)
    \/ ExecuteNext
    \/ Interrupt
    \/ \E request \in late : HandleLate(request)

Spec == Init /\ [][Next]_vars

(* The client's goroutine runs, and a call is answered or fails: a connection *)
(* that breaks is noticed, but a server that is up and never answers is not   *)
(* given up on, as no call has a deadline.  Nothing is assumed of the user.   *)
FairSpec == Spec /\ WF_vars(ExecuteNext)
-------------------------------------------------------------------------------
(* Types and ranges of the variables.                                         *)
TypeOK ==
    /\ options \in Option
    /\ at \in Place
    /\ conn \in Server \cup {Nil}
    /\ {first, buf, submitted, typed} \subseteq Seq(Token)
    /\ exit \in BOOLEAN /\ result \in BOOLEAN
    /\ commands \in Seq(Seq(Token))
    /\ pos \in 1..(Len(commands) + 1)
    /\ tries \in 0..options.attempts
    /\ appended \in Seq(Request) /\ late \subseteq Request
    /\ run \in Nat /\ lines \in Nat
    /\ reported \in {"nothing", "ok", "error"}
    /\ answered \subseteq Nat \X Nat

(* Without retryOnBadCommand the statements of one text get into the log in   *)
(* their order, each at most once, and none before the one ahead of it has    *)
(* been answered OK: Execute stops at the first error, whose statement may    *)
(* still come, as the last.                                                   *)
StatementsInOrder ==
    ~ options.retry =>
        \A m, n \in DOMAIN appended :
            m < n /\ appended[m].run = appended[n].run =>
                /\ appended[m].pos < appended[n].pos
                /\ <<appended[m].run, appended[m].pos>> \in answered

(* "Split commands using regex to handle queries with ; in them": a text whose*)
(* quotes are closed and that does not begin with a semicolon is split into   *)
(* its statements, and nothing of it is lost.                                 *)
SplitAtStatements ==
    /\ at = "executing"
    /\ Balanced(submitted)
    /\ submitted # <<>> => submitted[1] # Semi
    /\ InBatch \/ \A n \in DOMAIN Matches(submitted) : ~ Refused(Matches(submitted)[n])
    => IsSplitOf(commands, submitted)

(* What is sent as a query, and so run by one server only, is one statement   *)
(* that begins with SELECT.                                                   *)
QueriesOnlyRead ==
    Calls /\ CommandIsRO(Command) => Command[1] \in SelectWord /\ Cuts(Command) = {}

(* A text from the prompt with a statement that Sanitize refuses is refused   *)
(* as a whole; the error is only logged, and Execute called all the same.     *)
RefusedHasNoEffect ==
    ~ InBatch /\ (\E n \in DOMAIN Matches(submitted) : Refused(Matches(submitted)[n])) =>
        \A n \in DOMAIN appended : appended[n].run # run

(* As long as the shell goes on, what it executes is what was typed since the *)
(* prompt: nothing is left of the text before.                                *)
SubmittedIsTyped == at = "executing" /\ ~ InBatch /\ ~ exit => submitted = typed

(* Execute returns or panics, whatever the servers answer.                    *)
ExecuteEnds == at = "executing" ~> at # "executing"
-------------------------------------------------------------------------------
(* "Number of times to retry a command before failing": what is not reported  *)
(* as an error has been executed.                                             *)
ReportedIsExecuted ==
    reported = "ok" => \A n \in DOMAIN commands : <<run, n>> \in answered

(* "Whether to retry a command if it fails": also then it is executed once.   *)
AppendedOnce ==
    \A m, n \in DOMAIN appended :
        appended[m].run = appended[n].run /\ appended[m].pos = appended[n].pos => m = n

(* "Whether it is RO or making changes": no SELECT goes through the log.      *)
SelectsAreQueries ==
    \A n \in DOMAIN appended :
        LET data == appended[n].data IN
        ~ (Len(data) > 1 /\ data[1] = Semi /\ data[2] \in SelectWord)

(* "Non-determinstic commands not supported": none reaches the log.           *)
OnlyDeterministic == \A n \in DOMAIN appended : ~ Refused(appended[n].data)

(* "Imitating sqlite3 behavior": a text may be typed in several lines.        *)
LinesAreJoined == at = "executing" /\ ~ InBatch => submitted = typed

(* The client does not end in a panic.                                        *)
ClientNeverPanics == at # "panicked"
===============================================================================
