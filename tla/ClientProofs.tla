----------------------------- MODULE ClientProofs -----------------------------
(* Without the retry flag the statements of a text get into the log in order  *)
(* and once; what is executed is what was typed or read, split at its         *)
(* statements.                                                                *)
EXTENDS Client, StatementsProofs

-------------------------------------------------------------------------------
(* What appending to the log does, whatever its elements are: the order of    *)
(* the log has nothing to do with what Format makes of a text.                *)
IsLog(s) == \E S : s \in Seq(S)

\* A longer log has the entries it had, and one more.
LEMMA AppendOne ==
    ASSUME NEW s, NEW e, IsLog(s)
    PROVE  /\ IsLog(Append(s, e))
           /\ Len(s) \in Nat
           /\ DOMAIN s = 1..Len(s)
           /\ DOMAIN Append(s, e) = 1..(Len(s) + 1)
           /\ \A n \in 1..Len(s) : Append(s, e)[n] = s[n]
           /\ Append(s, e)[Len(s) + 1] = e
<1>1. PICK S : s \in Seq(S)
  BY DEF IsLog
<1>2. s \in Seq(S \cup {e}) /\ e \in S \cup {e}
  BY <1>1
<1> DEFINE T == S \cup {e}
<1>3. s \in Seq(T) /\ e \in T
  BY <1>2
<1> HIDE DEF T
<1>4. Append(s, e) \in Seq(T)
  BY <1>3
<1>5. IsLog(Append(s, e))
  BY <1>4 DEF IsLog
<1> QED BY <1>3, <1>5

-------------------------------------------------------------------------------
(* The inductive invariant.  Requests that the client has given up on matter  *)
(* as much as those in the log: each of them may be appended at any time, so  *)
(* it must be the last of its text.                                           *)
Numbered ==
    /\ run \in Nat /\ pos \in Nat \ {0}
    /\ IsLog(appended)
    /\ \A n \in DOMAIN appended : appended[n].run \in 0..run /\ appended[n].pos \in Nat
    /\ \A r \in late : r.run \in 0..run /\ r.pos \in Nat

Answered(r) == <<r.run, r.pos>> \in answered

InOrder(q, r) == q.run = r.run => q.pos < r.pos /\ Answered(q)

LogInOrder ==
    \A m, n \in DOMAIN appended : m < n => InOrder(appended[m], appended[n])

LateAreLast ==
    /\ \A n \in DOMAIN appended : \A r \in late : InOrder(appended[n], r)
    /\ \A q, r \in late : q.run = r.run => q = r

CurrentIsNext ==
    at = "executing" =>
        /\ \A n \in DOMAIN appended :
              appended[n].run = run => appended[n].pos < pos /\ Answered(appended[n])
        /\ \A r \in late : r.run # run

Ordered == ~ options.retry => LogInOrder /\ LateAreLast /\ CurrentIsNext

IInv == Numbered /\ Ordered

\* The invariant says more than the property.
LEMMA OrderedImplies == IInv => StatementsInOrder
BY DEF IInv, Ordered, LogInOrder, InOrder, Answered, StatementsInOrder

\* It holds before anything is sent.
LEMMA OrderedInit == Init => IInv
<1> SUFFICES ASSUME Init PROVE IInv
  OBVIOUS
<1>1. <<>> \in Seq({}) /\ DOMAIN <<>> = {}
  OBVIOUS
<1>2. Numbered
  BY <1>1 DEF Init, Numbered, IsLog
<1>3. Ordered
  BY <1>1 DEF Init, Ordered, LogInOrder, LateAreLast, CurrentIsNext
<1> QED BY <1>2, <1>3 DEF IInv

-------------------------------------------------------------------------------
(* The kinds of steps.  Each action is one of them.                           *)

\* Nothing is sent, and Execute stays where it is or goes on.
Quiet ==
    /\ UNCHANGED <<options, run, appended, late, answered>>
    /\ pos' \in {pos, pos + 1}
    /\ at' = "executing" => at = "executing"

\* Execute begins with a text.
Starts ==
    /\ UNCHANGED <<options, appended, late, answered>>
    /\ run' = run + 1 /\ pos' = 1

\* Execute ends, unless it is to try again; a request may be left behind.
Leaves ==
    /\ at = "executing"
    /\ UNCHANGED <<options, run, pos, appended, answered>>
    /\ late' = late \cup {CurrentRequest}
    /\ ~ options.retry => at' # "executing"

\* The server handles the request, and Execute goes on.
Serves ==
    /\ at = "executing"
    /\ UNCHANGED <<options, run, late>>
    /\ appended' = Append(appended, CurrentRequest)
    /\ \/ pos' = pos + 1 /\ answered' = answered \cup {<<run, pos>>}
       \/ /\ UNCHANGED <<pos, answered>>
          /\ ~ options.retry => at' # "executing"

\* It handles one that nobody waits for.
ServesLate ==
    \E request \in late :
        /\ UNCHANGED <<options, at, run, pos, answered>>
        /\ late' = late \ {request}
        /\ appended' = Append(appended, request)

\* A query has been answered.
Reads ==
    /\ UNCHANGED <<options, at, run, appended, late>>
    /\ pos' = pos + 1 /\ answered' = answered \cup {<<run, pos>>}

LEMMA QuietKeeps == ASSUME IInv, Quiet PROVE IInv'
<1>1. Numbered'
  BY DEF IInv, Quiet, Numbered
<1>2. Ordered'
  BY DEF IInv, Quiet, Numbered, Ordered, LogInOrder, LateAreLast, CurrentIsNext, InOrder, Answered
<1> QED BY <1>1, <1>2 DEF IInv

LEMMA StartsKeeps == ASSUME IInv, Starts PROVE IInv'
<1>1. Numbered'
  BY DEF IInv, Starts, Numbered
<1>2. Ordered'
  BY DEF IInv, Starts, Numbered, Ordered, LogInOrder, LateAreLast, CurrentIsNext, InOrder, Answered
<1> QED BY <1>1, <1>2 DEF IInv

LEMMA ReadsKeeps == ASSUME IInv, Reads PROVE IInv'
<1>1. Numbered'
  BY DEF IInv, Reads, Numbered
<1>2. Ordered'
  BY DEF IInv, Reads, Numbered, Ordered, LogInOrder, LateAreLast, CurrentIsNext, InOrder, Answered
<1> QED BY <1>1, <1>2 DEF IInv

LEMMA LeavesKeeps == ASSUME IInv, Leaves PROVE IInv'
<1>0. CurrentRequest.run = run /\ CurrentRequest.pos = pos
  BY DEF CurrentRequest
<1>1. Numbered'
  BY <1>0 DEF IInv, Leaves, Numbered
<1>2. Ordered'
  BY <1>0 DEF IInv, Leaves, Numbered, Ordered, LogInOrder, LateAreLast, CurrentIsNext, InOrder, Answered
<1> QED BY <1>1, <1>2 DEF IInv

LEMMA ServesKeeps == ASSUME IInv, Serves PROVE IInv'
<1>0. CurrentRequest.run = run /\ CurrentRequest.pos = pos
  BY DEF CurrentRequest
<1>a. IsLog(appended)
  BY DEF IInv, Numbered
<1>b. /\ IsLog(appended')
      /\ Len(appended) \in Nat
      /\ DOMAIN appended = 1..Len(appended)
      /\ DOMAIN appended' = 1..(Len(appended) + 1)
      /\ \A n \in 1..Len(appended) : appended'[n] = appended[n]
      /\ appended'[Len(appended) + 1] = CurrentRequest
  BY <1>a, AppendOne DEF Serves
<1>1. Numbered'
  BY <1>0, <1>b DEF IInv, Serves, Numbered
<1>2. ASSUME ~ options.retry PROVE LogInOrder'
  BY <1>0, <1>2, <1>b DEF IInv, Serves, Numbered, Ordered, LogInOrder, CurrentIsNext, InOrder, Answered
<1>3. ASSUME ~ options.retry PROVE LateAreLast'
  BY <1>0, <1>3, <1>b DEF IInv, Serves, Numbered, Ordered, LateAreLast, CurrentIsNext, InOrder, Answered
<1>4. ASSUME ~ options.retry PROVE CurrentIsNext'
  BY <1>0, <1>4, <1>b DEF IInv, Serves, Numbered, Ordered, LogInOrder, CurrentIsNext, InOrder, Answered
<1> QED BY <1>1, <1>2, <1>3, <1>4 DEF IInv, Ordered, Serves

LEMMA ServesLateKeeps == ASSUME IInv, ServesLate PROVE IInv'
<1>0. PICK request \in late :
        /\ UNCHANGED <<options, at, run, pos, answered>>
        /\ late' = late \ {request}
        /\ appended' = Append(appended, request)
  BY DEF ServesLate
<1>a. IsLog(appended)
  BY DEF IInv, Numbered
<1>b. /\ IsLog(appended')
      /\ Len(appended) \in Nat
      /\ DOMAIN appended = 1..Len(appended)
      /\ DOMAIN appended' = 1..(Len(appended) + 1)
      /\ \A n \in 1..Len(appended) : appended'[n] = appended[n]
      /\ appended'[Len(appended) + 1] = request
  BY <1>0, <1>a, AppendOne
<1>1. Numbered'
  BY <1>0, <1>b DEF IInv, Numbered
<1>2. ASSUME ~ options.retry PROVE LogInOrder'
  BY <1>0, <1>2, <1>b DEF IInv, Ordered, LogInOrder, LateAreLast, InOrder, Answered
<1>3. ASSUME ~ options.retry PROVE LateAreLast'
  BY <1>0, <1>3, <1>b DEF IInv, Ordered, LateAreLast, InOrder, Answered
<1>4. ASSUME ~ options.retry PROVE CurrentIsNext'
  BY <1>0, <1>4, <1>b DEF IInv, Ordered, LateAreLast, CurrentIsNext, InOrder, Answered
<1> QED BY <1>0, <1>1, <1>2, <1>3, <1>4 DEF IInv, Ordered

-------------------------------------------------------------------------------
(* Every action is of one of these kinds.                                     *)
\* Execute ends, successfully or not: nothing is executing then.
LEMMA EndsExecuting == ASSUME NEW how, EndExecute(how) PROVE at' # "executing"
BY DEF EndExecute

\* A failure with nothing sent is quiet.
LEMMA FailKind ==
    ASSUME IInv, NEW r, Fail(r), at = "executing"
    PROVE  pos' = pos /\ (~ options.retry => at' # "executing")
BY EndsExecuting DEF Fail

\* What becomes of the request of a broken call.
LEMMA LeftBehindKind ==
    ASSUME LeaveBehind
    PROVE  late' = late \/ late' = late \cup {CurrentRequest}
BY DEF LeaveBehind

LEMMA StepKind ==
    ASSUME IInv, [Next]_vars
    PROVE  Quiet \/ Starts \/ Leaves \/ Serves \/ ServesLate \/ Reads
<1> USE DEF clusterVars, ShellOnly
<1>1. CASE InitializeClient
  BY <1>1 DEF InitializeClient, Quiet, loopVars
<1>2. CASE Batch
  BY <1>2 DEF Batch, StartExecute, Starts
<1>3. ASSUME NEW line \in Lines \cup {Exit}, TypeFirst(line)
      PROVE  Quiet \/ Starts
  <2>1. CASE line \in {<<>>, Exit}
    BY <1>3, <2>1 DEF TypeFirst, Quiet, loopVars
  <2>2. CASE line \notin {<<>>, Exit} /\ Complete(line)
    BY <1>3, <2>2 DEF TypeFirst, StartExecute, Starts
  <2>3. CASE line \notin {<<>>, Exit} /\ ~ Complete(line)
    BY <1>3, <2>3 DEF TypeFirst, Quiet, loopVars
  <2> QED BY <2>1, <2>2, <2>3
<1>4. ASSUME NEW line \in Lines \cup {Exit}, TypeMore(line)
      PROVE  Quiet \/ Starts
  BY <1>4 DEF TypeMore, StartExecute, Starts, Quiet, loopVars
<1>5. CASE Succeed
  BY <1>5 DEF Succeed, Calls, Serve, NextCommand, Serves, Reads
<1>6. CASE Reject
  <2>1. pos' = pos /\ (~ options.retry => at' # "executing")
    BY <1>6, FailKind DEF Reject, Calls
  <2> QED BY <1>6, <2>1 DEF Reject, Calls, Serve, Serves, Quiet
<1>7. CASE Redirect
  BY <1>7 DEF Redirect, Quiet
<1>8. CASE Break
  <2>1. pos' = pos /\ (~ options.retry => at' # "executing")
    BY <1>8, FailKind DEF Break, Calls
  <2> QED BY <1>8, <2>1, LeftBehindKind DEF Break, Calls, Leaves, Quiet
<1>9. CASE GiveUp
  BY <1>9 DEF GiveUp, NextCommand, Quiet, loopVars
<1>10. CASE CallNobody
  BY <1>10 DEF CallNobody, Quiet, loopVars
<1>11. CASE FinishExecute
  BY <1>11, EndsExecuting DEF FinishExecute, Quiet, loopVars
<1>12. CASE Interrupt
  BY <1>12, LeftBehindKind DEF Interrupt, Calls, Quiet, Leaves, loopVars
<1>13. ASSUME NEW request \in late, HandleLate(request)
       PROVE  ServesLate
  BY <1>13 DEF HandleLate, ServesLate, loopVars
<1>14. CASE UNCHANGED vars
  BY <1>14 DEF vars, loopVars, Quiet
<1> QED BY <1>1, <1>2, <1>3, <1>4, <1>5, <1>6, <1>7, <1>8, <1>9, <1>10, <1>11, <1>12,
           <1>13, <1>14 DEF Next, ExecuteNext

LEMMA OrderedStep == IInv /\ [Next]_vars => IInv'
BY StepKind, QuietKeeps, StartsKeeps, ReadsKeeps, LeavesKeeps, ServesKeeps, ServesLateKeeps

LEMMA OrderedAlways == Spec => []IInv
BY OrderedInit, OrderedStep, PTL DEF Spec

(* Without retryOnBadCommand the statements of one text get into the log in   *)
(* their order, each at most once, none before the one ahead of it has been   *)
(* answered OK: for any texts, servers and number of attempts, and however    *)
(* late requests of broken calls are handled.                                 *)
THEOREM InOrderAndOnce == Spec => []StatementsInOrder
BY OrderedAlways, OrderedImplies, PTL

-------------------------------------------------------------------------------
(* The shell.  What is executed is what was typed because the buffer is empty *)
(* at every prompt and a text of more lines only ends with the input.         *)
ShellOK ==
    /\ at \in {"connecting", "reading", "prompt"} => buf = <<>>
    /\ at \in {"prompt", "continuing"} /\ options.file # NoFile => run > 0
    /\ at \in {"connecting", "reading"} => run = 0
    /\ at = "reading" => options.file # NoFile
    /\ at = "executing" => run > 0
    /\ at = "executing" => commands = Format(submitted, ~ InBatch)
    /\ SubmittedIsTyped

HasRefused == \E n \in DOMAIN Matches(submitted) : Refused(Matches(submitted)[n])

\* Neither now nor later is anything of a refused text in the log.
NothingOfRefused ==
    ~ InBatch /\ HasRefused =>
        /\ \A n \in DOMAIN appended : appended[n].run # run
        /\ \A r \in late : r.run # run

ShellInv == ShellOK /\ NothingOfRefused

LEMMA RefusedImplies == ShellInv => RefusedHasNoEffect
BY DEF ShellInv, NothingOfRefused, HasRefused, RefusedHasNoEffect

LEMMA ShellInit == Init => ShellInv
BY DEF Init, ShellInv, ShellOK, NothingOfRefused, InBatch, SubmittedIsTyped

\* An empty buffer with a line is the line.
LEMMA OneLine ==
    ASSUME NEW line \in Lines \cup {Exit} PROVE <<>> \o line = line
<1>1. line \in Seq(Token)
  BY LineAssumption
<1> QED BY <1>1

\* A text with a statement that Sanitize refuses gives no commands ...
LEMMA RefusedIsEmpty ==
    ASSUME ShellInv, at = "executing", ~ InBatch, HasRefused
    PROVE  commands = <<>>
BY DEF ShellInv, ShellOK, Format, HasRefused

\* ... and so no calls.
LEMMA RefusedCallsNobody ==
    ASSUME Numbered, ShellInv, Calls, ~ InBatch
    PROVE  ~ HasRefused
<1>1. SUFFICES ASSUME HasRefused PROVE FALSE
  OBVIOUS
<1>2. Len(commands) = 0
  BY <1>1, RefusedIsEmpty DEF Calls
<1> QED BY <1>2 DEF Calls, Numbered

\* Execute begins with a text that was read, or typed.
LEMMA StartsText ==
    ASSUME NEW text, NEW sanitize, Numbered, StartExecute(text, sanitize),
           sanitize = ~ InBatch',
           InBatch' \/ exit' \/ text = typed'
    PROVE  ShellOK'
<1>1. at' = "executing" /\ run' > 0
  BY DEF StartExecute, Numbered
<1>2. SubmittedIsTyped'
  BY DEF StartExecute, SubmittedIsTyped
<1>3. commands' = Format(submitted, ~ InBatch)'
  BY DEF StartExecute
<1> QED BY <1>1, <1>2, <1>3 DEF ShellOK

LEMMA ShellOKStep ==
    ASSUME Numbered, ShellOK, [Next]_vars
    PROVE  ShellOK'
<1> USE DEF ShellOK, SubmittedIsTyped, InBatch, shellVars, textVars, typedVars, ShellOnly
<1>1. CASE InitializeClient
  BY <1>1 DEF InitializeClient, Numbered
<1>2. CASE Batch
  <2>1. InBatch'
    BY <1>2 DEF Batch, StartExecute
  <2> QED BY <1>2, <2>1, StartsText DEF Batch
<1>3. ASSUME NEW line \in Lines \cup {Exit}, TypeFirst(line)
      PROVE  ShellOK'
  <2>1. CASE line \in {<<>>, Exit}
    BY <1>3, <2>1 DEF TypeFirst
  <2>2. CASE line \notin {<<>>, Exit} /\ Complete(line)
    <3>1. StartExecute(buf', TRUE) /\ buf' = typed'
      BY <1>3, <2>2, OneLine DEF TypeFirst
    <3>2. ~ InBatch'
      BY <1>3, <2>2, <3>1 DEF TypeFirst, StartExecute, Numbered
    <3> QED BY <3>1, <3>2, StartsText
  <2>3. CASE line \notin {<<>>, Exit} /\ ~ Complete(line)
    BY <1>3, <2>3 DEF TypeFirst
  <2> QED BY <2>1, <2>2, <2>3
<1>4. ASSUME NEW line \in Lines \cup {Exit}, TypeMore(line)
      PROVE  ShellOK'
  <2>1. CASE line = <<>>
    <3>1. StartExecute(buf', TRUE) /\ exit'
      BY <1>4, <2>1 DEF TypeMore
    <3>2. ~ InBatch'
      BY <1>4, <3>1 DEF TypeMore, StartExecute, Numbered
    <3> QED BY <3>1, <3>2, StartsText
  <2>2. CASE line # <<>>
    BY <1>4, <2>2 DEF TypeMore
  <2> QED BY <2>1, <2>2
<1>5. CASE Succeed
  BY <1>5 DEF Succeed, Calls, NextCommand
<1>6. CASE Reject
  BY <1>6 DEF Reject, Calls, Fail, EndExecute
<1>7. CASE Redirect
  BY <1>7 DEF Redirect, Calls
<1>8. CASE Break
  BY <1>8 DEF Break, Calls, Fail, EndExecute
<1>9. CASE GiveUp
  BY <1>9 DEF GiveUp, NextCommand
<1>10. CASE CallNobody
  BY <1>10 DEF CallNobody
<1>11. CASE FinishExecute
  BY <1>11 DEF FinishExecute, EndExecute
<1>12. CASE Interrupt
  BY <1>12 DEF Interrupt
<1>13. ASSUME NEW request \in late, HandleLate(request)
       PROVE  ShellOK'
  BY <1>13 DEF HandleLate
<1>14. CASE UNCHANGED vars
  BY <1>14 DEF vars
<1> QED BY <1>1, <1>2, <1>3, <1>4, <1>5, <1>6, <1>7, <1>8, <1>9, <1>10, <1>11, <1>12,
           <1>13, <1>14 DEF Next, ExecuteNext

\* Only calls send, and only a new text changes what the log is compared with.
LEMMA RefusedStep ==
    ASSUME IInv, ShellInv, [Next]_vars
    PROVE  NothingOfRefused'
<1> DEFINE SameText == UNCHANGED <<options, run, submitted>>
<1>1. CASE SameText /\ UNCHANGED <<appended, late>>
  BY <1>1 DEF ShellInv, NothingOfRefused, InBatch, HasRefused
<1>2. CASE Starts
  BY <1>2 DEF Starts, IInv, Numbered, NothingOfRefused
<1>3. CASE SameText /\ Calls
  BY <1>3, RefusedCallsNobody DEF IInv, NothingOfRefused, InBatch, HasRefused
<1>4. ASSUME NEW request \in late, HandleLate(request)
      PROVE  NothingOfRefused'
  <2>1. /\ SameText
        /\ late' = late \ {request} /\ appended' = Append(appended, request)
    BY <1>4 DEF HandleLate, ShellOnly, textVars
  <2>2. /\ Len(appended) \in Nat
        /\ DOMAIN appended = 1..Len(appended)
        /\ DOMAIN appended' = 1..(Len(appended) + 1)
        /\ \A n \in 1..Len(appended) : appended'[n] = appended[n]
        /\ appended'[Len(appended) + 1] = request
    BY <2>1, AppendOne DEF IInv, Numbered
  <2> QED BY <2>1, <2>2 DEF ShellInv, NothingOfRefused, InBatch, HasRefused
<1>5. ASSUME [Next]_vars
      PROVE  \/ (SameText /\ UNCHANGED <<appended, late>>)
             \/ Starts
             \/ (SameText /\ Calls)
             \/ \E request \in late : HandleLate(request)
  <2> USE DEF clusterVars, textVars, ShellOnly
  <2>1. CASE InitializeClient
    BY <2>1 DEF InitializeClient
  <2>2. CASE Batch
    BY <2>2 DEF Batch, StartExecute, Starts
  <2>3. ASSUME NEW line \in Lines \cup {Exit}, TypeFirst(line) \/ TypeMore(line)
        PROVE  (SameText /\ UNCHANGED <<appended, late>>) \/ Starts
    BY <2>3 DEF TypeFirst, TypeMore, StartExecute, Starts
  <2>4. CASE Succeed \/ Reject \/ Redirect \/ Break
    BY <2>4 DEF Succeed, Reject, Redirect, Break
  <2>5. CASE GiveUp \/ CallNobody \/ FinishExecute
    BY <2>5 DEF GiveUp, CallNobody, FinishExecute
  <2>6. CASE Interrupt
    BY <2>6 DEF Interrupt
  <2>7. CASE UNCHANGED vars
    BY <2>7 DEF vars
  <2> QED BY <1>5, <2>1, <2>2, <2>3, <2>4, <2>5, <2>6, <2>7 DEF Next, ExecuteNext
<1> HIDE DEF SameText
<1> QED BY <1>1, <1>2, <1>3, <1>4, <1>5

LEMMA ShellAlways == Spec => []ShellInv
<1>1. IInv /\ ShellInv /\ [Next]_vars => ShellInv'
  BY ShellOKStep, RefusedStep DEF IInv, ShellInv
<1> QED BY OrderedAlways, ShellInit, <1>1, PTL DEF Spec

(* A text with a statement that Sanitize refuses has no effect at all, for    *)
(* any lines and whatever calls are still on their way.                       *)
THEOREM RefusedIsRefused == Spec => []RefusedHasNoEffect
BY ShellAlways, RefusedImplies, PTL

(* As long as the shell goes on, it executes exactly what was typed since the *)
(* prompt, after any number of texts.                                         *)
THEOREM TypedIsSubmitted == Spec => []SubmittedIsTyped
<1>1. ShellInv => SubmittedIsTyped
  BY DEF ShellInv, ShellOK
<1> QED BY ShellAlways, <1>1, PTL

-------------------------------------------------------------------------------
(* The types.  A file is read only if there is one.                           *)
TypeInv == TypeOK /\ (at = "reading" => options.file # NoFile)

LEMMA TypeInit == Init => TypeInv
<1> SUFFICES ASSUME Init PROVE TypeInv
  OBVIOUS
<1>1. options \in Option /\ options.attempts \in Nat
  BY OptionAssumption DEF Init, Option
<1>2. <<>> \in Seq(Token) /\ <<>> \in Seq(Seq(Token)) /\ <<>> \in Seq(Request) /\ Len(<<>>) = 0
  OBVIOUS
<1>3. {first, buf, submitted, typed} \subseteq Seq(Token)
  BY <1>2 DEF Init
<1>4. pos \in 1..(Len(commands) + 1) /\ tries \in 0..options.attempts
  BY <1>1, <1>2 DEF Init
<1>5. commands \in Seq(Seq(Token)) /\ appended \in Seq(Request)
  BY <1>2 DEF Init
<1> QED BY <1>1, <1>3, <1>4, <1>5 DEF Init, TypeInv, TypeOK, Place

\* What Execute begins with has its types.
LEMMA StartsTyped ==
    ASSUME TypeOK, NEW text \in Seq(Token), NEW sanitize \in BOOLEAN,
           StartExecute(text, sanitize)
    PROVE  /\ at' = "executing"
           /\ options' = options /\ options.attempts \in Nat
           /\ conn' = conn /\ UNCHANGED <<appended, late, answered>>
           /\ submitted' \in Seq(Token)
           /\ commands' \in Seq(Seq(Token)) /\ Len(commands') \in Nat
           /\ pos' = 1 /\ tries' = 0 /\ result' = FALSE
           /\ run' \in Nat /\ reported' = "nothing"
<1>1. commands' \in Seq(Seq(Token))
  BY FormatType DEF StartExecute
<1>2. options.attempts \in Nat
  BY DEF TypeOK, Option
<1> QED BY <1>1, <1>2 DEF StartExecute, clusterVars, TypeOK

\* With the shell's variables typed, so is everything.
LEMMA StartsKeepsTypes ==
    ASSUME TypeOK, NEW text \in Seq(Token), NEW sanitize \in BOOLEAN,
           StartExecute(text, sanitize),
           first' \in Seq(Token), buf' \in Seq(Token), typed' \in Seq(Token),
           exit' \in BOOLEAN, lines' \in Nat
    PROVE  TypeInv'
<1>1. /\ at' = "executing"
      /\ options' = options /\ options.attempts \in Nat
      /\ conn' = conn /\ UNCHANGED <<appended, late, answered>>
      /\ submitted' \in Seq(Token)
      /\ commands' \in Seq(Seq(Token)) /\ Len(commands') \in Nat
      /\ pos' = 1 /\ tries' = 0 /\ result' = FALSE
      /\ run' \in Nat /\ reported' = "nothing"
  BY StartsTyped
<1>2. {first', buf', submitted', typed'} \subseteq Seq(Token)
  BY <1>1
<1>3. pos' \in 1..(Len(commands') + 1) /\ tries' \in 0..options'.attempts
  BY <1>1
<1> QED BY <1>1, <1>2, <1>3 DEF TypeOK, TypeInv, Place

\* The request of a call has its type.
LEMMA RequestTyped ==
    ASSUME TypeOK, Calls
    PROVE  CurrentRequest \in Request /\ pos \in 1..Len(commands) /\ Len(commands) \in Nat
<1>1. pos \in 1..Len(commands) /\ Len(commands) \in Nat
  BY DEF Calls, TypeOK
<1>2. commands[pos] \in Seq(Token) /\ run \in Nat /\ pos \in Nat
  BY <1>1 DEF TypeOK
<1> QED BY <1>1, <1>2 DEF CurrentRequest, Command, Request

\* What Execute changes of its own, and how.
LoopTyped ==
    /\ at' \in {at, "exited", "prompt"}
    /\ buf' \in Seq(Token)
    /\ result' \in BOOLEAN
    /\ pos' \in 1..(Len(commands) + 1)
    /\ tries' \in 0..options.attempts
    /\ reported' \in {"nothing", "ok", "error"}

LEMMA EndTyped ==
    ASSUME NEW how \in {"ok", "error"}, EndExecute(how)
    PROVE  at' \in {"exited", "prompt"} /\ buf' \in Seq(Token) /\ reported' \in {"nothing", "ok", "error"}
BY EmptySeq DEF EndExecute

LEMMA NextCommandTyped ==
    ASSUME TypeOK, pos <= Len(commands), NextCommand
    PROVE  LoopTyped
<1>1. options.attempts \in Nat /\ Len(commands) \in Nat /\ pos \in Nat \ {0} /\ pos + 1 \in 1..(Len(commands) + 1)
  BY DEF TypeOK, Option
<1>2. buf' \in Seq(Token) /\ reported' \in {"nothing", "ok", "error"} /\ at' = at
  BY DEF NextCommand, TypeOK
<1>3. pos' \in 1..(Len(commands) + 1)
  <2>1. pos' = pos + 1
    BY DEF NextCommand
  <2> QED BY <1>1, <2>1
<1>4. tries' \in 0..options.attempts /\ result' \in BOOLEAN
  <2>1. tries' = 0 /\ result' = FALSE
    BY DEF NextCommand
  <2>2. 0 \in 0..options.attempts
    BY <1>1
  <2> QED BY <2>1, <2>2
<1> QED BY <1>2, <1>3, <1>4 DEF LoopTyped

LEMMA FailTyped ==
    ASSUME TypeOK, Calls, NEW hasResult \in BOOLEAN, Fail(hasResult)
    PROVE  LoopTyped
<1>1. options.attempts \in Nat /\ tries \in Nat /\ tries + 1 \in 0..options.attempts
  BY DEF TypeOK, Option, Calls
<1>2. CASE options.retry
  BY <1>1, <1>2 DEF Fail, LoopTyped, TypeOK
<1>3. CASE ~ options.retry
  <2>1. EndExecute("error") /\ UNCHANGED <<tries, pos>> /\ result' = hasResult
    BY <1>3 DEF Fail
  <2> QED BY <2>1, EndTyped DEF LoopTyped, TypeOK
<1> QED BY <1>2, <1>3

\* A step of Execute: its own variables, the log and what is left behind.
LEMMA ExecuteTyped ==
    ASSUME TypeInv, UNCHANGED ShellOnly, LoopTyped \/ (UNCHANGED <<loopVars, buf, reported>> /\ at' \in Place \ {"reading"}),
           conn' \in Server \cup {Nil},
           appended' \in Seq(Request), late' \subseteq Request, answered' \subseteq Nat \X Nat
    PROVE  TypeInv'
<1>1. /\ options' = options /\ UNCHANGED <<first, exit, submitted, commands, run, typed, lines>>
  BY DEF ShellOnly, textVars, typedVars
<1>2. /\ at' \in Place /\ (at' = "reading" => at = "reading")
      /\ buf' \in Seq(Token) /\ result' \in BOOLEAN /\ pos' \in 1..(Len(commands) + 1)
      /\ tries' \in 0..options.attempts /\ reported' \in {"nothing", "ok", "error"}
  BY DEF LoopTyped, TypeInv, TypeOK, Place, loopVars
<1> QED BY <1>1, <1>2 DEF TypeInv, TypeOK

LEMMA TypeStep ==
    ASSUME TypeInv, [Next]_vars
    PROVE  TypeInv'
<1> USE DEF TypeInv
<1>0. TypeOK /\ options \in Option
  BY DEF TypeOK
<1>1. CASE InitializeClient
  <2>1. options.server \in Server \cup {Nil}
    BY <1>0 DEF Option
  <2> QED BY <1>1, <2>1 DEF InitializeClient, TypeOK, Place, shellVars, textVars, loopVars,
                            clusterVars, typedVars
<1>2. CASE Batch
  <2>1. options.file \in Seq(Token)
    BY <1>0, <1>2 DEF Batch, Option
  <2>2. StartExecute(options.file, FALSE) /\ UNCHANGED <<shellVars, typedVars>>
    BY <1>2 DEF Batch
  <2>3. /\ first' \in Seq(Token) /\ buf' \in Seq(Token) /\ typed' \in Seq(Token)
        /\ exit' \in BOOLEAN /\ lines' \in Nat
    BY <2>2 DEF TypeOK, shellVars, typedVars
  <2> HIDE DEF TypeInv
  <2> QED BY <1>0, <2>1, <2>2, <2>3, StartsKeepsTypes
<1>3. ASSUME NEW line \in Lines \cup {Exit}, TypeFirst(line)
      PROVE  TypeInv'
  <2>1. line \in Seq(Token) /\ buf \in Seq(Token) /\ buf \o line \in Seq(Token)
    <3>1. line \in Seq(Token) /\ buf \in Seq(Token)
      BY LineAssumption DEF TypeOK
    <3> QED BY <3>1, ConcatProperties
  <2>2. CASE line \in {<<>>, Exit}
    BY <1>3, <2>2 DEF TypeFirst, TypeOK, Place, shellVars, textVars, loopVars, clusterVars, typedVars
  <2>3. CASE line \notin {<<>>, Exit} /\ Complete(line)
    <3>1. /\ StartExecute(buf', TRUE)
          /\ buf' = buf \o line /\ first' = line /\ typed' = line /\ lines' = 1 /\ exit' = exit
      BY <1>3, <2>3 DEF TypeFirst
    <3>2. /\ first' \in Seq(Token) /\ buf' \in Seq(Token) /\ typed' \in Seq(Token)
          /\ exit' \in BOOLEAN /\ lines' \in Nat
      BY <2>1, <3>1 DEF TypeOK, typedVars
    <3> HIDE DEF TypeInv
    <3> QED BY <1>0, <3>1, <3>2, StartsKeepsTypes
  <2>4. CASE line \notin {<<>>, Exit} /\ ~ Complete(line)
    <3>1. /\ first' = line /\ buf' = buf \o line /\ typed' = line /\ lines' = 1
          /\ UNCHANGED <<exit, options, conn, textVars, loopVars, clusterVars, run, reported, answered>>
          /\ at' = "continuing"
      BY <1>3, <2>4 DEF TypeFirst
    <3>2. {first', buf', submitted', typed'} \subseteq Seq(Token)
      BY <2>1, <3>1 DEF TypeOK, textVars
    <3> QED BY <3>1, <3>2 DEF TypeOK, Place, textVars, loopVars, clusterVars
  <2> QED BY <2>2, <2>3, <2>4
<1>4. ASSUME NEW line \in Lines \cup {Exit}, TypeMore(line)
      PROVE  TypeInv'
  <2>1. /\ line \in Seq(Token) /\ first \in Seq(Token)
        /\ buf \o first \in Seq(Token) /\ typed \o line \in Seq(Token)
    <3>1. line \in Seq(Token) /\ first \in Seq(Token) /\ buf \in Seq(Token) /\ typed \in Seq(Token)
      BY LineAssumption DEF TypeOK
    <3> QED BY <3>1, ConcatProperties
  <2>2. CASE line = <<>>
    <3>1. /\ StartExecute(buf', TRUE)
          /\ buf' = buf \o first /\ first' = first /\ exit' = TRUE /\ UNCHANGED typedVars
      BY <1>4, <2>2 DEF TypeMore
    <3>2. /\ first' \in Seq(Token) /\ buf' \in Seq(Token) /\ typed' \in Seq(Token)
          /\ exit' \in BOOLEAN /\ lines' \in Nat
      BY <2>1, <3>1 DEF TypeOK, typedVars
    <3> HIDE DEF TypeInv
    <3> QED BY <1>0, <3>1, <3>2, StartsKeepsTypes
  <2>3. CASE line # <<>>
    <3>1. /\ first' = first /\ buf' = buf \o first /\ typed' = typed \o line /\ lines' = lines + 1
          /\ UNCHANGED <<options, at, conn, exit, textVars, loopVars, clusterVars, run, reported, answered>>
      BY <1>4, <2>3 DEF TypeMore
    <3>2. {first', buf', submitted', typed'} \subseteq Seq(Token)
      BY <2>1, <3>1 DEF TypeOK, textVars
    <3> QED BY <3>1, <3>2 DEF TypeOK, textVars, loopVars, clusterVars
  <2> QED BY <2>2, <2>3
<1>5. appended \in Seq(Request) /\ late \subseteq Request /\ answered \subseteq Nat \X Nat
      /\ conn \in Server \cup {Nil}
  BY DEF TypeOK
<1>6. ASSUME Calls, Serve PROVE appended' \in Seq(Request)
  BY <1>0, <1>5, <1>6, RequestTyped, AppendProperties DEF Serve
<1>7. ASSUME Calls, LeaveBehind PROVE late' \subseteq Request
  BY <1>0, <1>5, <1>7, RequestTyped DEF LeaveBehind
<1>8. CASE Succeed
  <2>1. pos <= Len(commands) /\ <<run, pos>> \in Nat \X Nat
    BY <1>8 DEF Succeed, Calls, TypeOK
  <2>2. LoopTyped
    BY <1>0, <1>8, <2>1, NextCommandTyped DEF Succeed
  <2> QED BY <1>5, <1>6, <1>8, <2>1, <2>2, ExecuteTyped DEF Succeed
<1>9. CASE Reject
  <2>1. LoopTyped
    BY <1>0, <1>9, FailTyped DEF Reject
  <2> QED BY <1>5, <1>6, <1>9, <2>1, ExecuteTyped DEF Reject
<1>10. CASE Redirect
  <2>1. tries + 1 \in 0..options.attempts
    BY <1>0, <1>10 DEF Redirect, Calls, TypeOK, Option
  <2>2. LoopTyped
    BY <1>10, <2>1 DEF Redirect, LoopTyped, TypeOK
  <2>3. conn' \in Server \cup {Nil}
    BY <1>10 DEF Redirect
  <2> QED BY <1>5, <1>10, <2>2, <2>3, ExecuteTyped DEF Redirect, clusterVars
<1>11. CASE Break
  <2>1. LoopTyped
    BY <1>0, <1>11, FailTyped DEF Break
  <2> QED BY <1>5, <1>7, <1>11, <2>1, ExecuteTyped DEF Break
<1>12. CASE GiveUp
  <2>1. LoopTyped \/ (UNCHANGED <<loopVars, buf, reported>> /\ at' \in Place \ {"reading"})
    BY <1>0, <1>12, NextCommandTyped DEF GiveUp, Place
  <2> QED BY <1>5, <1>12, <2>1, ExecuteTyped DEF GiveUp, clusterVars
<1>13. CASE CallNobody
  <2>1. UNCHANGED <<loopVars, buf, reported>> /\ at' \in Place \ {"reading"}
    BY <1>13 DEF CallNobody, Place
  <2> QED BY <1>5, <1>13, <2>1, ExecuteTyped DEF CallNobody, clusterVars
<1>14. CASE FinishExecute
  <2>1. LoopTyped
    BY <1>0, <1>14, EndTyped DEF FinishExecute, LoopTyped, TypeOK, loopVars
  <2> QED BY <1>5, <1>14, <2>1, ExecuteTyped DEF FinishExecute, clusterVars
<1>15. CASE Interrupt
  <2>1. UNCHANGED <<loopVars, buf, reported>> /\ at' \in Place \ {"reading"}
    BY <1>15 DEF Interrupt, Place
  <2>2. late' \subseteq Request
    BY <1>5, <1>7, <1>15 DEF Interrupt
  <2> QED BY <1>5, <1>15, <2>1, <2>2, ExecuteTyped DEF Interrupt
<1>16. ASSUME NEW request \in late, HandleLate(request)
       PROVE  TypeInv'
  <2>1. request \in Request
    BY <1>5
  <2>2. appended' \in Seq(Request) /\ late' \subseteq Request
    BY <1>5, <1>16, <2>1, AppendProperties DEF HandleLate
  <2> QED BY <1>16, <2>2 DEF HandleLate, TypeOK, ShellOnly, textVars, typedVars, loopVars
<1>17. CASE UNCHANGED vars
  BY <1>17 DEF vars, TypeOK, shellVars, textVars, loopVars, clusterVars, typedVars
<1> QED BY <1>1, <1>2, <1>3, <1>4, <1>8, <1>9, <1>10, <1>11, <1>12, <1>13, <1>14, <1>15,
           <1>16, <1>17 DEF Next, ExecuteNext

LEMMA TypeAlways == Spec => []TypeInv
BY TypeInit, TypeStep, PTL DEF Spec

(* Every variable of Client keeps its type, with any texts, servers, flags    *)
(* and bounds: the attempts never exceed their number, and Execute's loop     *)
(* never leaves the commands that Format made.                                *)
THEOREM TypeCorrect == Spec => []TypeOK
<1>1. TypeInv => TypeOK
  BY DEF TypeInv
<1> QED BY TypeAlways, <1>1, PTL

-------------------------------------------------------------------------------
(* What is sent.                                                              *)

(* What Execute sends as a query is one statement that begins with SELECT:    *)
(* for every text, also one with quotes that are not closed.                  *)
THEOREM QueriesAreReads == Spec => []QueriesOnlyRead
<1>1. ASSUME TypeInv, ShellInv, Calls, CommandIsRO(Command)
      PROVE  Command[1] \in SelectWord /\ Cuts(Command) = {}
  <2>1. commands = Format(submitted, ~ InBatch) /\ submitted \in Seq(Token)
    BY <1>1 DEF ShellInv, ShellOK, TypeInv, TypeOK, Calls
  <2>2. commands \in Seq(PiecesFrom(submitted, 1))
    BY <2>1, FormatType
  <2>3. pos \in 1..Len(commands)
    BY <1>1, RequestTyped DEF TypeInv
  <2>4. Command \in PiecesFrom(submitted, 1)
    BY <2>2, <2>3, ElementOfSeq DEF Command
  <2> QED BY <1>1, <2>1, <2>4, QueriesAreStatements
<1>2. TypeInv /\ ShellInv => QueriesOnlyRead
  BY <1>1 DEF QueriesOnlyRead
<1> QED BY TypeAlways, ShellAlways, <1>2, PTL

(* What Execute runs of a text whose quotes are closed are its statements,    *)
(* and all of them, for every text that does not begin with a semicolon.      *)
THEOREM TextsAreSplit == Spec => []SplitAtStatements
<1>1. ASSUME TypeInv, ShellInv, at = "executing", Balanced(submitted),
             submitted # <<>> => submitted[1] # Semi,
             InBatch \/ \A n \in DOMAIN Matches(submitted) : ~ Refused(Matches(submitted)[n])
      PROVE  IsSplitOf(commands, submitted)
  <2>1. commands = Format(submitted, ~ InBatch) /\ submitted \in Seq(Token)
    BY <1>1 DEF ShellInv, ShellOK, TypeInv, TypeOK
  <2>2. commands = Matches(submitted)
    BY <1>1, <2>1 DEF Format
  <2> QED BY <1>1, <2>1, <2>2, MatchesSplit
<1>2. TypeInv /\ ShellInv => SplitAtStatements
  BY <1>1 DEF SplitAtStatements
<1> QED BY TypeAlways, ShellAlways, <1>2, PTL
===============================================================================
