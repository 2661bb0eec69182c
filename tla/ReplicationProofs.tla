--------------------------- MODULE ReplicationProofs ---------------------------
(* What holds of replication in clusters of every size, for every number of   *)
(* terms, commands, faults and leaders, and from every log that earlier       *)
(* behaviours may have left: type correctness, and that the terms in every    *)
(* log are in order and known to its server.                                  *)
EXTENDS Replication, FiniteSetTheorems, SequenceTheorems, TLAPS

\* What a leader replicates was given to it.
ServingWasSent ==
    \A i \in Server : serving[i] # Nil => serving[i] \in sent

\* Goroutines that send a command live only while the event loop waits for
\* them, and then the command is in the log.
CallsOnlyWhileMutating ==
    \A i, j \in Server : call[i]["client"][j].phase # "idle" => loop[i] = "mutating"
MutatingHasEntry ==
    \A i \in Server : loop[i] = "mutating" => log[i] # <<>>

\* Only a request that names a previous entry is rejected in its own term, and
\* while it is on its way nextIndex stays above 1, whoever else writes to it.
RejectedForPrevious(c) ==
    c.phase = "answered" /\ ~ c.ok /\ c.term <= c.req.term => c.req.prevIndex > 0
RoomToRetreat ==
    \A i, j \in Server :
        LET c == call[i]["sync"][j] IN
        /\ RejectedForPrevious(c)
        /\ c.phase \in {"sent", "answered"} /\ c.req.prevIndex > 0 =>
              nextIndex[i][j] > 1 /\ log[i] # <<>>

TypeInv ==
    /\ TypeOK
    /\ ServingWasSent
    /\ CallsOnlyWhileMutating
    /\ MutatingHasEntry
    /\ RoomToRetreat

\* A request's entry is no newer than the request and no older than the entry
\* it is to follow.
RequestInOrder(req) ==
    ~ IsHeartbeat(req) =>
        /\ req.entries[1].term <= req.term
        /\ req.prevIndex > 0 => req.prevTerm <= req.entries[1].term
RequestsInOrder ==
    \A j \in Server : \A req \in Incoming(j) : RequestInOrder(req)
-----------------------------------------------------------------------------
(* Logs and requests.                                                         *)

\* What reading a log gives.
LEMMA LogFacts ==
    ASSUME NEW s \in Seq(Entry)
    PROVE  /\ Len(s) \in Nat
           /\ DOMAIN s = 1..Len(s)
           /\ \A n \in 1..Len(s) : s[n] \in Entry /\ s[n].term \in Nat /\ s[n].data \in Command
           /\ s # <<>> <=> Len(s) > 0
           /\ \A n \in 0..Len(s) : TermAt(s, n) \in Nat
<1>1. /\ Len(s) \in Nat
      /\ DOMAIN s = 1..Len(s)
      /\ \A n \in 1..Len(s) : s[n] \in Entry
  BY ElementOfSeq, LenProperties
<1>2. s # <<>> <=> Len(s) > 0
  BY <1>1, EmptySeq
<1> QED
  BY <1>1, <1>2 DEF Entry, TermAt

\* A log cut after entry p and continued by e.
LEMMA CutAndAppend ==
    ASSUME NEW s \in Seq(Entry), NEW p \in 0..Len(s), NEW e \in Entry
    PROVE  /\ Append(SubSeq(s, 1, p), e) \in Seq(Entry)
           /\ Len(Append(SubSeq(s, 1, p), e)) = p + 1
           /\ \A n \in 1..p : Append(SubSeq(s, 1, p), e)[n] = s[n]
           /\ Append(SubSeq(s, 1, p), e)[p + 1] = e
<1> DEFINE t == SubSeq(s, 1, p)
<1>1. \A n \in 1..p : s[n] \in Entry
  BY LogFacts
<1>2. /\ t \in Seq(Entry)
      /\ Len(t) = p
      /\ \A n \in 1..p : t[n] = s[n]
  BY <1>1, SubSeqProperties
<1> HIDE DEF t
<1>3. /\ Append(t, e) \in Seq(Entry)
      /\ Len(Append(t, e)) = p + 1
      /\ \A n \in 1..p : Append(t, e)[n] = t[n]
      /\ Append(t, e)[p + 1] = e
  BY <1>2, AppendProperties
<1> QED
  BY <1>2, <1>3 DEF t

\* A log continued by e.
LEMMA AppendEntry ==
    ASSUME NEW s \in Seq(Entry), NEW e \in Entry
    PROVE  /\ Append(s, e) \in Seq(Entry)
           /\ Len(Append(s, e)) = Len(s) + 1
           /\ \A n \in 1..Len(s) : Append(s, e)[n] = s[n]
           /\ Append(s, e)[Len(s) + 1] = e
BY AppendProperties, LenProperties

LEMMA RequestFacts ==
    ASSUME NEW req \in Request
    PROVE  /\ req.term \in Nat /\ req.prevIndex \in Nat /\ req.prevTerm \in Nat
           /\ req.commit \in Nat /\ req.entries \in Seq(Entry)
           /\ ~ IsHeartbeat(req) => req.entries[1] \in Entry
<1>1. req.entries \in Seq(Entry)
  BY DEF Request
<1>2. ~ IsHeartbeat(req) => 1 \in 1..Len(req.entries)
  BY <1>1, LogFacts DEF IsHeartbeat
<1> QED
  BY <1>1, <1>2, LogFacts DEF Request

(* What the handler leaves: the log as it was, or the log cut after the       *)
(* previous entry and continued by the new one.  An accepted entry is then    *)
(* there, and no log becomes empty.                                           *)
LEMMA LogAfterCases ==
    ASSUME NEW j \in Server, NEW req \in Request, log[j] \in Seq(Entry)
    PROVE  /\ LogAfter(j, req) \in Seq(Entry)
           /\ \/ LogAfter(j, req) = log[j]
              \/ /\ Accepts(j, req) /\ ~ IsHeartbeat(req)
                 /\ req.prevIndex \in 0..Len(log[j])
                 /\ LogAfter(j, req) =
                       Append(SubSeq(log[j], 1, req.prevIndex), req.entries[1])
                 /\ Len(LogAfter(j, req)) = req.prevIndex + 1
                 /\ \A n \in 1..req.prevIndex : LogAfter(j, req)[n] = log[j][n]
                 /\ LogAfter(j, req)[req.prevIndex + 1] = req.entries[1]
           /\ Accepts(j, req) /\ ~ IsHeartbeat(req) =>
                 /\ req.prevIndex \in 0..Len(log[j])
                 /\ req.prevIndex + 1 \in 1..Len(LogAfter(j, req))
                 /\ LogAfter(j, req)[req.prevIndex + 1].term = req.entries[1].term
           /\ log[j] # <<>> => LogAfter(j, req) # <<>>
<1>1. Len(log[j]) \in Nat
  BY LogFacts
<1>2. req.prevIndex \in Nat /\ (~ IsHeartbeat(req) => req.entries[1] \in Entry)
  BY RequestFacts
<1>3. Accepts(j, req) /\ ~ IsHeartbeat(req) => req.prevIndex \in 0..Len(log[j])
  BY <1>1, <1>2 DEF Accepts, HasPrevious
<1>4. CASE ~ Accepts(j, req) \/ IsHeartbeat(req)
  BY <1>4 DEF LogAfter
<1>5. CASE /\ Accepts(j, req) /\ ~ IsHeartbeat(req)
           /\ req.prevIndex + 1 <= Len(log[j])
           /\ log[j][req.prevIndex + 1].term = req.entries[1].term
  <2>1. LogAfter(j, req) = log[j]
    BY <1>5 DEF LogAfter
  <2> QED
    BY <2>1, <1>1, <1>2, <1>3, <1>5
<1>6. CASE /\ Accepts(j, req) /\ ~ IsHeartbeat(req)
           /\ ~ (/\ req.prevIndex + 1 <= Len(log[j])
                 /\ log[j][req.prevIndex + 1].term = req.entries[1].term)
  <2>1. LogAfter(j, req) = Append(SubSeq(log[j], 1, req.prevIndex), req.entries[1])
    BY <1>2, <1>6 DEF LogAfter
  <2>2. req.prevIndex \in 0..Len(log[j]) /\ req.entries[1] \in Entry
    BY <1>2, <1>3, <1>6
  <2>3. /\ LogAfter(j, req) \in Seq(Entry)
        /\ Len(LogAfter(j, req)) = req.prevIndex + 1
        /\ \A n \in 1..req.prevIndex : LogAfter(j, req)[n] = log[j][n]
        /\ LogAfter(j, req)[req.prevIndex + 1] = req.entries[1]
    BY <2>1, <2>2, CutAndAppend
  <2>4. LogAfter(j, req) # <<>>
    BY <2>3, <1>2, LogFacts
  <2> QED
    BY <2>1, <2>2, <2>3, <2>4, <1>2, <1>6
<1> QED
  BY <1>4, <1>5, <1>6
-----------------------------------------------------------------------------
(* Type correctness.                                                          *)

\* A goroutine's record, before, during and after its call.
LEMMA CallFacts ==
    /\ IdleCall \in Call /\ IdleCall.phase = "idle" /\ IdleCall.req = NoRequest
    /\ Spawned \in Call /\ Spawned.phase = "spawned" /\ Spawned.req = NoRequest
    /\ \A ok \in BOOLEAN :
          Done(ok) \in Call /\ Done(ok).phase = "done" /\ Done(ok).req = NoRequest
    /\ IsHeartbeat(NoRequest)
<1>1. NoRequest \in Request
  BY EmptySeq DEF NoRequest, Request
<1> QED
  BY <1>1 DEF IdleCall, Spawned, Done, Call, Phase, NoRequest, IsHeartbeat

LEMMA InitTypeInv == Init => TypeInv
<1> SUFFICES ASSUME Init PROVE TypeInv
  OBVIOUS
<1>1. log \in [Server -> Seq(Entry)]
  BY InitAssumption DEF Init, ForEachServer
<1>2. sent \subseteq Command
  BY <1>1, LogFacts DEF Init, ForEachServer, Commands
<1>3. /\ call \in [Server -> [Kind -> [Server -> Call]]]
      /\ \A i, j \in Server : \A k \in Kind : call[i][k][j] = IdleCall
  BY CallFacts DEF Init, ForEachServer
<1>4. db \in [Server -> Seq(Command)]
  BY EmptySeq DEF Init, ForEachServer
<1>5. loop \in [Server -> LoopState] /\ \A i \in Server : loop[i] \in {"free", "down"}
  BY DEF Init, ForEachServer, LoopState
<1>6. poll \in [Server -> Poll]
  BY DEF Init, ForEachServer, Poll, NoPoll
<1>7. TypeOK
  BY <1>1, <1>2, <1>3, <1>4, <1>5, <1>6, InitAssumption, CommandAssumption DEF Init, ForEachServer, TypeOK
<1>8. ServingWasSent /\ CallsOnlyWhileMutating /\ MutatingHasEntry
  BY <1>3, <1>5, CallFacts
  DEF Init, ForEachServer, ServingWasSent, CallsOnlyWhileMutating, MutatingHasEntry, Kind
<1>9. RoomToRetreat
  BY <1>3, CallFacts DEF RoomToRetreat, RejectedForPrevious, Kind
<1> QED
  BY <1>7, <1>8, <1>9 DEF TypeInv

(* A newer term is a term, and never goes down.                               *)
LEMMA StepDownFacts ==
    ASSUME TypeOK, NEW i \in Server, NEW term \in Nat, StepDownIfStale(i, term)
    PROVE  /\ currentTerm' \in [Server -> Nat]
           /\ votedFor' \in [Server -> Server \cup {Nil}]
           /\ serverState' \in [Server -> {Follower, Leader}]
           /\ \A h \in Server : currentTerm[h] <= currentTerm'[h]
           /\ currentTerm'[i] >= term
           /\ currentTerm'[i] = currentTerm[i] \/ currentTerm'[i] = term
           /\ \A h \in Server : serverState'[h] = Leader => serverState[h] = Leader
<1>1. /\ currentTerm \in [Server -> Nat]
      /\ votedFor \in [Server -> Server \cup {Nil}]
      /\ serverState \in [Server -> {Follower, Leader}]
      /\ Follower # Leader
  BY DEF TypeOK, Follower, Leader
<1>2. CASE term > currentTerm[i]
  BY <1>1, <1>2 DEF StepDownIfStale
<1>3. CASE ~ term > currentTerm[i]
  BY <1>1, <1>3 DEF StepDownIfStale
<1> QED
  BY <1>2, <1>3

(* What a handler runs on the database is what the log has between the commit *)
(* index and the new one.                                                     *)
LEMMA ToApplyType ==
    ASSUME NEW j \in Server, NEW target \in Nat,
           commitIndex[j] \in Nat, lastApplied[j] \in Nat, commitIndex[j] <= target,
           log'[j] \in Seq(Entry), target <= Len(log'[j])
    PROVE  ToApply(j, target) \in Seq(Command)
<1>1. CASE target > lastApplied[j]
  <2> DEFINE size == target - commitIndex[j]
             run == [n \in 1..size |-> log'[j][commitIndex[j] + n].data]
  <2>1. size \in Nat
    OBVIOUS
  <2>2. \A n \in 1..size : commitIndex[j] + n \in 1..Len(log'[j])
    BY LogFacts
  <2>3. \A n \in 1..Len(log'[j]) : log'[j][n].data \in Command
    BY LogFacts
  <2>4. \A n \in 1..size : log'[j][commitIndex[j] + n].data \in Command
    BY <2>2, <2>3
  <2>5. run \in [1..size -> Command]
    BY <2>4
  <2>6. ToApply(j, target) = run
    BY <1>1 DEF ToApply
  <2> HIDE DEF size, run
  <2>7. run \in Seq(Command)
    BY <2>1, <2>5, SeqDef
  <2> QED
    BY <2>6, <2>7
<1>2. CASE ~ target > lastApplied[j]
  BY <1>2, EmptySeq DEF ToApply
<1> QED
  BY <1>1, <1>2

\* The commit index moves onto an entry that is there, and not back.
LEMMA CommitTargetFacts ==
    ASSUME NEW j \in Server, NEW req \in Request, log[j] \in Seq(Entry),
           commitIndex[j] \in Nat, CommitsUpTo(j, req), ~ Panics(j, req)
    PROVE  /\ CommitTarget(j, req) \in Nat
           /\ commitIndex[j] <= CommitTarget(j, req)
           /\ CommitTarget(j, req) <= Len(LogAfter(j, req))
           /\ CommitTarget(j, req) <= req.commit
<1>1. /\ req.commit \in Nat /\ req.prevIndex \in Nat /\ Len(log[j]) \in Nat
      /\ LogAfter(j, req) \in Seq(Entry)
      /\ Len(LogAfter(j, req)) \in Nat
  BY RequestFacts, LogFacts, LogAfterCases
<1>2. Accepts(j, req)
  BY DEF CommitsUpTo
<1>3. CASE IsHeartbeat(req)
  <2>1. LogAfter(j, req) = log[j]
    BY <1>3 DEF LogAfter
  <2> QED
    BY <1>1, <1>3, <2>1 DEF CommitTarget, Panics, Lesser
<1>4. CASE ~ IsHeartbeat(req)
  <2>1. req.prevIndex + 1 \in 1..Len(LogAfter(j, req))
    BY <1>2, <1>4, LogAfterCases
  <2> QED
    BY <1>1, <1>4, <2>1 DEF CommitTarget, Panics, Lesser
<1> QED
  BY <1>3, <1>4

\* What the handler changes, and the answer it gives.
LEMMA ReceiveTypes ==
    ASSUME TypeOK, NEW j \in Server, NEW req \in Request, Receive(j, req)
    PROVE  /\ currentTerm' \in [Server -> Nat]
           /\ votedFor' \in [Server -> Server \cup {Nil}]
           /\ serverState' \in [Server -> {Follower, Leader}]
           /\ log' \in [Server -> Seq(Entry)]
           /\ log' = [log EXCEPT ![j] = LogAfter(j, req)]
           /\ db' \in [Server -> Seq(Command)]
           /\ commitIndex' \in [Server -> Nat]
           /\ lastApplied' \in [Server -> Nat]
           /\ \A h \in Server : log[h] # <<>> => log'[h] # <<>>
           /\ UNCHANGED <<nextIndex, matchIndex, loop, serving, poll, sent, acked>>
           /\ ~ Accepts(j, req) /\ currentTerm'[j] <= req.term => req.prevIndex > 0
<1> USE DEF leaderVars, clientVars, commitVars
<1>1. /\ log[j] \in Seq(Entry) /\ commitIndex[j] \in Nat /\ lastApplied[j] \in Nat
      /\ req.term \in Nat /\ req.prevIndex \in Nat
  BY RequestFacts DEF TypeOK
<1>2. /\ StepDownIfStale(j, req.term)
      /\ log' = [log EXCEPT ![j] = LogAfter(j, req)]
      /\ UNCHANGED <<nextIndex, matchIndex, loop, serving, poll, sent, acked>>
  BY DEF Receive
<1>3. /\ currentTerm' \in [Server -> Nat]
      /\ votedFor' \in [Server -> Server \cup {Nil}]
      /\ serverState' \in [Server -> {Follower, Leader}]
      /\ currentTerm[j] \in Nat /\ currentTerm'[j] \in Nat
      /\ currentTerm'[j] >= currentTerm[j]
  BY <1>1, <1>2, StepDownFacts DEF TypeOK
<1>4. /\ log' \in [Server -> Seq(Entry)]
      /\ \A h \in Server : log[h] # <<>> => log'[h] # <<>>
      /\ log'[j] = LogAfter(j, req)
  BY <1>1, <1>2, LogAfterCases DEF TypeOK
<1>5. /\ db' \in [Server -> Seq(Command)]
      /\ commitIndex' \in [Server -> Nat]
      /\ lastApplied' \in [Server -> Nat]
  <2>1. CASE CommitsUpTo(j, req)
    <3> DEFINE target == CommitTarget(j, req)
    <3>1. /\ target \in Nat /\ commitIndex[j] <= target /\ target <= Len(log'[j])
          /\ log'[j] \in Seq(Entry)
      BY <1>1, <1>4, <2>1, CommitTargetFacts, LogAfterCases DEF Receive
    <3>2. ToApply(j, target) \in Seq(Command)
      BY <1>1, <3>1, ToApplyType
    <3>3. MoveCommitIndexTo(j, target)
      BY <2>1 DEF Receive
    <3> HIDE DEF target
    <3>4. db[j] \o ToApply(j, target) \in Seq(Command)
      BY <3>2, ConcatProperties DEF TypeOK
    <3> QED
      BY <3>1, <3>3, <3>4 DEF MoveCommitIndexTo, TypeOK
  <2>2. CASE ~ CommitsUpTo(j, req)
    BY <2>2 DEF Receive, TypeOK
  <2> QED
    BY <2>1, <2>2
<1>6. ~ Accepts(j, req) /\ currentTerm'[j] <= req.term => req.prevIndex > 0
  BY <1>1, <1>3 DEF Accepts, HasPrevious
<1> QED
  BY <1>2, <1>3, <1>4, <1>5, <1>6

\* What the invariant says of the variables, for steps that change a few.
LEMMA Types ==
    ASSUME TypeInv
    PROVE  /\ currentTerm \in [Server -> Nat]
           /\ log \in [Server -> Seq(Entry)]
           /\ serverState \in [Server -> {Follower, Leader}]
           /\ loop \in [Server -> LoopState]
           /\ serving \in [Server -> Command \cup {Nil}]
           /\ poll \in [Server -> Poll]
           /\ commitIndex \in [Server -> Nat]
           /\ nextIndex \in [Server -> [Server -> Nat \ {0}]]
           /\ matchIndex \in [Server -> [Server -> Nat]]
           /\ call \in [Server -> [Kind -> [Server -> Call]]]
           /\ late \subseteq [to : Server, req : Request]
           /\ faults \in Nat
BY DEF TypeInv, TypeOK

\* One goroutine's record changes.
LEMMA CallUpdated ==
    ASSUME call \in [Server -> [Kind -> [Server -> Call]]],
           NEW i \in Server, NEW k \in Kind, NEW j \in Server, NEW c \in Call,
           call' = [call EXCEPT ![i][k][j] = c]
    PROVE  /\ call' \in [Server -> [Kind -> [Server -> Call]]]
           /\ call'[i][k][j] = c
           /\ \A h, l \in Server : \A m \in Kind :
                 call'[h][m][l] = IF h = i /\ m = k /\ l = j THEN c ELSE call[h][m][l]
OBVIOUS

\* All goroutines of one kind of a server change.
LEMMA CallsUpdated ==
    ASSUME call \in [Server -> [Kind -> [Server -> Call]]],
           NEW i \in Server, NEW k \in Kind, NEW f \in [Server -> Call],
           call' = [call EXCEPT ![i][k] = f]
    PROVE  /\ call' \in [Server -> [Kind -> [Server -> Call]]]
           /\ \A h, l \in Server : \A m \in Kind :
                 call'[h][m][l] = IF h = i /\ m = k THEN f[l] ELSE call[h][m][l]
OBVIOUS

(* Steps that change neither calls nor logs: a server that replicates goes on,*)
(* and nextIndex does not come down from above 1.                             *)
LEMMA CallsUntouched ==
    ASSUME TypeInv, TypeOK', UNCHANGED call, sent \subseteq sent',
           \A h \in Server :
              /\ serving'[h] \in {serving[h], Nil} \cup sent'
              /\ loop'[h] = "mutating" <=> loop[h] = "mutating"
              /\ log[h] # <<>> => log'[h] # <<>>
              /\ \A l \in Server :
                    nextIndex[h][l] > 1 /\ log[h] # <<>> => nextIndex'[h][l] > 1
    PROVE  TypeInv'
<1>1. ServingWasSent'
  BY DEF TypeInv, ServingWasSent
<1>2. CallsOnlyWhileMutating' /\ MutatingHasEntry'
  BY DEF TypeInv, CallsOnlyWhileMutating, MutatingHasEntry
<1>3. RoomToRetreat'
  BY DEF TypeInv, RoomToRetreat, RejectedForPrevious
<1> QED
  BY <1>1, <1>2, <1>3 DEF TypeInv

LEMMA CampaignTypes ==
    ASSUME TypeInv, NEW i \in Server, Campaign(i)
    PROVE  TypeInv'
<1> USE DEF commitVars, leaderVars, clientVars, Campaign
<1>1. currentTerm' \in [Server -> Nat] /\ poll' \in [Server -> Poll]
  BY Types DEF Poll, Others
<1>2. TypeOK'
  BY <1>1 DEF TypeInv, TypeOK, LoopState
<1> QED
  BY <1>2, CallsUntouched DEF TypeInv

LEMMA HandleVoteTypes ==
    ASSUME TypeInv, NEW i \in Server, NEW j \in Server, HandleVote(i, j)
    PROVE  TypeInv'
<1> USE DEF commitVars, leaderVars, clientVars
<1> DEFINE answer == Larger(currentTerm[j], poll[i].term)
           stale  == IF answer > currentTerm[i] THEN i ELSE j
           count  == CountAfter(i, answer) + (IF Grants(i, j) THEN 1 ELSE 0)
<1>1. /\ StepDownIfStale(stale, answer)
      /\ poll' = [poll EXCEPT ![i].pending = @ \ {j}, ![i].count = count]
      /\ answer \in Nat /\ count \in Nat /\ stale \in Server
  <2>1. answer \in Nat
    BY Types DEF Larger, Poll
  <2>2. CountAfter(i, answer) \in Nat
    BY Types DEF CountAfter, Poll
  <2> QED
    BY <2>1, <2>2 DEF HandleVote
<1> HIDE DEF answer, stale, count
<1>2. UNCHANGED <<log, db, commitVars, leaderVars, loop, serving, call, late, clientVars, faults>>
  BY DEF HandleVote
<1>3. poll' \in [Server -> Poll] /\ \A h \in Server : h # i => poll'[h] = poll[h]
  <2> DEFINE asked == [poll EXCEPT ![i].pending = @ \ {j}]
  <2>1. asked \in [Server -> Poll] /\ \A h \in Server : h # i => asked[h] = poll[h]
    <3>1. poll \in [Server -> Poll]
      BY Types
    <3> QED
      BY <3>1 DEF Poll
  <2>2. poll' = [asked EXCEPT ![i].count = count]
    BY <1>1
  <2> HIDE DEF asked
  <2>3. count \in Nat
    BY <1>1
  <2> QED
    BY <2>1, <2>2, <2>3 DEF Poll
<1>4. loop[i] = "polling"
  BY DEF HandleVote, Asks
<1>5. /\ currentTerm' \in [Server -> Nat]
      /\ votedFor' \in [Server -> Server \cup {Nil}]
      /\ serverState' \in [Server -> {Follower, Leader}]
  BY <1>1, StepDownFacts DEF TypeInv
<1>6. TypeOK'
  BY <1>2, <1>3, <1>4, <1>5 DEF TypeInv, TypeOK
<1> QED
  BY <1>2, <1>6, CallsUntouched

LEMMA LoseVoteTypes ==
    ASSUME TypeInv, NEW i \in Server, NEW j \in Server, LoseVote(i, j)
    PROVE  TypeInv'
<1> USE DEF commitVars, leaderVars, clientVars
<1>1. UNCHANGED <<log, db, commitVars, leaderVars, loop, serving, call, late, clientVars>>
  BY DEF LoseVote
<1>2. /\ poll' = [poll EXCEPT ![i].pending = @ \ {j}]
      /\ loop[i] = "polling"
      /\ faults' \in Nat
      /\ UNCHANGED <<currentTerm, votedFor, serverState>> \/ StepDownIfStale(j, poll[i].term)
  BY Types DEF LoseVote, Asks, Fault
<1>3. poll' \in [Server -> Poll] /\ \A h \in Server : h # i => poll'[h] = poll[h]
  <2> DEFINE p == [poll[i] EXCEPT !.pending = @ \ {j}]
  <2>1. poll \in [Server -> Poll] /\ poll' = [poll EXCEPT ![i] = p]
    BY <1>2, Types
  <2>2. p \in Poll
    <3>1. poll[i] \in Poll
      BY Types
    <3> QED
      BY <3>1 DEF Poll
  <2> HIDE DEF p
  <2> QED
    BY <2>1, <2>2
<1>4. /\ currentTerm' \in [Server -> Nat]
      /\ votedFor' \in [Server -> Server \cup {Nil}]
      /\ serverState' \in [Server -> {Follower, Leader}]
  <2>1. poll[i].term \in Nat
    BY Types DEF Poll
  <2>2. CASE StepDownIfStale(j, poll[i].term)
    BY <2>1, <2>2, StepDownFacts DEF TypeInv
  <2>3. CASE UNCHANGED <<currentTerm, votedFor, serverState>>
    BY <2>3 DEF TypeInv, TypeOK
  <2> QED
    BY <1>2, <2>2, <2>3
<1>5. TypeOK'
  BY <1>1, <1>2, <1>3, <1>4 DEF TypeInv, TypeOK
<1> QED
  BY <1>1, <1>5, CallsUntouched

LEMMA FinishCampaignTypes ==
    ASSUME TypeInv, NEW i \in Server, FinishCampaign(i)
    PROVE  TypeInv'
<1> USE DEF diskVars, commitVars, leaderVars, clientVars
<1>1. Len(log[i]) \in Nat /\ (log[i] # <<>> => Len(log[i]) > 0)
  BY Types, LogFacts
<1>2. /\ nextIndex' \in [Server -> [Server -> Nat \ {0}]]
      /\ matchIndex' \in [Server -> [Server -> Nat]]
      /\ serverState' \in [Server -> {Follower, Leader}]
      /\ \A h, l \in Server :
            nextIndex[h][l] > 1 /\ log[h] # <<>> => nextIndex'[h][l] > 1
  <2>1. CASE poll[i].count >= QuorumSize
    <3>1. /\ ForEachServer(Len(log[i]) + 1) \in [Server -> Nat \ {0}]
          /\ \A l \in Server : ForEachServer(Len(log[i]) + 1)[l] = Len(log[i]) + 1
      BY <1>1 DEF ForEachServer
    <3>2. ForEachServer(0) \in [Server -> Nat]
      BY DEF ForEachServer
    <3>3. /\ serverState' = [serverState EXCEPT ![i] = Leader]
          /\ matchIndex' = [matchIndex EXCEPT ![i] = ForEachServer(0)]
          /\ nextIndex' = [nextIndex EXCEPT ![i] = ForEachServer(Len(log[i]) + 1)]
      BY <2>1 DEF FinishCampaign, ReinitVolatileLeaderState
    <3> QED
      BY <1>1, <3>1, <3>2, <3>3, Types
  <2>2. CASE ~ poll[i].count >= QuorumSize
    BY <2>2, Types DEF FinishCampaign
  <2> QED
    BY <2>1, <2>2
<1>3. /\ poll' = [poll EXCEPT ![i] = NoPoll]
      /\ loop' = [loop EXCEPT ![i] = "free"]
      /\ loop[i] = "polling"
      /\ UNCHANGED <<diskVars, commitVars, serving, call, late, clientVars, faults>>
  BY DEF FinishCampaign
<1>4. poll' \in [Server -> Poll]
  BY <1>3, Types DEF NoPoll, Poll
<1>5. TypeOK'
  BY <1>2, <1>3, <1>4 DEF TypeInv, TypeOK, LoopState
<1> QED
  BY <1>2, <1>3, <1>5, CallsUntouched, Types

\* Steps that change the record of one goroutine.
LEMMA OneCallUpdated ==
    ASSUME TypeInv, TypeOK', UNCHANGED <<serving, sent, loop>>,
           NEW i \in Server, NEW k \in Kind, NEW j \in Server, NEW c \in Call,
           call' = [call EXCEPT ![i][k][j] = c],
           k = "client" /\ c.phase # "idle" => loop[i] = "mutating",
           k = "sync" =>
              /\ RejectedForPrevious(c)
              /\ c.phase \in {"sent", "answered"} /\ c.req.prevIndex > 0 =>
                    nextIndex'[i][j] > 1 /\ log'[i] # <<>>,
           \A h \in Server :
              /\ log[h] # <<>> => log'[h] # <<>>
              /\ \A l \in Server :
                    (k = "sync" /\ h = i /\ l = j)
                    \/ (nextIndex[h][l] > 1 /\ log[h] # <<>> => nextIndex'[h][l] > 1)
    PROVE  TypeInv'
<1> call \in [Server -> [Kind -> [Server -> Call]]]
  BY Types
<1>1. \A h, l \in Server : \A m \in Kind :
         call'[h][m][l] = IF h = i /\ m = k /\ l = j THEN c ELSE call[h][m][l]
  BY CallUpdated
<1>2. ServingWasSent' /\ MutatingHasEntry'
  BY DEF TypeInv, ServingWasSent, MutatingHasEntry
<1>3. CallsOnlyWhileMutating'
  BY <1>1 DEF TypeInv, CallsOnlyWhileMutating, Kind
<1>4. RoomToRetreat'
  <2> SUFFICES ASSUME NEW h \in Server, NEW l \in Server
               PROVE  LET d == call'[h]["sync"][l] IN
                      /\ RejectedForPrevious(d)
                      /\ d.phase \in {"sent", "answered"} /\ d.req.prevIndex > 0 =>
                            nextIndex'[h][l] > 1 /\ log'[h] # <<>>
    BY DEF RoomToRetreat, RejectedForPrevious
  <2>1. CASE k = "sync" /\ h = i /\ l = j
    BY <1>1, <2>1 DEF Kind
  <2>2. CASE ~ (k = "sync" /\ h = i /\ l = j)
    <3>1. call'[h]["sync"][l] = call[h]["sync"][l]
      BY <1>1, <2>2 DEF Kind
    <3> QED
      BY <2>2, <3>1 DEF TypeInv, RoomToRetreat
  <2> QED
    BY <2>1, <2>2
<1> QED
  BY <1>2, <1>3, <1>4 DEF TypeInv

LEMMA AcceptCommandTypes ==
    ASSUME TypeInv, NEW i \in Server, NEW c \in Command, AcceptCommand(i, c)
    PROVE  TypeInv'
<1> USE DEF diskVars, commitVars, leaderVars
<1>1. /\ sent' = sent \cup {c} /\ loop[i] = "free"
      /\ serving' = [serving EXCEPT ![i] = c]
      /\ loop' = [loop EXCEPT ![i] = "accepted"]
      /\ UNCHANGED <<diskVars, commitVars, leaderVars, serverState, poll, call, late, acked, faults>>
  BY DEF AcceptCommand
<1>2. TypeOK'
  BY <1>1, CommandAssumption DEF TypeInv, TypeOK, LoopState
<1> QED
  BY <1>1, <1>2, CallsUntouched, Types

LEMMA AppendCommandTypes ==
    ASSUME TypeInv, NEW i \in Server, AppendCommand(i)
    PROVE  TypeInv'
<1> USE DEF commitVars, leaderVars, clientVars
<1> DEFINE e == [term |-> currentTerm[i], data |-> serving[i]]
           f == [j \in Server |-> IF j = i THEN IdleCall
                                  ELSE IF serverState[i] = Leader THEN Spawned
                                  ELSE Done(FALSE)]
<1>1. /\ loop[i] = "accepted"
      /\ log' = [log EXCEPT ![i] = Append(@, e)]
      /\ loop' = [loop EXCEPT ![i] = "mutating"]
      /\ call' = [call EXCEPT ![i]["client"] = f]
      /\ UNCHANGED <<currentTerm, votedFor, db, commitVars, leaderVars, serverState,
                     serving, poll, late, clientVars, faults>>
  BY DEF AppendCommand
<1>2. e \in Entry
  BY <1>1 DEF TypeInv, TypeOK, Entry
<1>3. f \in [Server -> Call]
  BY CallFacts
<1> HIDE DEF e, f
<1> /\ log[i] \in Seq(Entry)
    /\ call \in [Server -> [Kind -> [Server -> Call]]]
  BY Types
<1>4. /\ Append(log[i], e) \in Seq(Entry)
      /\ Append(log[i], e) # <<>>
  BY <1>2, AppendProperties
<1>5. "client" \in Kind /\ "sync" \in Kind
  BY DEF Kind
<1>6. /\ call' \in [Server -> [Kind -> [Server -> Call]]]
      /\ \A h, l \in Server : \A m \in Kind :
            call'[h][m][l] = IF h = i /\ m = "client" THEN f[l] ELSE call[h][m][l]
  BY <1>1, <1>3, <1>5, CallsUpdated
<1>7. TypeOK'
  BY <1>1, <1>4, <1>6 DEF TypeInv, TypeOK, LoopState
<1>8. ServingWasSent' /\ MutatingHasEntry'
  BY <1>1, <1>4, Types DEF TypeInv, ServingWasSent, MutatingHasEntry
<1>9. CallsOnlyWhileMutating'
  BY <1>1, <1>5, <1>6, Types DEF TypeInv, CallsOnlyWhileMutating
<1>10. RoomToRetreat'
  BY ZenonT(40), <1>1, <1>4, <1>5, <1>6, Types DEF TypeInv, RoomToRetreat, RejectedForPrevious
<1> QED
  BY <1>7, <1>8, <1>9, <1>10 DEF TypeInv

\* Steps that change nothing but the record of one goroutine, and maybe what
\* has been left behind and the number of faults.
LEMMA OnlyCallUpdated ==
    ASSUME TypeInv,
           UNCHANGED <<diskVars, commitVars, leaderVars, nodeVars, clientVars>>,
           NEW i \in Server, NEW k \in Kind, NEW j \in Server, NEW c \in Call,
           call' = [call EXCEPT ![i][k][j] = c],
           late' \subseteq [to : Server, req : Request], faults' \in Nat,
           k = "client" /\ c.phase # "idle" => loop[i] = "mutating",
           k = "sync" =>
              /\ RejectedForPrevious(c)
              /\ c.phase \in {"sent", "answered"} /\ c.req.prevIndex > 0 =>
                    nextIndex[i][j] > 1 /\ log[i] # <<>>
    PROVE  TypeInv'
<1> USE DEF diskVars, commitVars, leaderVars, nodeVars, clientVars
<1>1. call' \in [Server -> [Kind -> [Server -> Call]]]
  BY CallUpdated, Types
<1>2. TypeOK'
  BY <1>1 DEF TypeInv, TypeOK
<1>3. /\ UNCHANGED <<serving, sent, loop>>
      /\ \A h \in Server :
              /\ log[h] # <<>> => log'[h] # <<>>
              /\ \A l \in Server :
                    (k = "sync" /\ h = i /\ l = j)
                    \/ (nextIndex[h][l] > 1 /\ log[h] # <<>> => nextIndex'[h][l] > 1)
      /\ k = "sync" =>
              /\ RejectedForPrevious(c)
              /\ c.phase \in {"sent", "answered"} /\ c.req.prevIndex > 0 =>
                    nextIndex'[i][j] > 1 /\ log'[i] # <<>>
  OBVIOUS
<1> QED
  BY <1>2, <1>3, OneCallUpdated

\* A goroutine that ends, whatever it reports.
LEMMA CallEnds ==
    ASSUME TypeInv,
           UNCHANGED <<diskVars, commitVars, leaderVars, nodeVars, clientVars>>,
           NEW i \in Server, NEW k \in Kind, NEW j \in Server, NEW ok \in BOOLEAN,
           call[i][k][j].phase # "idle",
           call' = [call EXCEPT ![i][k][j] = Done(ok)],
           late' \subseteq [to : Server, req : Request], faults' \in Nat
    PROVE  TypeInv'
<1>1. Done(ok) \in Call /\ Done(ok).phase = "done"
  BY CallFacts
<1>2. RejectedForPrevious(Done(ok))
  BY <1>1 DEF RejectedForPrevious
<1>3. k = "client" => loop[i] = "mutating"
  BY DEF TypeInv, CallsOnlyWhileMutating
<1> QED
  BY <1>1, <1>2, <1>3, OnlyCallUpdated

LEMMA SkipTypes ==
    ASSUME TypeInv, NEW i \in Server, NEW j \in Server,
           SkipEntry(i, j) \/ SkipSync(i, j) \/ \E k \in Kind : Refused(i, k, j)
    PROVE  TypeInv'
<1>1. PICK k \in Kind :
         /\ call[i][k][j].phase # "idle"
         /\ call' = [call EXCEPT ![i][k][j] = Done(FALSE)]
         /\ UNCHANGED <<diskVars, commitVars, leaderVars, nodeVars, late, clientVars, faults>>
  BY DEF SkipEntry, SkipSync, Refused, Kind
<1> QED
  BY <1>1, CallEnds, Types

LEMMA BreakTypes ==
    ASSUME TypeInv, NEW i \in Server, NEW j \in Server, NEW k \in Kind, Break(i, k, j)
    PROVE  TypeInv'
<1>1. /\ call[i][k][j].phase # "idle"
      /\ call' = [call EXCEPT ![i][k][j] = Done(FALSE)]
      /\ UNCHANGED <<diskVars, commitVars, leaderVars, nodeVars, clientVars>>
      /\ late' = late \cup {[to |-> j, req |-> call[i][k][j].req]}
      /\ faults' \in Nat
  BY Types DEF Break, Fault
<1>2. call[i][k][j].req \in Request
  BY Types DEF Call
<1>3. late' \subseteq [to : Server, req : Request]
  BY <1>1, <1>2, Types
<1> QED
  BY <1>1, <1>3, CallEnds

LEMMA SendEntryTypes ==
    ASSUME TypeInv, NEW i \in Server, NEW j \in Server, SendEntry(i, j)
    PROVE  TypeInv'
<1> DEFINE n == Len(log[i])
           req == [term |-> currentTerm[i], prevIndex |-> n - 1,
                   prevTerm |-> TermAt(log[i], n - 1),
                   entries |-> <<[term |-> currentTerm[i], data |-> serving[i]]>>,
                   commit |-> commitIndex[i]]
           c == [IdleCall EXCEPT !.phase = "sent", !.req = req]
<1>1. /\ "client" \in Kind
      /\ call' = [call EXCEPT ![i]["client"][j] = c]
      /\ UNCHANGED <<diskVars, commitVars, leaderVars, nodeVars, late, clientVars, faults>>
      /\ call[i]["client"][j].phase = "spawned"
  BY DEF SendEntry, Kind
<1>2. loop[i] = "mutating"
  BY <1>1 DEF TypeInv, CallsOnlyWhileMutating
<1>3. log[i] # <<>> /\ serving[i] \in Command
  BY <1>2 DEF TypeInv, MutatingHasEntry, TypeOK
<1>4. n \in Nat \ {0} /\ TermAt(log[i], n - 1) \in Nat
  BY SMTT(30), <1>3, Types, LogFacts
<1>5. [term |-> currentTerm[i], data |-> serving[i]] \in Entry
  BY <1>3, Types DEF Entry
<1>6. <<[term |-> currentTerm[i], data |-> serving[i]]>> \in Seq(Entry)
  BY <1>5
<1>7. req \in Request
  BY <1>4, <1>6, Types DEF Request
<1> HIDE DEF req
<1>8. c \in Call
  BY <1>7, CallFacts DEF IdleCall, Call, Phase
<1> QED
  BY <1>1, <1>2, <1>8, OnlyCallUpdated, Types

LEMMA SendSyncTypes ==
    ASSUME TypeInv, NEW i \in Server, NEW j \in Server, SendSync(i, j)
    PROVE  TypeInv'
<1> DEFINE n == nextIndex[i][j]
           req == [term |-> currentTerm[i], prevIndex |-> n - 1,
                   prevTerm |-> TermAt(log[i], n - 1),
                   entries |-> <<log[i][n]>>, commit |-> commitIndex[i]]
           c == [IdleCall EXCEPT !.phase = "sent", !.req = req]
<1>1. /\ "sync" \in Kind
      /\ UNCHANGED <<diskVars, commitVars, leaderVars, nodeVars, late, clientVars, faults>>
      /\ call[i]["sync"][j].phase = "spawned"
  BY DEF SendSync, Kind
<1>2. CASE n \in 1..Len(log[i])
  <2>1. call' = [call EXCEPT ![i]["sync"][j] = c]
    BY <1>2 DEF SendSync, Lacks
  <2>2. /\ n \in Nat \ {0} /\ TermAt(log[i], n - 1) \in Nat
        /\ log[i][n] \in Entry /\ log[i] # <<>>
    <3>1. log[i] \in Seq(Entry)
      BY Types
    <3> HIDE DEF n
    <3>2. n \in Nat \ {0} /\ n <= Len(log[i]) /\ Len(log[i]) \in Nat
      BY <1>2, <3>1
    <3>3. log[i][n] \in Entry /\ log[i] # <<>>
      BY <3>1, <3>2, LogFacts
    <3>4. n - 1 \in Nat /\ TermAt(log[i], n - 1) \in Nat
      BY <3>1, <3>2, LogFacts
    <3> QED
      BY <3>2, <3>3, <3>4
  <2>3. <<log[i][n]>> \in Seq(Entry)
    BY <2>2
  <2>4. req \in Request /\ req.prevIndex = n - 1
    BY SMTT(30), <2>2, <2>3, Types DEF Request
  <2> HIDE DEF req
  <2>5. c \in Call /\ c.phase = "sent" /\ c.req = req
    BY <2>4, CallFacts DEF IdleCall, Call, Phase
  <2>6. RejectedForPrevious(c)
    BY <2>5 DEF RejectedForPrevious
  <2>7. c.req.prevIndex > 0 => nextIndex[i][j] > 1
    BY <2>2, <2>4, <2>5
  <2> QED
    BY <1>1, <2>1, <2>2, <2>5, <2>6, <2>7, OnlyCallUpdated, Types
<1>3. CASE n \notin 1..Len(log[i])
  <2>1. call' = [call EXCEPT ![i]["sync"][j] = Done(FALSE)]
    BY <1>3 DEF SendSync, Lacks
  <2> QED
    BY <1>1, <2>1, CallEnds, Types
<1> QED
  BY <1>2, <1>3

LEMMA ReceiveEntryReplyTypes ==
    ASSUME TypeInv, NEW i \in Server, NEW j \in Server, ReceiveEntryReply(i, j)
    PROVE  TypeInv'
<1> USE DEF commitVars, leaderVars, clientVars
<1> DEFINE reply == call[i]["client"][j]
           ok == reply.ok /\ reply.term <= currentTerm[i]
<1>1. /\ "client" \in Kind
      /\ reply.phase = "answered"
      /\ StepDownIfStale(i, reply.term)
      /\ call' = [call EXCEPT ![i]["client"][j] = Done(ok)]
      /\ UNCHANGED <<log, db, commitVars, loop, serving, poll, late, clientVars, faults>>
  BY DEF ReceiveEntryReply, Kind
<1>2. reply \in Call /\ reply.term \in Nat
  BY <1>1, Types DEF Call
<1>3. loop[i] = "mutating"
  BY <1>1 DEF TypeInv, CallsOnlyWhileMutating
<1>4. Len(log[i]) \in Nat /\ Len(log[i]) > 0
  BY <1>3, Types, LogFacts DEF TypeInv, MutatingHasEntry
<1>5. /\ nextIndex' \in [Server -> [Server -> Nat \ {0}]]
      /\ matchIndex' \in [Server -> [Server -> Nat]]
      /\ \A h, l \in Server : nextIndex[h][l] > 1 => nextIndex'[h][l] > 1
  <2>1. CASE ok
    <3>1. /\ matchIndex' = [matchIndex EXCEPT ![i][j] = Len(log[i])]
          /\ nextIndex' = [nextIndex EXCEPT ![i][j] = Len(log[i]) + 1]
      BY <2>1 DEF ReceiveEntryReply
    <3> QED
      BY SMTT(30), <1>4, <3>1, Types
  <2>2. CASE ~ ok
    BY <2>2, Types DEF ReceiveEntryReply
  <2> QED
    BY <2>1, <2>2
<1>6. Done(ok) \in Call /\ Done(ok).phase = "done"
  BY CallFacts
<1> HIDE DEF ok
<1>7. call' \in [Server -> [Kind -> [Server -> Call]]]
  BY <1>1, <1>6, CallUpdated, Types
<1>8. /\ currentTerm' \in [Server -> Nat]
      /\ votedFor' \in [Server -> Server \cup {Nil}]
      /\ serverState' \in [Server -> {Follower, Leader}]
  BY <1>1, <1>2, StepDownFacts DEF TypeInv
<1>9. TypeOK'
  BY <1>1, <1>5, <1>7, <1>8 DEF TypeInv, TypeOK
<1> QED
  BY <1>1, <1>3, <1>5, <1>6, <1>9, OneCallUpdated

LEMMA FinishCommandTypes ==
    ASSUME TypeInv, NEW i \in Server, FinishCommand(i)
    PROVE  TypeInv'
<1> USE DEF commitVars, leaderVars, clientVars
<1> DEFINE f == [j \in Server |-> IdleCall]
<1>1. /\ loop[i] = "mutating"
      /\ serving' = [serving EXCEPT ![i] = Nil]
      /\ loop' = [loop EXCEPT ![i] = "free"]
      /\ call' = [call EXCEPT ![i]["client"] = f]
      /\ UNCHANGED <<currentTerm, votedFor, log, commitVars, leaderVars, serverState,
                     poll, late, sent, faults>>
  BY DEF FinishCommand
<1>2. f \in [Server -> Call] /\ \A j \in Server : f[j].phase = "idle"
  BY CallFacts
<1> HIDE DEF f
<1> /\ call \in [Server -> [Kind -> [Server -> Call]]]
    /\ "client" \in Kind /\ "sync" \in Kind
  BY Types DEF Kind
<1>3. /\ call' \in [Server -> [Kind -> [Server -> Call]]]
      /\ \A h, l \in Server : \A m \in Kind :
            call'[h][m][l] = IF h = i /\ m = "client" THEN f[l] ELSE call[h][m][l]
  BY ZenonT(40), <1>1, <1>2, CallsUpdated
<1>4. serving[i] \in Command /\ serving[i] \in sent
  BY <1>1, CommandAssumption DEF TypeInv, TypeOK, ServingWasSent
<1>5. db' \in [Server -> Seq(Command)] /\ acked' \subseteq sent
  <2>1. db \in [Server -> Seq(Command)] /\ acked \subseteq sent
    BY DEF TypeInv, TypeOK
  <2>2. Append(db[i], serving[i]) \in Seq(Command)
    BY <1>4, <2>1, AppendProperties
  <2>3. CASE Replicated(i)
    BY <1>4, <2>1, <2>2, <2>3 DEF FinishCommand
  <2>4. CASE ~ Replicated(i)
    BY <2>1, <2>4 DEF FinishCommand
  <2> QED
    BY <2>3, <2>4
<1>6. TypeOK'
  BY <1>1, <1>3, <1>5, CommandAssumption DEF TypeInv, TypeOK, LoopState
<1>7. ServingWasSent' /\ MutatingHasEntry'
  BY <1>1, Types DEF TypeInv, ServingWasSent, MutatingHasEntry
<1>8. CallsOnlyWhileMutating'
  BY <1>1, <1>2, <1>3, Types DEF TypeInv, CallsOnlyWhileMutating
<1>9. RoomToRetreat'
  BY <1>1, <1>3 DEF TypeInv, RoomToRetreat, RejectedForPrevious
<1> QED
  BY <1>6, <1>7, <1>8, <1>9 DEF TypeInv

\* The goroutines of a background round begin or end together.
LEMMA SyncsUpdated ==
    ASSUME TypeInv, NEW i \in Server, NEW f \in [Server -> Call],
           UNCHANGED <<diskVars, lastApplied, leaderVars, nodeVars, late, clientVars, faults>>,
           commitIndex' \in [Server -> Nat],
           call' = [call EXCEPT ![i]["sync"] = f],
           \A j \in Server : f[j].phase \notin {"sent", "answered"}
    PROVE  TypeInv'
<1> USE DEF diskVars, leaderVars, nodeVars, clientVars
<1> /\ call \in [Server -> [Kind -> [Server -> Call]]]
    /\ "client" \in Kind /\ "sync" \in Kind
  BY Types DEF Kind
<1>1. /\ call' \in [Server -> [Kind -> [Server -> Call]]]
      /\ \A h, l \in Server : \A m \in Kind :
            call'[h][m][l] = IF h = i /\ m = "sync" THEN f[l] ELSE call[h][m][l]
  BY CallsUpdated
<1>2. TypeOK'
  BY <1>1 DEF TypeInv, TypeOK
<1>3. ServingWasSent' /\ MutatingHasEntry'
  BY DEF TypeInv, ServingWasSent, MutatingHasEntry
<1>4. CallsOnlyWhileMutating'
  BY <1>1 DEF TypeInv, CallsOnlyWhileMutating
<1>5. RoomToRetreat'
  BY <1>1 DEF TypeInv, RoomToRetreat, RejectedForPrevious
<1> QED
  BY <1>2, <1>3, <1>4, <1>5 DEF TypeInv

LEMMA BeginSyncTypes ==
    ASSUME TypeInv, NEW i \in Server, BeginSync(i)
    PROVE  TypeInv'
<1> DEFINE f == [j \in Server |-> IF j = i THEN Done(FALSE) ELSE Spawned]
<1>1. f \in [Server -> Call] /\ \A j \in Server : f[j].phase \notin {"sent", "answered"}
  BY CallFacts
<1>2. /\ call' = [call EXCEPT ![i]["sync"] = f]
      /\ UNCHANGED <<diskVars, commitVars, leaderVars, nodeVars, late, clientVars, faults>>
  BY DEF BeginSync
<1> HIDE DEF f
<1>3. commitIndex' \in [Server -> Nat] /\ UNCHANGED lastApplied
  BY <1>2, Types DEF commitVars
<1> QED
  BY <1>1, <1>2, <1>3, SyncsUpdated

LEMMA EndSyncTypes ==
    ASSUME TypeInv, NEW i \in Server, EndSync(i)
    PROVE  TypeInv'
<1> DEFINE f == [j \in Server |-> IdleCall]
<1>1. f \in [Server -> Call] /\ \A j \in Server : f[j].phase \notin {"sent", "answered"}
  BY CallFacts
<1>2. /\ call' = [call EXCEPT ![i]["sync"] = f]
      /\ UNCHANGED <<diskVars, lastApplied, leaderVars, nodeVars, late, clientVars, faults>>
  BY DEF EndSync
<1> HIDE DEF f
<1>3. commitIndex' \in [Server -> Nat]
  BY Types DEF EndSync
<1> QED
  BY <1>1, <1>2, <1>3, SyncsUpdated

LEMMA ReceiveSyncReplyTypes ==
    ASSUME TypeInv, NEW i \in Server, NEW j \in Server, ReceiveSyncReply(i, j)
    PROVE  TypeInv'
<1> USE DEF commitVars, leaderVars, clientVars
<1> DEFINE reply == call[i]["sync"][j]
<1>1. /\ "sync" \in Kind
      /\ reply.phase = "answered"
      /\ call' = [call EXCEPT ![i]["sync"][j] = Done(reply.ok)]
      /\ UNCHANGED <<log, db, commitVars, loop, serving, late, clientVars, faults>>
  BY DEF ReceiveSyncReply, Kind
<1>2. reply \in Call
  BY <1>1, Types
<1>3. ~ reply.ok /\ reply.term <= reply.req.term => nextIndex[i][j] > 1
  BY <1>1 DEF TypeInv, RoomToRetreat, RejectedForPrevious
<1> HIDE DEF reply
<1> /\ reply.term \in Nat /\ reply.ok \in BOOLEAN
    /\ reply.req.term \in Nat /\ reply.req.prevIndex \in Nat
  BY <1>2 DEF Call, Request
<1> /\ nextIndex \in [Server -> [Server -> Nat \ {0}]]
    /\ matchIndex \in [Server -> [Server -> Nat]]
  BY Types
<1>4. /\ nextIndex' \in [Server -> [Server -> Nat \ {0}]]
      /\ matchIndex' \in [Server -> [Server -> Nat]]
      /\ \A h, l \in Server : (h = i /\ l = j) \/ nextIndex'[h][l] = nextIndex[h][l]
  <2>1. CASE reply.term > reply.req.term
    BY <2>1 DEF ReceiveSyncReply, reply
  <2>2. CASE ~ reply.term > reply.req.term /\ reply.ok
    <3>1. /\ nextIndex' = [nextIndex EXCEPT ![i][j] = reply.req.prevIndex + 2]
          /\ matchIndex' = [matchIndex EXCEPT ![i][j] = reply.req.prevIndex + 1]
      BY <2>2 DEF ReceiveSyncReply, reply
    <3> QED
      BY <3>1
  <2>3. CASE ~ reply.term > reply.req.term /\ ~ reply.ok
    <3>1. /\ nextIndex' = [nextIndex EXCEPT ![i][j] = @ - 1]
          /\ UNCHANGED matchIndex
      BY <2>3 DEF ReceiveSyncReply, reply
    <3>2. nextIndex[i][j] - 1 \in Nat \ {0}
      BY <1>3, <2>3
    <3> QED
      BY <3>1, <3>2
  <2> QED
    BY <2>1, <2>2, <2>3
<1>5. /\ currentTerm' \in [Server -> Nat]
      /\ votedFor' \in [Server -> Server \cup {Nil}]
      /\ serverState' \in [Server -> {Follower, Leader}]
      /\ poll' \in [Server -> Poll]
      /\ \A h \in Server : loop[h] # "polling" => poll'[h] = NoPoll
  <2>1. CASE reply.term > reply.req.term
    <3>1. /\ StepDownIfStale(i, reply.term)
          /\ poll' = [poll EXCEPT ![i].count = CountAfter(i, reply.term)]
      BY <2>1 DEF ReceiveSyncReply, reply
    <3>2. CountAfter(i, reply.term) \in Nat
      BY Types DEF CountAfter, Poll
    <3>3. poll' \in [Server -> Poll]
      BY ZenonT(40), <3>1, <3>2, Types DEF Poll
    <3>4. \A h \in Server : loop[h] # "polling" => poll[h] = NoPoll
      BY DEF TypeInv, TypeOK
    <3>5. poll[i] = NoPoll => [poll[i] EXCEPT !.count = CountAfter(i, reply.term)] = NoPoll
      BY DEF CountAfter, NoPoll
    <3>6. \A h \in Server :
             poll'[h] = IF h = i THEN [poll[i] EXCEPT !.count = CountAfter(i, reply.term)]
                        ELSE poll[h]
      BY <3>1, Types
    <3>7. \A h \in Server : loop[h] # "polling" => poll'[h] = NoPoll
      BY <3>4, <3>5, <3>6
    <3> QED
      BY <3>1, <3>3, <3>7, StepDownFacts DEF TypeInv
  <2>2. CASE ~ reply.term > reply.req.term
    <3>1. UNCHANGED <<currentTerm, votedFor, serverState, poll>>
      BY <2>2 DEF ReceiveSyncReply, reply
    <3> QED
      BY <3>1 DEF TypeInv, TypeOK
  <2> QED
    BY <2>1, <2>2
<1>6. Done(reply.ok) \in Call /\ Done(reply.ok).phase = "done"
  BY <1>2, CallFacts
<1> DEFINE c == Done(reply.ok)
<1>7. call' \in [Server -> [Kind -> [Server -> Call]]]
  BY <1>1, <1>6, CallUpdated, Types
<1>8. TypeOK'
  BY <1>1, <1>4, <1>5, <1>7 DEF TypeInv, TypeOK
<1>9. RejectedForPrevious(c)
  BY <1>6 DEF RejectedForPrevious
<1>10. call' = [call EXCEPT ![i]["sync"][j] = c] /\ c \in Call /\ c.phase = "done"
  BY <1>1, <1>6
<1> HIDE DEF c
<1>11. UNCHANGED <<serving, sent, loop, log>>
  BY <1>1
<1>12. \A h \in Server :
              /\ log[h] # <<>> => log'[h] # <<>>
              /\ \A l \in Server :
                    ("sync" = "sync" /\ h = i /\ l = j)
                    \/ (nextIndex[h][l] > 1 /\ log[h] # <<>> => nextIndex'[h][l] > 1)
  BY <1>4, <1>11
<1>13. /\ "sync" = "client" /\ c.phase # "idle" => loop[i] = "mutating"
       /\ "sync" = "sync" =>
              /\ RejectedForPrevious(c)
              /\ c.phase \in {"sent", "answered"} /\ c.req.prevIndex > 0 =>
                    nextIndex'[i][j] > 1 /\ log'[i] # <<>>
  BY <1>9, <1>10
<1>14. "sync" \in Kind
  BY <1>1
<1> QED
  BY <1>8, <1>10, <1>11, <1>12, <1>13, <1>14, OneCallUpdated

\* A request on its way.
LEMMA InTransit ==
    ASSUME TypeInv
    PROVE  /\ \A i, j \in Server : \A k \in Kind :
                 call[i][k][j] \in Call /\ call[i][k][j].req \in Request
           /\ \A m \in late : m.to \in Server /\ m.req \in Request
           /\ \A i \in Server : Heartbeat(i) \in Request /\ IsHeartbeat(Heartbeat(i))
<1>1. \A i, j \in Server : \A k \in Kind : call[i][k][j] \in Call
  BY Types
<1>2. \A c \in Call : c.req \in Request
  BY DEF Call
<1>3. \A m \in late : m.to \in Server /\ m.req \in Request
  BY Types
<1>4. \A i \in Server : Heartbeat(i) \in Request /\ IsHeartbeat(Heartbeat(i))
  BY Types, EmptySeq DEF Heartbeat, NoRequest, Request, IsHeartbeat
<1> QED
  BY <1>1, <1>2, <1>3, <1>4

\* The handler alone: no goroutine hears of it.
LEMMA UnansweredTypes ==
    ASSUME TypeInv, NEW j \in Server, NEW req \in Request, Receive(j, req),
           UNCHANGED <<call, faults>>, late' \subseteq late
    PROVE  TypeInv'
<1>1. TypeOK'
  BY ReceiveTypes DEF TypeInv, TypeOK
<1>2. /\ UNCHANGED <<nextIndex, loop, serving, sent>>
      /\ \A h \in Server : log[h] # <<>> => log'[h] # <<>>
  BY ReceiveTypes DEF TypeInv
<1> QED
  BY <1>1, <1>2, CallsUntouched

LEMMA HandleAppendEntriesTypes ==
    ASSUME TypeInv, NEW i \in Server, NEW j \in Server, NEW k \in Kind,
           HandleAppendEntries(i, k, j)
    PROVE  TypeInv'
<1> DEFINE d == call[i][k][j]
           c == [d EXCEPT !.phase = "answered", !.term = currentTerm'[j],
                          !.ok = Accepts(j, d.req)]
<1>1. /\ d.phase = "sent" /\ d \in Call /\ d.req \in Request
      /\ Receive(j, d.req)
      /\ call' = [call EXCEPT ![i][k][j] = c]
      /\ UNCHANGED <<late, faults>>
  BY InTransit DEF HandleAppendEntries
<1>2. k = "sync" /\ d.req.prevIndex > 0 => nextIndex[i][j] > 1 /\ log[i] # <<>>
  BY <1>1 DEF TypeInv, RoomToRetreat
<1>3. k = "client" => loop[i] = "mutating"
  BY <1>1 DEF TypeInv, CallsOnlyWhileMutating
<1> HIDE DEF d
<1>4. /\ currentTerm' \in [Server -> Nat]
      /\ log' \in [Server -> Seq(Entry)]
      /\ \A h \in Server : log[h] # <<>> => log'[h] # <<>>
      /\ UNCHANGED <<nextIndex, matchIndex, loop, serving, poll, sent, acked>>
      /\ ~ Accepts(j, d.req) /\ currentTerm'[j] <= d.req.term => d.req.prevIndex > 0
  BY <1>1, ReceiveTypes DEF TypeInv
<1>5. Accepts(j, d.req) \in BOOLEAN
  BY DEF Accepts
<1>6. /\ c \in Call /\ c.phase = "answered" /\ c.req = d.req
      /\ c.term = currentTerm'[j] /\ c.ok = Accepts(j, d.req)
  <2>1. currentTerm'[j] \in Nat
    BY <1>4
  <2> QED
    BY <1>1, <1>5, <2>1 DEF Call, Phase
<1>7. RejectedForPrevious(c)
  BY <1>4, <1>6 DEF RejectedForPrevious
<1> HIDE DEF c
<1>8. call' \in [Server -> [Kind -> [Server -> Call]]]
  BY <1>1, <1>6, CallUpdated, Types
<1>9. TypeOK'
  BY <1>1, <1>8, ReceiveTypes DEF TypeInv, TypeOK
<1>10. k = "sync" =>
              /\ RejectedForPrevious(c)
              /\ c.phase \in {"sent", "answered"} /\ c.req.prevIndex > 0 =>
                    nextIndex'[i][j] > 1 /\ log'[i] # <<>>
  BY <1>2, <1>4, <1>6, <1>7
<1>11. \A h \in Server :
              /\ log[h] # <<>> => log'[h] # <<>>
              /\ \A l \in Server :
                    (k = "sync" /\ h = i /\ l = j)
                    \/ (nextIndex[h][l] > 1 /\ log[h] # <<>> => nextIndex'[h][l] > 1)
  BY <1>4
<1>12. UNCHANGED <<serving, sent, loop>>
  BY <1>4
<1>13. /\ k = "client" /\ c.phase # "idle" => loop[i] = "mutating"
       /\ call' = [call EXCEPT ![i][k][j] = c] /\ c \in Call
  BY <1>1, <1>3, <1>6
<1> QED
  BY <1>9, <1>10, <1>11, <1>12, <1>13, OneCallUpdated

LEMMA DelayHeartbeatTypes ==
    ASSUME TypeInv, NEW i \in Server, NEW j \in Server, DelayHeartbeat(i, j)
    PROVE  TypeInv'
<1> USE DEF diskVars, commitVars, leaderVars, nodeVars, clientVars
<1>1. late' \subseteq [to : Server, req : Request] /\ faults' \in Nat
  <2>1. /\ late' = late \cup {[to |-> j, req |-> Heartbeat(i)]}
        /\ Heartbeat(i) \in Request /\ late \subseteq [to : Server, req : Request]
    BY Types, InTransit DEF DelayHeartbeat
  <2>2. faults' \in Nat
    BY Types DEF DelayHeartbeat, Fault
  <2> HIDE DEF commitVars, leaderVars, clientVars
  <2>3. [to |-> j, req |-> Heartbeat(i)] \in [to : Server, req : Request]
    BY ZenonT(30), <2>1
  <2> QED
    BY <2>1, <2>2, <2>3
<1>2. UNCHANGED <<diskVars, commitVars, leaderVars, nodeVars, call, clientVars>>
  BY DEF DelayHeartbeat
<1>3. TypeOK'
  BY <1>1, <1>2 DEF TypeInv, TypeOK
<1> QED
  BY <1>2, <1>3, CallsUntouched

(* A process ends, having written its term, its vote and its log.             *)
LEMMA DieTypes ==
    ASSUME TypeInv, NEW i \in Server, NEW how \in {"down", "panicked"}, Die(i, how),
           currentTerm' \in [Server -> Nat],
           votedFor' \in [Server -> Server \cup {Nil}],
           log' \in [Server -> Seq(Entry)],
           \A h \in Server : log[h] # <<>> => log'[h] # <<>>,
           faults' \in Nat
    PROVE  TypeInv'
<1>1. /\ loop' = [loop EXCEPT ![i] = how]
      /\ serving' = [serving EXCEPT ![i] = Nil]
      /\ poll' = [poll EXCEPT ![i] = NoPoll]
      /\ serverState' = [serverState EXCEPT ![i] = Follower]
      /\ commitIndex' = [commitIndex EXCEPT ![i] = 0]
      /\ lastApplied' = [lastApplied EXCEPT ![i] = 0]
      /\ UNCHANGED <<db, sent, acked>>
  BY DEF Die, clientVars
<1>2. /\ nextIndex' \in [Server -> [Server -> Nat \ {0}]]
      /\ matchIndex' \in [Server -> [Server -> Nat]]
      /\ \A h, l \in Server : h # i => nextIndex'[h][l] = nextIndex[h][l]
  <2>1. /\ ForEachServer(1) \in [Server -> Nat \ {0}]
        /\ ForEachServer(0) \in [Server -> Nat]
    BY DEF ForEachServer
  <2>2. /\ matchIndex' = [matchIndex EXCEPT ![i] = ForEachServer(0)]
        /\ nextIndex' = [nextIndex EXCEPT ![i] = ForEachServer(1)]
    BY DEF Die
  <2> QED
    BY <2>1, <2>2, Types
<1>3. /\ call' \in [Server -> [Kind -> [Server -> Call]]]
      /\ \A h, l \in Server : \A k \in Kind :
            \/ h = i /\ call'[h][k][l] = IdleCall
            \/ h # i /\ call[h][k][l].phase = "sent" /\ call'[h][k][l] = Done(FALSE)
            \/ h # i /\ call'[h][k][l] = call[h][k][l]
  <2> DEFINE g(h, k, j) == IF h = i THEN IdleCall
                  ELSE IF j = i /\ call[h][k][j].phase = "sent" THEN Done(FALSE)
                  ELSE call[h][k][j]
  <2>1. call' = [h \in Server |-> [k \in Kind |-> [j \in Server |-> g(h, k, j)]]]
    BY DEF Die
  <2>2. \A h, l \in Server : \A k \in Kind : call[h][k][l] \in Call
    BY InTransit
  <2>3. IdleCall \in Call /\ Done(FALSE) \in Call
    BY CallFacts
  <2>4. \A h, l \in Server : \A k \in Kind : g(h, k, l) \in Call
    BY <2>2, <2>3
  <2> QED
    BY <2>1, <2>4
<1>4. late' \subseteq [to : Server, req : Request]
  <2>1. late' = {m \in late : m.to # i} \cup
               UNION {{[to |-> j, req |-> call[i][k][j].req] :
                          k \in {x \in Kind : call[i][x][j].phase = "sent"}} :
                         j \in {h \in Others(i) : Alive(h)}}
    BY DEF Die
  <2>2. \A j \in Others(i) : \A k \in Kind :
           [to |-> j, req |-> call[i][k][j].req] \in [to : Server, req : Request]
    BY InTransit DEF Others
  <2> QED
    BY SMTT(30), <2>1, <2>2, Types
<1>5. TypeOK'
  <2>1. /\ loop' \in [Server -> LoopState] /\ serving' \in [Server -> Command \cup {Nil}]
        /\ poll' \in [Server -> Poll] /\ serverState' \in [Server -> {Follower, Leader}]
        /\ \A h \in Server : loop'[h] # "polling" => poll'[h] = NoPoll
        /\ \A h \in Server : serving'[h] \in Command <=> loop'[h] \in {"accepted", "mutating"}
    BY <1>1, CommandAssumption DEF TypeInv, TypeOK, LoopState, Poll, NoPoll
  <2> QED
    BY <1>1, <1>2, <1>3, <1>4, <2>1 DEF TypeInv, TypeOK
<1>6. ServingWasSent' /\ MutatingHasEntry'
  BY <1>1, Types DEF TypeInv, ServingWasSent, MutatingHasEntry
<1>7. CallsOnlyWhileMutating'
  BY ZenonT(40), <1>1, <1>3, CallFacts, Types DEF TypeInv, CallsOnlyWhileMutating, Kind
<1>8. RoomToRetreat'
  <2> SUFFICES ASSUME NEW h \in Server, NEW l \in Server
               PROVE  LET d == call'[h]["sync"][l] IN
                      /\ RejectedForPrevious(d)
                      /\ d.phase \in {"sent", "answered"} /\ d.req.prevIndex > 0 =>
                            nextIndex'[h][l] > 1 /\ log'[h] # <<>>
    BY DEF RoomToRetreat, RejectedForPrevious
  <2>1. CASE call'[h]["sync"][l].phase \notin {"sent", "answered"}
    BY <2>1 DEF RejectedForPrevious
  <2>2. CASE call'[h]["sync"][l].phase \in {"sent", "answered"}
    <3>1. h # i /\ call'[h]["sync"][l] = call[h]["sync"][l]
      BY <1>3, <2>2, CallFacts DEF Kind
    <3> QED
      BY <1>2, <3>1 DEF TypeInv, RoomToRetreat
  <2> QED
    BY <2>1, <2>2
<1> QED
  BY <1>5, <1>6, <1>7, <1>8 DEF TypeInv

LEMMA CrashTypes ==
    ASSUME TypeInv, NEW i \in Server, Crash(i)
    PROVE  TypeInv'
<1>1. Die(i, "down") /\ UNCHANGED <<currentTerm, votedFor, log>> /\ faults' \in Nat
  BY Types DEF Crash, Fault
<1>2. votedFor \in [Server -> Server \cup {Nil}]
  BY DEF TypeInv, TypeOK
<1> QED
  BY <1>1, <1>2, DieTypes, Types

\* A request that is in its RPC is on its way to the server it is sent to.
LEMMA CallIsIncoming ==
    ASSUME NEW j \in Server, NEW i \in Others(j), NEW k \in Kind, call[i][k][j].phase = "sent"
    PROVE  call[i][k][j].req \in Incoming(j)
<1> DEFINE OfCalls(h) ==
               {call[h][x][j].req : x \in {y \in Kind : call[h][y][j].phase = "sent"}}
<1>1. call[i][k][j].req \in OfCalls(i)
  OBVIOUS
<1>2. Incoming(j) = {m.req : m \in {l \in late : l.to = j}}
                    \cup {Heartbeat(h) : h \in {g \in Others(j) : SendsHeartbeats(g)}}
                    \cup UNION {OfCalls(h) : h \in Others(j)}
  BY DEF Incoming
<1> HIDE DEF OfCalls
<1>3. call[i][k][j].req \in UNION {OfCalls(h) : h \in Others(j)}
  BY <1>1
<1> QED
  BY <1>2, <1>3

\* The requests a server may be given next.
LEMMA IncomingFacts ==
    ASSUME TypeInv, NEW j \in Server, NEW req \in Incoming(j)
    PROVE  /\ req \in Request
           /\ \/ \E m \in late : req = m.req
              \/ IsHeartbeat(req)
              \/ \E i \in Others(j) : \E k \in Kind :
                    call[i][k][j].phase = "sent" /\ req = call[i][k][j].req
<1>1. \/ \E m \in late : req = m.req
      \/ \E i \in Server : req = Heartbeat(i)
      \/ \E i \in Others(j) : \E k \in Kind :
            call[i][k][j].phase = "sent" /\ req = call[i][k][j].req
  BY DEF Incoming, Others
<1> QED
  BY <1>1, InTransit DEF Others

LEMMA PanicTypes ==
    ASSUME TypeInv, NEW j \in Server, NEW req \in Request, Panic(j, req)
    PROVE  TypeInv'
<1>1. req.term \in Nat
  BY RequestFacts
<1>2. votedFor' \in [Server -> Server \cup {Nil}]
  BY DEF Panic, TypeInv, TypeOK
<1>3. currentTerm' \in [Server -> Nat]
  BY <1>1, Types DEF Panic
<1>4. /\ log' \in [Server -> Seq(Entry)]
      /\ \A h \in Server : log[h] # <<>> => log'[h] # <<>>
  BY LogAfterCases, Types DEF Panic
<1>5. Die(j, "panicked") /\ faults' \in Nat
  BY Types DEF Panic
<1> QED
  BY <1>2, <1>3, <1>4, <1>5, DieTypes

LEMMA RestartTypes ==
    ASSUME TypeInv, NEW i \in Server, Restart(i)
    PROVE  TypeInv'
<1> USE DEF diskVars, commitVars, leaderVars, clientVars
<1>1. /\ loop[i] \in {"down", "panicked"}
      /\ loop' = [loop EXCEPT ![i] = "free"]
      /\ UNCHANGED <<diskVars, commitVars, leaderVars, serverState, serving, poll, call,
                     late, clientVars, faults>>
  BY DEF Restart, Alive
<1>2. TypeOK'
  BY <1>1 DEF TypeInv, TypeOK, LoopState
<1> QED
  BY <1>1, <1>2, CallsUntouched, Types

\* Every step keeps the types.
LEMMA NextTypeInv == TypeInv /\ [Next]_vars => TypeInv'
<1> SUFFICES ASSUME TypeInv, [Next]_vars PROVE TypeInv'
  OBVIOUS
<1>1. ASSUME NEW i \in Server, ServerNext(i) PROVE TypeInv'
  <2>1. CASE Campaign(i)
    BY <2>1, CampaignTypes
  <2>2. CASE FinishCampaign(i)
    BY <2>2, FinishCampaignTypes
  <2>3. CASE \E c \in Command : AcceptCommand(i, c)
    BY <2>3, AcceptCommandTypes
  <2>4. CASE AppendCommand(i)
    BY <2>4, AppendCommandTypes
  <2>5. CASE FinishCommand(i)
    BY <2>5, FinishCommandTypes
  <2>6. CASE BeginSync(i)
    BY <2>6, BeginSyncTypes
  <2>7. CASE EndSync(i)
    BY <2>7, EndSyncTypes
  <2>8. CASE Crash(i)
    BY <2>8, CrashTypes
  <2>9. CASE Restart(i)
    BY <2>9, RestartTypes
  <2>10. CASE \E req \in Incoming(i) : Panic(i, req)
    BY <2>10, PanicTypes, IncomingFacts
  <2> QED
    BY <1>1, <2>1, <2>2, <2>3, <2>4, <2>5, <2>6, <2>7, <2>8, <2>9, <2>10 DEF ServerNext
<1>2. ASSUME NEW i \in Server, NEW j \in Others(i), PairNext(i, j) PROVE TypeInv'
  <2> j \in Server
    BY DEF Others
  <2>1. CASE HandleVote(i, j)
    BY <2>1, HandleVoteTypes
  <2>2. CASE LoseVote(i, j)
    BY <2>2, LoseVoteTypes
  <2>3. CASE SendEntry(i, j)
    BY <2>3, SendEntryTypes
  <2>4. CASE SkipEntry(i, j) \/ SkipSync(i, j) \/ \E k \in Kind : Refused(i, k, j)
    BY <2>4, SkipTypes
  <2>5. CASE ReceiveEntryReply(i, j)
    BY <2>5, ReceiveEntryReplyTypes
  <2>6. CASE SendSync(i, j)
    BY <2>6, SendSyncTypes
  <2>7. CASE ReceiveSyncReply(i, j)
    BY <2>7, ReceiveSyncReplyTypes
  <2>8. CASE HandleHeartbeat(i, j)
    BY <2>8, InTransit, UnansweredTypes DEF HandleHeartbeat
  <2>9. CASE DelayHeartbeat(i, j)
    BY <2>9, DelayHeartbeatTypes
  <2>10. CASE \E k \in Kind : HandleAppendEntries(i, k, j)
    BY <2>10, HandleAppendEntriesTypes
  <2>11. CASE \E k \in Kind : Break(i, k, j)
    BY <2>11, BreakTypes
  <2> QED
    BY <1>2, <2>1, <2>2, <2>3, <2>4, <2>5, <2>6, <2>7, <2>8, <2>9, <2>10, <2>11 DEF PairNext
<1>3. ASSUME NEW m \in late, HandleLate(m) PROVE TypeInv'
  <2>1. m.to \in Server /\ m.req \in Request
    BY InTransit
  <2> QED
    BY <1>3, <2>1, UnansweredTypes DEF HandleLate
<1>4. CASE UNCHANGED vars
  <2> USE DEF vars, diskVars, commitVars, leaderVars, nodeVars, clientVars
  <2>1. TypeOK'
    BY <1>4 DEF TypeInv, TypeOK
  <2>2. /\ UNCHANGED <<call, sent, loop, log, serving, nextIndex>>
    BY <1>4
  <2> QED
    BY <2>1, <2>2, CallsUntouched
<1> QED
  BY <1>1, <1>2, <1>3, <1>4 DEF Next

(* The types and ranges of all variables, in every reachable state: what a    *)
(* leader replicates is a command, only then do its goroutines run, the OK is *)
(* for a command that was sent, the log has the entries that are applied, and *)
(* nextIndex never comes down to 0.                                           *)
THEOREM TypeCorrect == Spec => []TypeOK
<1>1. Init => TypeInv
  BY InitTypeInv
<1>2. TypeInv /\ [Next]_vars => TypeInv'
  BY NextTypeInv
<1>3. TypeInv => TypeOK
  BY DEF TypeInv
<1> QED
  BY <1>1, <1>2, <1>3, PTL DEF Spec
-----------------------------------------------------------------------------
(* What a step may do to the terms, the logs and the requests on their way.   *)

\* Terms only go up.
LEMMA TermsGrow ==
    ASSUME TypeInv, Next, NEW h \in Server
    PROVE  currentTerm[h] <= currentTerm'[h]
<1> currentTerm \in [Server -> Nat]
  BY Types
<1> USE DEF diskVars
<1>1. ASSUME NEW i \in Server, NEW term \in Nat, StepDownIfStale(i, term)
      PROVE  currentTerm[h] <= currentTerm'[h]
  BY <1>1, StepDownFacts DEF TypeInv
<1>2. ASSUME UNCHANGED currentTerm PROVE currentTerm[h] <= currentTerm'[h]
  BY <1>2
<1>3. ASSUME NEW j \in Server, NEW req \in Request, Receive(j, req)
      PROVE  currentTerm[h] <= currentTerm'[h]
  BY <1>1, <1>3, RequestFacts DEF Receive
<1>4. ASSUME NEW i \in Server, ServerNext(i) PROVE currentTerm[h] <= currentTerm'[h]
  <2>1. CASE Campaign(i)
    BY <2>1 DEF Campaign
  <2>2. CASE \/ FinishCampaign(i) \/ AppendCommand(i) \/ FinishCommand(i)
             \/ BeginSync(i) \/ EndSync(i) \/ Crash(i) \/ Restart(i)
             \/ \E c \in Command : AcceptCommand(i, c)
    BY <1>2, <2>2
    DEF FinishCampaign, AcceptCommand, AppendCommand, FinishCommand, BeginSync, EndSync,
        Crash, Restart
  <2>3. ASSUME NEW req \in Incoming(i), Panic(i, req)
        PROVE  currentTerm[h] <= currentTerm'[h]
    <3>1. req.term \in Nat /\ req.term >= currentTerm[i]
      BY <2>3, IncomingFacts, RequestFacts DEF Panic, Panics, CommitsUpTo, Accepts
    <3> QED
      BY <2>3, <3>1 DEF Panic
  <2> QED
    BY <1>4, <2>1, <2>2, <2>3 DEF ServerNext
<1>5. ASSUME NEW i \in Server, NEW j \in Others(i), PairNext(i, j)
      PROVE  currentTerm[h] <= currentTerm'[h]
  <2> j \in Server
    BY DEF Others
  <2>1. CASE HandleVote(i, j)
    <3> DEFINE answer == Larger(currentTerm[j], poll[i].term)
               stale == IF answer > currentTerm[i] THEN i ELSE j
    <3>1. answer \in Nat /\ stale \in Server
      BY Types DEF Larger, Poll
    <3>2. StepDownIfStale(stale, answer)
      BY <2>1 DEF HandleVote
    <3> HIDE DEF answer, stale
    <3> QED
      BY <1>1, <3>1, <3>2
  <2>2. CASE LoseVote(i, j)
    <3>1. poll[i].term \in Nat
      BY Types DEF Poll
    <3> QED
      BY <1>1, <1>2, <2>2, <3>1 DEF LoseVote
  <2>3. CASE ReceiveEntryReply(i, j)
    <3>1. call[i]["client"][j].term \in Nat
      BY Types DEF Call, Kind
    <3> QED
      BY <1>1, <2>3, <3>1 DEF ReceiveEntryReply
  <2>4. CASE ReceiveSyncReply(i, j)
    <3>1. call[i]["sync"][j].term \in Nat
      BY Types DEF Call, Kind
    <3> QED
      BY <1>1, <1>2, <2>4, <3>1 DEF ReceiveSyncReply
  <2>5. CASE HandleHeartbeat(i, j)
    BY <1>3, <2>5, InTransit DEF HandleHeartbeat
  <2>6. ASSUME NEW k \in Kind, HandleAppendEntries(i, k, j)
        PROVE  currentTerm[h] <= currentTerm'[h]
    BY <1>3, <2>6, InTransit DEF HandleAppendEntries
  <2>7. CASE \/ SendEntry(i, j) \/ SkipEntry(i, j) \/ SendSync(i, j) \/ SkipSync(i, j)
             \/ DelayHeartbeat(i, j) \/ \E k \in Kind : Refused(i, k, j) \/ Break(i, k, j)
    BY <1>2, <2>7 DEF SendEntry, SkipEntry, SendSync, SkipSync, DelayHeartbeat, Refused, Break
  <2> QED
    BY <1>5, <2>1, <2>2, <2>3, <2>4, <2>5, <2>6, <2>7 DEF PairNext
<1>6. ASSUME NEW m \in late, HandleLate(m) PROVE currentTerm[h] <= currentTerm'[h]
  BY <1>3, <1>6, InTransit DEF HandleLate
<1> QED
  BY <1>4, <1>5, <1>6 DEF Next

\* What a leader gets from a client and appends to its log.
Received(i) == [term |-> currentTerm[i], data |-> serving[i]]

\* The handler at h leaves its log alone, or has accepted an entry for it.
LEMMA ReceiveLog ==
    ASSUME TypeInv, NEW j \in Server, NEW req \in Request, Receive(j, req), NEW h \in Server
    PROVE  \/ log'[h] = log[h]
           \/ /\ h = j /\ loop[h] = "free" /\ Accepts(h, req) /\ ~ IsHeartbeat(req)
              /\ log'[h] = LogAfter(h, req) /\ currentTerm'[h] = req.term
<1>1. /\ log' = [log EXCEPT ![j] = LogAfter(j, req)]
      /\ StepDownIfStale(j, req.term) /\ loop[j] = "free"
  BY DEF Receive
<1>2. CASE h # j
  BY <1>1, <1>2, Types
<1>3. CASE h = j /\ Accepts(j, req) /\ ~ IsHeartbeat(req)
  <2>1. /\ req.term \in Nat /\ currentTerm[j] \in Nat /\ currentTerm'[j] \in Nat
        /\ currentTerm'[j] >= req.term
        /\ currentTerm'[j] = currentTerm[j] \/ currentTerm'[j] = req.term
    BY <1>1, RequestFacts, StepDownFacts, Types DEF TypeInv
  <2>2. req.term >= currentTerm[j]
    BY <1>3 DEF Accepts
  <2>3. currentTerm'[j] = req.term
    BY <2>1, <2>2
  <2> QED
    BY <1>1, <1>3, <2>3, Types
<1>4. CASE h = j /\ ~ (Accepts(j, req) /\ ~ IsHeartbeat(req))
  BY <1>1, <1>4, Types DEF LogAfter
<1> QED
  BY <1>2, <1>3, <1>4

(* A log changes when its server, as a leader, appends a command, or when it  *)
(* accepts a request.                                                         *)
LEMMA LogSteps ==
    ASSUME TypeInv, Next, NEW h \in Server
    PROVE  \/ log'[h] = log[h]
           \/ /\ AppendCommand(h) /\ loop[h] = "accepted"
              /\ log'[h] = Append(log[h], Received(h))
              /\ UNCHANGED currentTerm
           \/ \E req \in Incoming(h) :
                 /\ loop[h] = "free" /\ Accepts(h, req) /\ ~ IsHeartbeat(req)
                 /\ log'[h] = LogAfter(h, req) /\ currentTerm'[h] = req.term
<1> DEFINE Goal == \/ log'[h] = log[h]
                   \/ /\ AppendCommand(h) /\ loop[h] = "accepted"
                      /\ log'[h] = Append(log[h], Received(h))
                      /\ UNCHANGED currentTerm
                   \/ \E req \in Incoming(h) :
                         /\ loop[h] = "free" /\ Accepts(h, req) /\ ~ IsHeartbeat(req)
                         /\ log'[h] = LogAfter(h, req) /\ currentTerm'[h] = req.term
<1> SUFFICES Goal
  OBVIOUS
<1>1. ASSUME NEW j \in Server, NEW req \in Request, Receive(j, req),
             j = h => req \in Incoming(h)
      PROVE  Goal
  BY <1>1, ReceiveLog
<1> log \in [Server -> Seq(Entry)]
  BY Types
<1>2. ASSUME UNCHANGED log PROVE Goal
  BY <1>2
<1>3. ASSUME NEW i \in Server, ServerNext(i) PROVE Goal
  <2>1. CASE AppendCommand(i)
    BY <2>1 DEF AppendCommand, Received
  <2>2. CASE \/ Campaign(i) \/ FinishCampaign(i) \/ FinishCommand(i)
             \/ BeginSync(i) \/ EndSync(i) \/ Crash(i) \/ Restart(i)
             \/ \E c \in Command : AcceptCommand(i, c)
    <3>1. UNCHANGED log
      BY <2>2 DEF Campaign, FinishCampaign, AcceptCommand, FinishCommand, BeginSync, EndSync,
        Crash, Restart, diskVars
    <3> QED
      BY <1>2, <3>1
  <2>3. ASSUME NEW req \in Incoming(i), Panic(i, req) PROVE Goal
    <3>1. /\ log' = [log EXCEPT ![i] = LogAfter(i, req)]
          /\ currentTerm' = [currentTerm EXCEPT ![i] = req.term]
          /\ loop[i] = "free" /\ Accepts(i, req)
      BY <2>3 DEF Panic, Panics, CommitsUpTo
    <3>2. CASE h = i /\ ~ IsHeartbeat(req)
      BY <3>1, <3>2, <2>3, Types
    <3>3. CASE h = i /\ IsHeartbeat(req)
      BY <3>1, <3>3 DEF LogAfter
    <3>4. CASE h # i
      BY <3>1, <3>4
    <3> QED
      BY <3>2, <3>3, <3>4
  <2> QED
    BY <1>3, <2>1, <2>2, <2>3 DEF ServerNext
<1>4. ASSUME NEW i \in Server, NEW j \in Others(i), PairNext(i, j) PROVE Goal
  <2> j \in Server /\ i \in Others(j)
    BY DEF Others
  <2>1. CASE HandleHeartbeat(i, j)
    <3>1. Heartbeat(i) \in Incoming(j)
      BY <2>1 DEF HandleHeartbeat, Incoming
    <3> QED
      BY <1>1, <2>1, <3>1, InTransit DEF HandleHeartbeat
  <2>2. ASSUME NEW k \in Kind, HandleAppendEntries(i, k, j) PROVE Goal
    <3>1. call[i][k][j].req \in Incoming(j)
      BY <2>2, CallIsIncoming, i \in Others(j) DEF HandleAppendEntries, Others
    <3> QED
      BY <1>1, <2>2, <3>1, InTransit DEF HandleAppendEntries
  <2>3. CASE \/ HandleVote(i, j) \/ LoseVote(i, j)
             \/ SendEntry(i, j) \/ SkipEntry(i, j) \/ ReceiveEntryReply(i, j)
             \/ SendSync(i, j) \/ SkipSync(i, j) \/ ReceiveSyncReply(i, j)
             \/ DelayHeartbeat(i, j) \/ \E k \in Kind : Refused(i, k, j) \/ Break(i, k, j)
    <3>1. UNCHANGED log
      BY <2>3 DEF HandleVote, LoseVote, SendEntry, SkipEntry, ReceiveEntryReply,
         SendSync, SkipSync, ReceiveSyncReply, DelayHeartbeat, Refused, Break, diskVars
    <3> QED
      BY <1>2, <3>1
  <2> QED
    BY <1>4, <2>1, <2>2, <2>3 DEF PairNext
<1>5. ASSUME NEW m \in late, HandleLate(m) PROVE Goal
  <2>1. m.to \in Server /\ m.req \in Request
    BY InTransit
  <2>2. m.req \in Incoming(m.to)
    BY DEF Incoming
  <2> QED
    BY <1>1, <1>5, <2>1, <2>2 DEF HandleLate
<1> QED
  BY <1>3, <1>4, <1>5 DEF Next

\* The request in which i sends entry n of its log, as the entry e.
EntryRequest(i, n, e) ==
    [term |-> currentTerm[i], prevIndex |-> n - 1, prevTerm |-> TermAt(log[i], n - 1),
     entries |-> <<e>>, commit |-> commitIndex[i]]

\* What a goroutine has sent it has sent before, or it sends it in this step.
LEMMA CallSteps ==
    ASSUME TypeInv, Next, NEW i \in Server, NEW k \in Kind, NEW j \in Server,
           call'[i][k][j].phase = "sent"
    PROVE  \/ call[i][k][j].phase = "sent" /\ call'[i][k][j].req = call[i][k][j].req
           \/ /\ SendEntry(i, j)
              /\ call'[i][k][j].req = EntryRequest(i, Len(log[i]), Received(i))
           \/ /\ SendSync(i, j) /\ nextIndex[i][j] \in 1..Len(log[i])
              /\ call'[i][k][j].req =
                    EntryRequest(i, nextIndex[i][j], log[i][nextIndex[i][j]])
<1> DEFINE Goal ==
           \/ call[i][k][j].phase = "sent" /\ call'[i][k][j].req = call[i][k][j].req
           \/ /\ SendEntry(i, j)
              /\ call'[i][k][j].req = EntryRequest(i, Len(log[i]), Received(i))
           \/ /\ SendSync(i, j) /\ nextIndex[i][j] \in 1..Len(log[i])
              /\ call'[i][k][j].req =
                    EntryRequest(i, nextIndex[i][j], log[i][nextIndex[i][j]])
<1> SUFFICES Goal
  OBVIOUS
<1> call \in [Server -> [Kind -> [Server -> Call]]]
  BY Types
<1> "client" \in Kind /\ "sync" \in Kind
  BY DEF Kind
<1>1. ASSUME UNCHANGED call PROVE Goal
  BY <1>1
<1>2. ASSUME NEW h \in Server, NEW m \in Kind, NEW l \in Server, NEW c \in Call,
             call' = [call EXCEPT ![h][m][l] = c], c.phase # "sent"
      PROVE  Goal
  <2>1. call'[i][k][j] = IF i = h /\ k = m /\ j = l THEN c ELSE call[i][k][j]
    BY <1>2, CallUpdated
  <2> QED
    BY <1>2, <2>1
<1>3. ASSUME NEW h \in Server, NEW m \in Kind, NEW f \in [Server -> Call],
             call' = [call EXCEPT ![h][m] = f], \A l \in Server : f[l].phase # "sent"
      PROVE  Goal
  <2>1. call'[i][k][j] = IF i = h /\ k = m THEN f[j] ELSE call[i][k][j]
    BY <1>3, CallsUpdated
  <2> QED
    BY <1>3, <2>1
<1>4. ASSUME NEW h \in Server, NEW how, Die(h, how) PROVE Goal
  <2>1. call'[i][k][j] =
           IF i = h THEN IdleCall
           ELSE IF j = h /\ call[i][k][j].phase = "sent" THEN Done(FALSE)
           ELSE call[i][k][j]
    BY <1>4 DEF Die
  <2>2. IdleCall.phase # "sent" /\ Done(FALSE).phase # "sent"
    BY CallFacts
  <2> QED
    BY <2>1, <2>2
<1>5. ASSUME NEW h \in Server, ServerNext(h) PROVE Goal
  <2>1. CASE \/ Campaign(h) \/ FinishCampaign(h) \/ Restart(h)
             \/ \E c \in Command : AcceptCommand(h, c)
    BY <1>1, <2>1 DEF Campaign, FinishCampaign, AcceptCommand, Restart
  <2>2. CASE AppendCommand(h)
    <3> DEFINE f == [l \in Server |-> IF l = h THEN IdleCall
                                ELSE IF serverState[h] = Leader THEN Spawned ELSE Done(FALSE)]
    <3>1. f \in [Server -> Call] /\ \A l \in Server : f[l].phase # "sent"
      BY CallFacts
    <3>2. call' = [call EXCEPT ![h]["client"] = f]
      BY <2>2 DEF AppendCommand
    <3> HIDE DEF f
    <3> QED
      BY <1>3, <3>1, <3>2
  <2>3. CASE FinishCommand(h) \/ EndSync(h)
    <3> DEFINE f == [l \in Server |-> IdleCall]
    <3>1. f \in [Server -> Call] /\ \A l \in Server : f[l].phase # "sent"
      BY CallFacts
    <3>2. PICK m \in Kind : call' = [call EXCEPT ![h][m] = f]
      BY <2>3 DEF FinishCommand, EndSync
    <3> HIDE DEF f
    <3> QED
      BY <1>3, <3>1, <3>2
  <2>4. CASE BeginSync(h)
    <3> DEFINE f == [l \in Server |-> IF l = h THEN Done(FALSE) ELSE Spawned]
    <3>1. f \in [Server -> Call] /\ \A l \in Server : f[l].phase # "sent"
      BY CallFacts
    <3>2. call' = [call EXCEPT ![h]["sync"] = f]
      BY <2>4 DEF BeginSync
    <3> HIDE DEF f
    <3> QED
      BY <1>3, <3>1, <3>2
  <2>5. CASE Crash(h)
    BY <1>4, <2>5 DEF Crash
  <2>6. ASSUME NEW req \in Incoming(h), Panic(h, req) PROVE Goal
    BY <1>4, <2>6 DEF Panic
  <2> QED
    BY <1>5, <2>1, <2>2, <2>3, <2>4, <2>5, <2>6 DEF ServerNext
<1>6. ASSUME NEW h \in Server, NEW l \in Others(h), PairNext(h, l) PROVE Goal
  <2> l \in Server
    BY DEF Others
  <2>1. CASE HandleVote(h, l) \/ LoseVote(h, l) \/ HandleHeartbeat(h, l) \/ DelayHeartbeat(h, l)
    BY <1>1, <2>1 DEF HandleVote, LoseVote, HandleHeartbeat, DelayHeartbeat
  <2>2. ASSUME NEW ok \in BOOLEAN, NEW m \in Kind,
               call' = [call EXCEPT ![h][m][l] = Done(ok)]
        PROVE  Goal
    BY <1>2, <2>2, CallFacts
  <2>3. CASE \/ SkipEntry(h, l) \/ SkipSync(h, l)
             \/ \E m \in Kind : Refused(h, m, l) \/ Break(h, m, l)
    BY <2>2, <2>3 DEF SkipEntry, SkipSync, Refused, Break
  <2>4. CASE ReceiveEntryReply(h, l)
    <3> DEFINE ok == /\ call[h]["client"][l].ok
                     /\ call[h]["client"][l].term <= currentTerm[h]
    <3>1. call' = [call EXCEPT ![h]["client"][l] = Done(ok)]
      BY <2>4 DEF ReceiveEntryReply
    <3>2. ok \in BOOLEAN
      BY DEF Call
    <3> HIDE DEF ok
    <3> QED
      BY <2>2, <3>1, <3>2
  <2>5. CASE ReceiveSyncReply(h, l)
    <3>1. call' = [call EXCEPT ![h]["sync"][l] = Done(call[h]["sync"][l].ok)]
      BY <2>5 DEF ReceiveSyncReply
    <3>2. call[h]["sync"][l].ok \in BOOLEAN
      BY DEF Call
    <3> QED
      BY <2>2, <3>1, <3>2
  <2>6. ASSUME NEW m \in Kind, HandleAppendEntries(h, m, l) PROVE Goal
    <3> DEFINE d == call[h][m][l]
               c == [d EXCEPT !.phase = "answered", !.term = currentTerm'[l],
                              !.ok = Accepts(l, d.req)]
    <3>1. call' = [call EXCEPT ![h][m][l] = c] /\ Receive(l, d.req) /\ d \in Call
      BY <2>6 DEF HandleAppendEntries
    <3>2. currentTerm'[l] \in Nat
      BY <3>1, ReceiveTypes, InTransit DEF TypeInv
    <3>3. Accepts(l, d.req) \in BOOLEAN
      BY DEF Accepts
    <3>4. c \in Call /\ c.phase # "sent"
      BY <3>1, <3>2, <3>3 DEF Call, Phase
    <3> HIDE DEF c
    <3> QED
      BY <1>2, <3>1, <3>4
  <2>7. CASE SendEntry(h, l)
    <3> DEFINE c == [IdleCall EXCEPT !.phase = "sent",
                                     !.req = EntryRequest(h, Len(log[h]), Received(h))]
    <3>1. call' = [call EXCEPT ![h]["client"][l] = c]
      BY <2>7 DEF SendEntry, EntryRequest, Received
    <3>2. c.req = EntryRequest(h, Len(log[h]), Received(h))
      BY DEF IdleCall
    <3> HIDE DEF c
    <3>3. call'[i][k][j] =
             IF i = h /\ k = "client" /\ j = l THEN c ELSE call[i][k][j]
      BY <3>1
    <3> QED
      BY <2>7, <3>2, <3>3
  <2>8. CASE SendSync(h, l) /\ nextIndex[h][l] \in 1..Len(log[h])
    <3> DEFINE n == nextIndex[h][l]
               c == [IdleCall EXCEPT !.phase = "sent",
                                     !.req = EntryRequest(h, n, log[h][n])]
    <3>1. call' = [call EXCEPT ![h]["sync"][l] = c]
      BY <2>8 DEF SendSync, Lacks, EntryRequest
    <3>2. c.req = EntryRequest(h, n, log[h][n])
      BY DEF IdleCall
    <3> HIDE DEF c
    <3>3. call'[i][k][j] =
             IF i = h /\ k = "sync" /\ j = l THEN c ELSE call[i][k][j]
      BY <3>1
    <3> QED
      BY <2>8, <3>2, <3>3
  <2>9. CASE SendSync(h, l) /\ nextIndex[h][l] \notin 1..Len(log[h])
    <3>1. call' = [call EXCEPT ![h]["sync"][l] = Done(FALSE)]
      BY <2>9 DEF SendSync, Lacks
    <3> QED
      BY <2>2, <3>1
  <2> QED
    BY <1>6, <2>1, <2>3, <2>4, <2>5, <2>6, <2>7, <2>8, <2>9 DEF PairNext
<1>7. ASSUME NEW m \in late, HandleLate(m) PROVE Goal
  BY <1>1, <1>7 DEF HandleLate
<1> QED
  BY <1>5, <1>6, <1>7 DEF Next

\* What is left behind was on its way before.
LEMMA LateSteps ==
    ASSUME TypeInv, Next, NEW m \in late'
    PROVE  m \in late \/ (m.to \in Server /\ m.req \in Incoming(m.to))
<1> DEFINE Goal == m \in late \/ (m.to \in Server /\ m.req \in Incoming(m.to))
<1> SUFFICES Goal
  OBVIOUS
<1>1. ASSUME late' \subseteq late PROVE Goal
  BY <1>1
<1>2. ASSUME NEW h \in Server, NEW how, Die(h, how) PROVE Goal
  <2>1. \/ m \in late
        \/ \E j \in Others(h) : \E k \in Kind :
              call[h][k][j].phase = "sent" /\ m = [to |-> j, req |-> call[h][k][j].req]
    BY <1>2 DEF Die
  <2>2. ASSUME NEW j \in Others(h), NEW k \in Kind, call[h][k][j].phase = "sent",
               m = [to |-> j, req |-> call[h][k][j].req]
        PROVE  m.to \in Server /\ m.req \in Incoming(m.to)
    BY <2>2 DEF Incoming, Others
  <2> QED
    BY <2>1, <2>2
<1>3. ASSUME NEW h \in Server, ServerNext(h) PROVE Goal
  <2>1. CASE Crash(h)
    BY <1>2, <2>1 DEF Crash
  <2>2. ASSUME NEW req \in Incoming(h), Panic(h, req) PROVE Goal
    BY <1>2, <2>2 DEF Panic
  <2>3. CASE \/ Campaign(h) \/ FinishCampaign(h) \/ AppendCommand(h) \/ FinishCommand(h)
             \/ BeginSync(h) \/ EndSync(h) \/ Restart(h)
             \/ \E c \in Command : AcceptCommand(h, c)
    <3>1. UNCHANGED late
      BY <2>3 DEF Campaign, FinishCampaign, AcceptCommand, AppendCommand, FinishCommand,
         BeginSync, EndSync, Restart
    <3> QED
      BY <1>1, <3>1
  <2> QED
    BY <1>3, <2>1, <2>2, <2>3 DEF ServerNext
<1>4. ASSUME NEW h \in Server, NEW l \in Others(h), PairNext(h, l) PROVE Goal
  <2> l \in Server /\ h \in Others(l)
    BY DEF Others
  <2>1. CASE DelayHeartbeat(h, l)
    <3>1. late' = late \cup {[to |-> l, req |-> Heartbeat(h)]} /\ SendsHeartbeats(h)
      BY <2>1 DEF DelayHeartbeat
    <3>2. Heartbeat(h) \in Incoming(l)
      BY <3>1 DEF Incoming
    <3> QED
      BY <3>1, <3>2
  <2>2. ASSUME NEW k \in Kind, Break(h, k, l) PROVE Goal
    <3>1. /\ late' = late \cup {[to |-> l, req |-> call[h][k][l].req]}
          /\ call[h][k][l].phase = "sent"
      BY <2>2 DEF Break
    <3>2. call[h][k][l].req \in Incoming(l)
      BY <3>1, CallIsIncoming, h \in Others(l) DEF Others
    <3> QED
      BY <3>1, <3>2
  <2>3. CASE \/ HandleVote(h, l) \/ LoseVote(h, l) \/ HandleHeartbeat(h, l)
             \/ SendEntry(h, l) \/ SkipEntry(h, l) \/ ReceiveEntryReply(h, l)
             \/ SendSync(h, l) \/ SkipSync(h, l) \/ ReceiveSyncReply(h, l)
             \/ \E k \in Kind : Refused(h, k, l) \/ HandleAppendEntries(h, k, l)
    <3>1. UNCHANGED late
      BY <2>3 DEF HandleVote, LoseVote, HandleHeartbeat, SendEntry, SkipEntry,
         ReceiveEntryReply, SendSync, SkipSync, ReceiveSyncReply, Refused, HandleAppendEntries
    <3> QED
      BY <1>1, <3>1
  <2> QED
    BY <1>4, <2>1, <2>2, <2>3 DEF PairNext
<1>5. ASSUME NEW l \in late, HandleLate(l) PROVE Goal
  BY <1>1, <1>5 DEF HandleLate
<1> QED
  BY <1>3, <1>4, <1>5 DEF Next

(* A request with an entry that may be given to j next has been on its way, or*)
(* another server has just sent it: the command it replicates, or the entry   *)
(* at nextIndex.                                                              *)
LEMMA RequestSteps ==
    ASSUME TypeInv, Next, NEW j \in Server, NEW req \in Incoming(j)', ~ IsHeartbeat(req)
    PROVE  \/ req \in Incoming(j)
           \/ \E i \in Others(j) :
                 \/ SendEntry(i, j) /\ req = EntryRequest(i, Len(log[i]), Received(i))
                 \/ SendSync(i, j) /\ \E n \in 1..Len(log[i]) : req = EntryRequest(i, n, log[i][n])
<1>1. TypeInv'
  BY NextTypeInv
<1>2. CASE \E m \in late' : m.to = j /\ req = m.req
  <2>1. PICK m \in late' : m.to = j /\ req = m.req
    BY <1>2
  <2>2. CASE m \in late
    BY <2>1, <2>2 DEF Incoming
  <2> QED
    BY <2>1, <2>2, LateSteps
<1>3. CASE \E i \in Others(j) : req = Heartbeat(i)'
  BY <1>3 DEF Heartbeat, IsHeartbeat, NoRequest
<1>4. CASE \E i \in Others(j) : \E k \in Kind :
              call'[i][k][j].phase = "sent" /\ req = call'[i][k][j].req
  <2>1. PICK i \in Others(j), k \in Kind :
           call'[i][k][j].phase = "sent" /\ req = call'[i][k][j].req
    BY <1>4
  <2>2. i \in Server
    BY DEF Others
  <2>3. CASE call[i][k][j].phase = "sent" /\ call'[i][k][j].req = call[i][k][j].req
    BY <2>1, <2>3, CallIsIncoming
  <2> QED
    BY <2>1, <2>2, <2>3, CallSteps
<1>5. \/ \E m \in late' : m.to = j /\ req = m.req
      \/ \E i \in Others(j) : req = Heartbeat(i)'
      \/ \E i \in Others(j) : \E k \in Kind :
              call'[i][k][j].phase = "sent" /\ req = call'[i][k][j].req
  BY DEF Incoming, Others
<1> QED
  BY <1>2, <1>3, <1>4, <1>5
-----------------------------------------------------------------------------
(* The terms in the logs.                                                     *)

\* A log whose terms never decrease and do not exceed t.
Ordered(s, t) ==
    \A n \in DOMAIN s : s[n].term <= t /\ (n > 1 => s[n - 1].term <= s[n].term)

\* Appending an entry of a term that its server knows.
LEMMA OrderedAppend ==
    ASSUME NEW s \in Seq(Entry), NEW t \in Nat, NEW e \in Entry, Ordered(s, t), e.term = t
    PROVE  Ordered(Append(s, e), t)
<1> DEFINE r == Append(s, e)
<1>1. /\ r \in Seq(Entry) /\ Len(r) = Len(s) + 1
      /\ \A n \in 1..Len(s) : r[n] = s[n]
      /\ r[Len(s) + 1] = e
  BY AppendEntry
<1>2. DOMAIN s = 1..Len(s) /\ DOMAIN r = 1..Len(r) /\ Len(s) \in Nat
  BY <1>1, LogFacts
<1>3. \A n \in 1..Len(s) : s[n].term <= t /\ (n > 1 => s[n - 1].term <= s[n].term)
  BY <1>2 DEF Ordered
<1> HIDE DEF r
<1>4. ASSUME NEW n \in 1..Len(r)
      PROVE  r[n].term <= t /\ (n > 1 => r[n - 1].term <= r[n].term)
  <2>1. CASE n \in 1..Len(s)
    BY <1>1, <1>2, <1>3, <2>1
  <2>2. CASE n = Len(s) + 1
    BY <1>1, <1>2, <1>3, <2>2
  <2> QED
    BY <1>1, <1>2, <2>1, <2>2
<1> QED
  BY <1>2, <1>4 DEF Ordered, r

\* Knowing a newer term.
LEMMA OrderedLater ==
    ASSUME NEW s \in Seq(Entry), NEW t \in Nat, NEW u \in Nat, Ordered(s, t), t <= u
    PROVE  Ordered(s, u)
<1>1. \A n \in DOMAIN s : s[n].term \in Nat
  BY LogFacts
<1> QED
  BY <1>1 DEF Ordered

\* Accepting an entry of a request in order.
LEMMA OrderedAfter ==
    ASSUME NEW j \in Server, NEW req \in Request, log[j] \in Seq(Entry), currentTerm[j] \in Nat,
           Ordered(log[j], currentTerm[j]), RequestInOrder(req),
           Accepts(j, req), ~ IsHeartbeat(req)
    PROVE  Ordered(LogAfter(j, req), req.term)
<1> DEFINE s == log[j]
           r == LogAfter(j, req)
           p == req.prevIndex
           e == req.entries[1]
<1>1. /\ req.term \in Nat /\ p \in Nat /\ req.prevTerm \in Nat
      /\ e \in Entry /\ e.term \in Nat
      /\ req.term >= currentTerm[j]
  BY RequestFacts DEF Accepts, Entry
<1>2. /\ e.term <= req.term
      /\ p > 0 => p \in 1..Len(s) /\ s[p].term <= e.term
  BY <1>1 DEF RequestInOrder, Accepts, HasPrevious
<1>3. CASE r = s
  BY <1>1, <1>3, OrderedLater
<1>4. CASE /\ Len(r) = p + 1
           /\ \A n \in 1..p : r[n] = s[n]
           /\ r[p + 1] = e
           /\ p \in 0..Len(s)
  <2>1. r \in Seq(Entry)
    BY LogAfterCases
  <2>2. /\ DOMAIN s = 1..Len(s) /\ DOMAIN r = 1..Len(r) /\ Len(s) \in Nat
        /\ \A n \in 1..Len(s) : s[n].term \in Nat
    BY <2>1, LogFacts
  <2>3. \A n \in 1..Len(s) : s[n].term <= currentTerm[j] /\ (n > 1 => s[n - 1].term <= s[n].term)
    BY <2>2 DEF Ordered
  <2> HIDE DEF r, s, e, p
  <2>4. ASSUME NEW n \in 1..Len(r)
        PROVE  r[n].term <= req.term /\ (n > 1 => r[n - 1].term <= r[n].term)
    <3>1. CASE n \in 1..p
      <4>1. /\ r[n] = s[n] /\ n \in 1..Len(s)
            /\ n > 1 => r[n - 1] = s[n - 1]
        BY <1>1, <1>4, <2>2, <3>1
      <4> QED
        BY <1>1, <2>2, <2>3, <4>1
    <3>2. CASE n = p + 1
      <4>1. r[n] = e /\ (n > 1 => n - 1 = p /\ p > 0 /\ r[n - 1] = s[p])
        BY <1>1, <1>4, <3>2
      <4> QED
        BY <1>2, <4>1
    <3> QED
      BY <1>1, <1>4, <3>1, <3>2
  <2> QED
    BY <2>2, <2>4 DEF Ordered, r
<1> QED
  BY <1>3, <1>4, LogAfterCases

\* A step keeps the logs in order if the requests are.
LEMMA LogsStayOrdered ==
    ASSUME TypeInv, Next, TermsInOrder, RequestsInOrder
    PROVE  TermsInOrder'
<1> SUFFICES ASSUME NEW h \in Server PROVE Ordered(log'[h], currentTerm'[h])
  BY DEF TermsInOrder, Ordered
<1>1. /\ log[h] \in Seq(Entry) /\ currentTerm[h] \in Nat /\ currentTerm'[h] \in Nat
      /\ currentTerm[h] <= currentTerm'[h]
      /\ Ordered(log[h], currentTerm[h])
  <2>1. TypeInv'
    BY NextTypeInv
  <2>2. currentTerm'[h] \in Nat
    BY <2>1 DEF TypeInv, TypeOK
  <2> QED
    BY <2>2, TermsGrow, Types DEF TermsInOrder, Ordered
<1>2. CASE log'[h] = log[h]
  BY <1>1, <1>2, OrderedLater
<1>3. CASE /\ AppendCommand(h) /\ loop[h] = "accepted"
           /\ log'[h] = Append(log[h], Received(h))
           /\ UNCHANGED currentTerm
  <2>1. Received(h) \in Entry /\ Received(h).term = currentTerm[h]
    BY <1>1, <1>3 DEF Received, Entry, TypeInv, TypeOK
  <2> QED
    BY <1>1, <1>3, <2>1, OrderedAppend
<1>4. CASE \E req \in Incoming(h) :
              /\ loop[h] = "free" /\ Accepts(h, req) /\ ~ IsHeartbeat(req)
              /\ log'[h] = LogAfter(h, req) /\ currentTerm'[h] = req.term
  <2>1. PICK req \in Incoming(h) :
              /\ Accepts(h, req) /\ ~ IsHeartbeat(req)
              /\ log'[h] = LogAfter(h, req) /\ currentTerm'[h] = req.term
    BY <1>4
  <2>2. req \in Request /\ RequestInOrder(req)
    BY IncomingFacts DEF RequestsInOrder
  <2> QED
    BY <1>1, <2>1, <2>2, OrderedAfter
<1> QED
  BY <1>2, <1>3, <1>4, LogSteps

\* A server sends what is in its log, or a new command in its own term.
LEMMA RequestsStayOrdered ==
    ASSUME TypeInv, Next, TermsInOrder, RequestsInOrder
    PROVE  RequestsInOrder'
<1> SUFFICES ASSUME NEW j \in Server, NEW req \in Incoming(j)', ~ IsHeartbeat(req)
             PROVE  RequestInOrder(req)
  BY DEF RequestsInOrder, RequestInOrder
<1>1. ASSUME NEW i \in Server, NEW n \in 1..Len(log[i]), NEW e \in Entry,
             e.term <= currentTerm[i],
             n > 1 => log[i][n - 1].term <= e.term,
             req = EntryRequest(i, n, e)
      PROVE  RequestInOrder(req)
  <2>1. /\ req.term = currentTerm[i] /\ req.prevIndex = n - 1
        /\ req.prevTerm = TermAt(log[i], n - 1) /\ req.entries[1] = e
    BY <1>1 DEF EntryRequest
  <2>2. Len(log[i]) \in Nat
    BY LogFacts, Types
  <2>3. req.prevIndex > 0 => n > 1 /\ req.prevTerm = log[i][n - 1].term
    BY <2>1, <2>2 DEF TermAt
  <2> QED
    BY <1>1, <2>1, <2>3 DEF RequestInOrder
<1>2. CASE req \in Incoming(j)
  BY <1>2 DEF RequestsInOrder
<1>3. ASSUME NEW i \in Others(j), SendEntry(i, j),
             req = EntryRequest(i, Len(log[i]), Received(i))
      PROVE  RequestInOrder(req)
  <2>1. i \in Server /\ loop[i] = "mutating"
    BY <1>3 DEF SendEntry, Others, TypeInv, CallsOnlyWhileMutating
  <2>2. log[i] # <<>> /\ serving[i] \in Command
    BY <2>1 DEF TypeInv, MutatingHasEntry, TypeOK
  <2>3. Len(log[i]) \in 1..Len(log[i]) /\ DOMAIN log[i] = 1..Len(log[i])
    BY <2>1, <2>2, LogFacts, Types
  <2>4. Received(i) \in Entry /\ Received(i).term = currentTerm[i] /\ currentTerm[i] \in Nat
    BY <2>1, <2>2, Types DEF Received, Entry
  <2>5. Len(log[i]) > 1 => log[i][Len(log[i]) - 1].term <= currentTerm[i]
    <3>1. Len(log[i]) > 1 => Len(log[i]) - 1 \in DOMAIN log[i]
      BY <2>3
    <3> QED
      BY <2>1, <3>1 DEF TermsInOrder
  <2> QED
    BY <1>1, <1>3, <2>1, <2>3, <2>4, <2>5
<1>4. ASSUME NEW i \in Others(j), NEW n \in 1..Len(log[i]),
             req = EntryRequest(i, n, log[i][n])
      PROVE  RequestInOrder(req)
  <2>1. i \in Server
    BY DEF Others
  <2>2. n \in DOMAIN log[i] /\ log[i][n] \in Entry
    BY <2>1, LogFacts, Types
  <2>3. /\ log[i][n].term <= currentTerm[i]
        /\ n > 1 => log[i][n - 1].term <= log[i][n].term
    BY <2>1, <2>2 DEF TermsInOrder
  <2> QED
    BY <1>1, <1>4, <2>1, <2>2, <2>3
<1> QED
  BY <1>2, <1>3, <1>4, RequestSteps

OrderInv == TypeInv /\ TermsInOrder /\ RequestsInOrder

LEMMA InitOrderInv == Init => OrderInv
<1> SUFFICES ASSUME Init PROVE OrderInv
  OBVIOUS
<1>1. TypeInv
  BY InitTypeInv
<1>2. TermsInOrder
  BY DEF Init
<1>3. RequestsInOrder
  <2>1. \A i, j \in Server : \A k \in Kind : call[i][k][j].phase # "sent"
    BY CallFacts DEF Init
  <2>2. \A j \in Server : \A req \in Incoming(j) : IsHeartbeat(req)
    BY <1>1, <2>1, IncomingFacts DEF Init, Others
  <2> QED
    BY <2>2 DEF RequestsInOrder, RequestInOrder
<1> QED
  BY <1>1, <1>2, <1>3 DEF OrderInv

LEMMA NextOrderInv == OrderInv /\ [Next]_vars => OrderInv'
<1> SUFFICES ASSUME OrderInv, [Next]_vars PROVE OrderInv'
  OBVIOUS
<1>1. TypeInv'
  BY NextTypeInv DEF OrderInv
<1>2. CASE Next
  BY <1>1, <1>2, LogsStayOrdered, RequestsStayOrdered DEF OrderInv
<1>3. CASE UNCHANGED vars
  <2> USE DEF vars, diskVars, commitVars, nodeVars
  <2>1. TermsInOrder'
    BY <1>3 DEF OrderInv, TermsInOrder
  <2>2. \A j \in Server : Incoming(j)' = Incoming(j)
    BY <1>3 DEF Incoming, Heartbeat, SendsHeartbeats, Alive
  <2>3. RequestsInOrder'
    BY <2>2 DEF OrderInv, RequestsInOrder
  <2> QED
    BY <1>1, <2>1, <2>3 DEF OrderInv
<1> QED
  BY <1>2, <1>3

(* In every log the terms are in order, and none exceeds its server's term,   *)
(* whoever has led, crashed, been deposed or sent requests late: the          *)
(* comparison of two logs by their last entries means what it is meant to.    *)
THEOREM LogsAreOrdered == Spec => []TermsInOrder
<1>1. Init => OrderInv
  BY InitOrderInv
<1>2. OrderInv /\ [Next]_vars => OrderInv'
  BY NextOrderInv
<1>3. OrderInv => TermsInOrder
  BY DEF OrderInv
<1> QED
  BY <1>1, <1>2, <1>3, PTL DEF Spec
===============================================================================
