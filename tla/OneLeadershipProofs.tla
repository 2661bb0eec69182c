-------------------------- MODULE OneLeadershipProofs --------------------------
(* What holds of replication in a cluster that starts afresh and elects one   *)
(* leader: of every size, with any number of candidates in its first term, of *)
(* commands and of late heartbeats, as long as no call breaks and no server   *)
(* crashes.  Then all logs follow the leader's, everything it appends is      *)
(* replicated everywhere before it appends more, and what servers run is what *)
(* the leader has appended.                                                   *)
EXTENDS ReplicationProofs

\* No call is lost, nobody crashes, and all start with nothing in the log.
StartsAfresh ==
    /\ Started = Server
    /\ InitLogs = {<<>>}
    /\ FaultKinds \subseteq {"delay"}
\* There is one term in which anybody campaigns.
OneTerm == MaxTerm = InitTerm + 1

\* Nobody has led yet, so that nobody has sent, appended or run anything.
NothingHappened ==
    /\ \A i \in Server :
          /\ serverState[i] = Follower
          /\ loop[i] \in {"free", "polling"}
          /\ log[i] = <<>> /\ db[i] = <<>>
          /\ commitIndex[i] = 0 /\ lastApplied[i] = 0
          /\ \A k \in Kind : \A j \in Server : call[i][k][j] = IdleCall
    /\ late = {} /\ sent = {}

\* Who has answered a candidate knows the term, and will not campaign in it.
AnsweredIsPast(i) ==
    loop[i] = "polling" =>
        /\ currentTerm[i] = MaxTerm /\ poll[i].term = MaxTerm
        /\ \A j \in Others(i) \ poll[i].pending :
              currentTerm[j] = MaxTerm /\ loop[j] # "polling"
Electing ==
    /\ NothingHappened
    /\ \A i \in Server : currentTerm[i] \in {InitTerm, MaxTerm} /\ AnsweredIsPast(i)

\* l is the leader, and the others do nothing but answer it.
Alone(l) ==
    /\ serverState[l] = Leader
    /\ loop[l] \in {"free", "accepted", "mutating"}
    /\ \A j \in Others(l) :
          /\ serverState[j] = Follower /\ loop[j] = "free"
          /\ \A k \in Kind : \A h \in Server : call[j][k][h] = IdleCall
    /\ \A i \in Server : currentTerm[i] = MaxTerm

\* What l has appended: the commands it was given, each once.
AppendsGiven(l) ==
    /\ \A n \in 1..Len(log[l]) : log[l][n].term = MaxTerm /\ log[l][n].data \in sent
    /\ \A m, n \in 1..Len(log[l]) : log[l][m].data = log[l][n].data => m = n
    /\ loop[l] = "accepted" => \A n \in 1..Len(log[l]) : log[l][n].data # serving[l]
    /\ loop[l] = "mutating" => Len(log[l]) > 0 /\ log[l][Len(log[l])].data = serving[l]

\* What j has of l's log, and nothing else.
Follows(l, j) ==
    /\ Len(log[j]) <= Len(log[l])
    /\ \A n \in 1..Len(log[j]) : log[j][n] = log[l][n]

\* req carries l's entry n.
Carries(l, req, n) ==
    /\ req.term = MaxTerm
    /\ n \in 1..Len(log[l])
    /\ req.prevIndex = n - 1
    /\ req.prevTerm = TermAt(log[l], n - 1)
    /\ req.entries = <<log[l][n]>>
    /\ req.commit <= commitIndex[l]

\* A command is with all servers when the leader takes the next one.
ClientCall(l, j) ==
    LET c == call[l]["client"][j] IN
    /\ loop[l] # "mutating" => Len(log[j]) = Len(log[l])
    /\ loop[l] = "mutating" =>
          /\ c.phase # "idle"
          /\ Len(log[j]) >= Len(log[l]) - 1
          /\ c.phase = "sent" => Carries(l, c.req, Len(log[l]))
          /\ c.phase \in {"answered", "done"} => c.ok /\ Len(log[j]) = Len(log[l])
          /\ c.phase = "answered" => c.term = MaxTerm

\* A background round brings each server the entry after those it has, or knows
\* that it has those that are committed.
SyncCall(l, j) ==
    LET c == call[l]["sync"][j]
        n == c.req.prevIndex + 1
    IN
    /\ c.phase = "sent" => Carries(l, c.req, n) /\ n <= Len(log[j]) + 1
    /\ c.phase = "answered" =>
          c.ok /\ c.term = MaxTerm /\ c.req.term = MaxTerm /\ n <= Len(log[j])
    /\ c.phase \in {"sent", "answered"} => commitIndex[l] <= n
    /\ c.phase = "done" => commitIndex[l] < nextIndex[l][j]

\* The leader's commit index is at most one ahead of what it knows j to have.
CommitsKnown(l, j) ==
    /\ nextIndex[l][j] <= Len(log[j]) + 1
    /\ commitIndex[l] <= nextIndex[l][j]

\* Late requests are heartbeats.
LateAreHeartbeats(l) ==
    \A m \in late : /\ m.to # l
                    /\ IsHeartbeat(m.req)
                    /\ m.req.term = MaxTerm /\ m.req.commit <= commitIndex[l]

\* A follower has run what it has committed, the leader what it has replicated.
FollowerRuns(l, j) ==
    /\ lastApplied[j] = commitIndex[j]
    /\ commitIndex[j] <= Len(log[j]) /\ commitIndex[j] <= commitIndex[l]
    /\ Len(db[j]) = commitIndex[j]
LeaderRuns(l) ==
    /\ commitIndex[l] <= Len(log[l])
    /\ Len(db[l]) = IF loop[l] = "mutating" THEN Len(log[l]) - 1 ELSE Len(log[l])
RunsLog(l, i) == \A n \in 1..Len(db[i]) : db[i][n] = log[l][n].data

Leads(l) ==
    /\ Alone(l)
    /\ AppendsGiven(l)
    /\ LateAreHeartbeats(l)
    /\ LeaderRuns(l)
    /\ \A j \in Others(l) :
          /\ Follows(l, j)
          /\ ClientCall(l, j)
          /\ SyncCall(l, j)
          /\ CommitsKnown(l, j)
          /\ FollowerRuns(l, j)
    /\ \A i \in Server : RunsLog(l, i)

LeadInv == TypeInv /\ (Electing \/ \E l \in Server : Leads(l))
-----------------------------------------------------------------------------
(* Types of what the invariant is about.                                      *)

LEMMA Lengths ==
    ASSUME TypeInv, NEW i \in Server
    PROVE  /\ log[i] \in Seq(Entry) /\ Len(log[i]) \in Nat
           /\ db[i] \in Seq(Command) /\ Len(db[i]) \in Nat
           /\ commitIndex[i] \in Nat /\ lastApplied[i] \in Nat
           /\ \A j \in Server : nextIndex[i][j] \in Nat \ {0}
           /\ \A k \in Kind : \A j \in Server :
                 call[i][k][j].req \in Request /\ call[i][k][j].req.prevIndex \in Nat
<1>1. /\ log[i] \in Seq(Entry) /\ db[i] \in Seq(Command)
      /\ commitIndex[i] \in Nat /\ lastApplied[i] \in Nat
      /\ \A j \in Server : nextIndex[i][j] \in Nat \ {0}
      /\ \A k \in Kind : \A j \in Server : call[i][k][j] \in Call
  BY DEF TypeInv, TypeOK
<1>2. \A k \in Kind : \A j \in Server : call[i][k][j].req \in Request
  BY <1>1 DEF Call
<1> QED
  BY <1>1, <1>2, LenProperties, RequestFacts

LEMMA TermFacts ==
    ASSUME OneTerm
    PROVE  InitTerm \in Nat /\ MaxTerm \in Nat /\ InitTerm < MaxTerm /\ Follower # Leader
BY InitAssumption, BoundAssumption DEF OneTerm, Follower, Leader

\* Calls do not break and nobody crashes.
LEMMA OnlyDelays ==
    ASSUME StartsAfresh
    PROVE  /\ ~ Fault("vote") /\ ~ Fault("crash")
           /\ \A k \in Kind : ~ Fault(k)
BY DEF StartsAfresh, Fault, Kind
-----------------------------------------------------------------------------
(* The election.                                                              *)

LEMMA InitLeadInv ==
    ASSUME StartsAfresh, Init
    PROVE  TypeInv /\ Electing
<1>1. TypeInv
  BY InitTypeInv
<1>2. /\ \A i \in Server : log[i] = <<>>
      /\ \A i \in Server : loop[i] = "free" /\ currentTerm[i] = InitTerm
  BY DEF Init, ForEachServer, StartsAfresh
<1>3. sent = {}
  <2>1. \A i \in Server : Commands(log[i]) = {}
    BY <1>2 DEF Commands
  <2> QED
    BY <2>1 DEF Init, ForEachServer
<1>4. NothingHappened
  BY <1>2, <1>3 DEF Init, ForEachServer, NothingHappened
<1> QED
  BY <1>1, <1>2, <1>4 DEF Electing, AnsweredIsPast

\* What can happen before anybody leads.
LEMMA StepsOfElection ==
    ASSUME StartsAfresh, OneTerm, TypeInv, Electing, Next
    PROVE  \/ \E i \in Server : Campaign(i) \/ FinishCampaign(i)
           \/ \E i \in Server : \E j \in Others(i) : HandleVote(i, j)
<1> Follower # Leader
  BY TermFacts
<1>1. /\ \A i \in Server :
            /\ serverState[i] # Leader /\ Alive(i)
            /\ loop[i] \notin {"accepted", "mutating"}
            /\ \A k \in Kind : \A j \in Server : call[i][k][j].phase = "idle"
      /\ late = {}
  BY CallFacts DEF Electing, NothingHappened, Alive
<1>2. "client" \in Kind /\ "sync" \in Kind
  BY DEF Kind
<1>3. \A i \in Server : Incoming(i) = {}
  BY <1>1 DEF Incoming, SendsHeartbeats, Others
<1>4. ASSUME NEW i \in Server, ServerNext(i) PROVE Campaign(i) \/ FinishCampaign(i)
  <2>1. /\ \A c \in Command : ~ AcceptCommand(i, c)
        /\ ~ AppendCommand(i) /\ ~ FinishCommand(i) /\ ~ BeginSync(i)
    BY <1>1 DEF AcceptCommand, AppendCommand, FinishCommand, BeginSync
  <2>2. ~ EndSync(i)
    BY <1>1, <1>2 DEF EndSync
  <2>3. ~ Crash(i) /\ ~ Restart(i)
    BY <1>1, OnlyDelays DEF Crash, Restart
  <2> QED
    BY <1>3, <1>4, <2>1, <2>2, <2>3 DEF ServerNext
<1>5. ASSUME NEW i \in Server, NEW j \in Others(i), PairNext(i, j) PROVE HandleVote(i, j)
  <2>0. j \in Server
    BY DEF Others
  <2>1. ~ LoseVote(i, j)
    <3>1. Asks(i, j) => poll[i].term = currentTerm[i]
      BY DEF Asks, Electing, AnsweredIsPast
    <3> QED
      BY <1>1, <2>0, <3>1, OnlyDelays DEF LoseVote
  <2>2. /\ ~ SendEntry(i, j) /\ ~ SkipEntry(i, j) /\ ~ ReceiveEntryReply(i, j)
        /\ ~ SendSync(i, j) /\ ~ SkipSync(i, j) /\ ~ ReceiveSyncReply(i, j)
    BY <1>1, <1>2, <2>0
    DEF SendEntry, SkipEntry, ReceiveEntryReply, SendSync, SkipSync, ReceiveSyncReply
  <2>3. ~ HandleHeartbeat(i, j) /\ ~ DelayHeartbeat(i, j)
    BY <1>1 DEF HandleHeartbeat, DelayHeartbeat, SendsHeartbeats
  <2>4. \A k \in Kind : /\ ~ HandleAppendEntries(i, k, j)
                        /\ ~ Refused(i, k, j) /\ ~ Break(i, k, j)
    BY <1>1, <2>0 DEF HandleAppendEntries, Refused, Break
  <2> QED
    BY <1>5, <2>1, <2>2, <2>3, <2>4 DEF PairNext
<1> QED
  BY <1>1, <1>4, <1>5 DEF Next

\* Who campaigns has not answered anybody yet, and who answers is not waiting.
LEMMA CampaignElects ==
    ASSUME OneTerm, TypeInv, Electing, NEW i \in Server, Campaign(i)
    PROVE  Electing'
<1> USE TermFacts DEF commitVars, leaderVars, clientVars
<1>1. /\ currentTerm \in [Server -> Nat] /\ loop \in [Server -> LoopState]
      /\ poll \in [Server -> Poll]
  BY Types
<1>2. currentTerm[i] = InitTerm /\ currentTerm[i] + 1 = MaxTerm
  BY DEF Campaign, Electing, OneTerm
<1>3. NothingHappened'
  BY <1>1 DEF Campaign, Electing, NothingHappened
<1>4. ASSUME NEW h \in Server
      PROVE  currentTerm'[h] \in {InitTerm, MaxTerm} /\ AnsweredIsPast(h)'
  <2>1. currentTerm'[h] \in {InitTerm, MaxTerm}
    BY <1>1, <1>2 DEF Campaign, Electing
  <2>2. CASE h = i
    <3>1. /\ currentTerm'[i] = MaxTerm /\ poll'[i].term = MaxTerm
          /\ poll'[i].pending = Others(i)
      BY <1>1, <1>2 DEF Campaign
    <3> QED
      BY <2>1, <2>2, <3>1 DEF AnsweredIsPast
  <2>3. CASE h # i
    <3>1. /\ loop'[h] = loop[h] /\ poll'[h] = poll[h] /\ currentTerm'[h] = currentTerm[h]
          /\ \A j \in Server : j # i => loop'[j] = loop[j] /\ currentTerm'[j] = currentTerm[j]
      BY <1>1, <2>3 DEF Campaign
    <3>2. AnsweredIsPast(h)
      BY DEF Electing
    <3>3. loop[h] = "polling" => i \notin Others(h) \ poll[h].pending
      BY <1>2, <3>2 DEF AnsweredIsPast
    <3> QED
      BY <2>1, <3>1, <3>2, <3>3 DEF AnsweredIsPast, Others
  <2> QED
    BY <2>2, <2>3
<1> QED
  BY <1>3, <1>4 DEF Electing

LEMMA VoteElects ==
    ASSUME OneTerm, TypeInv, Electing, NEW i \in Server, NEW j \in Others(i), HandleVote(i, j)
    PROVE  Electing'
<1> USE TermFacts DEF commitVars, leaderVars, clientVars
<1> j \in Server
  BY DEF Others
<1>1. /\ currentTerm \in [Server -> Nat] /\ loop \in [Server -> LoopState]
      /\ poll \in [Server -> Poll] /\ serverState \in [Server -> {Follower, Leader}]
  BY Types
<1>2. /\ loop[i] = "polling" /\ loop[j] = "free"
      /\ currentTerm[i] = MaxTerm /\ poll[i].term = MaxTerm
      /\ currentTerm[j] \in {InitTerm, MaxTerm}
  BY DEF HandleVote, Asks, Electing, AnsweredIsPast
<1>3. Larger(currentTerm[j], poll[i].term) = MaxTerm
  BY <1>2 DEF Larger
<1>4. StepDownIfStale(j, MaxTerm)
  BY <1>2, <1>3 DEF HandleVote
<1>5. /\ currentTerm' = [currentTerm EXCEPT ![j] = MaxTerm]
      /\ \A h \in Server : serverState[h] = Follower => serverState'[h] = Follower
  BY <1>1, <1>2, <1>4 DEF StepDownIfStale
<1>6. UNCHANGED <<loop, log, db, commitIndex, lastApplied, call, late, sent>>
  BY DEF HandleVote
<1>7. NothingHappened'
  BY <1>5, <1>6 DEF Electing, NothingHappened
<1>8. \A h \in Server : /\ poll'[h].term = poll[h].term
                        /\ poll'[h].pending = IF h = i THEN poll[h].pending \ {j}
                                              ELSE poll[h].pending
  <2> DEFINE asked == [poll EXCEPT ![i].pending = @ \ {j}]
             count == CountAfter(i, MaxTerm) + (IF Grants(i, j) THEN 1 ELSE 0)
  <2>1. poll' = [asked EXCEPT ![i].count = count]
    BY <1>3 DEF HandleVote
  <2>2. /\ asked \in [Server -> Poll]
        /\ \A h \in Server : /\ asked[h].term = poll[h].term
                             /\ asked[h].pending = IF h = i THEN poll[h].pending \ {j}
                                                   ELSE poll[h].pending
    <3> DEFINE p == [poll[i] EXCEPT !.pending = @ \ {j}]
    <3>1. p \in Poll /\ p.term = poll[i].term /\ p.pending = poll[i].pending \ {j}
      BY <1>1 DEF Poll
    <3>2. asked = [poll EXCEPT ![i] = p]
      OBVIOUS
    <3> HIDE DEF p, asked
    <3> QED
      BY <1>1, <3>1, <3>2
  <2> HIDE DEF asked, count
  <2>3. \A h \in Server : poll'[h].term = asked[h].term /\ poll'[h].pending = asked[h].pending
    BY <2>1, <2>2 DEF Poll
  <2> QED
    BY <2>2, <2>3
<1>9. ASSUME NEW h \in Server
      PROVE  currentTerm'[h] \in {InitTerm, MaxTerm} /\ AnsweredIsPast(h)'
  <2>1. currentTerm'[h] \in {InitTerm, MaxTerm}
    BY <1>1, <1>5 DEF Electing
  <2>2. \A g \in Server : currentTerm[g] = MaxTerm => currentTerm'[g] = MaxTerm
    BY <1>1, <1>5
  <2>3. AnsweredIsPast(h)
    BY DEF Electing
  <2>4. currentTerm'[j] = MaxTerm /\ loop'[j] # "polling"
    BY <1>1, <1>2, <1>5, <1>6
  <2> QED
    BY <1>6, <1>8, <2>1, <2>2, <2>3, <2>4 DEF AnsweredIsPast, Others
<1> QED
  BY <1>7, <1>9 DEF Electing

\* Everybody has answered who wins, so it leads alone in everybody's term.
LEMMA FinishElects ==
    ASSUME OneTerm, TypeInv, Electing, NEW i \in Server, FinishCampaign(i)
    PROVE  Electing' \/ Leads(i)'
<1> USE TermFacts DEF commitVars, leaderVars, clientVars, diskVars
<1>1. /\ currentTerm \in [Server -> Nat] /\ loop \in [Server -> LoopState]
      /\ poll \in [Server -> Poll] /\ serverState \in [Server -> {Follower, Leader}]
      /\ nextIndex \in [Server -> [Server -> Nat \ {0}]]
  BY Types
<1>2. /\ loop[i] = "polling" /\ poll[i].pending = {}
      /\ loop' = [loop EXCEPT ![i] = "free"]
      /\ poll' = [poll EXCEPT ![i] = NoPoll]
      /\ UNCHANGED <<currentTerm, log, db, commitIndex, lastApplied, call, late, sent, serving>>
  BY DEF FinishCampaign
<1>3. \A h \in Server : /\ serverState[h] = Follower /\ loop[h] \in {"free", "polling"}
                        /\ log[h] = <<>> /\ db[h] = <<>>
                        /\ commitIndex[h] = 0 /\ lastApplied[h] = 0
                        /\ \A k \in Kind : \A j \in Server : call[h][k][j] = IdleCall
  BY DEF Electing, NothingHappened
<1>4. late = {} /\ sent = {}
  BY DEF Electing, NothingHappened
<1>5. CASE ~ poll[i].count >= QuorumSize
  <2>1. UNCHANGED serverState
    BY <1>5 DEF FinishCampaign
  <2>2. NothingHappened'
    BY <1>1, <1>2, <1>3, <1>4, <2>1 DEF NothingHappened
  <2>3. ASSUME NEW h \in Server PROVE AnsweredIsPast(h)'
    <3>1. AnsweredIsPast(h)
      BY DEF Electing
    <3>2. loop'[h] = "polling" => loop[h] = "polling" /\ poll'[h] = poll[h]
      BY <1>1, <1>2
    <3>3. \A j \in Server : loop[j] # "polling" => loop'[j] # "polling"
      BY <1>1, <1>2
    <3> QED
      BY <1>2, <3>1, <3>2, <3>3 DEF AnsweredIsPast, Others
  <2> QED
    BY <1>2, <2>2, <2>3 DEF Electing
<1>6. CASE poll[i].count >= QuorumSize
  <2>1. /\ serverState' = [serverState EXCEPT ![i] = Leader]
        /\ nextIndex' = [nextIndex EXCEPT ![i] = ForEachServer(Len(log[i]) + 1)]
    BY <1>6 DEF FinishCampaign, ReinitVolatileLeaderState
  <2>2. /\ currentTerm[i] = MaxTerm
        /\ \A j \in Others(i) : currentTerm[j] = MaxTerm /\ loop[j] = "free"
    BY <1>2, <1>3 DEF Electing, AnsweredIsPast, Others
  <2>3. Alone(i)'
    BY <1>1, <1>2, <1>3, <2>1, <2>2 DEF Alone, Others
  <2>4. \A h \in Server : Len(log'[h]) = 0 /\ Len(db'[h]) = 0
    BY <1>2, <1>3, EmptySeq
  <2>5. loop'[i] = "free"
    BY <1>1, <1>2
  <2>6. AppendsGiven(i)' /\ LateAreHeartbeats(i)' /\ LeaderRuns(i)'
    BY <1>2, <1>3, <1>4, <2>4, <2>5
    DEF AppendsGiven, LateAreHeartbeats, LeaderRuns
  <2>7. \A h \in Server : RunsLog(i, h)'
    BY <2>4 DEF RunsLog
  <2>8. ASSUME NEW j \in Others(i)
        PROVE  /\ Follows(i, j)' /\ ClientCall(i, j)' /\ SyncCall(i, j)'
               /\ CommitsKnown(i, j)' /\ FollowerRuns(i, j)'
    <3> j \in Server /\ "client" \in Kind /\ "sync" \in Kind
      BY DEF Others, Kind
    <3>1. Follows(i, j)' /\ FollowerRuns(i, j)'
      BY <1>2, <1>3, <2>4 DEF Follows, FollowerRuns
    <3>2. ClientCall(i, j)'
      BY <2>4, <2>5 DEF ClientCall
    <3>3. SyncCall(i, j)'
      BY <1>2, <1>3, CallFacts DEF SyncCall
    <3>4. nextIndex'[i][j] = 1
      BY <1>1, <1>3, <2>1, EmptySeq DEF ForEachServer
    <3>5. CommitsKnown(i, j)'
      BY <1>2, <1>3, <2>4, <3>4 DEF CommitsKnown
    <3> QED
      BY <3>1, <3>2, <3>3, <3>5
  <2> QED
    BY <2>3, <2>6, <2>7, <2>8 DEF Leads
<1> QED
  BY <1>5, <1>6
-----------------------------------------------------------------------------
(* What a follower is sent, and what it makes of it.                          *)

\* A request of the leader: a heartbeat, or an entry that extends or repeats
\* j's log and comes no earlier than what is committed.
Expected(l, j, req) ==
    /\ req.term = MaxTerm /\ req.commit <= commitIndex[l]
    /\ ~ IsHeartbeat(req) =>
          /\ Carries(l, req, req.prevIndex + 1)
          /\ req.prevIndex <= Len(log[j])
          /\ commitIndex[l] <= req.prevIndex + 1

LEMMA SentIsExpected ==
    ASSUME OneTerm, TypeInv, NEW l \in Server, Leads(l), NEW j \in Others(l), NEW k \in Kind,
           call[l][k][j].phase = "sent"
    PROVE  /\ Expected(l, j, call[l][k][j].req)
           /\ ~ IsHeartbeat(call[l][k][j].req)
           /\ k = "client" => call[l][k][j].req.prevIndex + 1 = Len(log[l])
<1> DEFINE req == call[l][k][j].req
<1> j \in Server
  BY DEF Others
<1>1. /\ Len(log[l]) \in Nat /\ Len(log[j]) \in Nat /\ req \in Request
      /\ req.prevIndex \in Nat /\ commitIndex[l] \in Nat
  BY Lengths
<1>2. CASE k = "client"
  <2>1. loop[l] = "mutating"
    BY <1>2 DEF TypeInv, CallsOnlyWhileMutating
  <2>2. Carries(l, req, Len(log[l])) /\ Len(log[j]) >= Len(log[l]) - 1
    BY <1>2, <2>1 DEF Leads, ClientCall
  <2>3. req.prevIndex + 1 = Len(log[l]) /\ commitIndex[l] <= Len(log[l])
    BY <1>1, <2>2 DEF Carries, Leads, LeaderRuns
  <2> QED
    BY <1>1, <2>2, <2>3 DEF Carries, Expected, IsHeartbeat
<1>3. CASE k = "sync"
  <2>1. /\ Carries(l, req, req.prevIndex + 1) /\ req.prevIndex + 1 <= Len(log[j]) + 1
        /\ commitIndex[l] <= req.prevIndex + 1
    BY <1>3 DEF Leads, SyncCall
  <2> QED
    BY <1>1, <1>3, <2>1 DEF Carries, Expected, IsHeartbeat
<1> QED
  BY <1>2, <1>3 DEF Kind

LEMMA HeartbeatIsExpected ==
    ASSUME TypeInv, NEW l \in Server, Leads(l), NEW j \in Others(l)
    PROVE  Expected(l, j, Heartbeat(l)) /\ Heartbeat(l) \in Request
<1>1. Heartbeat(l) \in Request
  BY InTransit
<1>2. currentTerm[l] = MaxTerm /\ commitIndex[l] \in Nat
  BY Lengths DEF Leads, Alone
<1> QED
  BY <1>1, <1>2 DEF Expected, Heartbeat, NoRequest, IsHeartbeat

LEMMA LateIsExpected ==
    ASSUME TypeInv, NEW l \in Server, Leads(l), NEW m \in late
    PROVE  m.to \in Others(l) /\ m.req \in Request /\ Expected(l, m.to, m.req)
BY Types DEF Leads, LateAreHeartbeats, Expected, Others

\* Nobody sends anything to the leader, and the others get what is expected.
LEMMA IncomingIsExpected ==
    ASSUME OneTerm, TypeInv, NEW l \in Server, Leads(l), NEW j \in Server, NEW req \in Incoming(j)
    PROVE  j \in Others(l) /\ req \in Request /\ Expected(l, j, req)
<1>1. \A i \in Others(l) : /\ ~ SendsHeartbeats(i)
                           /\ \A k \in Kind : call[i][k][j].phase # "sent"
  BY TermFacts, CallFacts DEF Leads, Alone, SendsHeartbeats
<1>2. req \in Request
  BY IncomingFacts
<1>3. \/ \E m \in late : m.to = j /\ req = m.req
      \/ l # j /\ req = Heartbeat(l)
      \/ l # j /\ \E k \in Kind : call[l][k][j].phase = "sent" /\ req = call[l][k][j].req
  BY <1>1 DEF Incoming, Others
<1> QED
  BY <1>2, <1>3, LateIsExpected, HeartbeatIsExpected, SentIsExpected DEF Others

\* No request makes a follower's commit index go back.
LEMMA ExpectedNeverPanics ==
    ASSUME TypeInv, NEW l \in Server, Leads(l), NEW j \in Others(l), NEW req \in Request,
           Expected(l, j, req)
    PROVE  ~ Panics(j, req)
<1> j \in Server
  BY DEF Others
<1>1. /\ commitIndex[j] \in Nat /\ commitIndex[l] \in Nat /\ Len(log[j]) \in Nat
      /\ req.prevIndex \in Nat /\ req.commit \in Nat
      /\ commitIndex[j] <= Len(log[j]) /\ commitIndex[j] <= commitIndex[l]
  BY Lengths, RequestFacts DEF Leads, FollowerRuns
<1> QED
  BY <1>1 DEF Panics, CommitsUpTo, CommitTarget, Lesser, Expected

\* It accepts every request, and keeps or extends its log.
LEMMA ExpectedIsAccepted ==
    ASSUME TypeInv, NEW l \in Server, Leads(l), NEW j \in Others(l), NEW req \in Request,
           Expected(l, j, req)
    PROVE  /\ Accepts(j, req)
           /\ LogAfter(j, req) \in Seq(Entry)
           /\ Len(log[j]) <= Len(LogAfter(j, req)) /\ Len(LogAfter(j, req)) <= Len(log[l])
           /\ \A n \in 1..Len(LogAfter(j, req)) : LogAfter(j, req)[n] = log[l][n]
           /\ ~ IsHeartbeat(req) => req.prevIndex + 1 <= Len(LogAfter(j, req))
<1> DEFINE n == req.prevIndex + 1
<1> j \in Server
  BY DEF Others
<1>1. /\ log[j] \in Seq(Entry) /\ Len(log[j]) \in Nat
      /\ log[l] \in Seq(Entry) /\ Len(log[l]) \in Nat /\ req.prevIndex \in Nat
  BY Lengths, RequestFacts
<1>2. /\ currentTerm[j] = MaxTerm /\ req.term = MaxTerm
      /\ Len(log[j]) <= Len(log[l])
      /\ \A m \in 1..Len(log[j]) : log[j][m] = log[l][m]
  BY DEF Leads, Alone, Follows, Expected
<1>3. MaxTerm >= MaxTerm
  BY BoundAssumption
<1>4. CASE IsHeartbeat(req)
  <2>1. LogAfter(j, req) = log[j]
    BY <1>4 DEF LogAfter
  <2> QED
    BY <1>1, <1>2, <1>3, <1>4, <2>1 DEF Accepts
<1>5. CASE ~ IsHeartbeat(req)
  <2>1. /\ n \in 1..Len(log[l]) /\ req.prevIndex <= Len(log[j])
        /\ req.prevTerm = TermAt(log[l], n - 1) /\ req.entries[1] = log[l][n]
    BY <1>5 DEF Expected, Carries
  <2>2. HasPrevious(j, req)
    BY <1>1, <1>2, <2>1 DEF HasPrevious, TermAt
  <2>3. Accepts(j, req)
    BY <1>2, <1>3, <2>2 DEF Accepts
  <2>4. CASE n <= Len(log[j])
    <3>1. log[j][n].term = req.entries[1].term
      BY <1>2, <2>1, <2>4
    <3>2. LogAfter(j, req) = log[j]
      BY <1>5, <2>3, <2>4, <3>1 DEF LogAfter
    <3> QED
      BY <1>1, <1>2, <2>3, <2>4, <3>2
  <2>5. CASE ~ n <= Len(log[j])
    <3>1. req.prevIndex = Len(log[j]) /\ n = Len(log[j]) + 1
      BY <1>1, <2>1, <2>5
    <3>2. LogAfter(j, req) = Append(SubSeq(log[j], 1, req.prevIndex), req.entries[1])
      BY <1>1, <1>5, <2>3, <2>5 DEF LogAfter
    <3>3. req.prevIndex \in 0..Len(log[j]) /\ req.entries[1] \in Entry
      BY <1>1, <1>5, <3>1, RequestFacts
    <3>4. /\ LogAfter(j, req) \in Seq(Entry)
          /\ Len(LogAfter(j, req)) = req.prevIndex + 1
          /\ \A m \in 1..req.prevIndex : LogAfter(j, req)[m] = log[j][m]
          /\ LogAfter(j, req)[req.prevIndex + 1] = req.entries[1]
      BY <1>1, <3>2, <3>3, CutAndAppend
    <3> QED
      BY <1>1, <1>2, <2>1, <2>3, <3>1, <3>4
  <2> QED
    BY <2>4, <2>5
<1> QED
  BY <1>4, <1>5

\* s is what the first upTo entries of l's log say, and goes on where j has stopped.
GoesOn(l, j, s, upTo) ==
    /\ s \in Seq(Command)
    /\ Len(s) = upTo
    /\ \A n \in 1..Len(s) : s[n] = log[l][n].data
    /\ \A n \in 1..Len(db[j]) : s[n] = db[j][n]

\* What a follower runs when it learns of a commit: the next of what the leader
\* has appended.
LEMMA RunsNext ==
    ASSUME TypeInv, NEW l \in Server, Leads(l), NEW j \in Others(l), NEW target \in Nat,
           log'[j] \in Seq(Entry), Follows(l, j)', log'[l] = log[l],
           commitIndex[j] <= target, target <= Len(log'[j]),
           NEW new, new = db[j] \o ToApply(j, target)
    PROVE  GoesOn(l, j, new, target)
<1> DEFINE run == ToApply(j, target)
           c == commitIndex[j]
<1> j \in Server
  BY DEF Others
<1>0. /\ Len(log'[j]) <= Len(log[l])
      /\ \A n \in 1..Len(log'[j]) : log'[j][n] = log[l][n]
  BY DEF Follows
<1>1. /\ c \in Nat /\ lastApplied[j] = c /\ Len(db[j]) = c /\ db[j] \in Seq(Command)
      /\ \A n \in 1..c : db[j][n] = log[l][n].data
      /\ Len(log'[j]) \in Nat
  BY Lengths, LenProperties DEF Leads, FollowerRuns, RunsLog
<1>2. run \in Seq(Command)
  BY <1>1, ToApplyType
<1>3. Len(run) = target - c /\ \A n \in 1..(target - c) : run[n] = log[l][c + n].data
  <2>1. CASE target > c
    <3> DEFINE f == [n \in 1..(target - c) |-> log'[j][c + n].data]
    <3>1. run = f
      BY <1>1, <2>1 DEF ToApply
    <3>2. \A n \in 1..(target - c) : c + n \in 1..Len(log'[j])
      BY <1>0, <1>1
    <3>3. \A n \in 1..(target - c) : f[n] = log[l][c + n].data
      BY <1>0, <3>2
    <3>4. Len(run) \in Nat /\ DOMAIN run = 1..Len(run)
      BY <1>2, LenProperties
    <3>5. DOMAIN f = 1..(target - c)
      OBVIOUS
    <3>6. target - c \in Nat
      BY <1>1, <2>1
    <3> HIDE DEF f
    <3>7. Len(run) = target - c
      BY <3>1, <3>4, <3>5, <3>6
    <3> QED
      BY <3>1, <3>3, <3>7
  <2>2. CASE ~ target > c
    <3>1. target = c /\ run = <<>>
      BY <1>1, <2>2 DEF ToApply
    <3> QED
      BY <1>1, <3>1, EmptySeq
  <2> QED
    BY <2>1, <2>2
<1> HIDE DEF run
<1>4. /\ db[j] \o run \in Seq(Command) /\ Len(db[j] \o run) = Len(db[j]) + Len(run)
      /\ \A i \in 1..Len(db[j]) + Len(run) :
            (db[j] \o run)[i] = IF i <= Len(db[j]) THEN db[j][i] ELSE run[i - Len(db[j])]
  <2>1. db[j] \in Seq(Command)
    BY <1>1
  <2> QED
    BY ONLY <1>2, <2>1, ConcatProperties
<1>5. new = db[j] \o run
  BY DEF run
<1> HIDE DEF c
<1>6. Len(new) = target
  BY <1>1, <1>3, <1>4, <1>5
<1>7. \A n \in 1..Len(db[j]) : new[n] = db[j][n]
  BY <1>1, <1>3, <1>4, <1>5
<1>8. ASSUME NEW n \in 1..target PROVE new[n] = log[l][n].data
  <2>1. n \in Nat /\ n \in 1..Len(db[j]) + Len(run)
    BY <1>1, <1>3
  <2>2. CASE n <= c
    BY <1>1, <1>7, <2>1, <2>2
  <2>3. CASE ~ n <= c
    <3>1. n - c \in 1..(target - c) /\ c + (n - c) = n /\ ~ n <= Len(db[j])
      BY <1>1, <2>1, <2>3
    <3>2. new[n] = run[n - c]
      BY <1>1, <1>4, <1>5, <2>1, <3>1
    <3>3. run[n - c] = log[l][c + (n - c)].data
      BY <1>3, <3>1
    <3> QED
      BY <3>1, <3>2, <3>3
  <2> QED
    BY <2>2, <2>3
<1> QED
  BY <1>4, <1>5, <1>6, <1>7, <1>8 DEF GoesOn, run
-----------------------------------------------------------------------------
(* What is left of the invariant when one server has taken a step.            *)

\* A log that is only continued still has what a request carries.
LEMMA CarriesStays ==
    ASSUME NEW l \in Server, NEW req \in Request, NEW n \in Nat, Carries(l, req, n),
           Len(log[l]) \in Nat, Len(log'[l]) \in Nat, Len(log[l]) <= Len(log'[l]),
           \A m \in 1..Len(log[l]) : log'[l][m] = log[l][m],
           commitIndex[l] \in Nat, commitIndex'[l] \in Nat, commitIndex[l] <= commitIndex'[l]
    PROVE  Carries(l, req, n)'
<1>1. /\ req.term = MaxTerm /\ n \in 1..Len(log[l]) /\ req.prevIndex = n - 1
      /\ req.prevTerm = TermAt(log[l], n - 1) /\ req.entries = <<log[l][n]>>
      /\ req.commit <= commitIndex[l]
  BY DEF Carries
<1> req.commit \in Nat
  BY RequestFacts
<1>2. n \in 1..Len(log'[l]) /\ log'[l][n] = log[l][n] /\ req.commit <= commitIndex'[l]
  BY <1>1
<1>3. TermAt(log'[l], n - 1) = TermAt(log[l], n - 1)
  <2>1. n - 1 # 0 => n - 1 \in 1..Len(log[l])
    BY <1>1
  <2> QED
    BY <2>1 DEF TermAt
<1> QED
  BY <1>1, <1>2, <1>3 DEF Carries

\* Calls to a follower that has got more of the log.
LEMMA CallsStay ==
    ASSUME TypeInv, TypeInv', NEW l \in Server, Leads(l), NEW j \in Others(l),
           log'[l] = log[l], commitIndex'[l] = commitIndex[l], loop'[l] = loop[l],
           Len(log[j]) <= Len(log'[j]), Len(log'[j]) <= Len(log[l]),
           nextIndex'[l][j] = nextIndex[l][j]
    PROVE  /\ call'[l]["client"][j] = call[l]["client"][j] => ClientCall(l, j)'
           /\ call'[l]["sync"][j] = call[l]["sync"][j] => SyncCall(l, j)'
           /\ CommitsKnown(l, j)'
<1> j \in Server /\ "client" \in Kind /\ "sync" \in Kind
  BY DEF Others, Kind
<1>1. /\ Len(log[l]) \in Nat /\ Len(log[j]) \in Nat /\ Len(log'[j]) \in Nat
      /\ commitIndex[l] \in Nat /\ nextIndex[l][j] \in Nat
      /\ \A k \in Kind : call[l][k][j].req \in Request /\ call[l][k][j].req.prevIndex \in Nat
  BY Lengths, LogFacts DEF TypeInv, TypeOK
<1>2. \A req \in Request : \A n \in Nat : Carries(l, req, n) => Carries(l, req, n)'
  BY <1>1 DEF Carries
<1>3. ASSUME call'[l]["client"][j] = call[l]["client"][j] PROVE ClientCall(l, j)'
  <2>1. ClientCall(l, j)
    BY DEF Leads
  <2> QED
    BY <1>1, <1>2, <1>3, <2>1 DEF ClientCall
<1>4. ASSUME call'[l]["sync"][j] = call[l]["sync"][j] PROVE SyncCall(l, j)'
  <2>1. SyncCall(l, j)
    BY DEF Leads
  <2>2. PICK c : c = call[l]["sync"][j]
    OBVIOUS
  <2>3. PICK n \in Nat : n = c.req.prevIndex + 1
    BY <1>1, <2>2
  <2>4. c.phase = "sent" => Carries(l, c.req, n) /\ Carries(l, c.req, n)'
    BY <1>1, <1>2, <2>1, <2>2, <2>3 DEF SyncCall
  <2> QED
    BY <1>1, <1>4, <2>1, <2>2, <2>3, <2>4 DEF SyncCall
<1>5. CommitsKnown(l, j)'
  BY <1>1 DEF CommitsKnown, Leads
<1> QED
  BY <1>3, <1>4, <1>5

\* A step that concerns the leader and one follower.
LEMMA OnePair ==
    ASSUME TypeInv, TypeInv', NEW l \in Server, Leads(l), NEW j \in Others(l),
           UNCHANGED <<currentTerm, serverState, loop, serving, sent>>,
           \A h \in Server \ {j} :
              /\ log'[h] = log[h] /\ db'[h] = db[h]
              /\ commitIndex'[h] = commitIndex[h] /\ lastApplied'[h] = lastApplied[h]
              /\ nextIndex'[l][h] = nextIndex[l][h],
           \A h, g \in Server : \A k \in Kind :
              h # l \/ g # j => call'[h][k][g] = call[h][k][g],
           late' \subseteq late,
           Follows(l, j)', ClientCall(l, j)', SyncCall(l, j)', CommitsKnown(l, j)',
           FollowerRuns(l, j)', RunsLog(l, j)'
    PROVE  Leads(l)'
<1> j \in Server /\ l \in Server \ {j} /\ "client" \in Kind /\ "sync" \in Kind
  BY DEF Others, Kind
<1>1. Alone(l)'
  BY DEF Leads, Alone, Others
<1>2. AppendsGiven(l)'
  BY DEF Leads, AppendsGiven
<1>3. LateAreHeartbeats(l)'
  BY DEF Leads, LateAreHeartbeats
<1>4. LeaderRuns(l)'
  BY DEF Leads, LeaderRuns
<1>5. ASSUME NEW h \in Others(l), h # j
      PROVE  /\ Follows(l, h)' /\ ClientCall(l, h)' /\ SyncCall(l, h)'
             /\ CommitsKnown(l, h)' /\ FollowerRuns(l, h)'
  <2>1. h \in Server \ {j} /\ h \in Server /\ Len(log[h]) \in Nat
    BY <1>5, Lengths DEF Others
  <2>2. Follows(l, h)' /\ FollowerRuns(l, h)' /\ Len(log[h]) <= Len(log[l])
    BY <2>1 DEF Leads, Follows, FollowerRuns
  <2>3. \A k \in Kind : call'[l][k][h] = call[l][k][h]
    BY <1>5, <2>1
  <2> QED
    BY <2>1, <2>2, <2>3, CallsStay
<1>6. \A h \in Server \ {j} : RunsLog(l, h)'
  BY DEF Leads, RunsLog
<1> QED
  BY <1>1, <1>2, <1>3, <1>4, <1>5, <1>6 DEF Leads
-----------------------------------------------------------------------------
(* A follower takes a request.                                                *)

LEMMA ReceivesNext ==
    ASSUME OneTerm, TypeInv, NEW l \in Server, Leads(l), NEW j \in Others(l), NEW req \in Request,
           Expected(l, j, req), Receive(j, req)
    PROVE  /\ Accepts(j, req) /\ currentTerm'[j] = MaxTerm
           /\ UNCHANGED <<currentTerm, serverState, loop, serving, nextIndex, sent, acked>>
           /\ \A h \in Server \ {j} :
                 /\ log'[h] = log[h] /\ db'[h] = db[h]
                 /\ commitIndex'[h] = commitIndex[h] /\ lastApplied'[h] = lastApplied[h]
           /\ Len(log[j]) <= Len(log'[j]) /\ Len(log'[j]) <= Len(log[l])
           /\ ~ IsHeartbeat(req) => req.prevIndex + 1 <= Len(log'[j])
           /\ Follows(l, j)' /\ FollowerRuns(l, j)' /\ RunsLog(l, j)'
           /\ Len(db[j]) <= Len(db'[j]) /\ \A n \in 1..Len(db[j]) : db'[j][n] = db[j][n]
<1> USE DEF leaderVars, clientVars, commitVars
<1> j \in Server /\ l # j
  BY DEF Others
<1>1. /\ log \in [Server -> Seq(Entry)] /\ db \in [Server -> Seq(Command)]
      /\ commitIndex \in [Server -> Nat] /\ lastApplied \in [Server -> Nat]
  BY DEF TypeInv, TypeOK
<1>2. /\ Len(log[l]) \in Nat /\ Len(log[j]) \in Nat
      /\ commitIndex[j] \in Nat /\ commitIndex[l] \in Nat /\ Len(db[j]) \in Nat
      /\ req.commit \in Nat /\ req.prevIndex \in Nat
  BY Lengths, RequestFacts
<1>3. /\ currentTerm[j] = MaxTerm /\ req.term = MaxTerm /\ req.commit <= commitIndex[l]
      /\ commitIndex[j] <= Len(log[j]) /\ commitIndex[j] <= commitIndex[l]
      /\ lastApplied[j] = commitIndex[j] /\ Len(db[j]) = commitIndex[j]
      /\ RunsLog(l, j)
  BY DEF Leads, Alone, FollowerRuns, Expected
<1>4. UNCHANGED <<currentTerm, serverState>>
  <2>1. ~ MaxTerm > MaxTerm
    BY BoundAssumption
  <2> QED
    BY <1>3, <2>1 DEF Receive, StepDownIfStale
<1>5. /\ log' = [log EXCEPT ![j] = LogAfter(j, req)]
      /\ UNCHANGED <<loop, serving, nextIndex, sent, acked>>
  BY DEF Receive
<1>6. /\ Accepts(j, req)
      /\ LogAfter(j, req) \in Seq(Entry)
      /\ Len(log[j]) <= Len(LogAfter(j, req)) /\ Len(LogAfter(j, req)) <= Len(log[l])
      /\ \A n \in 1..Len(LogAfter(j, req)) : LogAfter(j, req)[n] = log[l][n]
      /\ ~ IsHeartbeat(req) => req.prevIndex + 1 <= Len(LogAfter(j, req))
  BY ExpectedIsAccepted
<1>7. log'[j] = LogAfter(j, req) /\ \A h \in Server \ {j} : log'[h] = log[h]
  BY <1>1, <1>5
<1>8. Len(log'[j]) \in Nat
  BY <1>6, <1>7, LenProperties
<1>9. Follows(l, j)'
  BY <1>6, <1>7 DEF Follows
<1>10. CASE CommitsUpTo(j, req)
  <2>0. PICK target \in Nat : /\ target = CommitTarget(j, req)
                              /\ commitIndex[j] <= target /\ target <= req.commit
    BY <1>1, <1>2, <1>7, <1>10, CommitTargetFacts DEF Receive
  <2>1. target <= Len(log'[j])
    BY <1>1, <1>2, <1>7, <1>10, <2>0, CommitTargetFacts DEF Receive
  <2> PICK new : new = db[j] \o ToApply(j, target)
    OBVIOUS
  <2>2. /\ db' = [db EXCEPT ![j] = new]
        /\ lastApplied' = [lastApplied EXCEPT ![j] = target]
        /\ commitIndex' = [commitIndex EXCEPT ![j] = target]
    BY <1>10, <2>0 DEF Receive, MoveCommitIndexTo
  <2>3. /\ new \in Seq(Command) /\ Len(new) = target
        /\ \A n \in 1..Len(new) : new[n] = log[l][n].data
        /\ \A n \in 1..Len(db[j]) : new[n] = db[j][n]
    <3>1. log'[j] \in Seq(Entry) /\ log'[l] = log[l]
      BY <1>6, <1>7
    <3>2. commitIndex[j] <= target
      BY <2>0
    <3>3. GoesOn(l, j, new, target)
      BY <1>9, <2>1, <3>1, <3>2, RunsNext
    <3> QED
      BY <3>3 DEF GoesOn
  <2>4. /\ db'[j] = new /\ lastApplied'[j] = target /\ commitIndex'[j] = target
        /\ \A h \in Server \ {j} :
              /\ db'[h] = db[h]
              /\ commitIndex'[h] = commitIndex[h] /\ lastApplied'[h] = lastApplied[h]
    <3>1. db'[j] = new /\ \A h \in Server \ {j} : db'[h] = db[h]
      BY <1>1, <2>2
    <3>2. /\ lastApplied'[j] = target
          /\ \A h \in Server \ {j} : lastApplied'[h] = lastApplied[h]
      BY <1>1, <2>2
    <3>3. /\ commitIndex'[j] = target
          /\ \A h \in Server \ {j} : commitIndex'[h] = commitIndex[h]
      BY <1>1, <2>2
    <3> QED
      BY <3>1, <3>2, <3>3
  <2>5. FollowerRuns(l, j)' /\ RunsLog(l, j)'
    <3>1. target <= commitIndex[l] /\ commitIndex'[l] = commitIndex[l] /\ log'[l] = log[l]
      BY <1>2, <1>3, <1>7, <2>0, <2>1, <2>4
    <3> QED
      BY <2>0, <2>1, <2>3, <2>4, <3>1 DEF FollowerRuns, RunsLog
  <2> QED
    BY <1>3, <1>4, <1>5, <1>6, <1>7, <1>9, <2>1, <2>3, <2>4, <2>5
<1>11. CASE ~ CommitsUpTo(j, req)
  <2>1. UNCHANGED <<db, commitIndex, lastApplied>>
    BY <1>11 DEF Receive
  <2>2. FollowerRuns(l, j)' /\ RunsLog(l, j)'
    BY <1>2, <1>3, <1>6, <1>7, <1>8, <2>1 DEF FollowerRuns, RunsLog
  <2> QED
    BY <1>2, <1>3, <1>4, <1>5, <1>6, <1>7, <1>9, <2>1, <2>2
<1> QED
  BY <1>10, <1>11

\* A heartbeat, in time or late.
LEMMA HeartbeatKeepsLead ==
    ASSUME OneTerm, TypeInv, TypeInv', NEW l \in Server, Leads(l), NEW j \in Others(l),
           NEW req \in Request, Expected(l, j, req), Receive(j, req),
           UNCHANGED call, late' \subseteq late
    PROVE  Leads(l)'
<1> j \in Server /\ l \in Server \ {j}
  BY DEF Others
<1>1. /\ ClientCall(l, j)' /\ SyncCall(l, j)' /\ CommitsKnown(l, j)'
  BY ReceivesNext, CallsStay
<1> QED
  BY <1>1, ReceivesNext, OnePair

\* An entry, which the follower has from then on.
LEMMA EntryKeepsLead ==
    ASSUME OneTerm, TypeInv, TypeInv', NEW l \in Server, Leads(l), NEW k \in Kind,
           NEW j \in Others(l), HandleAppendEntries(l, k, j)
    PROVE  Leads(l)'
<1> DEFINE req == call[l][k][j].req
           answer == [call[l][k][j] EXCEPT !.phase = "answered", !.term = currentTerm'[j],
                                           !.ok = Accepts(j, req)]
           n == req.prevIndex + 1
<1> j \in Server /\ l \in Server \ {j} /\ "client" \in Kind /\ "sync" \in Kind
  BY DEF Others, Kind
<1>1. /\ call[l][k][j].phase = "sent" /\ Receive(j, req) /\ UNCHANGED late
      /\ call' = [call EXCEPT ![l][k][j] = answer]
  BY DEF HandleAppendEntries
<1>2. /\ Expected(l, j, req) /\ ~ IsHeartbeat(req) /\ req \in Request
      /\ k = "client" => n = Len(log[l])
  BY <1>1, SentIsExpected, Lengths
<1>3. /\ Accepts(j, req) /\ currentTerm'[j] = MaxTerm
      /\ UNCHANGED <<currentTerm, serverState, loop, serving, nextIndex, sent>>
      /\ \A h \in Server \ {j} :
            /\ log'[h] = log[h] /\ db'[h] = db[h]
            /\ commitIndex'[h] = commitIndex[h] /\ lastApplied'[h] = lastApplied[h]
      /\ Len(log[j]) <= Len(log'[j]) /\ Len(log'[j]) <= Len(log[l])
      /\ n <= Len(log'[j])
      /\ Follows(l, j)' /\ FollowerRuns(l, j)' /\ RunsLog(l, j)'
  BY <1>1, <1>2, ReceivesNext
<1>4. /\ Len(log[l]) \in Nat /\ Len(log[j]) \in Nat /\ Len(log'[j]) \in Nat
      /\ commitIndex[l] \in Nat /\ n \in Nat
      /\ call \in [Server -> [Kind -> [Server -> Call]]] /\ call[l][k][j] \in Call
      /\ MaxTerm \in Nat
  <2>1. log'[j] \in Seq(Entry)
    BY DEF TypeInv, TypeOK
  <2>2. n \in Nat
    BY <1>2, RequestFacts
  <2>3. call[l][k][j] \in Call
    BY Types
  <2> QED
    BY <2>1, <2>2, <2>3, Lengths, LenProperties, Types, TermFacts
<1>5. /\ answer.phase = "answered" /\ answer.term = MaxTerm /\ answer.ok = TRUE
      /\ answer.req = req /\ answer \in Call
  BY <1>3, <1>4 DEF Call, Phase
<1> HIDE DEF answer, req
<1>6. \A h, g \in Server : \A m \in Kind :
         call'[h][m][g] = IF h = l /\ m = k /\ g = j THEN answer ELSE call[h][m][g]
  BY <1>1, <1>4, <1>5, CallUpdated
<1>7. CommitsKnown(l, j)'
  BY <1>3, CallsStay
<1>8. ClientCall(l, j)'
  <2>1. CASE k = "client"
    <3>1. loop[l] = "mutating"
      BY <1>1, <2>1 DEF TypeInv, CallsOnlyWhileMutating
    <3>2. Len(log'[j]) = Len(log[l])
      BY <1>2, <1>3, <1>4, <2>1
    <3> QED
      BY <1>3, <1>4, <1>5, <1>6, <2>1, <3>1, <3>2 DEF ClientCall
  <2>2. CASE k # "client"
    BY <1>3, <1>6, <2>2, CallsStay
  <2> QED
    BY <2>1, <2>2
<1>9. SyncCall(l, j)'
  <2>1. CASE k = "sync"
    <3>1. commitIndex[l] <= n /\ req.term = MaxTerm
      BY <1>2 DEF Expected
    <3>2. call'[l]["sync"][j] = answer
      BY <1>6, <2>1
    <3> QED
      BY <1>3, <1>5, <3>1, <3>2 DEF SyncCall
  <2>2. CASE k # "sync"
    BY <1>3, <1>6, <2>2, CallsStay
  <2> QED
    BY <2>1, <2>2
<1> QED
  BY <1>1, <1>3, <1>6, <1>7, <1>8, <1>9, OnePair
-----------------------------------------------------------------------------
(* The steps of the leader.                                                   *)

LEMMA AcceptKeepsLead ==
    ASSUME TypeInv, TypeInv', NEW l \in Server, Leads(l), NEW c \in Command, AcceptCommand(l, c)
    PROVE  Leads(l)'
<1> USE DEF diskVars, commitVars, leaderVars
<1>1. /\ loop[l] = "free" /\ c \notin sent /\ sent' = sent \cup {c}
      /\ serving' = [serving EXCEPT ![l] = c] /\ loop' = [loop EXCEPT ![l] = "accepted"]
      /\ UNCHANGED <<log, db, commitIndex, lastApplied, nextIndex, serverState, currentTerm,
                     call, late>>
  BY DEF AcceptCommand
<1>2. /\ loop'[l] = "accepted" /\ serving'[l] = c
      /\ \A h \in Others(l) : loop'[h] = loop[h]
  BY <1>1, Types DEF Others
<1>3. Alone(l)'
  BY <1>1, <1>2 DEF Leads, Alone
<1>4. AppendsGiven(l)'
  <2>1. \A n \in 1..Len(log[l]) : log[l][n].data # c
    BY <1>1 DEF Leads, AppendsGiven
  <2> QED
    BY <1>1, <1>2, <2>1 DEF Leads, AppendsGiven
<1>5. LateAreHeartbeats(l)' /\ LeaderRuns(l)'
  BY <1>1, <1>2 DEF Leads, LateAreHeartbeats, LeaderRuns
<1>6. ASSUME NEW j \in Others(l)
      PROVE  /\ Follows(l, j)' /\ ClientCall(l, j)' /\ SyncCall(l, j)'
             /\ CommitsKnown(l, j)' /\ FollowerRuns(l, j)'
  <2>1. Follows(l, j) /\ ClientCall(l, j) /\ SyncCall(l, j) /\ CommitsKnown(l, j) /\ FollowerRuns(l, j)
    BY DEF Leads
  <2>2. Follows(l, j)' /\ CommitsKnown(l, j)' /\ FollowerRuns(l, j)'
    BY <1>1, <2>1 DEF Follows, CommitsKnown, FollowerRuns
  <2>3. ClientCall(l, j)'
    BY <1>1, <1>2, <2>1 DEF ClientCall
  <2>4. SyncCall(l, j)'
    BY <1>1, <2>1 DEF SyncCall, Carries
  <2> QED
    BY <2>2, <2>3, <2>4
<1>7. \A i \in Server : RunsLog(l, i)'
  BY <1>1 DEF Leads, RunsLog
<1> QED
  BY <1>3, <1>4, <1>5, <1>6, <1>7 DEF Leads

\* How much of the leader's log each server has run.
LEMMA RunsWithinLog ==
    ASSUME TypeInv, NEW l \in Server, Leads(l), NEW i \in Server
    PROVE  /\ Len(db[i]) \in Nat /\ Len(log[l]) \in Nat /\ Len(db[i]) <= Len(log[l])
           /\ \A n \in 1..Len(db[i]) : n \in 1..Len(log[l]) /\ db[i][n] = log[l][n].data
<1>1. Len(db[i]) \in Nat /\ Len(log[l]) \in Nat /\ Len(log[i]) \in Nat /\ commitIndex[i] \in Nat
  BY Lengths
<1>2. Len(db[i]) <= Len(log[l])
  <2>1. CASE i = l
    BY <1>1, <2>1 DEF Leads, LeaderRuns
  <2>2. CASE i # l
    <3>1. i \in Others(l)
      BY <2>2 DEF Others
    <3> QED
      BY <1>1, <3>1 DEF Leads, Follows, FollowerRuns
  <2> QED
    BY <2>1, <2>2
<1> QED
  BY <1>1, <1>2 DEF Leads, RunsLog

LEMMA AppendKeepsLead ==
    ASSUME OneTerm, TypeInv, TypeInv', NEW l \in Server, Leads(l), AppendCommand(l)
    PROVE  Leads(l)'
<1> USE DEF diskVars, commitVars, leaderVars, clientVars
<1> DEFINE e == [term |-> MaxTerm, data |-> serving[l]]
           f == [j \in Server |-> IF j = l THEN IdleCall ELSE Spawned]
<1> /\ call \in [Server -> [Kind -> [Server -> Call]]]
    /\ "client" \in Kind /\ "sync" \in Kind
  BY Types DEF Kind
<1>1. /\ loop[l] = "accepted" /\ serverState[l] = Leader /\ currentTerm[l] = MaxTerm
      /\ log' = [log EXCEPT ![l] = Append(@, e)] /\ loop' = [loop EXCEPT ![l] = "mutating"]
      /\ UNCHANGED <<db, commitIndex, lastApplied, nextIndex, serverState, currentTerm,
                     serving, late, sent>>
  BY DEF AppendCommand, Leads, Alone
<1>2. call' = [call EXCEPT ![l]["client"] = f]
  BY <1>1 DEF AppendCommand
<1>3. f \in [Server -> Call]
  BY CallFacts
<1>4. \A j \in Others(l) : f[j] = Spawned
  BY DEF Others
<1>5. /\ serving[l] \in Command /\ serving[l] \in sent /\ e \in Entry
      /\ e.term = MaxTerm /\ e.data = serving[l]
  <2>1. serving[l] \in Command /\ serving[l] \in sent
    BY <1>1, CommandAssumption DEF TypeInv, TypeOK, ServingWasSent
  <2> QED
    BY <2>1, TermFacts DEF Entry
<1> HIDE DEF e, f
<1>6. \A h, g \in Server : \A m \in Kind :
         call'[h][m][g] = IF h = l /\ m = "client" THEN f[g] ELSE call[h][m][g]
  BY <1>2, <1>3, CallsUpdated
<1>7. /\ log[l] \in Seq(Entry) /\ Len(log[l]) \in Nat /\ commitIndex[l] \in Nat
      /\ loop'[l] = "mutating" /\ \A h \in Server \ {l} : loop'[h] = loop[h]
      /\ log'[l] = Append(log[l], e) /\ \A h \in Server \ {l} : log'[h] = log[h]
  BY <1>1, Types, Lengths
<1>8. /\ Len(log'[l]) = Len(log[l]) + 1
      /\ \A n \in 1..Len(log[l]) : log'[l][n] = log[l][n]
      /\ log'[l][Len(log[l]) + 1] = e
  BY <1>5, <1>7, AppendEntry
<1>9. Alone(l)'
  BY <1>1, <1>6, <1>7 DEF Leads, Alone, Others
<1>10. AppendsGiven(l)'
  <2>1. /\ \A n \in 1..Len(log[l]) : log[l][n].term = MaxTerm /\ log[l][n].data \in sent
        /\ \A m, n \in 1..Len(log[l]) : log[l][m].data = log[l][n].data => m = n
        /\ \A n \in 1..Len(log[l]) : log[l][n].data # serving[l]
    BY <1>1 DEF Leads, AppendsGiven
  <2>2. \A n \in 1..Len(log'[l]) : n \in 1..Len(log[l]) \/ n = Len(log[l]) + 1
    BY <1>7, <1>8
  <2>3. \A n \in 1..Len(log'[l]) : log'[l][n].term = MaxTerm /\ log'[l][n].data \in sent
    BY <1>5, <1>8, <2>1, <2>2
  <2>4. \A m, n \in 1..Len(log'[l]) : log'[l][m].data = log'[l][n].data => m = n
    BY <1>5, <1>8, <2>1, <2>2
  <2>5. Len(log'[l]) > 0 /\ log'[l][Len(log'[l])].data = serving[l]
    BY <1>5, <1>7, <1>8
  <2> QED
    BY <1>1, <1>7, <2>3, <2>4, <2>5 DEF AppendsGiven
<1>11. LateAreHeartbeats(l)'
  BY <1>1 DEF Leads, LateAreHeartbeats
<1>12. LeaderRuns(l)'
  <2>1. commitIndex[l] <= Len(log[l]) /\ Len(db[l]) = Len(log[l])
    BY <1>1 DEF Leads, LeaderRuns
  <2> QED
    BY <1>1, <1>7, <1>8, <2>1 DEF LeaderRuns
<1>13. ASSUME NEW req \in Request, NEW n \in Nat, Carries(l, req, n) PROVE Carries(l, req, n)'
  <2>1. /\ Len(log'[l]) \in Nat /\ Len(log[l]) <= Len(log'[l])
        /\ commitIndex'[l] \in Nat /\ commitIndex[l] <= commitIndex'[l]
    BY <1>1, <1>7, <1>8
  <2> QED
    BY <1>7, <1>8, <1>13, <2>1, CarriesStays
<1>14. ASSUME NEW j \in Others(l)
       PROVE  /\ Follows(l, j)' /\ ClientCall(l, j)' /\ SyncCall(l, j)'
              /\ CommitsKnown(l, j)' /\ FollowerRuns(l, j)'
  <2> j \in Server /\ j # l /\ j \in Server \ {l}
    BY DEF Others
  <2>1. Follows(l, j) /\ ClientCall(l, j) /\ SyncCall(l, j) /\ CommitsKnown(l, j) /\ FollowerRuns(l, j)
    BY DEF Leads
  <2>2. Len(log[j]) \in Nat /\ log'[j] = log[j]
    BY <1>7, Lengths
  <2>3. Follows(l, j)'
    <3>1. Len(log[j]) <= Len(log[l]) /\ \A n \in 1..Len(log[j]) : log[j][n] = log[l][n]
      BY <2>1 DEF Follows
    <3>2. Len(log[j]) <= Len(log[l]) + 1 /\ \A n \in 1..Len(log[j]) : log[j][n] = log'[l][n]
      BY <1>7, <1>8, <2>2, <3>1
    <3> QED
      BY <1>8, <2>2, <3>2 DEF Follows
  <2>4. CommitsKnown(l, j)' /\ FollowerRuns(l, j)'
    BY <1>1, <2>1, <2>2 DEF CommitsKnown, FollowerRuns
  <2>5. ClientCall(l, j)'
    <3>1. Len(log[j]) = Len(log[l])
      BY <1>1, <2>1 DEF ClientCall
    <3>2. call'[l]["client"][j] = Spawned
      BY <1>4, <1>6
    <3> QED
      BY <1>7, <1>8, <2>2, <3>1, <3>2, CallFacts DEF ClientCall
  <2>6. SyncCall(l, j)'
    <3> DEFINE c == call[l]["sync"][j]
               n == c.req.prevIndex + 1
    <3>1. call'[l]["sync"][j] = c /\ c.req \in Request /\ n \in Nat
      BY <1>6, Lengths
    <3>2. Carries(l, c.req, n) => Carries(l, c.req, n)'
      BY <1>13, <3>1
    <3> HIDE DEF n
    <3> QED
      BY <1>1, <2>1, <2>2, <3>1, <3>2 DEF SyncCall, n
  <2> QED
    BY <2>1, <2>3, <2>4, <2>5, <2>6
<1>15. \A i \in Server : RunsLog(l, i)'
  BY <1>1, <1>8, RunsWithinLog DEF RunsLog
<1> QED
  BY <1>9, <1>10, <1>11, <1>12, <1>14, <1>15 DEF Leads

\* Every follower has the command by then, so it is run and the client told OK.
LEMMA FinishKeepsLead ==
    ASSUME TypeInv, TypeInv', NEW l \in Server, Leads(l), FinishCommand(l)
    PROVE  /\ Leads(l)'
           /\ db' = [db EXCEPT ![l] = Append(@, serving[l])]
           /\ acked' = acked \cup {serving[l]}
           /\ serving[l] = log[l][Len(db[l]) + 1].data
<1> USE DEF commitVars, leaderVars, clientVars
<1> DEFINE f == [j \in Server |-> IdleCall]
<1> /\ call \in [Server -> [Kind -> [Server -> Call]]]
    /\ "client" \in Kind /\ "sync" \in Kind
  BY Types DEF Kind
<1>1. /\ loop[l] = "mutating"
      /\ \A j \in Others(l) : call[l]["client"][j].phase = "done"
      /\ loop' = [loop EXCEPT ![l] = "free"]
      /\ call' = [call EXCEPT ![l]["client"] = f]
      /\ UNCHANGED <<currentTerm, log, commitIndex, lastApplied, nextIndex, serverState,
                     late, sent>>
  BY DEF FinishCommand
<1>2. \A j \in Others(l) : call[l]["client"][j].ok /\ Len(log[j]) = Len(log[l])
  BY <1>1 DEF Leads, ClientCall
<1>3. Replicated(l)
  <2>1. {j \in Others(l) : call[l]["client"][j].ok} = Others(l)
    BY <1>2
  <2>2. /\ IsFiniteSet(Server) /\ Cardinality(Others(l)) = Cardinality(Server) - 1
        /\ Cardinality(Server) \in Nat \ {0}
    BY ServerAssumption, FS_RemoveElement, FS_CardinalityType, FS_EmptySet DEF Others
  <2>3. \A n \in Nat \ {0} : (n - 1) + 1 >= (n \div 2) + 1
    OBVIOUS
  <2>4. (Cardinality(Server) - 1) + 1 >= QuorumSize
    BY <2>2, <2>3 DEF QuorumSize
  <2> QED
    BY <2>1, <2>2, <2>4 DEF Replicated
<1>4. db' = [db EXCEPT ![l] = Append(@, serving[l])] /\ acked' = acked \cup {serving[l]}
  BY <1>3 DEF FinishCommand
<1>5. f \in [Server -> Call]
  BY CallFacts
<1> HIDE DEF f
<1>6. \A h, g \in Server : \A m \in Kind :
         call'[h][m][g] = IF h = l /\ m = "client" THEN f[g] ELSE call[h][m][g]
  BY <1>1, <1>5, CallsUpdated
<1>7. /\ Len(log[l]) \in Nat /\ Len(db[l]) \in Nat /\ db[l] \in Seq(Command)
      /\ db \in [Server -> Seq(Command)]
  BY Lengths DEF TypeInv, TypeOK
<1>8. /\ Len(log[l]) > 0 /\ Len(db[l]) = Len(log[l]) - 1
      /\ log[l][Len(log[l])].data = serving[l] /\ serving[l] \in Command
  BY <1>1 DEF Leads, AppendsGiven, LeaderRuns, TypeInv, TypeOK
<1>9. serving[l] = log[l][Len(db[l]) + 1].data
  BY <1>7, <1>8
<1>10. /\ db'[l] = Append(db[l], serving[l]) /\ \A h \in Server \ {l} : db'[h] = db[h]
       /\ loop'[l] = "free" /\ \A h \in Server \ {l} : loop'[h] = loop[h]
  BY <1>1, <1>4, <1>7, Types
<1>11. /\ Len(db'[l]) = Len(db[l]) + 1 /\ db'[l][Len(db[l]) + 1] = serving[l]
       /\ \A n \in 1..Len(db[l]) : db'[l][n] = db[l][n]
  BY <1>7, <1>8, <1>10, AppendProperties
<1>12. Alone(l)'
  BY <1>1, <1>6, <1>10 DEF Leads, Alone, Others
<1>13. AppendsGiven(l)' /\ LateAreHeartbeats(l)'
  BY <1>1, <1>10 DEF Leads, AppendsGiven, LateAreHeartbeats
<1>14. LeaderRuns(l)'
  BY <1>1, <1>7, <1>8, <1>10, <1>11 DEF Leads, LeaderRuns
<1>15. ASSUME NEW j \in Others(l)
       PROVE  /\ Follows(l, j)' /\ ClientCall(l, j)' /\ SyncCall(l, j)'
              /\ CommitsKnown(l, j)' /\ FollowerRuns(l, j)'
  <2> j \in Server /\ j \in Server \ {l}
    BY DEF Others
  <2>1. Follows(l, j) /\ SyncCall(l, j) /\ CommitsKnown(l, j) /\ FollowerRuns(l, j)
    BY DEF Leads
  <2>2. Follows(l, j)' /\ CommitsKnown(l, j)' /\ FollowerRuns(l, j)'
    BY <1>1, <1>10, <2>1 DEF Follows, CommitsKnown, FollowerRuns
  <2>3. ClientCall(l, j)'
    BY <1>1, <1>2, <1>10 DEF ClientCall
  <2>4. call'[l]["sync"][j] = call[l]["sync"][j]
    BY <1>6
  <2>5. SyncCall(l, j)'
    BY <1>1, <2>1, <2>4 DEF SyncCall, Carries
  <2> QED
    BY <2>2, <2>3, <2>5
<1>16. ASSUME NEW i \in Server PROVE RunsLog(l, i)'
  <2>1. CASE i = l
    <3>1. \A n \in 1..Len(db[l]) : db[l][n] = log[l][n].data
      BY DEF Leads, RunsLog
    <3>2. \A n \in 1..Len(db'[l]) : n \in 1..Len(db[l]) \/ n = Len(db[l]) + 1
      BY <1>7, <1>11
    <3> QED
      BY <1>1, <1>9, <1>11, <2>1, <3>1, <3>2 DEF RunsLog
  <2>2. CASE i # l
    <3>1. RunsLog(l, i) /\ db'[i] = db[i]
      BY <1>10, <2>2 DEF Leads
    <3> QED
      BY <1>1, <3>1 DEF RunsLog
  <2> QED
    BY <2>1, <2>2
<1> QED
  BY <1>4, <1>9, <1>12, <1>13, <1>14, <1>15, <1>16 DEF Leads

\* The beginning and the end of a background round, after which the commit
\* index may have moved on to what all followers have.
LEMMA RoundKeepsLead ==
    ASSUME TypeInv, TypeInv', NEW l \in Server, Leads(l), BeginSync(l) \/ EndSync(l)
    PROVE  Leads(l)'
<1> USE DEF diskVars, commitVars, leaderVars, nodeVars, clientVars
<1> /\ call \in [Server -> [Kind -> [Server -> Call]]]
    /\ "client" \in Kind /\ "sync" \in Kind /\ l \in Server
  BY Types DEF Kind
<1>1. UNCHANGED <<currentTerm, log, db, lastApplied, nextIndex, serverState, loop, serving,
                  late, sent>>
  BY DEF BeginSync, EndSync
<1>2. \E f \in [Server -> Call] :
         /\ call' = [call EXCEPT ![l]["sync"] = f]
         /\ \A j \in Others(l) : f[j].phase \in {"idle", "spawned"}
  <2>1. CASE BeginSync(l)
    <3> DEFINE f == [j \in Server |-> IF j = l THEN Done(FALSE) ELSE Spawned]
    <3>1. f \in [Server -> Call] /\ \A j \in Others(l) : f[j].phase = "spawned"
      BY CallFacts DEF Others
    <3>2. call' = [call EXCEPT ![l]["sync"] = f]
      BY <2>1 DEF BeginSync
    <3> HIDE DEF f
    <3> QED
      BY <3>1, <3>2
  <2>2. CASE EndSync(l)
    <3> DEFINE f == [j \in Server |-> IdleCall]
    <3>1. f \in [Server -> Call] /\ \A j \in Others(l) : f[j].phase = "idle"
      BY CallFacts DEF Others
    <3>2. call' = [call EXCEPT ![l]["sync"] = f]
      BY <2>2 DEF EndSync
    <3> HIDE DEF f
    <3> QED
      BY <3>1, <3>2
  <2> QED
    BY <2>1, <2>2
<1>3. PICK f \in [Server -> Call] :
         /\ call' = [call EXCEPT ![l]["sync"] = f]
         /\ \A j \in Others(l) : f[j].phase \in {"idle", "spawned"}
  BY <1>2
<1>4. \A h, g \in Server : \A m \in Kind :
         call'[h][m][g] = IF h = l /\ m = "sync" THEN f[g] ELSE call[h][m][g]
  BY <1>3, CallsUpdated
<1>5. /\ commitIndex \in [Server -> Nat] /\ commitIndex' \in [Server -> Nat]
      /\ Len(log[l]) \in Nat
  BY Lengths DEF TypeInv, TypeOK
<1>6. \A h \in Server \ {l} : commitIndex'[h] = commitIndex[h]
  BY <1>5 DEF BeginSync, EndSync
<1>7. /\ commitIndex[l] <= commitIndex'[l] /\ commitIndex'[l] <= Len(log[l])
      /\ \A j \in Others(l) : commitIndex'[l] <= nextIndex[l][j]
  <2>1. CASE commitIndex' = commitIndex
    BY <1>5, <2>1 DEF Leads, LeaderRuns, CommitsKnown
  <2>2. CASE commitIndex' # commitIndex
    <3>1. EndSync(l) /\ CanCommitNext(l) /\ commitIndex' = [commitIndex EXCEPT ![l] = @ + 1]
      BY <2>2 DEF BeginSync, EndSync
    <3>2. \A j \in Others(l) : call[l]["sync"][j].phase = "done"
      BY <3>1 DEF EndSync, Others
    <3>3. \A j \in Others(l) : commitIndex[l] < nextIndex[l][j]
      BY <3>2 DEF Leads, SyncCall
    <3>4. \A j \in Others(l) : nextIndex[l][j] \in Nat
      BY Lengths DEF Others
    <3> QED
      BY <1>5, <3>1, <3>3, <3>4 DEF CanCommitNext
  <2> QED
    BY <2>1, <2>2
<1>8. Alone(l)'
  BY <1>1, <1>4 DEF Leads, Alone, Others
<1>9. AppendsGiven(l)'
  BY <1>1 DEF Leads, AppendsGiven
<1>10. LateAreHeartbeats(l)'
  <2>1. \A m \in late : m.req.commit \in Nat
    BY Types, RequestFacts
  <2> QED
    BY <1>1, <1>5, <1>7, <2>1 DEF Leads, LateAreHeartbeats
<1>11. LeaderRuns(l)'
  BY <1>1, <1>7 DEF Leads, LeaderRuns
<1>12. ASSUME NEW j \in Others(l)
       PROVE  /\ Follows(l, j)' /\ ClientCall(l, j)' /\ SyncCall(l, j)'
              /\ CommitsKnown(l, j)' /\ FollowerRuns(l, j)'
  <2> j \in Server /\ j \in Server \ {l}
    BY DEF Others
  <2>1. Follows(l, j) /\ ClientCall(l, j) /\ CommitsKnown(l, j) /\ FollowerRuns(l, j)
    BY DEF Leads
  <2>2. Follows(l, j)' /\ CommitsKnown(l, j)'
    BY <1>1, <1>7, <2>1 DEF Follows, CommitsKnown
  <2>3. FollowerRuns(l, j)'
    BY <1>1, <1>5, <1>6, <1>7, <2>1 DEF FollowerRuns
  <2>4. ClientCall(l, j)'
    <3> DEFINE c == call[l]["client"][j]
    <3>1. call'[l]["client"][j] = c /\ c.req \in Request
      BY <1>4, Lengths
    <3>2. Carries(l, c.req, Len(log[l])) => Carries(l, c.req, Len(log[l]))'
      BY <1>1, <1>5, <1>7, <3>1, CarriesStays
    <3> HIDE DEF c
    <3> QED
      BY <1>1, <2>1, <3>1, <3>2 DEF ClientCall, c
  <2>5. SyncCall(l, j)'
    <3>1. call'[l]["sync"][j].phase \in {"idle", "spawned"}
      BY <1>3, <1>4
    <3> QED
      BY <3>1 DEF SyncCall
  <2> QED
    BY <2>2, <2>3, <2>4, <2>5
<1>13. \A i \in Server : RunsLog(l, i)'
  BY <1>1 DEF Leads, RunsLog
<1> QED
  BY <1>8, <1>9, <1>10, <1>11, <1>12, <1>13 DEF Leads

\* A command is sent as the last entry of the log, with its term.
LEMMA SendEntryKeepsLead ==
    ASSUME OneTerm, TypeInv, TypeInv', NEW l \in Server, Leads(l), NEW j \in Others(l),
           SendEntry(l, j)
    PROVE  Leads(l)'
<1> USE DEF diskVars, commitVars, leaderVars, nodeVars, clientVars
<1> /\ j \in Server /\ "client" \in Kind /\ "sync" \in Kind
    /\ call \in [Server -> [Kind -> [Server -> Call]]]
  BY Types DEF Others, Kind
<1>1. /\ call[l]["client"][j].phase = "spawned"
      /\ UNCHANGED <<currentTerm, log, db, commitIndex, lastApplied, nextIndex, serverState,
                     loop, serving, late, sent>>
  BY DEF SendEntry
<1>2. loop[l] = "mutating"
  BY <1>1 DEF TypeInv, CallsOnlyWhileMutating
<1>3. \E c \in Call : /\ call' = [call EXCEPT ![l]["client"][j] = c]
                      /\ c.phase = "sent" /\ Carries(l, c.req, Len(log[l]))
  <2> DEFINE n == Len(log[l])
             req == [term |-> currentTerm[l], prevIndex |-> n - 1,
                     prevTerm |-> TermAt(log[l], n - 1),
                     entries |-> <<[term |-> currentTerm[l], data |-> serving[l]]>>,
                     commit |-> commitIndex[l]]
             c == [IdleCall EXCEPT !.phase = "sent", !.req = req]
  <2>1. call' = [call EXCEPT ![l]["client"][j] = c]
    BY DEF SendEntry
  <2>2. /\ n \in Nat /\ n > 0 /\ log[l][n].term = MaxTerm /\ log[l][n].data = serving[l]
        /\ currentTerm[l] = MaxTerm /\ commitIndex[l] \in Nat
    BY <1>2, Lengths DEF Leads, Alone, AppendsGiven
  <2>3. log[l][n] \in Entry
    BY <2>2, Lengths, LogFacts
  <2>4. log[l][n] = [term |-> MaxTerm, data |-> serving[l]]
    BY <2>2, <2>3 DEF Entry
  <2>5. Carries(l, req, n)
    BY <2>2, <2>4 DEF Carries
  <2> HIDE DEF req
  <2>6. c.phase = "sent" /\ c.req = req
    BY DEF IdleCall
  <2> HIDE DEF c
  <2>7. c \in Call
    <3>1. call'[l]["client"][j] = c
      BY <2>1
    <3>2. call'[l]["client"][j] \in Call
      BY DEF TypeInv, TypeOK
    <3> QED
      BY <3>1, <3>2
  <2> QED
    BY <2>1, <2>5, <2>6, <2>7
<1>4. PICK c \in Call : /\ call' = [call EXCEPT ![l]["client"][j] = c]
                       /\ c.phase = "sent" /\ Carries(l, c.req, Len(log[l]))
  BY <1>3
<1>5. \A h, g \in Server : \A m \in Kind :
         call'[h][m][g] = IF h = l /\ m = "client" /\ g = j THEN c ELSE call[h][m][g]
  BY <1>4, CallUpdated
<1>6. Len(log[j]) \in Nat /\ Len(log[j]) <= Len(log[l])
  BY Lengths DEF Leads, Follows
<1>7. SyncCall(l, j)' /\ CommitsKnown(l, j)'
  BY <1>1, <1>5, <1>6, CallsStay
<1>8. ClientCall(l, j)'
  <2>1. Len(log[j]) >= Len(log[l]) - 1
    BY <1>2 DEF Leads, ClientCall
  <2>2. Carries(l, c.req, Len(log[l]))'
    BY <1>1, <1>4 DEF Carries
  <2> QED
    BY <1>1, <1>2, <1>4, <1>5, <2>1, <2>2 DEF ClientCall
<1>9. Follows(l, j)' /\ FollowerRuns(l, j)' /\ RunsLog(l, j)'
  BY <1>1 DEF Leads, Follows, FollowerRuns, RunsLog
<1> QED
  BY <1>1, <1>5, <1>7, <1>8, <1>9, OnePair

\* The answer to it: nextIndex is then one beyond the log.
LEMMA EntryReplyKeepsLead ==
    ASSUME OneTerm, TypeInv, TypeInv', NEW l \in Server, Leads(l), NEW j \in Others(l),
           ReceiveEntryReply(l, j)
    PROVE  Leads(l)'
<1> USE DEF commitVars, leaderVars, clientVars
<1> /\ j \in Server /\ "client" \in Kind /\ "sync" \in Kind /\ MaxTerm \in Nat
    /\ call \in [Server -> [Kind -> [Server -> Call]]]
    /\ nextIndex \in [Server -> [Server -> Nat \ {0}]]
  BY TermFacts, Types DEF Others, Kind
<1>0. PICK reply \in Call : reply = call[l]["client"][j]
  OBVIOUS
<1>1. /\ reply.phase = "answered" /\ StepDownIfStale(l, reply.term)
      /\ UNCHANGED <<log, db, commitIndex, lastApplied, loop, serving, late, sent>>
  BY <1>0 DEF ReceiveEntryReply
<1>2. loop[l] = "mutating"
  BY <1>0, <1>1 DEF TypeInv, CallsOnlyWhileMutating
<1>3. reply.ok /\ reply.term = MaxTerm /\ Len(log[j]) = Len(log[l]) /\ currentTerm[l] = MaxTerm
  BY <1>0, <1>1, <1>2 DEF Leads, Alone, ClientCall
<1>4. UNCHANGED <<currentTerm, serverState>>
  BY <1>1, <1>3 DEF StepDownIfStale
<1>5. /\ call' = [call EXCEPT ![l]["client"][j] = Done(TRUE)]
      /\ nextIndex' = [nextIndex EXCEPT ![l][j] = Len(log[l]) + 1]
  <2>1. reply.ok /\ reply.term <= currentTerm[l]
    BY <1>3
  <2>2. reply.ok \in BOOLEAN
    BY DEF Call
  <2>3. (reply.ok /\ reply.term <= currentTerm[l]) = TRUE
    BY <2>1, <2>2
  <2> QED
    BY <1>0, <2>1, <2>3 DEF ReceiveEntryReply
<1>6. PICK c \in Call : c = Done(TRUE) /\ c.phase = "done" /\ c.ok
  BY CallFacts DEF Done, IdleCall
<1>7. \A h, g \in Server : \A m \in Kind :
         call'[h][m][g] = IF h = l /\ m = "client" /\ g = j THEN c ELSE call[h][m][g]
  <2>1. call' = [call EXCEPT ![l]["client"][j] = c]
    BY <1>5, <1>6
  <2> QED
    BY <2>1, CallUpdated
<1>8. /\ nextIndex'[l][j] = Len(log[l]) + 1
      /\ \A h \in Server \ {j} : nextIndex'[l][h] = nextIndex[l][h]
  BY <1>5
<1>9. /\ Len(log[l]) \in Nat /\ commitIndex[l] \in Nat /\ commitIndex[l] <= Len(log[l])
  BY Lengths DEF Leads, LeaderRuns
<1>10. ClientCall(l, j)'
  <2>1. call'[l]["client"][j] = c
    BY <1>7
  <2>2. c.phase \in {"answered", "done"} /\ c.phase \notin {"idle", "sent", "answered"}
    BY <1>6
  <2>3. /\ loop'[l] = "mutating" /\ Len(log'[l]) \in Nat
        /\ Len(log'[j]) = Len(log'[l]) /\ Len(log'[j]) >= Len(log'[l]) - 1
    BY <1>1, <1>2, <1>3, <1>9
  <2> QED
    BY <1>6, <2>1, <2>2, <2>3 DEF ClientCall
<1>11. SyncCall(l, j)'
  <2>1. SyncCall(l, j) /\ call'[l]["sync"][j] = call[l]["sync"][j]
    BY <1>7 DEF Leads
  <2> QED
    BY <1>1, <1>8, <1>9, <2>1 DEF SyncCall, Carries
<1>12. CommitsKnown(l, j)'
  BY <1>1, <1>3, <1>8, <1>9 DEF CommitsKnown
<1>13. Follows(l, j)' /\ FollowerRuns(l, j)' /\ RunsLog(l, j)'
  BY <1>1 DEF Leads, Follows, FollowerRuns, RunsLog
<1> QED
  <2>1. \A h \in Server \ {j} :
           /\ log'[h] = log[h] /\ db'[h] = db[h]
           /\ commitIndex'[h] = commitIndex[h] /\ lastApplied'[h] = lastApplied[h]
           /\ nextIndex'[l][h] = nextIndex[l][h]
    BY <1>1, <1>8
  <2>2. \A h, g \in Server : \A k \in Kind : h # l \/ g # j => call'[h][k][g] = call[h][k][g]
    BY <1>7
  <2>3. UNCHANGED <<currentTerm, serverState, loop, serving, sent, late>>
    BY <1>1, <1>4
  <2> QED
    BY <2>1, <2>2, <2>3, <1>10, <1>11, <1>12, <1>13, OnePair

\* The background goroutine sends the entry at nextIndex, or knows that there
\* is none.
LEMMA SendSyncKeepsLead ==
    ASSUME OneTerm, TypeInv, TypeInv', NEW l \in Server, Leads(l), NEW j \in Others(l),
           SendSync(l, j)
    PROVE  Leads(l)'
<1> USE DEF diskVars, commitVars, leaderVars, nodeVars, clientVars
<1> /\ j \in Server /\ "client" \in Kind /\ "sync" \in Kind
    /\ call \in [Server -> [Kind -> [Server -> Call]]]
  BY Types DEF Others, Kind
<1>1. UNCHANGED <<currentTerm, log, db, commitIndex, lastApplied, nextIndex, serverState,
                  loop, serving, late, sent>>
  BY DEF SendSync
<1>2. PICK n \in Nat \ {0} : n = nextIndex[l][j]
  BY Types
<1>3. /\ currentTerm[l] = MaxTerm /\ n <= Len(log[j]) + 1
      /\ commitIndex[l] <= n /\ commitIndex[l] <= Len(log[l])
      /\ commitIndex[l] \in Nat /\ Len(log[l]) \in Nat /\ Len(log[j]) \in Nat
      /\ Len(log[j]) <= Len(log[l])
  BY <1>2, Lengths DEF Leads, Alone, CommitsKnown, LeaderRuns, Follows
<1>4. \E c : /\ call' = [call EXCEPT ![l]["sync"][j] = c]
            /\ \/ c.phase = "sent" /\ Carries(l, c.req, n) /\ c.req.prevIndex + 1 = n
               \/ c.phase = "done" /\ commitIndex[l] < n
  <2> DEFINE req == [term |-> currentTerm[l], prevIndex |-> n - 1,
                     prevTerm |-> TermAt(log[l], n - 1),
                     entries |-> <<log[l][n]>>, commit |-> commitIndex[l]]
             c == [IdleCall EXCEPT !.phase = "sent", !.req = req]
  <2>1. CASE Lacks(l, j)
    <3>1. call' = [call EXCEPT ![l]["sync"][j] = c]
      BY <1>2, <2>1 DEF SendSync
    <3>2. Carries(l, req, n) /\ req.prevIndex + 1 = n
      BY <1>2, <1>3, <2>1 DEF Lacks, Carries
    <3> HIDE DEF req
    <3>3. c.phase = "sent" /\ c.req = req
      BY DEF IdleCall
    <3> HIDE DEF c
    <3> QED
      BY <3>1, <3>2, <3>3
  <2>2. CASE ~ Lacks(l, j)
    <3>1. call' = [call EXCEPT ![l]["sync"][j] = Done(FALSE)]
      BY <2>2 DEF SendSync
    <3>2. commitIndex[l] < n
      BY <1>2, <1>3, <2>2 DEF Lacks
    <3> QED
      BY <3>1, <3>2, CallFacts
  <2> QED
    BY <2>1, <2>2
<1>5. PICK c : /\ call' = [call EXCEPT ![l]["sync"][j] = c]
               /\ \/ c.phase = "sent" /\ Carries(l, c.req, n) /\ c.req.prevIndex + 1 = n
                  \/ c.phase = "done" /\ commitIndex[l] < n
  BY <1>4
<1>6. c \in Call
  <2>1. call'[l]["sync"][j] = c
    BY <1>5
  <2>2. call'[l]["sync"][j] \in Call
    BY DEF TypeInv, TypeOK
  <2> QED
    BY <2>1, <2>2
<1>7. \A h, g \in Server : \A m \in Kind :
         call'[h][m][g] = IF h = l /\ m = "sync" /\ g = j THEN c ELSE call[h][m][g]
  BY <1>5, <1>6, CallUpdated
<1>8. ClientCall(l, j)' /\ CommitsKnown(l, j)'
  BY <1>1, <1>3, <1>7, CallsStay
<1>9. SyncCall(l, j)'
  <2>1. call'[l]["sync"][j] = c
    BY <1>7
  <2>2. CASE c.phase = "sent"
    <3>1. Carries(l, c.req, n)' /\ c.req.prevIndex + 1 = n
      BY <1>1, <1>5, <2>2 DEF Carries
    <3> QED
      BY <1>1, <1>3, <2>1, <2>2, <3>1 DEF SyncCall
  <2>3. CASE c.phase = "done"
    BY <1>1, <1>2, <1>5, <2>1, <2>3 DEF SyncCall
  <2> QED
    BY <1>5, <2>2, <2>3
<1>10. Follows(l, j)' /\ FollowerRuns(l, j)' /\ RunsLog(l, j)'
  BY <1>1 DEF Leads, Follows, FollowerRuns, RunsLog
<1> QED
  BY <1>1, <1>7, <1>8, <1>9, <1>10, OnePair

\* The answer to it: j has the entry, and nextIndex is the one after it.
LEMMA SyncReplyKeepsLead ==
    ASSUME OneTerm, TypeInv, TypeInv', NEW l \in Server, Leads(l), NEW j \in Others(l),
           ReceiveSyncReply(l, j)
    PROVE  Leads(l)'
<1> USE DEF commitVars, leaderVars, clientVars
<1> /\ j \in Server /\ "client" \in Kind /\ "sync" \in Kind /\ MaxTerm \in Nat
    /\ call \in [Server -> [Kind -> [Server -> Call]]]
    /\ nextIndex \in [Server -> [Server -> Nat \ {0}]]
  BY TermFacts, Types DEF Others, Kind
<1>0. PICK reply \in Call : reply = call[l]["sync"][j]
  OBVIOUS
<1>1. /\ reply.phase = "answered"
      /\ call' = [call EXCEPT ![l]["sync"][j] = Done(reply.ok)]
      /\ UNCHANGED <<log, db, commitIndex, lastApplied, loop, serving, late, sent>>
  BY <1>0 DEF ReceiveSyncReply
<1>2. PICK n \in Nat : n = reply.req.prevIndex + 1 /\ reply.req.prevIndex + 2 = n + 1
  <2>1. reply.req \in Request
    BY ONLY reply \in Call DEF Call
  <2>2. reply.req.prevIndex \in Nat
    BY <2>1, RequestFacts
  <2>3. PICK n \in Nat : n = reply.req.prevIndex + 1
    BY ONLY <2>2
  <2>4. reply.req.prevIndex + 2 = n + 1
    BY ONLY <2>2, <2>3
  <2> QED
    BY ONLY n \in Nat, <2>3, <2>4
<1>3. /\ reply.ok /\ reply.term = MaxTerm /\ reply.req.term = MaxTerm
      /\ n <= Len(log[j]) /\ commitIndex[l] <= n
      /\ Len(log[j]) \in Nat /\ commitIndex[l] \in Nat
  BY <1>0, <1>1, <1>2, Lengths DEF Leads, SyncCall
<1>4. /\ nextIndex' = [nextIndex EXCEPT ![l][j] = reply.req.prevIndex + 2]
      /\ UNCHANGED <<currentTerm, serverState>>
  <2>1. ~ reply.term > reply.req.term
    BY <1>3
  <2> QED
    BY <1>0, <1>3, <2>1 DEF ReceiveSyncReply
<1>5. PICK c \in Call : c = Done(reply.ok) /\ c.phase = "done"
  <2>1. reply.ok \in BOOLEAN
    BY DEF Call
  <2> QED
    BY <2>1, CallFacts
<1>6. \A h, g \in Server : \A m \in Kind :
         call'[h][m][g] = IF h = l /\ m = "sync" /\ g = j THEN c ELSE call[h][m][g]
  <2>1. call' = [call EXCEPT ![l]["sync"][j] = c]
    BY <1>1, <1>5
  <2> QED
    BY <2>1, CallUpdated
<1>7. nextIndex'[l][j] = n + 1 /\ \A h \in Server \ {j} : nextIndex'[l][h] = nextIndex[l][h]
  BY <1>2, <1>4
<1>8. ClientCall(l, j)'
  <2>1. ClientCall(l, j) /\ call'[l]["client"][j] = call[l]["client"][j]
    BY <1>6 DEF Leads
  <2> QED
    BY <1>1, <2>1 DEF ClientCall, Carries
<1>9. SyncCall(l, j)'
  <2>1. call'[l]["sync"][j] = c
    BY <1>6
  <2>2. c.phase \notin {"sent", "answered"}
    BY <1>5
  <2>3. commitIndex' = commitIndex
    BY <1>1
  <2>4. commitIndex'[l] < nextIndex'[l][j]
    BY <1>3, <1>7, <2>3
  <2> QED
    BY <2>1, <2>2, <2>4 DEF SyncCall
<1>10. CommitsKnown(l, j)'
  BY <1>1, <1>3, <1>7 DEF CommitsKnown
<1>11. Follows(l, j)' /\ FollowerRuns(l, j)' /\ RunsLog(l, j)'
  BY <1>1 DEF Leads, Follows, FollowerRuns, RunsLog
<1> QED
  <2>1. \A h \in Server \ {j} :
           /\ log'[h] = log[h] /\ db'[h] = db[h]
           /\ commitIndex'[h] = commitIndex[h] /\ lastApplied'[h] = lastApplied[h]
           /\ nextIndex'[l][h] = nextIndex[l][h]
    BY <1>1, <1>7
  <2>2. \A h, g \in Server : \A k \in Kind : h # l \/ g # j => call'[h][k][g] = call[h][k][g]
    BY <1>6
  <2>3. UNCHANGED <<currentTerm, serverState, loop, serving, sent, late>>
    BY <1>1, <1>4
  <2> QED
    BY <2>1, <2>2, <2>3, <1>8, <1>9, <1>10, <1>11, OnePair

LEMMA DelayKeepsLead ==
    ASSUME TypeInv, NEW l \in Server, Leads(l), NEW j \in Others(l), DelayHeartbeat(l, j)
    PROVE  Leads(l)'
<1> USE DEF diskVars, commitVars, leaderVars, nodeVars, clientVars
<1>1. /\ late' = late \cup {[to |-> j, req |-> Heartbeat(l)]}
      /\ UNCHANGED <<currentTerm, log, db, commitIndex, lastApplied, nextIndex, serverState,
                     loop, serving, call, sent>>
  BY DEF DelayHeartbeat
<1>2. Expected(l, j, Heartbeat(l)) /\ IsHeartbeat(Heartbeat(l))
  BY HeartbeatIsExpected, InTransit
<1>3. LateAreHeartbeats(l)'
  BY <1>1, <1>2 DEF Leads, LateAreHeartbeats, Expected, Others
<1>4. Alone(l)' /\ AppendsGiven(l)' /\ LeaderRuns(l)'
  BY <1>1 DEF Leads, Alone, AppendsGiven, LeaderRuns
<1>5. ASSUME NEW h \in Others(l)
      PROVE  /\ Follows(l, h)' /\ ClientCall(l, h)' /\ SyncCall(l, h)'
             /\ CommitsKnown(l, h)' /\ FollowerRuns(l, h)'
  BY <1>1 DEF Leads, Follows, ClientCall, SyncCall, Carries, CommitsKnown, FollowerRuns
<1>6. \A i \in Server : RunsLog(l, i)'
  BY <1>1 DEF Leads, RunsLog
<1> QED
  BY <1>3, <1>4, <1>5, <1>6 DEF Leads
-----------------------------------------------------------------------------
(* The invariant is kept.                                                     *)

\* What can happen under a leader.
LEMMA StepsOfLeader ==
    ASSUME StartsAfresh, OneTerm, TypeInv, NEW l \in Server, Leads(l), Next
    PROVE  \/ \E c \in Command : AcceptCommand(l, c)
           \/ AppendCommand(l) \/ FinishCommand(l) \/ BeginSync(l) \/ EndSync(l)
           \/ \E j \in Others(l) :
                 \/ SendEntry(l, j) \/ ReceiveEntryReply(l, j)
                 \/ SendSync(l, j) \/ ReceiveSyncReply(l, j)
                 \/ \E k \in Kind : HandleAppendEntries(l, k, j)
                 \/ HandleHeartbeat(l, j) \/ DelayHeartbeat(l, j)
           \/ \E m \in late : HandleLate(m)
<1> "client" \in Kind /\ "sync" \in Kind /\ Follower # Leader /\ ~ MaxTerm < MaxTerm
  BY TermFacts DEF Kind
<1>1. /\ serverState[l] = Leader /\ loop[l] \in {"free", "accepted", "mutating"}
      /\ \A i \in Server : currentTerm[i] = MaxTerm /\ Alive(i)
      /\ \A i \in Others(l) :
            /\ serverState[i] = Follower /\ loop[i] = "free"
            /\ \A k \in Kind : \A h \in Server : call[i][k][h].phase = "idle"
  BY CallFacts DEF Leads, Alone, Alive, Others
<1>2. ASSUME NEW i \in Server
      PROVE  /\ ~ Campaign(i) /\ ~ FinishCampaign(i) /\ ~ Crash(i) /\ ~ Restart(i)
             /\ \A req \in Incoming(i) : ~ Panic(i, req)
  <2>1. loop[i] # "polling"
    BY <1>1 DEF Others
  <2>2. ~ Campaign(i) /\ ~ FinishCampaign(i)
    BY <1>1, <2>1 DEF Campaign, FinishCampaign
  <2>3. ~ Crash(i) /\ ~ Restart(i)
    BY <1>1, OnlyDelays DEF Crash, Restart
  <2>4. \A req \in Incoming(i) : ~ Panics(i, req)
    BY IncomingIsExpected, ExpectedNeverPanics
  <2> QED
    BY <2>2, <2>3, <2>4 DEF Panic
<1>3. ASSUME NEW i \in Others(l)
      PROVE  /\ \A c \in Command : ~ AcceptCommand(i, c)
             /\ ~ AppendCommand(i) /\ ~ FinishCommand(i) /\ ~ BeginSync(i) /\ ~ EndSync(i)
  <2>1. ~ EndSync(i)
    BY <1>1, <1>3 DEF EndSync
  <2> QED
    BY <1>1, <1>3, <2>1 DEF AcceptCommand, AppendCommand, FinishCommand, BeginSync
<1>4. ASSUME NEW i \in Server, NEW j \in Others(i)
      PROVE  ~ HandleVote(i, j) /\ ~ LoseVote(i, j)
  <2>1. loop[i] # "polling"
    BY <1>1 DEF Others
  <2> QED
    BY <2>1 DEF HandleVote, LoseVote, Asks
<1>5. ASSUME NEW i \in Others(l), NEW j \in Others(i) PROVE ~ PairNext(i, j)
  <2>0. i \in Server /\ j \in Server
    BY DEF Others
  <2>1. /\ ~ SendEntry(i, j) /\ ~ SkipEntry(i, j) /\ ~ ReceiveEntryReply(i, j)
        /\ ~ SendSync(i, j) /\ ~ SkipSync(i, j) /\ ~ ReceiveSyncReply(i, j)
    BY <1>1, <2>0
    DEF SendEntry, SkipEntry, ReceiveEntryReply, SendSync, SkipSync, ReceiveSyncReply
  <2>2. ~ HandleHeartbeat(i, j) /\ ~ DelayHeartbeat(i, j)
    BY <1>1 DEF HandleHeartbeat, DelayHeartbeat, SendsHeartbeats
  <2>3. \A k \in Kind : /\ ~ HandleAppendEntries(i, k, j)
                        /\ ~ Refused(i, k, j) /\ ~ Break(i, k, j)
    BY <1>1, <2>0 DEF HandleAppendEntries, Refused, Break
  <2> QED
    BY <1>4, <2>0, <2>1, <2>2, <2>3 DEF PairNext
<1>6. ASSUME NEW j \in Others(l)
      PROVE  /\ ~ SkipEntry(l, j) /\ ~ SkipSync(l, j)
             /\ \A k \in Kind : ~ Refused(l, k, j) /\ ~ Break(l, k, j)
  <2>1. \A k \in Kind : ~ Fault(k)
    BY OnlyDelays
  <2> QED
    BY <1>1, <2>1 DEF SkipEntry, SkipSync, Refused, Break, Others
<1>7. CASE \E i \in Server : ServerNext(i)
  <2>1. PICK i \in Server : ServerNext(i)
    BY <1>7
  <2>2. i = l
    BY <1>2, <1>3, <2>1 DEF ServerNext, Others
  <2> QED
    BY <1>2, <2>1, <2>2 DEF ServerNext
<1>8. CASE \E i \in Server : \E j \in Others(i) : PairNext(i, j)
  <2>1. PICK i \in Server : \E j \in Others(i) : PairNext(i, j)
    BY <1>8
  <2>2. i = l
    BY <1>5, <2>1 DEF Others
  <2>3. PICK j \in Others(l) : PairNext(l, j)
    BY <2>1, <2>2
  <2> QED
    BY <1>4, <1>6, <2>3 DEF PairNext
<1> QED
  BY <1>7, <1>8 DEF Next

LEMMA LeadStays ==
    ASSUME StartsAfresh, OneTerm, TypeInv, TypeInv', NEW l \in Server, Leads(l), Next
    PROVE  Leads(l)'
<1>1. ASSUME NEW j \in Others(l), HandleHeartbeat(l, j) PROVE Leads(l)'
  BY <1>1, HeartbeatIsExpected, HeartbeatKeepsLead DEF HandleHeartbeat
<1>2. ASSUME NEW m \in late, HandleLate(m) PROVE Leads(l)'
  <2>1. UNCHANGED call /\ late' \subseteq late /\ Receive(m.to, m.req)
    BY <1>2 DEF HandleLate
  <2> QED
    BY <2>1, LateIsExpected, HeartbeatKeepsLead
<1> QED
  BY <1>1, <1>2, StepsOfLeader, AcceptKeepsLead, AppendKeepsLead, FinishKeepsLead,
     RoundKeepsLead, SendEntryKeepsLead, EntryReplyKeepsLead, SendSyncKeepsLead,
     SyncReplyKeepsLead, EntryKeepsLead, DelayKeepsLead

LEMMA NextLeadInv ==
    ASSUME StartsAfresh, OneTerm, LeadInv, [Next]_vars
    PROVE  LeadInv'
<1>1. TypeInv /\ TypeInv'
  BY NextTypeInv DEF LeadInv
<1>2. CASE UNCHANGED vars
  <2> USE DEF vars, diskVars, commitVars, leaderVars, nodeVars, clientVars
  <2>1. ASSUME Electing PROVE Electing'
    BY <1>2, <2>1 DEF Electing, NothingHappened, AnsweredIsPast
  <2>2. ASSUME NEW l \in Server, Leads(l) PROVE Leads(l)'
    <3>1. Alone(l)' /\ AppendsGiven(l)' /\ LateAreHeartbeats(l)' /\ LeaderRuns(l)'
      BY <1>2, <2>2 DEF Leads, Alone, AppendsGiven, LateAreHeartbeats, LeaderRuns
    <3>2. ASSUME NEW h \in Others(l)
          PROVE  /\ Follows(l, h)' /\ ClientCall(l, h)' /\ SyncCall(l, h)'
                 /\ CommitsKnown(l, h)' /\ FollowerRuns(l, h)'
      BY <1>2, <2>2 DEF Leads, Follows, ClientCall, SyncCall, Carries, CommitsKnown, FollowerRuns
    <3>3. \A i \in Server : RunsLog(l, i)'
      BY <1>2, <2>2 DEF Leads, RunsLog
    <3> QED
      BY <3>1, <3>2, <3>3 DEF Leads
  <2> QED
    BY <1>1, <2>1, <2>2 DEF LeadInv
<1>3. CASE Next /\ Electing
  BY <1>1, <1>3, StepsOfElection, CampaignElects, FinishElects, VoteElects DEF LeadInv
<1>4. CASE Next /\ \E l \in Server : Leads(l)
  BY <1>1, <1>4, LeadStays DEF LeadInv
<1> QED
  BY <1>2, <1>3, <1>4 DEF LeadInv

LEMMA AlwaysLeadInv ==
    ASSUME StartsAfresh, OneTerm
    PROVE  Spec => []LeadInv
<1>1. Init => LeadInv
  BY InitLeadInv DEF LeadInv
<1>2. LeadInv /\ [Next]_vars => LeadInv'
  BY NextLeadInv
<1> QED
  BY <1>1, <1>2, PTL DEF Spec
-----------------------------------------------------------------------------
(* No server runs a statement twice: a command is appended once, what a       *)
(* server has run is what its leader has appended, in that order, and neither *)
(* the answers of a round that was late nor a heartbeat that was moves a      *)
(* follower's commit index back.                                              *)

LEMMA LeadRunsOnce == LeadInv => AppliedOnce
<1> SUFFICES ASSUME LeadInv, NEW i \in Server,
                    NEW m \in DOMAIN db[i], NEW n \in DOMAIN db[i], db[i][m] = db[i][n]
             PROVE  m = n
  BY DEF AppliedOnce
<1>1. TypeInv
  BY DEF LeadInv
<1>2. DOMAIN db[i] = 1..Len(db[i]) /\ Len(db[i]) \in Nat
  BY <1>1, Lengths, LenProperties
<1>3. CASE Electing
  <2>1. db[i] = <<>>
    BY <1>3 DEF Electing, NothingHappened
  <2> QED
    BY <1>2, <2>1, EmptySeq
<1>4. CASE \E l \in Server : Leads(l)
  <2>1. PICK l \in Server : Leads(l)
    BY <1>4
  <2>2. /\ m \in 1..Len(log[l]) /\ db[i][m] = log[l][m].data
        /\ n \in 1..Len(log[l]) /\ db[i][n] = log[l][n].data
    BY <1>1, <1>2, <2>1, RunsWithinLog
  <2> QED
    BY <2>1, <2>2 DEF Leads, AppendsGiven
<1> QED
  BY <1>3, <1>4 DEF LeadInv

LEMMA LeadRunsOnceNext == LeadInv' => AppliedOnce'
BY LeadRunsOnce, PTL

\* AppliedOnce: no database is given a statement a second time by
\* MoveCommitIndexTo, in one leadership without a crash.
THEOREM RunsOnce ==
    ASSUME StartsAfresh, OneTerm
    PROVE  Spec => []AppliedOnce
<1>1. Spec => []LeadInv
  BY AlwaysLeadInv
<1> QED
  BY <1>1, LeadRunsOnce, PTL

(* What two servers have committed is the same: a follower commits no more    *)
(* than the leader has, which it only does after a round in which each        *)
(* follower has got the entry or was known to have it.                        *)

LEMMA LeadAgrees == LeadInv => CommittedAgree
<1> SUFFICES ASSUME LeadInv, NEW i \in Server, NEW j \in Server,
                    NEW n \in 1..Lesser(commitIndex[i], commitIndex[j])
             PROVE  log[i][n] = log[j][n]
  BY DEF CommittedAgree
<1>1. TypeInv
  BY DEF LeadInv
<1>2. /\ commitIndex[i] \in Nat /\ commitIndex[j] \in Nat
      /\ n \in 1..commitIndex[i] /\ n \in 1..commitIndex[j]
  BY <1>1, Lengths DEF Lesser
<1>3. CASE Electing
  BY <1>2, <1>3 DEF Electing, NothingHappened
<1>4. CASE \E l \in Server : Leads(l)
  <2>1. PICK l \in Server : Leads(l)
    BY <1>4
  <2>2. ASSUME NEW h \in Server, n \in 1..commitIndex[h] PROVE log[h][n] = log[l][n]
    <3>1. CASE h = l
      BY <3>1
    <3>2. CASE h # l
      <4>1. Follows(l, h) /\ commitIndex[h] <= Len(log[h])
        BY <2>1, <3>2 DEF Leads, FollowerRuns, Others
      <4>2. n \in 1..Len(log[h])
        BY <1>1, <2>2, <4>1, Lengths
      <4> QED
        BY <4>1, <4>2 DEF Follows
    <3> QED
      BY <3>1, <3>2
  <2> QED
    BY <1>2, <2>2
<1> QED
  BY <1>3, <1>4 DEF LeadInv

\* CommittedAgree: entries that two servers hold committed, by whatever of
\* AppendEntries, heartbeats or the leader's rounds moved their commit indexes,
\* are the same.
THEOREM CommitsAgree ==
    ASSUME StartsAfresh, OneTerm
    PROVE  Spec => []CommittedAgree
<1>1. Spec => []LeadInv
  BY AlwaysLeadInv
<1> QED
  BY <1>1, LeadAgrees, PTL

(* The databases are replicas: of two servers one has run what the other has, *)
(* in the same order.  The leader runs a command when all have it, a follower *)
(* when it hears of the commit.                                               *)

LEMMA LeadReplicates == LeadInv => ReplicasAgree
<1> SUFFICES ASSUME LeadInv, NEW i \in Server, NEW j \in Server, Len(db[i]) <= Len(db[j])
             PROVE  IsPrefixOf(db[i], db[j])
  <2>1. \A i, j \in Server : Len(db[i]) <= Len(db[j]) \/ Len(db[j]) <= Len(db[i])
    <3>1. ASSUME LeadInv PROVE \A i \in Server : Len(db[i]) \in Nat
      BY <3>1, Lengths DEF LeadInv
    <3> QED
      BY <3>1
  <2> QED
    BY <2>1 DEF ReplicasAgree
<1>1. TypeInv
  BY DEF LeadInv
<1>2. /\ db[i] \in Seq(Command) /\ Len(db[i]) \in Nat
      /\ db[j] \in Seq(Command) /\ Len(db[j]) \in Nat
  BY <1>1, Lengths
<1>3. \A n \in 1..Len(db[i]) : db[i][n] = db[j][n]
  <2>1. CASE Electing
    BY <1>2, <2>1 DEF Electing, NothingHappened
  <2>2. CASE \E l \in Server : Leads(l)
    <3>1. PICK l \in Server : Leads(l)
      BY <2>2
    <3> QED
      BY <1>2, <3>1 DEF Leads, RunsLog
  <2> QED
    BY <2>1, <2>2 DEF LeadInv
<1>4. \A n \in 1..Len(db[i]) : db[j][n] \in Command
  BY <1>2, ElementOfSeq
<1> DEFINE cut == SubSeq(db[j], 1, Len(db[i]))
<1>5. cut \in Seq(Command) /\ Len(cut) = Len(db[i]) /\ \A n \in 1..Len(db[i]) : cut[n] = db[j][n]
  BY <1>2, <1>4, SubSeqProperties
<1> HIDE DEF cut
<1>6. db[i] = cut
  BY <1>2, <1>3, <1>5, SeqEqual
<1> QED
  BY <1>6 DEF IsPrefixOf, cut

\* ReplicasAgree: of any two databases one is a prefix of the other.
THEOREM DatabasesAgree ==
    ASSUME StartsAfresh, OneTerm
    PROVE  Spec => []ReplicasAgree
<1>1. Spec => []LeadInv
  BY AlwaysLeadInv
<1> QED
  BY <1>1, LeadReplicates, PTL
-----------------------------------------------------------------------------
(* What servers run together is what one machine runs: the order is that of   *)
(* the leader's log, of which at most the last command is not yet run.        *)

\* The longest of sequences of which one is at most one shorter than all may be.
LEMMA LongestExists ==
    ASSUME NEW d, NEW top \in Nat, NEW l \in Server, Len(d[l]) >= top - 1,
           \A i \in Server : Len(d[i]) \in Nat /\ Len(d[i]) <= top
    PROVE  \E i \in Server : \A j \in Server : Len(d[j]) <= Len(d[i])
<1>1. CASE \E i \in Server : Len(d[i]) = top
  BY <1>1
<1>2. CASE \A i \in Server : Len(d[i]) # top
  <2>1. \A i \in Server : Len(d[i]) <= Len(d[l])
    BY <1>2
  <2> QED
    BY <2>1, Zenon
<1> QED
  BY <1>1, <1>2

\* What the database has that has run most.
MostRun(l) ==
    /\ Ahead \in Server /\ \A j \in Server : Len(db[j]) <= Len(db[Ahead])
    /\ db[Ahead] \in Seq(Command)
    /\ Len(log[l]) \in Nat
    /\ Len(db[Ahead]) <= Len(log[l]) /\ Len(log[l]) <= Len(db[Ahead]) + 1
    /\ \A n \in 1..Len(db[Ahead]) : db[Ahead][n] = log[l][n].data
LeadersLog == \A l \in Server : Leads(l) => MostRun(l)

LEMMA MostRunIsLogged == TypeInv => LeadersLog
<1> SUFFICES ASSUME TypeInv, NEW l \in Server, Leads(l) PROVE MostRun(l)
  BY DEF LeadersLog
<1>1. \A i \in Server : /\ Len(db[i]) \in Nat /\ Len(log[l]) \in Nat
                        /\ Len(db[i]) <= Len(log[l]) /\ db[i] \in Seq(Command)
  BY RunsWithinLog, Lengths
<1>2. Len(db[l]) >= Len(log[l]) - 1
  BY <1>1 DEF Leads, LeaderRuns
<1>3. \E i \in Server : \A j \in Server : Len(db[j]) <= Len(db[i])
  BY <1>1, <1>2, LongestExists
<1>4. Ahead \in Server /\ \A j \in Server : Len(db[j]) <= Len(db[Ahead])
  BY <1>3 DEF Ahead
<1>5. Len(log[l]) <= Len(db[Ahead]) + 1
  BY <1>1, <1>2, <1>4
<1>6. \A n \in 1..Len(db[Ahead]) : db[Ahead][n] = log[l][n].data
  BY <1>4, RunsWithinLog
<1> QED
  BY <1>1, <1>4, <1>5, <1>6 DEF MostRun

LEMMA MostRunIsLoggedNext == TypeInv' => LeadersLog'
BY MostRunIsLogged, PTL

\* Every step under a leader adds to one database, or to none.
LEMMA OneRuns ==
    ASSUME StartsAfresh, OneTerm, TypeInv, TypeInv', NEW l \in Server, Leads(l), Next
    PROVE  \/ UNCHANGED <<db, acked>>
           \/ /\ log'[l] = log[l]
              /\ \E j \in Server :
                    /\ \A h \in Server \ {j} : db'[h] = db[h]
                    /\ Len(db[j]) <= Len(db'[j])
                    /\ \/ UNCHANGED acked
                       \/ /\ Len(db'[j]) = Len(db[j]) + 1
                          /\ acked' = acked \cup {log[l][Len(db'[j])].data}
<1> USE DEF diskVars, commitVars, leaderVars, nodeVars, clientVars
<1>1. ASSUME NEW j \in Others(l), NEW req \in Request, Expected(l, j, req), Receive(j, req)
      PROVE  /\ log'[l] = log[l]
             /\ \A h \in Server \ {j} : db'[h] = db[h]
             /\ Len(db[j]) <= Len(db'[j]) /\ UNCHANGED acked
  <2>1. l \in Server \ {j}
    BY DEF Others
  <2> QED
    BY <1>1, <2>1, ReceivesNext
<1>2. ASSUME FinishCommand(l)
      PROVE  /\ log'[l] = log[l]
             /\ \A h \in Server \ {l} : db'[h] = db[h]
             /\ Len(db'[l]) = Len(db[l]) + 1 /\ Len(db[l]) \in Nat
             /\ acked' = acked \cup {log[l][Len(db'[l])].data}
  <2>1. /\ db' = [db EXCEPT ![l] = Append(@, serving[l])]
        /\ acked' = acked \cup {serving[l]} /\ serving[l] = log[l][Len(db[l]) + 1].data
        /\ UNCHANGED log /\ loop[l] = "mutating"
    BY <1>2, FinishKeepsLead DEF FinishCommand
  <2>2. /\ serving[l] \in Command /\ db \in [Server -> Seq(Command)] /\ Len(db[l]) \in Nat
    BY <2>1, Lengths DEF TypeInv, TypeOK
  <2>3. db'[l] = Append(db[l], serving[l]) /\ \A h \in Server \ {l} : db'[h] = db[h]
    BY <2>1, <2>2
  <2>4. Len(db'[l]) = Len(db[l]) + 1
    BY <2>2, <2>3, AppendProperties
  <2> QED
    BY <2>1, <2>2, <2>3, <2>4
<1>3. ASSUME NEW j \in Others(l),
             \/ HandleHeartbeat(l, j) \/ \E k \in Kind : HandleAppendEntries(l, k, j)
      PROVE  \E req \in Request : Expected(l, j, req) /\ Receive(j, req)
  <2>1. CASE HandleHeartbeat(l, j)
    BY <2>1, HeartbeatIsExpected DEF HandleHeartbeat
  <2>2. CASE \E k \in Kind : HandleAppendEntries(l, k, j)
    <3>1. PICK k \in Kind : HandleAppendEntries(l, k, j)
      BY <2>2
    <3>2. call[l][k][j].phase = "sent" /\ Receive(j, call[l][k][j].req)
      BY <3>1 DEF HandleAppendEntries
    <3>3. call[l][k][j].req \in Request
      BY Lengths DEF Others
    <3> QED
      BY <3>2, <3>3, SentIsExpected
  <2> QED
    BY <1>3, <2>1, <2>2
<1>4. ASSUME NEW m \in late, HandleLate(m)
      PROVE  \E j \in Others(l) : \E req \in Request : Expected(l, j, req) /\ Receive(j, req)
  BY <1>4, LateIsExpected DEF HandleLate
<1>5. CASE \E j \in Others(l) : \E req \in Request : Expected(l, j, req) /\ Receive(j, req)
  BY <1>1, <1>5 DEF Others
<1>6. CASE FinishCommand(l)
  BY <1>2, <1>6
<1>7. CASE \/ \E c \in Command : AcceptCommand(l, c)
           \/ AppendCommand(l) \/ BeginSync(l) \/ EndSync(l)
  BY <1>7 DEF AcceptCommand, AppendCommand, BeginSync, EndSync
<1>8. CASE \E j \in Others(l) : \/ SendEntry(l, j) \/ ReceiveEntryReply(l, j)
                                \/ SendSync(l, j) \/ ReceiveSyncReply(l, j)
                                \/ DelayHeartbeat(l, j)
  BY <1>8 DEF SendEntry, ReceiveEntryReply, SendSync, ReceiveSyncReply, DelayHeartbeat
<1> QED
  BY <1>3, <1>4, <1>5, <1>6, <1>7, <1>8, StepsOfLeader

\* A machine's step: a server catches up, or leads by one statement.
LEMMA RunsLikeMachine ==
    ASSUME StartsAfresh, OneTerm,
           LeadInv, LeadInv', NEW l \in Server, Leads(l), Leads(l)',
           log'[l] = log[l], NEW j \in Server,
           \A h \in Server \ {j} : db'[h] = db[h],
           Len(db[j]) <= Len(db'[j]),
           \/ UNCHANGED acked
           \/ /\ Len(db'[j]) = Len(db[j]) + 1
              /\ acked' = acked \cup {log[l][Len(db'[j])].data}
    PROVE  [Machine!Next]_(Machine!vars)
<1> DEFINE done == [i \in Server |-> Len(db[i])]
<1>1. TypeInv /\ TypeInv' /\ \A i \in Server : Len(db[i]) \in Nat /\ Len(db'[i]) \in Nat
  BY Lengths, LenProperties DEF LeadInv, TypeInv, TypeOK
<1>2. MostRun(l) /\ MostRun(l)'
  BY <1>1, MostRunIsLogged, MostRunIsLoggedNext DEF LeadersLog
<1>3. PICK s \in Seq(Command) : s = db[Ahead]
  BY <1>2 DEF MostRun
<1>4. PICK t \in Seq(Command) : t = (db[Ahead])'
  BY <1>2 DEF MostRun
<1>5. Len(s) \in Nat /\ Len(t) \in Nat /\ Len(log[l]) \in Nat
  BY <1>2, LenProperties DEF MostRun
<1>6. /\ \A i \in Server : Len(db[i]) <= Len(s)
      /\ Len(s) <= Len(log[l]) /\ Len(log[l]) <= Len(s) + 1
      /\ \A n \in 1..Len(s) : s[n] = log[l][n].data
  BY <1>2, <1>3 DEF MostRun
<1>7. /\ \A i \in Server : Len(db'[i]) <= Len(t)
      /\ Len(t) <= Len(log[l])
      /\ \A n \in 1..Len(t) : t[n] = log[l][n].data
  BY <1>2, <1>4 DEF MostRun
<1>8. Len(s) <= Len(t)
  <2>1. PICK h \in Server : Len(db[h]) = Len(s)
    BY <1>2, <1>3 DEF MostRun
  <2>2. Len(db[h]) <= Len(db'[h])
    BY <1>1
  <2> QED
    BY <1>1, <1>5, <1>7, <2>1, <2>2
<1>9. PICK g \in Server : Len(db'[g]) = Len(t)
  BY <1>2, <1>4 DEF MostRun
<1>10. \A n \in 1..Len(s) : t[n] = s[n]
  BY <1>5, <1>6, <1>7, <1>8
<1>11. /\ done' = [done EXCEPT ![j] = Len(db'[j])]
       /\ done[j] = Len(db[j]) /\ done'[j] = Len(db'[j])
  OBVIOUS
<1>12. Len(db[j]) < Len(db'[j]) => Machine!Tell(j)
  <2>1. CASE UNCHANGED acked
    BY <2>1 DEF Machine!Tell
  <2>2. CASE ~ UNCHANGED acked
    <3> DEFINE n == Len(db'[j])
    <3>1. n \in 1..Len(t) /\ n = Len(db[j]) + 1
      BY <1>1, <1>5, <1>7, <2>2
    <3>2. acked' = acked \cup {t[n]}
      BY <1>7, <2>2, <3>1
    <3>3. n \in (done[j] + 1)..done'[j]
      BY <1>1, <1>11, <3>1
    <3> HIDE DEF n
    <3> QED
      BY <1>4, <3>2, <3>3 DEF Machine!Tell
  <2> QED
    BY <2>1, <2>2
<1>13. CASE Len(t) = Len(s)
  <2>1. t = s
    BY <1>10, <1>13, SeqEqual
  <2>2. CASE Len(db'[j]) = Len(db[j])
    <3>1. UNCHANGED acked
      BY <1>1, <2>2
    <3>2. done' = done
      BY <1>11, <2>2
    <3> QED
      BY <1>3, <1>4, <2>1, <3>1, <3>2 DEF Machine!vars
  <2>3. CASE Len(db'[j]) # Len(db[j])
    <3>1. Len(db[j]) < Len(db'[j]) /\ Len(db'[j]) \in 1..Len(s)
      BY <1>1, <1>5, <1>7, <1>13, <2>3
    <3>2. PICK upTo \in 1..Len(db[Ahead]) : upTo = Len(db'[j])
      BY <1>3, <3>1
    <3>3. Machine!CatchUp(j, upTo)
      BY <1>3, <1>4, <1>11, <2>1, <3>1, <3>2 DEF Machine!CatchUp
    <3>4. \E n \in 1..Len(db[Ahead]) : Machine!CatchUp(j, n)
      BY <3>3
    <3>5. Machine!Tell(j)
      BY <1>12, <3>1
    <3>6. Machine!Run(j)
      BY <3>4, <3>5 DEF Machine!Run
    <3> QED
      BY <3>6 DEF Machine!Next
  <2> QED
    BY <2>2, <2>3
<1>14. CASE Len(t) # Len(s)
  <2>1. Len(t) = Len(s) + 1
    BY <1>5, <1>6, <1>7, <1>8, <1>14
  <2>2. Len(db'[j]) = Len(t) /\ Len(db[j]) < Len(db'[j])
    <3>1. g = j
      BY <1>1, <1>5, <1>6, <1>9, <2>1
    <3> QED
      BY <1>1, <1>5, <1>6, <1>9, <2>1, <3>1
  <2>3. Machine!IsOnce(t)
    <3>1. AppliedOnce'
      BY LeadRunsOnceNext
    <3> QED
      BY <1>2, <1>4, <3>1 DEF AppliedOnce, Machine!IsOnce, MostRun
  <2>4. \A n \in DOMAIN s : t[n] = s[n]
    BY <1>10
  <2>5. Machine!Lead(j)
    BY <1>3, <1>4, <1>5, <1>11, <2>1, <2>2, <2>3, <2>4 DEF Machine!Lead
  <2>6. Machine!Run(j)
    BY <1>12, <2>2, <2>5 DEF Machine!Run
  <2> QED
    BY <2>6 DEF Machine!Next
<1> QED
  BY <1>13, <1>14

LEMMA MachineStarts ==
    ASSUME StartsAfresh, OneTerm
    PROVE  Init => Machine!Init
<1> SUFFICES ASSUME Init PROVE Machine!Init
  OBVIOUS
<1>1. \A i \in Server : db[i] = <<>> /\ Len(db[i]) = 0
  BY EmptySeq DEF Init
<1>2. Ahead \in Server
  BY <1>1, ServerAssumption DEF Ahead
<1> QED
  BY <1>1, <1>2 DEF Init, Machine!Init

LEMMA MachineSteps ==
    ASSUME StartsAfresh, OneTerm, LeadInv, LeadInv', [Next]_vars
    PROVE  [Machine!Next]_(Machine!vars)
<1>1. ASSUME UNCHANGED <<db, acked>> PROVE UNCHANGED Machine!vars
  <2>1. Ahead' = Ahead
    BY <1>1 DEF Ahead
  <2> QED
    BY <1>1, <2>1 DEF Machine!vars
<1>2. CASE UNCHANGED vars
  BY <1>1, <1>2 DEF vars, diskVars, clientVars
<1>3. CASE Next /\ Electing
  <2>1. UNCHANGED <<db, acked>>
    BY <1>3, StepsOfElection
    DEF LeadInv, Campaign, FinishCampaign, HandleVote, diskVars, clientVars
  <2> QED
    BY <1>1, <2>1
<1>4. CASE Next /\ \E l \in Server : Leads(l)
  <2>1. PICK l \in Server : Leads(l)
    BY <1>4
  <2>2. Leads(l)' /\ TypeInv /\ TypeInv'
    BY <1>4, <2>1, LeadStays DEF LeadInv
  <2> QED
    BY <1>1, <1>4, <2>1, <2>2, OneRuns, RunsLikeMachine
<1> QED
  BY <1>2, <1>3, <1>4 DEF LeadInv

(* The databases, with what clients are told, implement ReplicatedMachine:    *)
(* each step of the servers that runs statements or answers OK is a step of   *)
(* the machine, and every other step leaves it alone.                         *)
THEOREM RunsLikeOne ==
    ASSUME StartsAfresh, OneTerm
    PROVE  Spec => RunsAsOneMachine
<1>1. Init => Machine!Init
  BY MachineStarts
<1>2. LeadInv /\ LeadInv' /\ [Next]_vars => [Machine!Next]_(Machine!vars)
  BY MachineSteps
<1> QED
  BY <1>1, <1>2, AlwaysLeadInv, PTL DEF Spec, RunsAsOneMachine, Machine!Spec
===============================================================================
