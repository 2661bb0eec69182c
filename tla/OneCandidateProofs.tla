-------------------------- MODULE OneCandidateProofs --------------------------
(* What holds of replication as long as one server campaigns, l: in clusters  *)
(* of every size, for every number of terms, commands and faults - requests   *)
(* that are lost, late or served twice, crashes and restarts of l and of the  *)
(* others - and from all logs that earlier behaviours may have left.  With a  *)
(* second candidate all of it is false: a leader it deposes goes on sending.  *)
EXTENDS ReplicationProofs

\* No other server leads, replicates or sends, and nobody sends to l.
OnlyLeads(l) ==
    /\ \A i \in Others(l) :
          /\ serverState[i] = Follower
          /\ loop[i] \notin {"polling", "accepted", "mutating"}
          /\ \A k \in Kind : \A j \in Server : call[i][k][j].phase = "idle"
    /\ \A m \in late : m.to # l

\* No term is newer than l's, and l's is no older than at the beginning.
KnowsTerms(l) ==
    /\ InitTerm <= currentTerm[l]
    /\ \A i \in Server : currentTerm[i] <= currentTerm[l]
    /\ poll[l].term <= currentTerm[l]
    /\ \A k \in Kind : \A j \in Server : call[l][k][j].term <= currentTerm[l]
    /\ \A j \in Server : \A req \in Incoming(j) : req.term <= currentTerm[l]

\* What l sends as a leader it sends in a term of its own.
LeadsInOwnTerm(l) ==
    /\ serverState[l] = Leader => currentTerm[l] > InitTerm
    /\ loop[l] \in {"polling", "accepted", "mutating"} => currentTerm[l] > InitTerm
    /\ \A k \in Kind : \A j \in Server :
          call[l][k][j].phase # "idle" => currentTerm[l] > InitTerm
    /\ \A j \in Server : \A req \in Incoming(j) : req.term > InitTerm

\* What l replicates is the last entry of its log, in the term it has there.
ServesLast(l) ==
    loop[l] = "mutating" => log[l][Len(log[l])] = Received(l)

\* Every entry on its way is in l's log, after the entry it names as previous.
Quotes(l, req) ==
    LET n == req.prevIndex + 1 IN
    /\ n \in 1..Len(log[l])
    /\ req.entries[1] = log[l][n]
    /\ req.prevTerm = TermAt(log[l], n - 1)
QuotesOnly(l) ==
    \A j \in Server : \A req \in Incoming(j) : ~ IsHeartbeat(req) => Quotes(l, req)

\* Entries that were not there at the beginning are l's.
NewEntriesAre(l) ==
    \A j \in Server : \A n \in 1..Len(log[j]) :
        log[j][n].term > InitTerm => n <= Len(log[l]) /\ log[l][n] = log[j][n]

MatchInv(l) ==
    /\ TypeInv
    /\ OnlyLeads(l)
    /\ KnowsTerms(l)
    /\ LeadsInOwnTerm(l)
    /\ ServesLast(l)
    /\ QuotesOnly(l)
    /\ NewEntriesAre(l)
    /\ LogMatching

\* j's log and l's are the same up to entry m.
Agree(l, j, m) ==
    /\ m <= Len(log[j]) /\ m <= Len(log[l])
    /\ \A n \in 1..m : log[j][n] = log[l][n]

\* What l's goroutines have on its way is no heartbeat.
CarriesEntries(l) ==
    \A j \in Others(l) : \A k \in Kind :
        call[l][k][j].phase = "sent" => ~ IsHeartbeat(call[l][k][j].req)

\* l's matchIndex, an answer OK to a request of l and a goroutine that reports
\* OK mean what they should.
MatchedAgree(l) ==
    \A j \in Others(l) : Agree(l, j, matchIndex[l][j])
AnsweredAgree(l) ==
    \A j \in Others(l) : \A k \in Kind :
        LET c == call[l][k][j] IN
        c.phase = "answered" /\ c.ok => Agree(l, j, c.req.prevIndex + 1)
SendsLast(l) ==
    \A j \in Others(l) :
        LET c == call[l]["client"][j] IN
        /\ c.phase \in {"sent", "answered"} => c.req.prevIndex + 1 = Len(log[l])
        /\ c.phase = "done" /\ c.ok => Agree(l, j, Len(log[l]))

\* A majority has the entries that l has committed, and the commands it has
\* acknowledged.
HeldByQuorum(l, n) ==
    n <= Len(log[l]) /\ Cardinality(Holders(l, n)) >= QuorumSize
CommittedHeld(l) ==
    \A n \in 1..commitIndex[l] : HeldByQuorum(l, n)
AckedHeld(l) ==
    \A c \in acked : \E n \in 1..Len(log[l]) : log[l][n].data = c /\ HeldByQuorum(l, n)

QuorumInv(l) ==
    /\ MatchInv(l)
    /\ CarriesEntries(l)
    /\ MatchedAgree(l)
    /\ AnsweredAgree(l)
    /\ SendsLast(l)
    /\ CommittedHeld(l)
    /\ AckedHeld(l)
-----------------------------------------------------------------------------
(* The invariant MatchInv: what l sends, and that logs match.                 *)

LEMMA InitMatchInv ==
    ASSUME NEW l \in Server, Init
    PROVE  MatchInv(l)
<1>1. TypeInv
  BY InitTypeInv
<1>2. /\ \A i, j \in Server : \A k \in Kind : call[i][k][j] = IdleCall
      /\ \A i \in Server : serverState[i] = Follower /\ loop[i] \in {"free", "down"}
      /\ Follower # Leader
      /\ late = {}
      /\ poll[l] = NoPoll
      /\ \A i \in Server : currentTerm[i] = InitTerm
      /\ LogMatching /\ TermsInOrder
  BY DEF Init, Follower, Leader
<1>3. \A j \in Server : Incoming(j) = {}
  BY <1>2, CallFacts DEF Incoming, SendsHeartbeats, Others
<1>4. InitTerm \in Nat
  BY InitAssumption
<1>5. OnlyLeads(l)
  BY <1>2, CallFacts DEF OnlyLeads, Others
<1>6. KnowsTerms(l)
  BY <1>2, <1>3, <1>4 DEF KnowsTerms, NoPoll, IdleCall
<1>7. LeadsInOwnTerm(l)
  BY <1>2, <1>3, CallFacts DEF LeadsInOwnTerm
<1>8. ServesLast(l) /\ QuotesOnly(l)
  BY <1>2, <1>3 DEF ServesLast, QuotesOnly
<1>9. NewEntriesAre(l)
  <2> SUFFICES ASSUME NEW j \in Server, NEW n \in 1..Len(log[j])
               PROVE  ~ log[j][n].term > InitTerm
    BY DEF NewEntriesAre
  <2>1. n \in DOMAIN log[j] /\ log[j][n].term \in Nat
    BY <1>1, LogFacts, Types
  <2>2. log[j][n].term <= InitTerm
    BY <1>2, <2>1 DEF TermsInOrder
  <2> QED
    BY <1>4, <2>1, <2>2
<1> QED
  BY <1>1, <1>2, <1>5, <1>6, <1>7, <1>8, <1>9 DEF MatchInv

\* Nobody sends to l.
LEMMA NothingForL ==
    ASSUME NEW l \in Server, TypeInv, OnlyLeads(l)
    PROVE  /\ Incoming(l) = {}
           /\ \A i \in Others(l) : ~ SendsHeartbeats(i)
           /\ \A j \in Server : \A req \in Incoming(j) :
                 \/ \E m \in late : m.to = j /\ req = m.req
                 \/ SendsHeartbeats(l) /\ req = Heartbeat(l)
                 \/ \E k \in Kind : call[l][k][j].phase = "sent" /\ req = call[l][k][j].req
<1>1. \A i \in Others(l) : ~ SendsHeartbeats(i)
  BY DEF OnlyLeads, SendsHeartbeats, Follower, Leader
<1>2. \A i \in Others(l) : \A k \in Kind : \A j \in Server : call[i][k][j].phase # "sent"
  BY DEF OnlyLeads
<1> QED
  BY <1>1, <1>2 DEF Incoming, OnlyLeads, Others

(* With one candidate, only l takes the steps of a candidate and of a leader. *)
LEMMA StepsOfOne ==
    ASSUME NEW l \in Server, Impatient \subseteq {l}, TypeInv, OnlyLeads(l), Next
    PROVE  \/ Campaign(l) \/ FinishCampaign(l)
           \/ \E c \in Command : AcceptCommand(l, c)
           \/ AppendCommand(l) \/ FinishCommand(l) \/ BeginSync(l) \/ EndSync(l)
           \/ \E i \in Server : Crash(i) \/ Restart(i)
           \/ \E j \in Others(l) : \E req \in Incoming(j) : Panic(j, req)
           \/ \E j \in Others(l) : PairNext(l, j)
           \/ \E m \in late : HandleLate(m)
<1>1. ASSUME NEW i \in Others(l)
      PROVE  /\ ~ Campaign(i) /\ ~ FinishCampaign(i)
             /\ \A c \in Command : ~ AcceptCommand(i, c)
             /\ ~ AppendCommand(i) /\ ~ FinishCommand(i) /\ ~ BeginSync(i) /\ ~ EndSync(i)
  <2>1. /\ i \in Server /\ i # l /\ i \notin Impatient /\ serverState[i] # Leader
        /\ loop[i] \notin {"polling", "accepted", "mutating"}
        /\ call[i]["sync"][i].phase # "done"
    BY DEF OnlyLeads, Others, Follower, Leader, Kind
  <2> QED
    BY <2>1 DEF Campaign, FinishCampaign, AcceptCommand, AppendCommand, FinishCommand,
                BeginSync, EndSync
<1>2. ASSUME NEW i \in Others(l), NEW j \in Others(i) PROVE ~ PairNext(i, j)
  <2>1. /\ loop[i] # "polling" /\ ~ SendsHeartbeats(i)
        /\ \A k \in Kind : call[i][k][j].phase = "idle"
    BY NothingForL DEF OnlyLeads, Others
  <2>2. ~ HandleVote(i, j) /\ ~ LoseVote(i, j)
    BY <2>1 DEF HandleVote, LoseVote, Asks
  <2>3. ~ HandleHeartbeat(i, j) /\ ~ DelayHeartbeat(i, j)
    BY <2>1 DEF HandleHeartbeat, DelayHeartbeat
  <2>4. /\ call[i]["client"][j].phase = "idle"
        /\ call[i]["sync"][j].phase = "idle"
    BY <2>1 DEF Kind
  <2>5. /\ ~ SendEntry(i, j) /\ ~ SkipEntry(i, j) /\ ~ ReceiveEntryReply(i, j)
        /\ ~ SendSync(i, j) /\ ~ SkipSync(i, j) /\ ~ ReceiveSyncReply(i, j)
    BY <2>4 DEF SendEntry, SkipEntry, ReceiveEntryReply, SendSync, SkipSync, ReceiveSyncReply
  <2>6. \A k \in Kind : /\ ~ HandleAppendEntries(i, k, j)
                        /\ ~ Refused(i, k, j) /\ ~ Break(i, k, j)
    BY <2>1 DEF HandleAppendEntries, Refused, Break
  <2> QED
    BY <2>2, <2>3, <2>5, <2>6 DEF PairNext
<1>3. CASE \E i \in Server : ServerNext(i)
  <2>1. PICK i \in Server : ServerNext(i)
    BY <1>3
  <2>2. CASE i = l
    BY <2>1, <2>2, NothingForL DEF ServerNext
  <2>3. CASE i \in Others(l)
    BY <2>1, <2>3, <1>1 DEF ServerNext
  <2> QED
    BY <2>2, <2>3 DEF Others
<1>4. CASE \E i \in Server : \E j \in Others(i) : PairNext(i, j)
  <2>0. PICK i \in Server : \E j \in Others(i) : PairNext(i, j)
    BY <1>4
  <2>1. PICK j \in Others(i) : PairNext(i, j)
    BY <2>0
  <2>2. CASE i = l
    BY <2>1, <2>2
  <2>3. CASE i \in Others(l)
    BY <2>1, <2>3, <1>2
  <2> QED
    BY <2>2, <2>3 DEF Others
<1> QED
  BY <1>3, <1>4 DEF Next

LEMMA OnlyLeadsStays ==
    ASSUME NEW l \in Server, Impatient \subseteq {l}, TypeInv, OnlyLeads(l), Next
    PROVE  OnlyLeads(l)'
<1>1. ASSUME NEW m \in late' PROVE m.to # l
  BY <1>1, LateSteps, NothingForL DEF OnlyLeads
<1>2. ASSUME NEW i \in Others(l)
      PROVE  /\ serverState'[i] = Follower
             /\ loop'[i] \notin {"polling", "accepted", "mutating"}
             /\ \A k \in Kind : \A j \in Server : call'[i][k][j].phase = "idle"
  <2>1. /\ i \in Server /\ i # l
        /\ serverState[i] = Follower
        /\ loop[i] \notin {"polling", "accepted", "mutating"}
        /\ \A k \in Kind : \A j \in Server : call[i][k][j].phase = "idle"
    BY DEF OnlyLeads, Others
  <2> DEFINE Same == serverState'[i] = Follower /\ loop'[i] = loop[i] /\ call'[i] = call[i]
             Goal == /\ serverState'[i] = Follower
                     /\ loop'[i] \notin {"polling", "accepted", "mutating"}
                     /\ \A k \in Kind : \A j \in Server : call'[i][k][j].phase = "idle"
  <2> SUFFICES Goal
    OBVIOUS
  <2>2. ASSUME Same PROVE Goal
    BY <2>1, <2>2
  <2> /\ serverState \in [Server -> {Follower, Leader}]
      /\ loop \in [Server -> LoopState]
      /\ call \in [Server -> [Kind -> [Server -> Call]]]
    BY Types
  <2>3. ASSUME NEW h \in Server, NEW term, StepDownIfStale(h, term)
        PROVE  serverState'[i] = Follower
    BY <2>1, <2>3 DEF StepDownIfStale
  <2>4. ASSUME NEW h \in Server, NEW req, Receive(h, req)
        PROVE  serverState'[i] = Follower /\ loop' = loop
    BY <2>3, <2>4 DEF Receive
  <2>5. ASSUME NEW h \in Server, NEW how \in {"down", "panicked"}, Die(h, how) PROVE Goal
    <3>1. /\ serverState' = [serverState EXCEPT ![h] = Follower]
          /\ loop' = [loop EXCEPT ![h] = how]
          /\ \A k \in Kind : \A j \in Server :
                call'[i][k][j] = IF i = h THEN IdleCall
                                 ELSE IF j = h /\ call[i][k][j].phase = "sent" THEN Done(FALSE)
                                 ELSE call[i][k][j]
      BY <2>1, <2>5 DEF Die
    <3>2. serverState'[i] = Follower /\ loop'[i] \in {loop[i], "down", "panicked"}
      BY <2>1, <3>1
    <3>3. \A k \in Kind : \A j \in Server : call'[i][k][j].phase = "idle"
      <4> SUFFICES ASSUME NEW k \in Kind, NEW j \in Server PROVE call'[i][k][j].phase = "idle"
        OBVIOUS
      <4>1. call[i][k][j].phase = "idle" /\ IdleCall.phase = "idle"
        BY <2>1, CallFacts
      <4>2. call'[i][k][j] \in {IdleCall, call[i][k][j]}
        BY <3>1, <4>1
      <4> QED
        BY <4>1, <4>2
    <3> QED
      BY <2>1, <3>2, <3>3
  <2>6. CASE \/ Campaign(l) \/ FinishCampaign(l)
             \/ \E c \in Command : AcceptCommand(l, c)
             \/ AppendCommand(l) \/ FinishCommand(l) \/ BeginSync(l) \/ EndSync(l)
    <3>1. Same
      BY <2>1, <2>6
      DEF Campaign, FinishCampaign, AcceptCommand, AppendCommand, FinishCommand,
          BeginSync, EndSync, nodeVars
    <3> QED
      BY <2>2, <3>1
  <2>7. ASSUME NEW h \in Server, Crash(h) PROVE Goal
    BY <2>5, <2>7 DEF Crash
  <2>8. ASSUME NEW h \in Server, Restart(h) PROVE Goal
    <3>1. /\ loop' = [loop EXCEPT ![h] = "free"]
          /\ UNCHANGED <<serverState, call>>
      BY <2>8 DEF Restart
    <3> QED
      BY <2>1, <3>1
  <2>9. ASSUME NEW h \in Others(l), NEW req \in Incoming(h), Panic(h, req) PROVE Goal
    BY <2>5, <2>9 DEF Panic, Others
  <2>10. ASSUME NEW j \in Others(l), PairNext(l, j) PROVE Goal
    <3> j \in Server
      BY DEF Others
    <3>1. CASE HandleVote(l, j)
      <4>1. serverState'[i] = Follower
        BY <2>3, <3>1 DEF HandleVote
      <4> QED
        BY <2>2, <3>1, <4>1 DEF HandleVote
    <3>2. CASE LoseVote(l, j)
      <4>1. serverState'[i] = Follower
        BY <2>1, <2>3, <3>2 DEF LoseVote
      <4> QED
        BY <2>2, <3>2, <4>1 DEF LoseVote
    <3>3. CASE ReceiveEntryReply(l, j)
      <4>1. serverState'[i] = Follower
        BY <2>3, <3>3 DEF ReceiveEntryReply
      <4> QED
        BY <2>1, <2>2, <3>3, <4>1 DEF ReceiveEntryReply
    <3>4. CASE ReceiveSyncReply(l, j)
      <4>1. serverState'[i] = Follower
        BY <2>1, <2>3, <3>4 DEF ReceiveSyncReply
      <4> QED
        BY <2>1, <2>2, <3>4, <4>1 DEF ReceiveSyncReply
    <3>5. CASE HandleHeartbeat(l, j)
      BY <2>2, <2>4, <3>5 DEF HandleHeartbeat
    <3>6. ASSUME NEW k \in Kind, HandleAppendEntries(l, k, j) PROVE Goal
      <4>1. serverState'[i] = Follower /\ loop' = loop
        BY <2>4, <3>6 DEF HandleAppendEntries
      <4> QED
        BY <2>1, <2>2, <3>6, <4>1 DEF HandleAppendEntries
    <3>7. CASE \/ SendEntry(l, j) \/ SkipEntry(l, j) \/ SendSync(l, j) \/ SkipSync(l, j)
               \/ DelayHeartbeat(l, j) \/ \E k \in Kind : Refused(l, k, j) \/ Break(l, k, j)
      <4>1. Same
        BY <2>1, <3>7
        DEF SendEntry, SkipEntry, SendSync, SkipSync, DelayHeartbeat, Refused, Break, nodeVars
      <4> QED
        BY <2>2, <4>1
    <3> QED
      BY <2>10, <3>1, <3>2, <3>3, <3>4, <3>5, <3>6, <3>7 DEF PairNext
  <2>11. ASSUME NEW m \in late, HandleLate(m) PROVE Goal
    <3>1. m.to \in Server
      BY InTransit
    <3> QED
      BY <2>2, <2>4, <2>11, <3>1 DEF HandleLate
  <2> QED
    BY <2>6, <2>7, <2>8, <2>9, <2>10, <2>11, StepsOfOne
<1> QED
  BY <1>1, <1>2 DEF OnlyLeads

\* A goroutine's record when it has sent req, and when that is answered.
Sent(req) == [IdleCall EXCEPT !.phase = "sent", !.req = req]
Answered(c, term, ok) == [c EXCEPT !.phase = "answered", !.term = term, !.ok = ok]

\* What a step may do to l's goroutine of kind k for j.
CallStep(l, k, j) ==
    LET c == call[l][k][j] IN
    \/ call'[l][k][j] = c
    \/ call'[l][k][j] = IdleCall
    \/ /\ call'[l][k][j] \in {Spawned, Done(FALSE)}
       /\ c.phase # "idle" \/ AppendCommand(l) \/ BeginSync(l)
    \/ /\ k = "client" /\ SendEntry(l, j)
       /\ call'[l][k][j] = Sent(EntryRequest(l, Len(log[l]), Received(l)))
    \/ /\ k = "sync" /\ SendSync(l, j) /\ nextIndex[l][j] \in 1..Len(log[l])
       /\ call'[l][k][j] = Sent(EntryRequest(l, nextIndex[l][j], log[l][nextIndex[l][j]]))
    \/ /\ HandleAppendEntries(l, k, j)
       /\ call'[l][k][j] = Answered(c, currentTerm'[j], Accepts(j, c.req))
    \/ /\ k = "client" /\ ReceiveEntryReply(l, j)
       /\ call'[l][k][j] = Done(c.ok /\ c.term <= currentTerm[l])
    \/ /\ k = "sync" /\ ReceiveSyncReply(l, j)
       /\ call'[l][k][j] = Done(c.ok)

LEMMA CallsOfOne ==
    ASSUME NEW l \in Server, Impatient \subseteq {l}, TypeInv, OnlyLeads(l), Next,
           NEW k \in Kind, NEW j \in Server
    PROVE  CallStep(l, k, j)
<1> DEFINE c == call[l][k][j]
<1> call \in [Server -> [Kind -> [Server -> Call]]]
  BY Types
<1> "client" \in Kind /\ "sync" \in Kind /\ "client" # "sync"
  BY DEF Kind
<1>1. ASSUME UNCHANGED call PROVE CallStep(l, k, j)
  BY <1>1 DEF CallStep
<1>2. ASSUME NEW m \in Kind, NEW f, call' = [call EXCEPT ![l][m] = f]
      PROVE  call'[l][k][j] = IF k = m THEN f[j] ELSE c
  BY <1>2
<1>3. ASSUME NEW m \in Kind, NEW h \in Server, NEW r, call' = [call EXCEPT ![l][m][h] = r]
      PROVE  call'[l][k][j] = IF k = m /\ j = h THEN r ELSE c
  BY <1>3
<1>4. ASSUME NEW h \in Server, NEW how, Die(h, how) PROVE CallStep(l, k, j)
  <2>1. call'[l][k][j] = IF l = h THEN IdleCall
                         ELSE IF j = h /\ c.phase = "sent" THEN Done(FALSE)
                         ELSE c
    BY <1>4 DEF Die
  <2>2. c.phase = "sent" => c.phase # "idle"
    OBVIOUS
  <2> QED
    BY <2>1, <2>2 DEF CallStep
<1>5. CASE \/ Campaign(l) \/ FinishCampaign(l)
           \/ \E a \in Command : AcceptCommand(l, a)
           \/ \E i \in Server : Restart(i)
           \/ \E m \in late : HandleLate(m)
  <2>1. UNCHANGED call
    BY <1>5 DEF Campaign, FinishCampaign, AcceptCommand, Restart, HandleLate
  <2> QED
    BY <1>1, <2>1
<1>6. CASE AppendCommand(l)
  <2> DEFINE f == [h \in Server |-> IF h = l THEN IdleCall
                                    ELSE IF serverState[l] = Leader THEN Spawned
                                    ELSE Done(FALSE)]
  <2>1. call'[l][k][j] = IF k = "client" THEN f[j] ELSE c
    BY <1>2, <1>6 DEF AppendCommand
  <2>2. f[j] \in {IdleCall, Spawned, Done(FALSE)}
    OBVIOUS
  <2> QED
    BY <1>6, <2>1, <2>2 DEF CallStep
<1>7. CASE FinishCommand(l) \/ EndSync(l)
  <2>1. call'[l][k][j] \in {IdleCall, c}
    BY <1>2, <1>7 DEF FinishCommand, EndSync
  <2> QED
    BY <2>1 DEF CallStep
<1>8. CASE BeginSync(l)
  <2> DEFINE f == [h \in Server |-> IF h = l THEN Done(FALSE) ELSE Spawned]
  <2>1. call'[l][k][j] = IF k = "sync" THEN f[j] ELSE c
    BY <1>2, <1>8 DEF BeginSync
  <2>2. f[j] \in {Spawned, Done(FALSE)}
    OBVIOUS
  <2> QED
    BY <1>8, <2>1, <2>2 DEF CallStep
<1>9. ASSUME NEW i \in Server, Crash(i) PROVE CallStep(l, k, j)
  BY <1>4, <1>9 DEF Crash
<1>10. ASSUME NEW i \in Server, NEW req, Panic(i, req) PROVE CallStep(l, k, j)
  BY <1>4, <1>10 DEF Panic
<1>11. ASSUME NEW h \in Others(l), PairNext(l, h) PROVE CallStep(l, k, j)
  <2> h \in Server
    BY DEF Others
  <2>1. CASE \/ HandleVote(l, h) \/ LoseVote(l, h)
             \/ HandleHeartbeat(l, h) \/ DelayHeartbeat(l, h)
    <3>1. UNCHANGED call
      BY <2>1 DEF HandleVote, LoseVote, HandleHeartbeat, DelayHeartbeat
    <3> QED
      BY <1>1, <3>1
  <2>2. CASE SkipEntry(l, h)
    <3>1. /\ call'[l][k][j] = IF k = "client" /\ j = h THEN Done(FALSE) ELSE c
          /\ call[l]["client"][h].phase # "idle"
      BY <1>3, <2>2 DEF SkipEntry
    <3> QED
      BY <3>1 DEF CallStep
  <2>3. CASE SkipSync(l, h)
    <3>1. /\ call'[l][k][j] = IF k = "sync" /\ j = h THEN Done(FALSE) ELSE c
          /\ call[l]["sync"][h].phase # "idle"
      BY <1>3, <2>3 DEF SkipSync
    <3> QED
      BY <3>1 DEF CallStep
  <2>4. ASSUME NEW m \in Kind, Refused(l, m, h) \/ Break(l, m, h) PROVE CallStep(l, k, j)
    <3>1. /\ call'[l][k][j] = IF k = m /\ j = h THEN Done(FALSE) ELSE c
          /\ call[l][m][h].phase # "idle"
      BY <1>3, <2>4 DEF Refused, Break
    <3> QED
      BY <3>1 DEF CallStep
  <2>5. CASE SendEntry(l, h)
    <3>1. call'[l][k][j] = IF k = "client" /\ j = h
                           THEN Sent(EntryRequest(l, Len(log[l]), Received(l))) ELSE c
      BY <1>3, <2>5 DEF SendEntry, Sent, EntryRequest, Received
    <3> QED
      BY <2>5, <3>1 DEF CallStep
  <2>6. CASE SendSync(l, h)
    <3> DEFINE n == nextIndex[l][h]
               r == IF n \in 1..Len(log[l])
                    THEN Sent(EntryRequest(l, n, log[l][n])) ELSE Done(FALSE)
    <3>1. /\ call' = [call EXCEPT ![l]["sync"][h] = r]
          /\ call[l]["sync"][h].phase # "idle"
      BY <2>6 DEF SendSync, Lacks, Sent, EntryRequest
    <3> HIDE DEF r
    <3>2. call'[l][k][j] = IF k = "sync" /\ j = h THEN r ELSE c
      BY <1>3, <3>1
    <3> QED
      BY <2>6, <3>1, <3>2 DEF CallStep, r
  <2>7. CASE ReceiveEntryReply(l, h)
    <3>1. call'[l][k][j] =
             IF k = "client" /\ j = h
             THEN Done(call[l]["client"][h].ok /\ call[l]["client"][h].term <= currentTerm[l])
             ELSE c
      BY <1>3, <2>7 DEF ReceiveEntryReply
    <3> QED
      BY <2>7, <3>1 DEF CallStep
  <2>8. CASE ReceiveSyncReply(l, h)
    <3>1. call'[l][k][j] = IF k = "sync" /\ j = h THEN Done(call[l]["sync"][h].ok) ELSE c
      BY <1>3, <2>8 DEF ReceiveSyncReply
    <3> QED
      BY <2>8, <3>1 DEF CallStep
  <2>9. ASSUME NEW m \in Kind, HandleAppendEntries(l, m, h) PROVE CallStep(l, k, j)
    <3> DEFINE d == call[l][m][h]
               r == Answered(d, currentTerm'[h], Accepts(h, d.req))
    <3>1. call' = [call EXCEPT ![l][m][h] = r]
      BY <2>9 DEF HandleAppendEntries, Answered
    <3> HIDE DEF r
    <3>2. call'[l][k][j] = IF k = m /\ j = h THEN r ELSE c
      BY <1>3, <3>1
    <3> QED
      BY <2>9, <3>2 DEF CallStep, r
  <2> QED
    BY <1>11, <2>1, <2>2, <2>3, <2>4, <2>5, <2>6, <2>7, <2>8, <2>9 DEF PairNext
<1> QED
  BY <1>5, <1>6, <1>7, <1>8, <1>9, <1>10, <1>11, StepsOfOne DEF Others

\* In particular: the term a step leaves, and what starts a goroutine.
LEMMA CallShapes ==
    ASSUME TypeInv, NEW l \in Server, NEW k \in Kind, NEW j \in Server, CallStep(l, k, j)
    PROVE  /\ call'[l][k][j].term \in {call[l][k][j].term, 0, currentTerm'[j]}
           /\ call'[l][k][j].phase # "idle" /\ call[l][k][j].phase = "idle" =>
                 AppendCommand(l) \/ BeginSync(l)
<1> DEFINE c == call[l][k][j]
           d == call'[l][k][j]
<1>1. c \in Call /\ c.ok \in BOOLEAN
  BY InTransit DEF Call
<1>2. /\ \A req : Sent(req).term = 0
      /\ \A ok : Done(ok).term = 0
      /\ Spawned.term = 0 /\ IdleCall.term = 0 /\ IdleCall.phase = "idle"
  BY DEF Sent, Done, Spawned, IdleCall
<1>3. \A term, ok : Answered(c, term, ok).term = term
  BY <1>1 DEF Answered, Call
<1>4. CASE d = c \/ d = IdleCall
  BY <1>2, <1>4
<1>5. CASE /\ d \in {Spawned, Done(FALSE)}
           /\ c.phase # "idle" \/ AppendCommand(l) \/ BeginSync(l)
  BY <1>2, <1>5
<1>6. CASE /\ SendEntry(l, j) /\ k = "client"
           /\ d = Sent(EntryRequest(l, Len(log[l]), Received(l)))
  BY <1>2, <1>6 DEF SendEntry
<1>7. CASE /\ SendSync(l, j) /\ k = "sync"
           /\ d = Sent(EntryRequest(l, nextIndex[l][j], log[l][nextIndex[l][j]]))
  BY <1>2, <1>7 DEF SendSync, Lacks
<1>8. CASE HandleAppendEntries(l, k, j) /\ d = Answered(c, currentTerm'[j], Accepts(j, c.req))
  <2>1. c.phase = "sent"
    BY <1>8 DEF HandleAppendEntries
  <2> QED
    BY <1>3, <1>8, <2>1
<1>9. CASE ReceiveEntryReply(l, j) /\ k = "client" /\ d = Done(c.ok /\ c.term <= currentTerm[l])
  <2>1. c.phase = "answered"
    BY <1>9 DEF ReceiveEntryReply
  <2> QED
    BY <1>2, <1>9, <2>1
<1>10. CASE ReceiveSyncReply(l, j) /\ k = "sync" /\ d = Done(c.ok)
  <2>1. c.phase = "answered"
    BY <1>10 DEF ReceiveSyncReply
  <2> QED
    BY <1>2, <1>10, <2>1
<1> QED
  BY <1>4, <1>5, <1>6, <1>7, <1>8, <1>9, <1>10 DEF CallStep

\* What goes on its way is sent by l: a heartbeat, its command or an entry.
LEMMA RequestsOfOne ==
    ASSUME NEW l \in Server, Impatient \subseteq {l}, TypeInv, OnlyLeads(l), Next,
           NEW j \in Server, NEW req \in Incoming(j)'
    PROVE  \/ req \in Incoming(j)
           \/ SendsHeartbeats(l)' /\ req = Heartbeat(l)'
           \/ SendEntry(l, j) /\ req = EntryRequest(l, Len(log[l]), Received(l))
           \/ SendSync(l, j) /\ \E n \in 1..Len(log[l]) : req = EntryRequest(l, n, log[l][n])
<1>1. /\ Incoming(l)' = {}
      /\ \/ \E m \in late' : m.to = j /\ req = m.req
         \/ SendsHeartbeats(l)' /\ req = Heartbeat(l)'
         \/ \E k \in Kind : call'[l][k][j].phase = "sent" /\ req = call'[l][k][j].req
  <2>1. TypeInv' /\ OnlyLeads(l)'
    BY NextTypeInv, OnlyLeadsStays
  <2>2. /\ \A i \in Others(l) : ~ SendsHeartbeats(i)'
        /\ \A i \in Others(l) : \A k \in Kind : call'[i][k][j].phase # "sent"
        /\ \A i \in Others(l) : \A k \in Kind : call'[i][k][l].phase # "sent"
        /\ \A m \in late' : m.to # l
    BY <2>1 DEF OnlyLeads, SendsHeartbeats, Follower, Leader
  <2> QED
    BY <2>2 DEF Incoming, Others
<1>2. l \in Others(j)
  BY <1>1 DEF Others
<1>3. CASE \E m \in late' : m.to = j /\ req = m.req
  <2>1. PICK m \in late' : m.to = j /\ req = m.req
    BY <1>3
  <2>2. CASE m \in late
    BY <2>1, <2>2 DEF Incoming
  <2> QED
    BY <2>1, <2>2, LateSteps
<1>4. CASE \E k \in Kind : call'[l][k][j].phase = "sent" /\ req = call'[l][k][j].req
  <2>1. PICK k \in Kind : call'[l][k][j].phase = "sent" /\ req = call'[l][k][j].req
    BY <1>4
  <2>2. CASE call[l][k][j].phase = "sent" /\ call'[l][k][j].req = call[l][k][j].req
    BY <1>2, <2>1, <2>2, CallIsIncoming
  <2> QED
    BY <2>1, <2>2, CallSteps
<1> QED
  BY <1>1, <1>3, <1>4

\* Terms are l's, and l becomes busy or leader one step at a time.
LEMMA StateOfOne ==
    ASSUME NEW l \in Server, Impatient \subseteq {l}, TypeInv, OnlyLeads(l), KnowsTerms(l), Next
    PROVE  /\ \A i \in Server : currentTerm'[i] <= currentTerm'[l]
           /\ currentTerm'[l] = currentTerm[l] \/ Campaign(l)
           /\ poll'[l].term <= currentTerm'[l]
           /\ serverState'[l] = Leader => serverState[l] = Leader \/ loop[l] = "polling"
           /\ loop'[l] \in {"polling", "accepted", "mutating"} =>
                 \/ loop[l] \in {"polling", "accepted", "mutating"}
                 \/ serverState[l] = Leader \/ Campaign(l)
           /\ loop'[l] = "mutating" =>
                 \/ AppendCommand(l)
                 \/ loop[l] = "mutating" /\ serving'[l] = serving[l]
<1> DEFINE TermsKnown ==
              /\ \A i \in Server : currentTerm'[i] <= currentTerm'[l]
              /\ currentTerm'[l] = currentTerm[l] \/ Campaign(l)
           PollKnown == poll'[l].term <= currentTerm'[l]
           OneByOne ==
              /\ serverState'[l] = Leader => serverState[l] = Leader \/ loop[l] = "polling"
              /\ loop'[l] \in {"polling", "accepted", "mutating"} =>
                    \/ loop[l] \in {"polling", "accepted", "mutating"}
                    \/ serverState[l] = Leader \/ Campaign(l)
              /\ loop'[l] = "mutating" =>
                    \/ AppendCommand(l)
                    \/ loop[l] = "mutating" /\ serving'[l] = serving[l]
           Goal == TermsKnown /\ PollKnown /\ OneByOne
<1> SUFFICES Goal
  OBVIOUS
<1> USE DEF nodeVars
<1> /\ currentTerm \in [Server -> Nat]
    /\ serverState \in [Server -> {Follower, Leader}]
    /\ loop \in [Server -> LoopState]
    /\ serving \in [Server -> Command \cup {Nil}]
    /\ poll \in [Server -> Poll]
    /\ poll[l].term \in Nat
    /\ Follower # Leader
  BY Types DEF Poll, Follower, Leader
<1>1. /\ \A i \in Server : currentTerm[i] <= currentTerm[l]
      /\ poll[l].term <= currentTerm[l]
  BY DEF KnowsTerms
<1>2. ASSUME UNCHANGED currentTerm
      PROVE  TermsKnown /\ currentTerm'[l] = currentTerm[l]
  BY <1>1, <1>2
<1>3. ASSUME NEW j \in Others(l), NEW term \in Nat, term <= currentTerm[l],
             StepDownIfStale(j, term)
      PROVE  TermsKnown /\ currentTerm'[l] = currentTerm[l] /\ serverState'[l] = serverState[l]
  <2>1. j \in Server /\ j # l
    BY DEF Others
  <2>2. \/ UNCHANGED <<currentTerm, serverState>>
        \/ /\ currentTerm' = [currentTerm EXCEPT ![j] = term]
           /\ serverState' = [serverState EXCEPT ![j] = Follower]
    BY <1>3 DEF StepDownIfStale
  <2> QED
    BY <1>1, <1>3, <2>1, <2>2
<1>4. ASSUME NEW term \in Nat, term <= currentTerm[l], StepDownIfStale(l, term)
      PROVE  TermsKnown /\ UNCHANGED <<currentTerm, serverState>>
  <2>1. UNCHANGED <<currentTerm, serverState>>
    BY <1>4 DEF StepDownIfStale
  <2> QED
    BY <1>2, <2>1
<1>5. ASSUME serverState'[l] = serverState[l], loop'[l] = loop[l], serving'[l] = serving[l]
      PROVE  OneByOne
  BY <1>5
<1>6. ASSUME poll'[l].term \in {poll[l].term, 0}, currentTerm'[l] = currentTerm[l]
      PROVE  PollKnown
  BY <1>1, <1>6
<1>7. ASSUME NEW j \in Others(l), NEW req \in Incoming(j), Receive(j, req)
      PROVE  Goal
  <2>1. req.term \in Nat /\ req.term <= currentTerm[l]
    BY IncomingFacts, RequestFacts DEF KnowsTerms, Others
  <2>2. StepDownIfStale(j, req.term) /\ UNCHANGED <<loop, serving, poll>>
    BY <1>7 DEF Receive
  <2> QED
    BY <1>3, <1>5, <1>6, <2>1, <2>2
<1>8. ASSUME NEW i \in Server, NEW how \in {"down", "panicked"}, Die(i, how)
      PROVE  OneByOne /\ poll'[l].term \in {poll[l].term, 0}
  <2>1. /\ serverState'[l] \in {serverState[l], Follower}
        /\ loop'[l] \in {loop[l], how}
        /\ loop'[l] = how \/ serving'[l] = serving[l]
        /\ poll'[l] \in {poll[l], NoPoll}
    BY <1>8 DEF Die
  <2> QED
    BY <1>8, <2>1 DEF NoPoll
<1>9. CASE Campaign(l)
  <2>1. /\ currentTerm' = [currentTerm EXCEPT ![l] = @ + 1]
        /\ poll'[l].term = currentTerm[l] + 1
        /\ UNCHANGED serverState
    BY <1>9 DEF Campaign
  <2>2. OneByOne
    BY <1>9, <2>1 DEF Campaign
  <2> QED
    BY <1>1, <1>9, <2>1, <2>2
<1>10. CASE FinishCampaign(l)
  <2>1. UNCHANGED currentTerm /\ poll'[l].term = 0
    BY <1>10 DEF FinishCampaign, diskVars, NoPoll
  <2>2. OneByOne
    BY <1>10 DEF FinishCampaign
  <2> QED
    BY <1>2, <1>6, <2>1, <2>2
<1>11. CASE \/ \E c \in Command : AcceptCommand(l, c)
            \/ AppendCommand(l) \/ FinishCommand(l)
  <2>1. UNCHANGED <<currentTerm, poll, serverState>>
    BY <1>11 DEF AcceptCommand, AppendCommand, FinishCommand, diskVars
  <2>2. OneByOne
    BY <1>11, <2>1 DEF AcceptCommand, AppendCommand, FinishCommand
  <2> QED
    BY <1>2, <1>6, <2>1, <2>2
<1>12. CASE BeginSync(l) \/ EndSync(l)
  <2>1. UNCHANGED <<currentTerm, poll, serverState, loop, serving>>
    BY <1>12 DEF BeginSync, EndSync, diskVars
  <2> QED
    BY <1>2, <1>5, <1>6, <2>1
<1>13. ASSUME NEW i \in Server, Crash(i) PROVE Goal
  BY <1>2, <1>6, <1>8, <1>13 DEF Crash
<1>14. ASSUME NEW i \in Server, Restart(i) PROVE Goal
  <2>1. /\ UNCHANGED <<currentTerm, poll, serverState, serving>>
        /\ loop'[l] \in {loop[l], "free"}
    BY <1>14 DEF Restart, diskVars
  <2> QED
    BY <1>2, <1>6, <2>1
<1>15. ASSUME NEW j \in Others(l), NEW req \in Incoming(j), Panic(j, req) PROVE Goal
  <2>1. req.term <= currentTerm[l] /\ j \in Server /\ j # l
    BY DEF KnowsTerms, Others
  <2>2. currentTerm' = [currentTerm EXCEPT ![j] = req.term]
    BY <1>15 DEF Panic
  <2>3. TermsKnown /\ currentTerm'[l] = currentTerm[l]
    BY <1>1, <2>1, <2>2
  <2>4. OneByOne /\ poll'[l].term \in {poll[l].term, 0}
    BY <1>8, <1>15, <2>1 DEF Panic
  <2> QED
    BY <1>6, <2>3, <2>4
<1>16. ASSUME NEW j \in Others(l), PairNext(l, j) PROVE Goal
  <2>1. j \in Server /\ l \in Others(j) /\ currentTerm[j] \in Nat
    BY DEF Others
  <2>2. CASE HandleVote(l, j)
    <3> DEFINE answer == Larger(currentTerm[j], poll[l].term)
    <3>1. answer \in Nat /\ answer <= currentTerm[l]
      BY <1>1, <2>1 DEF Larger
    <3>2. /\ StepDownIfStale(IF answer > currentTerm[l] THEN l ELSE j, answer)
          /\ UNCHANGED <<loop, serving>>
          /\ poll'[l].term = poll[l].term
      BY <2>2 DEF HandleVote
    <3>3. StepDownIfStale(j, answer)
      BY <3>1, <3>2
    <3> QED
      BY <1>3, <1>5, <1>6, <3>1, <3>2, <3>3
  <2>3. CASE LoseVote(l, j)
    <3>1. /\ \/ UNCHANGED <<currentTerm, serverState>>
             \/ StepDownIfStale(j, poll[l].term)
          /\ UNCHANGED <<loop, serving>>
          /\ poll'[l].term = poll[l].term
      BY <2>3 DEF LoseVote
    <3>2. CASE UNCHANGED <<currentTerm, serverState>>
      BY <1>2, <1>5, <1>6, <3>1, <3>2
    <3>3. CASE StepDownIfStale(j, poll[l].term)
      BY <1>1, <1>3, <1>5, <1>6, <3>1, <3>3
    <3> QED
      BY <3>1, <3>2, <3>3
  <2>4. CASE \/ SendEntry(l, j) \/ SkipEntry(l, j) \/ SendSync(l, j) \/ SkipSync(l, j)
             \/ DelayHeartbeat(l, j) \/ \E k \in Kind : Refused(l, k, j) \/ Break(l, k, j)
    <3>1. UNCHANGED <<currentTerm, poll, serverState, loop, serving>>
      BY <2>4
      DEF SendEntry, SkipEntry, SendSync, SkipSync, DelayHeartbeat, Refused, Break, diskVars
    <3> QED
      BY <1>2, <1>5, <1>6, <3>1
  <2>5. ASSUME NEW k \in Kind
        PROVE  call[l][k][j].term \in Nat /\ call[l][k][j].term <= currentTerm[l]
    BY <2>1, InTransit DEF KnowsTerms, Call
  <2>6. CASE ReceiveEntryReply(l, j)
    <3>1. /\ StepDownIfStale(l, call[l]["client"][j].term)
          /\ UNCHANGED <<loop, serving, poll>>
      BY <2>6 DEF ReceiveEntryReply
    <3> QED
      BY <1>4, <1>5, <1>6, <2>5, <3>1 DEF Kind
  <2>7. CASE ReceiveSyncReply(l, j)
    <3>0. /\ \/ StepDownIfStale(l, call[l]["sync"][j].term)
             \/ UNCHANGED <<currentTerm, serverState>>
          /\ UNCHANGED <<loop, serving>>
          /\ \/ UNCHANGED poll
             \/ poll' = [poll EXCEPT ![l].count = CountAfter(l, call[l]["sync"][j].term)]
      BY <2>7 DEF ReceiveSyncReply
    <3>1. poll'[l].term = poll[l].term
      <4>1. ASSUME NEW n, poll' = [poll EXCEPT ![l].count = n] PROVE poll'[l].term = poll[l].term
        <5>1. poll'[l] = [poll[l] EXCEPT !.count = n]
          BY <4>1
        <5> QED
          BY <5>1 DEF Poll
      <4> QED
        BY <3>0, <4>1
    <3>2. CASE StepDownIfStale(l, call[l]["sync"][j].term)
      BY <1>4, <1>5, <1>6, <2>5, <3>0, <3>1, <3>2 DEF Kind
    <3>3. CASE UNCHANGED <<currentTerm, serverState>>
      BY <1>2, <1>5, <1>6, <3>0, <3>1, <3>3
    <3> QED
      BY <3>0, <3>2, <3>3
  <2>8. CASE HandleHeartbeat(l, j)
    <3>1. Heartbeat(l) \in Incoming(j)
      BY <2>1, <2>8 DEF HandleHeartbeat, Incoming
    <3> QED
      BY <1>7, <2>8, <3>1 DEF HandleHeartbeat
  <2>9. ASSUME NEW k \in Kind, HandleAppendEntries(l, k, j) PROVE Goal
    <3>1. call[l][k][j].req \in Incoming(j)
      BY <2>1, <2>9, CallIsIncoming DEF HandleAppendEntries
    <3> QED
      BY <1>7, <2>9, <3>1 DEF HandleAppendEntries
  <2> QED
    BY <1>16, <2>2, <2>3, <2>4, <2>6, <2>7, <2>8, <2>9 DEF PairNext
<1>17. ASSUME NEW m \in late, HandleLate(m) PROVE Goal
  <2>1. m.to \in Others(l) /\ m.req \in Incoming(m.to)
    BY InTransit DEF OnlyLeads, Others, Incoming
  <2> QED
    BY <1>7, <1>17, <2>1 DEF HandleLate
<1> QED
  BY <1>9, <1>10, <1>11, <1>12, <1>13, <1>14, <1>15, <1>16, <1>17, StepsOfOne

\* l's log only grows.
LEMMA LogOfLeader ==
    ASSUME NEW l \in Server, Impatient \subseteq {l}, TypeInv, OnlyLeads(l), Next
    PROVE  /\ Len(log[l]) \in Nat /\ Len(log'[l]) \in Nat
           /\ Len(log[l]) <= Len(log'[l])
           /\ \A n \in 1..Len(log[l]) : log'[l][n] = log[l][n]
           /\ \/ log'[l] = log[l]
              \/ /\ AppendCommand(l) /\ loop[l] = "accepted"
                 /\ currentTerm'[l] = currentTerm[l]
                 /\ Len(log'[l]) = Len(log[l]) + 1
                 /\ log'[l][Len(log[l]) + 1] = Received(l)
<1>1. Incoming(l) = {}
  BY NothingForL
<1>2. log[l] \in Seq(Entry) /\ Len(log[l]) \in Nat
  BY LogFacts, Types
<1>3. CASE log'[l] = log[l]
  BY <1>2, <1>3
<1>4. CASE /\ AppendCommand(l) /\ loop[l] = "accepted"
           /\ log'[l] = Append(log[l], Received(l))
           /\ UNCHANGED currentTerm
  <2>1. Received(l) \in Entry
    BY <1>4 DEF Received, Entry, TypeInv, TypeOK
  <2> QED
    BY <1>2, <1>4, <2>1, AppendEntry
<1> QED
  BY <1>1, <1>3, <1>4, LogSteps

\* A server that accepts a quoted entry has what l has, up to that entry.
LEMMA AcceptedIsQuoted ==
    ASSUME TypeInv, LogMatching, NEW l \in Server, NEW j \in Server, NEW req \in Request,
           Quotes(l, req), Accepts(j, req), ~ IsHeartbeat(req)
    PROVE  /\ req.prevIndex + 1 \in 1..Len(log[l])
           /\ req.prevIndex + 1 \in 1..Len(LogAfter(j, req))
           /\ \A m \in 1..req.prevIndex + 1 : LogAfter(j, req)[m] = log[l][m]
           /\ LogAfter(j, req) = log[j] \/ Len(LogAfter(j, req)) = req.prevIndex + 1
<1> DEFINE p == req.prevIndex
           e == req.entries[1]
           after == LogAfter(j, req)
<1>1. /\ log[j] \in Seq(Entry) /\ log[l] \in Seq(Entry)
      /\ DOMAIN log[j] = 1..Len(log[j]) /\ DOMAIN log[l] = 1..Len(log[l])
      /\ Len(log[j]) \in Nat /\ Len(log[l]) \in Nat /\ p \in Nat
  BY Types, LogFacts, RequestFacts
<1>2. /\ p + 1 \in 1..Len(log[l]) /\ e = log[l][p + 1]
      /\ req.prevTerm = TermAt(log[l], p)
  BY <1>1 DEF Quotes
<1>3. ASSUME NEW n \in 1..Len(log[j]), n <= Len(log[l]), log[j][n].term = log[l][n].term
      PROVE  \A m \in 1..n : log[j][m] = log[l][m]
  BY <1>1, <1>3 DEF LogMatching
<1>4. p > 0 => \A m \in 1..p : log[j][m] = log[l][m]
  <2> SUFFICES ASSUME p > 0 PROVE \A m \in 1..p : log[j][m] = log[l][m]
    OBVIOUS
  <2>1. p \in 1..Len(log[j]) /\ log[j][p].term = req.prevTerm
    BY <1>1 DEF Accepts, HasPrevious
  <2>2. req.prevTerm = log[l][p].term /\ p <= Len(log[l])
    BY <1>1, <1>2 DEF TermAt
  <2> QED
    BY <1>3, <2>1, <2>2
<1>5. CASE after = log[j]
  <2>1. p + 1 \in 1..Len(log[j]) /\ log[j][p + 1].term = e.term
    BY <1>1, <1>5, LogAfterCases
  <2> QED
    BY SMTT(30), <1>1, <1>2, <1>3, <1>5, <2>1
<1>6. CASE /\ Len(after) = p + 1
           /\ \A n \in 1..p : after[n] = log[j][n]
           /\ after[p + 1] = e
  <2> HIDE DEF after
  <2>1. ASSUME NEW m \in 1..p + 1 PROVE after[m] = log[l][m]
    BY <1>1, <1>2, <1>4, <1>6
  <2> QED
    BY <1>1, <1>2, <1>6, <2>1 DEF after
<1> QED
  BY <1>1, <1>5, <1>6, LogAfterCases

\* Whatever is in a log after a step was before it in this log or in l's, with
\* all that precedes it, except for the entry that l appends.
LEMMA LogsOfOne ==
    ASSUME NEW l \in Server, Impatient \subseteq {l}, TypeInv, OnlyLeads(l), QuotesOnly(l),
           LogMatching, Next, NEW j \in Server, NEW n \in 1..Len(log'[j])
    PROVE  \/ \E h \in {j, l} : n <= Len(log[h]) /\ \A m \in 1..n : log'[j][m] = log[h][m]
           \/ /\ j = l /\ AppendCommand(l) /\ loop[l] = "accepted"
              /\ n = Len(log[l]) + 1
              /\ log'[l][n].term = currentTerm[l]
<1>1. n \in Nat /\ Len(log[j]) \in Nat
  BY LogFacts, Types
<1>2. CASE log'[j] = log[j]
  BY <1>1, <1>2
<1>3. CASE j = l
  <2>1. n <= Len(log[l]) \/ n = Len(log[l]) + 1
    BY <1>1, <1>3, LogOfLeader
  <2>2. CASE n <= Len(log[l])
    <3>1. Len(log[l]) \in Nat /\ \A m \in 1..Len(log[l]) : log'[l][m] = log[l][m]
      BY LogOfLeader
    <3>2. \A m \in 1..n : log'[j][m] = log[l][m]
      BY <1>1, <1>3, <2>2, <3>1
    <3> QED
      BY <2>2, <3>2
  <2>3. CASE n = Len(log[l]) + 1
    <3>1. log'[l] # log[l]
      BY <1>1, <1>3, <2>3
    <3>2. /\ AppendCommand(l) /\ loop[l] = "accepted"
          /\ log'[l][Len(log[l]) + 1] = Received(l)
      BY <3>1, LogOfLeader
    <3> QED
      BY <1>3, <2>3, <3>2 DEF Received
  <2> QED
    BY <2>1, <2>2, <2>3
<1>4. CASE \E req \in Incoming(j) : /\ Accepts(j, req) /\ ~ IsHeartbeat(req)
                                    /\ log'[j] = LogAfter(j, req)
  <2>1. PICK req \in Incoming(j) : /\ Accepts(j, req) /\ ~ IsHeartbeat(req)
                                   /\ log'[j] = LogAfter(j, req)
    BY <1>4
  <2>2. req \in Request /\ Quotes(l, req)
    BY <2>1, IncomingFacts DEF QuotesOnly
  <2>3. req.prevIndex \in Nat /\ Len(log[l]) \in Nat
    BY <2>2, RequestFacts, LogFacts, Types
  <2>4. CASE Len(log'[j]) = req.prevIndex + 1
    <3>1. /\ req.prevIndex + 1 \in 1..Len(log[l])
          /\ \A m \in 1..req.prevIndex + 1 : log'[j][m] = log[l][m]
      BY <2>1, <2>2, AcceptedIsQuoted
    <3> QED
      BY <1>1, <2>3, <2>4, <3>1
  <2> QED
    BY <1>2, <2>1, <2>2, <2>4, AcceptedIsQuoted
<1>5. CASE j # l
  <2>1. loop[j] # "accepted"
    BY <1>5 DEF OnlyLeads, Others
  <2> QED
    BY <1>2, <1>4, <2>1, LogSteps
<1> QED
  BY <1>3, <1>5

LEMMA KnowsTermsStays ==
    ASSUME NEW l \in Server, Impatient \subseteq {l}, TypeInv, OnlyLeads(l), KnowsTerms(l), Next
    PROVE  KnowsTerms(l)'
<1>1. /\ currentTerm[l] \in Nat /\ currentTerm'[l] \in Nat /\ InitTerm \in Nat
      /\ currentTerm[l] <= currentTerm'[l]
  BY NextTypeInv, TermsGrow, Types, InitAssumption DEF TypeInv, TypeOK
<1>2. /\ \A i \in Server : currentTerm'[i] <= currentTerm'[l]
      /\ poll'[l].term <= currentTerm'[l]
  BY StateOfOne
<1>3. ASSUME NEW k \in Kind, NEW j \in Server PROVE call'[l][k][j].term <= currentTerm'[l]
  <2>1. call[l][k][j] \in Call /\ call[l][k][j].term \in Nat
    BY InTransit DEF Call
  <2>2. call[l][k][j].term <= currentTerm[l]
    BY DEF KnowsTerms
  <2>3. call'[l][k][j].term \in {call[l][k][j].term, 0, currentTerm'[j]}
    <3>1. CallStep(l, k, j)
      BY CallsOfOne
    <3> QED
      BY <3>1, CallShapes
  <2> QED
    BY <1>1, <1>2, <2>1, <2>2, <2>3
<1>4. ASSUME NEW j \in Server, NEW req \in Incoming(j)' PROVE req.term <= currentTerm'[l]
  <2>1. CASE req \in Incoming(j)
    <3>1. req.term \in Nat /\ req.term <= currentTerm[l]
      BY <2>1, IncomingFacts, RequestFacts DEF KnowsTerms
    <3> QED
      BY <1>1, <3>1
  <2>2. CASE req = Heartbeat(l)'
    <3>1. req.term = currentTerm'[l]
      BY <2>2 DEF Heartbeat, NoRequest
    <3> QED
      BY <1>1, <3>1
  <2>3. CASE \E n, e : req = EntryRequest(l, n, e)
    BY <1>1, <2>3 DEF EntryRequest
  <2> QED
    BY <2>1, <2>2, <2>3, RequestsOfOne
<1> QED
  BY <1>1, <1>2, <1>3, <1>4, InitAssumption DEF KnowsTerms

LEMMA LeadsInOwnTermStays ==
    ASSUME NEW l \in Server, Impatient \subseteq {l}, TypeInv, OnlyLeads(l), KnowsTerms(l),
           LeadsInOwnTerm(l), Next
    PROVE  LeadsInOwnTerm(l)'
<1> USE InitAssumption
<1>1. /\ currentTerm[l] \in Nat /\ currentTerm'[l] \in Nat
      /\ InitTerm <= currentTerm[l] /\ currentTerm[l] <= currentTerm'[l]
  BY NextTypeInv, TermsGrow, Types DEF TypeInv, TypeOK, KnowsTerms
<1>2. /\ serverState[l] = Leader => currentTerm[l] > InitTerm
      /\ loop[l] \in {"polling", "accepted", "mutating"} => currentTerm[l] > InitTerm
      /\ \A k \in Kind : \A j \in Server :
            call[l][k][j].phase # "idle" => currentTerm[l] > InitTerm
      /\ \A j \in Server : \A req \in Incoming(j) : req.term > InitTerm
  BY DEF LeadsInOwnTerm
<1>3. Campaign(l) => currentTerm'[l] > InitTerm
  BY <1>1, Types DEF Campaign
<1>4. serverState'[l] = Leader => currentTerm'[l] > InitTerm
  <2>1. serverState'[l] = Leader => serverState[l] = Leader \/ loop[l] = "polling"
    BY StateOfOne
  <2> QED
    BY <1>1, <1>2, <2>1
<1>5. loop'[l] \in {"polling", "accepted", "mutating"} => currentTerm'[l] > InitTerm
  <2>1. loop'[l] \in {"polling", "accepted", "mutating"} =>
           \/ loop[l] \in {"polling", "accepted", "mutating"}
           \/ serverState[l] = Leader \/ Campaign(l)
    BY StateOfOne
  <2> QED
    BY <1>1, <1>2, <1>3, <2>1
<1>6. ASSUME NEW k \in Kind, NEW j \in Server, call'[l][k][j].phase # "idle"
      PROVE  currentTerm'[l] > InitTerm
  <2>1. \/ call[l][k][j].phase # "idle"
        \/ AppendCommand(l) \/ BeginSync(l)
    <3>1. CallStep(l, k, j)
      BY CallsOfOne
    <3> QED
      BY <1>6, <3>1, CallShapes
  <2>2. AppendCommand(l) \/ BeginSync(l) => loop[l] = "accepted" \/ serverState[l] = Leader
    BY DEF AppendCommand, BeginSync
  <2> QED
    BY <1>1, <1>2, <2>1, <2>2
<1>7. ASSUME NEW j \in Server, NEW req \in Incoming(j)' PROVE req.term > InitTerm
  <2>1. CASE req \in Incoming(j)
    BY <1>2, <2>1
  <2>2. CASE SendsHeartbeats(l)' /\ req = Heartbeat(l)'
    <3>1. req.term = currentTerm'[l] /\ serverState'[l] = Leader
      BY <2>2 DEF Heartbeat, NoRequest, SendsHeartbeats
    <3> QED
      BY <1>4, <3>1
  <2>3. CASE SendEntry(l, j) \/ SendSync(l, j)
    <3>1. currentTerm[l] > InitTerm
      BY <1>2, <2>3 DEF SendEntry, SendSync, Kind
    <3>2. (\E n, e : req = EntryRequest(l, n, e)) => req.term = currentTerm[l]
      BY DEF EntryRequest
    <3> QED
      BY <2>1, <2>2, <3>1, <3>2, RequestsOfOne
  <2> QED
    BY <2>1, <2>2, <2>3, RequestsOfOne
<1> QED
  BY <1>4, <1>5, <1>6, <1>7 DEF LeadsInOwnTerm

LEMMA ServesLastStays ==
    ASSUME NEW l \in Server, Impatient \subseteq {l}, TypeInv, OnlyLeads(l), KnowsTerms(l),
           ServesLast(l), Next
    PROVE  ServesLast(l)'
<1> SUFFICES ASSUME loop'[l] = "mutating"
             PROVE  log'[l][Len(log'[l])] = Received(l)'
  BY DEF ServesLast
<1>1. CASE AppendCommand(l)
  <2>1. log[l] \in Seq(Entry) /\ Received(l) \in Entry
    BY <1>1, LogFacts, Types DEF AppendCommand, Received, Entry, TypeInv, TypeOK
  <2>2. log'[l] = Append(log[l], Received(l)) /\ Received(l)' = Received(l)
    BY <1>1, Types DEF AppendCommand, Received
  <2> QED
    BY <2>1, <2>2, AppendEntry
<1>2. CASE loop[l] = "mutating" /\ serving'[l] = serving[l]
  <2>1. ~ Campaign(l) /\ ~ AppendCommand(l)
    BY <1>2 DEF Campaign, AppendCommand
  <2>2. currentTerm'[l] = currentTerm[l] /\ log'[l] = log[l]
    BY <2>1, StateOfOne, LogOfLeader
  <2> QED
    BY <1>2, <2>2 DEF ServesLast, Received
<1> QED
  BY <1>1, <1>2, StateOfOne

LEMMA QuotesOnlyStays ==
    ASSUME NEW l \in Server, Impatient \subseteq {l}, TypeInv, OnlyLeads(l),
           ServesLast(l), QuotesOnly(l), Next
    PROVE  QuotesOnly(l)'
<1> SUFFICES ASSUME NEW j \in Server, NEW req \in Incoming(j)', ~ IsHeartbeat(req)
             PROVE  Quotes(l, req)'
  BY DEF QuotesOnly, IsHeartbeat
<1>1. /\ Len(log[l]) \in Nat /\ Len(log'[l]) \in Nat
      /\ Len(log[l]) <= Len(log'[l])
      /\ \A n \in 1..Len(log[l]) : log'[l][n] = log[l][n]
  BY LogOfLeader
<1>2. \A n \in 0..Len(log[l]) : TermAt(log'[l], n) = TermAt(log[l], n)
  BY <1>1 DEF TermAt
<1>3. ASSUME NEW n \in 1..Len(log[l]), req = EntryRequest(l, n, log[l][n])
      PROVE  Quotes(l, req)'
  <2>1. /\ req.prevIndex = n - 1 /\ req.entries[1] = log[l][n]
        /\ req.prevTerm = TermAt(log[l], n - 1)
    BY <1>3 DEF EntryRequest
  <2> QED
    BY <1>1, <1>2, <2>1 DEF Quotes
<1>4. CASE req \in Incoming(j)
  <2>1. Quotes(l, req) /\ req.prevIndex \in Nat
    BY <1>4, IncomingFacts, RequestFacts DEF QuotesOnly
  <2> QED
    BY <1>1, <1>2, <2>1 DEF Quotes
<1>5. CASE SendEntry(l, j) /\ req = EntryRequest(l, Len(log[l]), Received(l))
  <2>1. loop[l] = "mutating"
    BY <1>5 DEF SendEntry, TypeInv, CallsOnlyWhileMutating
  <2>2. log[l] # <<>> /\ Received(l) = log[l][Len(log[l])]
    BY <2>1 DEF TypeInv, MutatingHasEntry, ServesLast
  <2>3. Len(log[l]) \in 1..Len(log[l])
    BY <2>2, LogFacts, Types
  <2> QED
    BY <1>3, <1>5, <2>2, <2>3
<1>6. CASE SendsHeartbeats(l)' /\ req = Heartbeat(l)'
  BY <1>6 DEF Heartbeat, NoRequest, IsHeartbeat
<1> QED
  BY <1>3, <1>4, <1>5, <1>6, RequestsOfOne

LEMMA NewEntriesStay ==
    ASSUME NEW l \in Server, Impatient \subseteq {l}, TypeInv, OnlyLeads(l), QuotesOnly(l),
           NewEntriesAre(l), LogMatching, Next
    PROVE  NewEntriesAre(l)'
<1> SUFFICES ASSUME NEW j \in Server, NEW n \in 1..Len(log'[j]), log'[j][n].term > InitTerm
             PROVE  n <= Len(log'[l]) /\ log'[l][n] = log'[j][n]
  BY DEF NewEntriesAre
<1>1. /\ Len(log[l]) \in Nat /\ Len(log'[l]) \in Nat /\ n \in Nat
      /\ Len(log[l]) <= Len(log'[l])
      /\ \A m \in 1..Len(log[l]) : log'[l][m] = log[l][m]
  BY LogOfLeader
<1>2. ASSUME NEW h \in Server, n <= Len(log[h]), \A m \in 1..n : log'[j][m] = log[h][m]
      PROVE  n <= Len(log[l]) /\ log[l][n] = log'[j][n]
  <2>1. n \in 1..Len(log[h]) /\ log'[j][n] = log[h][n]
    BY <1>1, <1>2, LogFacts, Types
  <2> QED
    BY <2>1 DEF NewEntriesAre
<1>3. CASE j = l
  BY <1>1, <1>3
<1>4. CASE j # l
  <2>1. n <= Len(log[l]) /\ log[l][n] = log'[j][n]
    BY <1>2, <1>4, LogsOfOne
  <2> QED
    BY <1>1, <2>1
<1> QED
  BY <1>3, <1>4

LEMMA LogMatchingStays ==
    ASSUME NEW l \in Server, Impatient \subseteq {l}, TypeInv, OnlyLeads(l),
           LeadsInOwnTerm(l), QuotesOnly(l), NewEntriesAre(l), LogMatching, Next
    PROVE  LogMatching'
<1>1. TypeInv'
  BY NextTypeInv
<1>2. \A i \in Server : DOMAIN log[i] = 1..Len(log[i]) /\ Len(log[i]) \in Nat
  BY Types, LogFacts
<1>3. \A i \in Server : DOMAIN log'[i] = 1..Len(log'[i]) /\ Len(log'[i]) \in Nat
  <2>1. log' \in [Server -> Seq(Entry)]
    BY <1>1 DEF TypeInv, TypeOK
  <2> QED
    BY <2>1, LogFacts
<1> SUFFICES ASSUME NEW i \in Server, NEW j \in Server,
                    NEW n \in 1..Len(log'[i]), n \in 1..Len(log'[j]),
                    log'[i][n].term = log'[j][n].term
             PROVE  \A m \in 1..n : log'[i][m] = log'[j][m]
  BY SMTT(30), <1>3 DEF LogMatching
<1> DEFINE Old(k, h) == n <= Len(log[h]) /\ \A m \in 1..n : log'[k][m] = log[h][m]
           New(k) == /\ k = l /\ loop[l] = "accepted"
                     /\ n = Len(log[l]) + 1 /\ log'[l][n].term = currentTerm[l]
<1>4. /\ New(i) \/ \E h \in Server : (h = i \/ h = l) /\ Old(i, h)
      /\ New(j) \/ \E h \in Server : (h = j \/ h = l) /\ Old(j, h)
  BY LogsOfOne
<1>5. ASSUME NEW g \in Server, NEW h \in Server, Old(i, g), Old(j, h)
      PROVE  \A m \in 1..n : log'[i][m] = log'[j][m]
  <2> n \in Nat /\ n >= 1
    BY <1>3
  <2>1. n \in 1..Len(log[g]) /\ n \in 1..Len(log[h])
    BY <1>2, <1>5
  <2>2. log'[i][n] = log[g][n] /\ log'[j][n] = log[h][n]
    BY <1>5, n \in 1..n
  <2>3. n \in DOMAIN log[g] \cap DOMAIN log[h] /\ log[g][n].term = log[h][n].term
    BY <1>2, <2>1, <2>2
  <2>4. \A m \in 1..n : log[g][m] = log[h][m]
    BY <2>3 DEF LogMatching
  <2> QED
    BY <1>5, <2>4
<1>6. ASSUME NEW k \in Server, NEW h \in Server, Old(k, h), New(l)
      PROVE  log'[k][n].term # log'[l][n].term
  <2>1. n \in 1..Len(log[h]) /\ log'[k][n] = log[h][n]
    BY <1>2, <1>6
  <2>2. log'[l][n].term > InitTerm /\ n > Len(log[l])
    BY <1>2, <1>6 DEF LeadsInOwnTerm
  <2> QED
    BY <1>2, <2>1, <2>2 DEF NewEntriesAre
<1> HIDE DEF Old, New
<1>7. New(i) => i = l /\ New(l)
  BY DEF New
<1>8. New(j) => j = l /\ New(l)
  BY DEF New
<1> QED
  BY <1>4, <1>5, <1>6, <1>7, <1>8

LEMMA NextMatchInv ==
    ASSUME NEW l \in Server, Impatient \subseteq {l}, MatchInv(l), [Next]_vars
    PROVE  MatchInv(l)'
<1> USE DEF MatchInv
<1>1. TypeInv'
  BY NextTypeInv
<1>2. CASE Next
  <2>1. OnlyLeads(l)' /\ KnowsTerms(l)' /\ LeadsInOwnTerm(l)'
    BY <1>2, OnlyLeadsStays, KnowsTermsStays, LeadsInOwnTermStays
  <2>2. ServesLast(l)' /\ QuotesOnly(l)' /\ NewEntriesAre(l)' /\ LogMatching'
    BY <1>2, ServesLastStays, QuotesOnlyStays, NewEntriesStay, LogMatchingStays
  <2> QED
    BY <1>1, <2>1, <2>2
<1>3. CASE UNCHANGED vars
  <2> USE <1>3 DEF vars, diskVars, commitVars, leaderVars, nodeVars
  <2>1. \A j \in Server : Incoming(j)' = Incoming(j)
    BY DEF Incoming, Heartbeat, SendsHeartbeats, Alive
  <2>2. OnlyLeads(l)'
    BY DEF OnlyLeads
  <2>3. KnowsTerms(l)' /\ LeadsInOwnTerm(l)'
    BY <2>1 DEF KnowsTerms, LeadsInOwnTerm
  <2>4. ServesLast(l)' /\ QuotesOnly(l)'
    BY <2>1 DEF ServesLast, Received, QuotesOnly, Quotes
  <2>5. NewEntriesAre(l)' /\ LogMatching'
    BY DEF NewEntriesAre, LogMatching
  <2> QED
    BY <1>1, <2>2, <2>3, <2>4, <2>5
<1> QED
  BY <1>2, <1>3

(* Under one candidate, logs match: two that hold an entry of the same term   *)
(* at the same index are the same up to it, whatever is lost, comes late or   *)
(* twice, and whoever crashes, so that comparing the terms of two entries, as *)
(* handleAppendEntriesRpc does, is enough.                                    *)
THEOREM LogsMatch ==
    ASSUME NEW l \in Server, Impatient \subseteq {l}
    PROVE  Spec => []LogMatching
<1>1. Init => MatchInv(l)
  BY InitMatchInv
<1>2. MatchInv(l) /\ [Next]_vars => MatchInv(l)'
  BY NextMatchInv
<1>3. MatchInv(l) => LogMatching
  BY DEF MatchInv
<1> QED
  BY <1>1, <1>2, <1>3, PTL DEF Spec
-----------------------------------------------------------------------------
(* The invariant QuorumInv: what a majority has.                              *)

\* The same after a step, for an m of before.
AgreeAfter(l, j, m) ==
    /\ m <= Len(log'[j]) /\ m <= Len(log'[l])
    /\ \A n \in 1..m : log'[j][n] = log'[l][n]

\* Two logs that agree up to an entry agree up to every earlier one.
LEMMA AgreeEarlier ==
    ASSUME NEW l \in Server, NEW j \in Server, TypeInv, NEW m \in Nat, Agree(l, j, m),
           NEW n \in Nat, n <= m
    PROVE  Agree(l, j, n)
<1>1. Len(log[l]) \in Nat /\ Len(log[j]) \in Nat
  BY LogFacts, Types
<1> QED
  BY <1>1 DEF Agree

\* A server with one entry of l's has all that precede it.
LEMMA SharedEntryAgrees ==
    ASSUME NEW l \in Server, NEW j \in Server, TypeInv, LogMatching,
           NEW n \in 1..Len(log[l]), n <= Len(log[j]), log[j][n].term = log[l][n].term
    PROVE  Agree(l, j, n)
<1>1. /\ DOMAIN log[l] = 1..Len(log[l]) /\ Len(log[l]) \in Nat
      /\ DOMAIN log[j] = 1..Len(log[j]) /\ Len(log[j]) \in Nat
  BY LogFacts, Types
<1> QED
  BY <1>1 DEF LogMatching, Agree

(* A log that agrees with l's up to an entry does so for ever: no conflicting *)
(* entry is there to be removed, and l's own log only grows.                  *)
LEMMA AgreeStays ==
    ASSUME NEW l \in Server, Impatient \subseteq {l}, MatchInv(l), Next,
           NEW j \in Others(l), NEW m \in Nat, Agree(l, j, m)
    PROVE  AgreeAfter(l, j, m)
<1> TypeInv /\ OnlyLeads(l) /\ QuotesOnly(l) /\ LogMatching
  BY DEF MatchInv
<1> j \in Server
  BY DEF Others
<1>1. /\ Len(log[l]) \in Nat /\ Len(log'[l]) \in Nat /\ Len(log[l]) <= Len(log'[l])
      /\ \A n \in 1..Len(log[l]) : log'[l][n] = log[l][n]
  BY LogOfLeader
<1>2. /\ Len(log[j]) \in Nat /\ m <= Len(log[j]) /\ m <= Len(log[l])
      /\ \A n \in 1..m : log[j][n] = log[l][n]
  BY LogFacts, Types DEF Agree
<1>3. CASE log'[j] = log[j]
  BY <1>1, <1>2, <1>3 DEF AgreeAfter
<1>4. ASSUME NEW req \in Incoming(j), Accepts(j, req), ~ IsHeartbeat(req),
             log'[j] = LogAfter(j, req)
      PROVE  AgreeAfter(l, j, m)
  <2> DEFINE n == req.prevIndex + 1
  <2>1. req \in Request /\ Quotes(l, req) /\ req.prevIndex \in Nat
    BY <1>4, IncomingFacts, RequestFacts DEF QuotesOnly
  <2>2. CASE n <= m
    <3>0. n \in 1..m /\ req.entries[1] = log[l][n]
      BY <2>1, <2>2 DEF Quotes
    <3>1. log[j][n].term = req.entries[1].term
      BY <1>2, <3>0
    <3>2. LogAfter(j, req) = log[j]
      BY <1>2, <2>1, <2>2, <3>1 DEF LogAfter
    <3> QED
      BY <1>3, <1>4, <3>2
  <2>3. CASE n > m
    <3>1. /\ n \in 1..Len(log[l]) /\ n \in 1..Len(log'[j])
          /\ \A k \in 1..n : log'[j][k] = log[l][k]
      BY <1>4, <2>1, AcceptedIsQuoted
    <3>2. Len(log'[j]) \in Nat
      BY <1>4, <2>1, LogAfterCases, LogFacts, Types
    <3>3. m <= Len(log'[j]) /\ m <= Len(log'[l])
      BY <1>1, <1>2, <2>1, <2>3, <3>1, <3>2
    <3>4. \A k \in 1..m : log'[j][k] = log'[l][k]
      BY <1>1, <1>2, <2>1, <2>3, <3>1
    <3> QED
      BY <3>3, <3>4 DEF AgreeAfter
  <2> QED
    BY <1>2, <2>1, <2>2, <2>3
<1>5. loop[j] # "accepted"
  BY DEF OnlyLeads
<1> QED
  BY <1>3, <1>4, <1>5, LogSteps

\* How l's matchIndex and commitIndex and the answers to clients change.
LEMMA LeadershipOfOne ==
    ASSUME NEW l \in Server, Impatient \subseteq {l}, TypeInv, OnlyLeads(l), Next
    PROVE  /\ \A j \in Server :
                 \/ matchIndex'[l][j] \in {matchIndex[l][j], 0}
                 \/ /\ ReceiveEntryReply(l, j) /\ call[l]["client"][j].ok
                    /\ matchIndex'[l][j] = Len(log[l])
                 \/ /\ ReceiveSyncReply(l, j) /\ call[l]["sync"][j].ok
                    /\ matchIndex'[l][j] = call[l]["sync"][j].req.prevIndex + 1
           /\ \/ commitIndex'[l] \in {commitIndex[l], 0}
              \/ CanCommitNext(l) /\ commitIndex'[l] = commitIndex[l] + 1
           /\ \/ acked' = acked
              \/ FinishCommand(l) /\ Replicated(l) /\ acked' = acked \cup {serving[l]}
<1> DEFINE Matched ==
              \A j \in Server :
                 \/ matchIndex'[l][j] \in {matchIndex[l][j], 0}
                 \/ /\ ReceiveEntryReply(l, j) /\ call[l]["client"][j].ok
                    /\ matchIndex'[l][j] = Len(log[l])
                 \/ /\ ReceiveSyncReply(l, j) /\ call[l]["sync"][j].ok
                    /\ matchIndex'[l][j] = call[l]["sync"][j].req.prevIndex + 1
           Committed ==
              \/ commitIndex'[l] \in {commitIndex[l], 0}
              \/ CanCommitNext(l) /\ commitIndex'[l] = commitIndex[l] + 1
           Answers ==
              \/ acked' = acked
              \/ FinishCommand(l) /\ Replicated(l) /\ acked' = acked \cup {serving[l]}
           Goal == Matched /\ Committed /\ Answers
<1> SUFFICES Goal
  OBVIOUS
<1> USE DEF commitVars, leaderVars, clientVars
<1> /\ commitIndex \in [Server -> Nat]
    /\ matchIndex \in [Server -> [Server -> Nat]]
  BY Types
<1>1. ASSUME UNCHANGED <<matchIndex, commitIndex, acked>> PROVE Goal
  BY <1>1
<1>2. ASSUME NEW j \in Others(l), NEW req, Receive(j, req) PROVE Goal
  <2>1. /\ UNCHANGED <<matchIndex, acked>>
        /\ \/ UNCHANGED commitIndex
           \/ commitIndex' = [commitIndex EXCEPT ![j] = CommitTarget(j, req)]
    BY <1>2 DEF Receive, MoveCommitIndexTo
  <2>2. commitIndex'[l] = commitIndex[l]
    BY <2>1 DEF Others
  <2> QED
    BY <2>1, <2>2
<1>3. ASSUME NEW i \in Server, NEW how, Die(i, how) PROVE Goal
  <2>1. /\ UNCHANGED acked
        /\ commitIndex' = [commitIndex EXCEPT ![i] = 0]
        /\ matchIndex' = [matchIndex EXCEPT ![i] = ForEachServer(0)]
    BY <1>3 DEF Die
  <2> QED
    BY <2>1 DEF ForEachServer
<1>4. CASE \/ Campaign(l) \/ AppendCommand(l) \/ BeginSync(l)
           \/ \E c \in Command : AcceptCommand(l, c)
           \/ \E i \in Server : Restart(i)
  BY <1>1, <1>4 DEF Campaign, AppendCommand, BeginSync, AcceptCommand, Restart
<1>5. CASE FinishCampaign(l)
  <2>1. /\ UNCHANGED <<commitIndex, acked>>
        /\ \/ UNCHANGED matchIndex
           \/ matchIndex' = [matchIndex EXCEPT ![l] = ForEachServer(0)]
    BY <1>5 DEF FinishCampaign, ReinitVolatileLeaderState
  <2> QED
    BY <2>1 DEF ForEachServer
<1>6. CASE FinishCommand(l)
  <2>1. /\ UNCHANGED <<matchIndex, commitIndex>>
        /\ \/ UNCHANGED acked
           \/ Replicated(l) /\ acked' = acked \cup {serving[l]}
    BY <1>6 DEF FinishCommand
  <2> QED
    BY <1>6, <2>1
<1>7. CASE EndSync(l)
  <2>1. /\ UNCHANGED <<matchIndex, acked>>
        /\ \/ UNCHANGED commitIndex
           \/ CanCommitNext(l) /\ commitIndex' = [commitIndex EXCEPT ![l] = @ + 1]
    BY <1>7 DEF EndSync
  <2> QED
    BY <2>1
<1>8. ASSUME NEW i \in Server, Crash(i) PROVE Goal
  BY <1>3, <1>8 DEF Crash
<1>9. ASSUME NEW j \in Others(l), NEW req \in Incoming(j), Panic(j, req) PROVE Goal
  BY <1>3, <1>9 DEF Panic, Others
<1>10. ASSUME NEW m \in late, HandleLate(m) PROVE Goal
  <2>1. m.to \in Others(l)
    BY InTransit DEF OnlyLeads, Others
  <2> QED
    BY <1>2, <1>10, <2>1 DEF HandleLate
<1>11. ASSUME NEW j \in Others(l), PairNext(l, j) PROVE Goal
  <2> j \in Server
    BY DEF Others
  <2>1. CASE \/ HandleVote(l, j) \/ LoseVote(l, j) \/ SendEntry(l, j) \/ SkipEntry(l, j)
             \/ SendSync(l, j) \/ SkipSync(l, j) \/ DelayHeartbeat(l, j)
             \/ \E k \in Kind : Refused(l, k, j) \/ Break(l, k, j)
    BY <1>1, <2>1 DEF HandleVote, LoseVote, SendEntry, SkipEntry, SendSync, SkipSync,
       DelayHeartbeat, Refused, Break
  <2>2. CASE HandleHeartbeat(l, j)
    BY <1>2, <2>2 DEF HandleHeartbeat
  <2>3. ASSUME NEW k \in Kind, HandleAppendEntries(l, k, j) PROVE Goal
    BY <1>2, <2>3 DEF HandleAppendEntries
  <2>4. CASE ReceiveEntryReply(l, j)
    <3>1. /\ UNCHANGED <<commitIndex, acked>>
          /\ \/ UNCHANGED matchIndex
             \/ /\ call[l]["client"][j].ok
                /\ matchIndex' = [matchIndex EXCEPT ![l][j] = Len(log[l])]
      BY <2>4 DEF ReceiveEntryReply
    <3>2. CASE UNCHANGED matchIndex
      BY <1>1, <3>1, <3>2
    <3>3. CASE /\ call[l]["client"][j].ok
               /\ matchIndex' = [matchIndex EXCEPT ![l][j] = Len(log[l])]
      <4>1. \A h \in Server : matchIndex'[l][h] = IF h = j THEN Len(log[l]) ELSE matchIndex[l][h]
        BY <3>3
      <4> QED
        BY <2>4, <3>1, <3>3, <4>1
    <3> QED
      BY <3>1, <3>2, <3>3
  <2>5. CASE ReceiveSyncReply(l, j)
    <3> DEFINE n == call[l]["sync"][j].req.prevIndex + 1
    <3>1. /\ UNCHANGED <<commitIndex, acked>>
          /\ \/ UNCHANGED matchIndex
             \/ /\ call[l]["sync"][j].ok
                /\ matchIndex' = [matchIndex EXCEPT ![l][j] = n]
      BY <2>5 DEF ReceiveSyncReply
    <3>2. CASE UNCHANGED matchIndex
      BY <1>1, <3>1, <3>2
    <3>3. CASE /\ call[l]["sync"][j].ok
               /\ matchIndex' = [matchIndex EXCEPT ![l][j] = n]
      <4>1. \A h \in Server : matchIndex'[l][h] = IF h = j THEN n ELSE matchIndex[l][h]
        BY <3>3
      <4> QED
        BY <2>5, <3>1, <3>3, <4>1
    <3> QED
      BY <3>1, <3>2, <3>3
  <2> QED
    BY <1>11, <2>1, <2>2, <2>3, <2>4, <2>5 DEF PairNext
<1> QED
  BY <1>4, <1>5, <1>6, <1>7, <1>8, <1>9, <1>10, <1>11, StepsOfOne

\* Where the phases "sent", "answered" and "done" come from.
LEMMA AnswerShapes ==
    ASSUME TypeInv, NEW l \in Server, NEW k \in Kind, NEW j \in Server, CallStep(l, k, j),
           call'[l][k][j] # call[l][k][j]
    PROVE  /\ call'[l][k][j].phase = "sent" =>
                 \/ /\ k = "client" /\ SendEntry(l, j)
                    /\ call'[l][k][j].req = EntryRequest(l, Len(log[l]), Received(l))
                 \/ /\ k = "sync" /\ SendSync(l, j)
                    /\ \E n, e : call'[l][k][j].req = EntryRequest(l, n, e)
           /\ call'[l][k][j].phase = "answered" =>
                 /\ HandleAppendEntries(l, k, j) /\ call[l][k][j].phase = "sent"
                 /\ call'[l][k][j].req = call[l][k][j].req
                 /\ call'[l][k][j].ok = Accepts(j, call[l][k][j].req)
           /\ call'[l][k][j].phase = "done" /\ call'[l][k][j].ok =>
                 \/ k = "client" /\ ReceiveEntryReply(l, j) /\ call[l][k][j].ok
                 \/ k = "sync" /\ ReceiveSyncReply(l, j)
<1> DEFINE c == call[l][k][j]
           d == call'[l][k][j]
<1>1. c \in Call /\ c.ok \in BOOLEAN
  BY InTransit DEF Call
<1>2. /\ \A req : Sent(req).phase = "sent" /\ Sent(req).req = req
      /\ \A ok : Done(ok).phase = "done"
      /\ \A ok \in BOOLEAN : Done(ok).ok = ok
      /\ Spawned.phase = "spawned" /\ IdleCall.phase = "idle"
  BY DEF Sent, Done, Spawned, IdleCall
<1>3. \A term : \A ok \in BOOLEAN : /\ Answered(c, term, ok).phase = "answered"
                                    /\ Answered(c, term, ok).req = c.req
                                    /\ Answered(c, term, ok).ok = ok
  BY <1>1 DEF Answered, Call
<1>4. CASE d \in {IdleCall, Spawned, Done(FALSE)}
  BY <1>2, <1>4
<1>5. CASE /\ k = "client" /\ SendEntry(l, j)
           /\ d = Sent(EntryRequest(l, Len(log[l]), Received(l)))
  BY <1>2, <1>5
<1>6. CASE /\ k = "sync" /\ SendSync(l, j)
           /\ d = Sent(EntryRequest(l, nextIndex[l][j], log[l][nextIndex[l][j]]))
  BY <1>2, <1>6
<1>7. CASE HandleAppendEntries(l, k, j) /\ d = Answered(c, currentTerm'[j], Accepts(j, c.req))
  <2>1. Accepts(j, c.req) \in BOOLEAN
    BY DEF Accepts
  <2>2. c.phase = "sent"
    BY <1>7 DEF HandleAppendEntries
  <2> QED
    BY <1>3, <1>7, <2>1, <2>2
<1>8. CASE /\ k = "client" /\ ReceiveEntryReply(l, j)
           /\ d = Done(c.ok /\ c.term <= currentTerm[l])
  <2>1. d.phase = "done" /\ d.ok = (c.ok /\ c.term <= currentTerm[l])
    BY <1>2, <1>8
  <2> QED
    BY <1>8, <2>1
<1>9. CASE k = "sync" /\ ReceiveSyncReply(l, j) /\ d = Done(c.ok)
  BY <1>2, <1>9
<1> QED
  BY <1>4, <1>5, <1>6, <1>7, <1>8, <1>9 DEF CallStep

LEMMA CarriesEntriesStays ==
    ASSUME NEW l \in Server, Impatient \subseteq {l}, MatchInv(l), CarriesEntries(l), Next
    PROVE  CarriesEntries(l)'
<1> TypeInv /\ OnlyLeads(l)
  BY DEF MatchInv
<1> SUFFICES ASSUME NEW j \in Others(l), NEW k \in Kind, call'[l][k][j].phase = "sent"
             PROVE  ~ IsHeartbeat(call'[l][k][j].req)
  BY DEF CarriesEntries, IsHeartbeat
<1>1. CASE call'[l][k][j] = call[l][k][j]
  BY <1>1 DEF CarriesEntries
<1>2. CASE call'[l][k][j] # call[l][k][j]
  <2>1. j \in Server /\ CallStep(l, k, j)
    BY CallsOfOne DEF Others
  <2>2. \E n, e : call'[l][k][j].req = EntryRequest(l, n, e)
    BY <1>2, <2>1, AnswerShapes
  <2>3. \A n, e : EntryRequest(l, n, e).entries # <<>>
    BY DEF EntryRequest
  <2> QED
    BY <2>2, <2>3 DEF IsHeartbeat
<1> QED
  BY <1>1, <1>2

\* The handler has brought j's log into line with l's, up to the entry it has
\* accepted.
LEMMA AnsweredAgreeStays ==
    ASSUME NEW l \in Server, Impatient \subseteq {l}, MatchInv(l), CarriesEntries(l),
           AnsweredAgree(l), Next
    PROVE  AnsweredAgree(l)'
<1> TypeInv /\ OnlyLeads(l) /\ QuotesOnly(l) /\ LogMatching
  BY DEF MatchInv
<1> SUFFICES ASSUME NEW j \in Others(l), NEW k \in Kind,
                    call'[l][k][j].phase = "answered", call'[l][k][j].ok
             PROVE  AgreeAfter(l, j, call'[l][k][j].req.prevIndex + 1)
  BY DEF AnsweredAgree, Agree, AgreeAfter
<1> DEFINE c == call[l][k][j]
<1>1. j \in Server /\ l \in Others(j) /\ CallStep(l, k, j)
  BY CallsOfOne DEF Others
<1>2. c.req \in Request /\ c.req.prevIndex \in Nat
  BY <1>1, InTransit, RequestFacts
<1>3. CASE call'[l][k][j] = c
  <2>1. Agree(l, j, c.req.prevIndex + 1)
    BY <1>3 DEF AnsweredAgree
  <2>2. AgreeAfter(l, j, c.req.prevIndex + 1)
    BY <1>2, <2>1, AgreeStays
  <2> QED
    BY <1>3, <2>2
<1>4. CASE call'[l][k][j] # c
  <2>1. /\ HandleAppendEntries(l, k, j) /\ c.phase = "sent"
        /\ call'[l][k][j].req = c.req /\ Accepts(j, c.req)
    BY <1>1, <1>4, AnswerShapes
  <2>2. c.req \in Incoming(j) /\ ~ IsHeartbeat(c.req)
    <3>1. c.req \in Incoming(j)
      BY <1>1, <2>1, CallIsIncoming
    <3> QED
      BY <2>1, <3>1 DEF CarriesEntries
  <2>3. Quotes(l, c.req)
    BY <1>1, <2>2 DEF QuotesOnly
  <2>4. log'[j] = LogAfter(j, c.req) /\ log'[l] = log[l]
    BY <1>1, <2>1, Types DEF HandleAppendEntries, Receive, Others
  <2>6. Len(log'[l]) \in Nat /\ Len(log'[j]) \in Nat
    BY <1>1, <1>2, <2>4, LogAfterCases, LogFacts, Types
  <2>5. /\ c.req.prevIndex + 1 \in 1..Len(log'[l])
        /\ c.req.prevIndex + 1 \in 1..Len(log'[j])
        /\ \A m \in 1..c.req.prevIndex + 1 : log'[j][m] = log'[l][m]
    BY <1>1, <1>2, <2>1, <2>2, <2>3, <2>4, AcceptedIsQuoted
  <2> QED
    BY <1>2, <2>1, <2>5, <2>6 DEF AgreeAfter
<1> QED
  BY <1>3, <1>4

LEMMA SendsLastStays ==
    ASSUME NEW l \in Server, Impatient \subseteq {l}, MatchInv(l),
           AnsweredAgree(l), SendsLast(l), Next
    PROVE  SendsLast(l)'
<1> TypeInv /\ OnlyLeads(l) /\ "client" \in Kind
  BY DEF MatchInv, Kind
<1> SUFFICES ASSUME NEW j \in Others(l)
             PROVE  LET d == call'[l]["client"][j] IN
                    /\ d.phase \in {"sent", "answered"} => d.req.prevIndex + 1 = Len(log'[l])
                    /\ d.phase = "done" /\ d.ok => AgreeAfter(l, j, Len(log'[l]))
  BY DEF SendsLast, Agree, AgreeAfter
<1> DEFINE c == call[l]["client"][j]
           d == call'[l]["client"][j]
<1>1. j \in Server /\ j # l /\ CallStep(l, "client", j)
  BY CallsOfOne DEF Others
<1>2. Len(log[l]) \in Nat
  BY LogFacts, Types
<1>3. /\ c.phase \in {"sent", "answered"} => c.req.prevIndex + 1 = Len(log[l])
      /\ c.phase = "done" /\ c.ok => Agree(l, j, Len(log[l]))
      /\ c.phase = "answered" /\ c.ok => Agree(l, j, c.req.prevIndex + 1)
  BY DEF SendsLast, AnsweredAgree
<1>4. CASE AppendCommand(l)
  <2>1. d = IF serverState[l] = Leader THEN Spawned ELSE Done(FALSE)
    BY <1>1, <1>4, Types DEF AppendCommand
  <2>2. Spawned.phase = "spawned" /\ Done(FALSE).phase = "done" /\ ~ Done(FALSE).ok
    BY DEF Spawned, Done, IdleCall
  <2> QED
    BY <2>1, <2>2
<1>5. CASE ~ AppendCommand(l)
  <2>1. log'[l] = log[l]
    BY <1>5, LogOfLeader
  <2>2. CASE d = c
    <3>1. d.phase = "done" /\ d.ok => AgreeAfter(l, j, Len(log[l]))
      BY <1>2, <1>3, <2>2, AgreeStays
    <3> QED
      BY <1>3, <2>1, <2>2, <3>1
  <2>3. CASE d # c
    <3>1. d.phase = "sent" => d.req.prevIndex + 1 = Len(log[l])
      <4>1. d.phase = "sent" => d.req = EntryRequest(l, Len(log[l]), Received(l))
        BY <1>1, <2>3, AnswerShapes
      <4>2. EntryRequest(l, Len(log[l]), Received(l)).prevIndex + 1 = Len(log[l])
        BY <1>2 DEF EntryRequest
      <4> QED
        BY <4>1, <4>2
    <3>2. d.phase = "answered" => d.req.prevIndex + 1 = Len(log[l])
      BY <1>1, <1>3, <2>3, AnswerShapes
    <3>3. d.phase = "done" /\ d.ok => AgreeAfter(l, j, Len(log[l]))
      <4> SUFFICES ASSUME d.phase = "done", d.ok PROVE AgreeAfter(l, j, Len(log[l]))
        OBVIOUS
      <4>1. c.phase = "answered" /\ c.ok
        BY <1>1, <2>3, AnswerShapes DEF ReceiveEntryReply
      <4>2. Agree(l, j, Len(log[l]))
        BY <1>3, <4>1
      <4> QED
        BY <1>2, <4>2, AgreeStays
    <3> QED
      BY <2>1, <3>1, <3>2, <3>3
  <2> QED
    BY <2>2, <2>3
<1> QED
  BY <1>4, <1>5

LEMMA MatchedAgreeStays ==
    ASSUME NEW l \in Server, Impatient \subseteq {l}, MatchInv(l),
           AnsweredAgree(l), SendsLast(l), MatchedAgree(l), Next
    PROVE  MatchedAgree(l)'
<1> TypeInv /\ OnlyLeads(l)
  BY DEF MatchInv
<1> SUFFICES ASSUME NEW j \in Others(l) PROVE AgreeAfter(l, j, matchIndex'[l][j])
  BY DEF MatchedAgree, Agree, AgreeAfter
<1>1. j \in Server /\ Len(log[l]) \in Nat /\ Len(log[j]) \in Nat
  BY LogFacts, Types DEF Others
<1>2. ASSUME NEW m \in Nat, Agree(l, j, m), matchIndex'[l][j] = m
      PROVE  AgreeAfter(l, j, matchIndex'[l][j])
  BY <1>2, AgreeStays
<1>3. CASE matchIndex'[l][j] = matchIndex[l][j]
  BY <1>1, <1>2, <1>3, Types DEF MatchedAgree
<1>4. CASE matchIndex'[l][j] = 0
  BY <1>1, <1>2, <1>4 DEF Agree
<1>5. CASE /\ ReceiveEntryReply(l, j) /\ call[l]["client"][j].ok
           /\ matchIndex'[l][j] = Len(log[l])
  <2>1. call[l]["client"][j].phase = "answered"
    BY <1>5 DEF ReceiveEntryReply
  <2>2. Agree(l, j, Len(log[l]))
    BY <1>5, <2>1 DEF AnsweredAgree, SendsLast, Kind
  <2> QED
    BY <1>1, <1>2, <1>5, <2>2
<1>6. CASE /\ ReceiveSyncReply(l, j) /\ call[l]["sync"][j].ok
           /\ matchIndex'[l][j] = call[l]["sync"][j].req.prevIndex + 1
  <2>1. call[l]["sync"][j].phase = "answered"
    BY <1>6 DEF ReceiveSyncReply
  <2>2. Agree(l, j, call[l]["sync"][j].req.prevIndex + 1)
    BY <1>6, <2>1 DEF AnsweredAgree, Kind
  <2>3. call[l]["sync"][j].req.prevIndex + 1 \in Nat
    BY <1>1, InTransit, RequestFacts DEF Kind
  <2> QED
    BY <1>2, <1>6, <2>2, <2>3
<1> QED
  BY <1>1, <1>3, <1>4, <1>5, <1>6, LeadershipOfOne

\* Those that agree with l up to entry n hold it, and l does.
LEMMA AgreeingHold ==
    ASSUME NEW l \in Server, TypeInv, NEW n \in 1..Len(log[l]),
           NEW S \in SUBSET Others(l), \A j \in S : Agree(l, j, n),
           Cardinality(S) + 1 >= QuorumSize
    PROVE  HeldByQuorum(l, n)
<1>1. Len(log[l]) \in Nat
  BY LogFacts, Types
<1>2. IsFiniteSet(S) /\ l \notin S /\ Holders(l, n) \subseteq Server
  BY ServerAssumption, FS_Subset DEF Others, Holders
<1>3. S \cup {l} \subseteq Holders(l, n)
  BY <1>1 DEF Holders, Agree, Others
<1>4. /\ IsFiniteSet(S \cup {l}) /\ Cardinality(S \cup {l}) = Cardinality(S) + 1
      /\ IsFiniteSet(Holders(l, n))
  BY <1>2, ServerAssumption, FS_AddElement, FS_Subset
<1>5. /\ Cardinality(S \cup {l}) <= Cardinality(Holders(l, n))
      /\ Cardinality(Holders(l, n)) \in Nat /\ Cardinality(S) \in Nat
      /\ Cardinality(Server) \in Nat
  BY <1>2, <1>3, <1>4, ServerAssumption, FS_Subset, FS_CardinalityType
<1> QED
  BY <1>1, <1>4, <1>5 DEF HeldByQuorum, QuorumSize

\* An entry that a majority holds, it holds for ever.
LEMMA HeldStays ==
    ASSUME NEW l \in Server, Impatient \subseteq {l}, MatchInv(l), Next,
           NEW n \in Nat \ {0}, HeldByQuorum(l, n)
    PROVE  /\ HeldByQuorum(l, n)'
           /\ log'[l][n] = log[l][n] /\ n \in 1..Len(log[l]) /\ n \in 1..Len(log'[l])
<1> TypeInv /\ OnlyLeads(l) /\ LogMatching
  BY DEF MatchInv
<1>1. /\ Len(log[l]) \in Nat /\ Len(log'[l]) \in Nat /\ Len(log[l]) <= Len(log'[l])
      /\ \A m \in 1..Len(log[l]) : log'[l][m] = log[l][m]
  BY LogOfLeader
<1>2. n \in 1..Len(log[l]) /\ n \in 1..Len(log'[l]) /\ log'[l][n] = log[l][n]
  BY <1>1 DEF HeldByQuorum
<1>3. ASSUME NEW j \in Holders(l, n) PROVE j \in Holders(l, n)'
  <2>1. j \in Server /\ n <= Len(log[j]) /\ log[j][n] = log[l][n]
    BY DEF Holders
  <2>2. CASE j = l
    BY <1>2, <2>2 DEF Holders
  <2>3. CASE j # l
    <3>1. Agree(l, j, n) /\ j \in Others(l)
      BY <1>2, <2>1, <2>3, SharedEntryAgrees DEF Others
    <3>2. AgreeAfter(l, j, n)
      BY <3>1, AgreeStays
    <3> QED
      BY <2>1, <3>2 DEF AgreeAfter, Holders
  <2> QED
    BY <2>2, <2>3
<1>4. Holders(l, n) \subseteq Holders(l, n)' /\ Holders(l, n)' \subseteq Server
  BY <1>3 DEF Holders
<1>5. /\ IsFiniteSet(Holders(l, n)')
      /\ Cardinality(Holders(l, n)) <= Cardinality(Holders(l, n)')
      /\ Cardinality(Holders(l, n)') \in Nat /\ Cardinality(Holders(l, n)) \in Nat
      /\ Cardinality(Server) \in Nat
  BY <1>4, ServerAssumption, FS_Subset, FS_CardinalityType
<1>6. Cardinality(Holders(l, n)') >= QuorumSize
  BY <1>5 DEF HeldByQuorum, QuorumSize
<1> QED
  BY <1>1, <1>2, <1>6 DEF HeldByQuorum, QuorumSize

LEMMA CommittedHeldStays ==
    ASSUME NEW l \in Server, Impatient \subseteq {l}, MatchInv(l), MatchedAgree(l),
           CommittedHeld(l), Next
    PROVE  CommittedHeld(l)'
<1> TypeInv /\ OnlyLeads(l)
  BY DEF MatchInv
<1> SUFFICES ASSUME NEW n \in 1..commitIndex'[l] PROVE HeldByQuorum(l, n)'
  BY DEF CommittedHeld
<1>1. commitIndex[l] \in Nat /\ n \in Nat \ {0}
  BY Types
<1>2. HeldByQuorum(l, n)
  <2>1. CASE commitIndex'[l] \in {commitIndex[l], 0}
    BY <1>1, <2>1 DEF CommittedHeld
  <2>2. CASE CanCommitNext(l) /\ commitIndex'[l] = commitIndex[l] + 1
    <3>1. CASE n <= commitIndex[l]
      BY <1>1, <3>1 DEF CommittedHeld
    <3>2. CASE n = commitIndex[l] + 1
      <4> DEFINE S == {j \in Others(l) : matchIndex[l][j] >= n}
      <4>1. n <= Len(log[l]) /\ Cardinality(S) >= QuorumSize - 1
        BY <2>2, <3>2 DEF CanCommitNext
      <4>2. ASSUME NEW j \in S PROVE Agree(l, j, n)
        <5>1. j \in Server /\ matchIndex[l][j] \in Nat /\ Agree(l, j, matchIndex[l][j])
          BY Types DEF Others, MatchedAgree
        <5> QED
          BY <1>1, <5>1, AgreeEarlier
      <4>3. /\ Cardinality(S) \in Nat /\ Cardinality(Server) \in Nat
            /\ S \in SUBSET Others(l)
        <5>1. IsFiniteSet(S)
          BY ServerAssumption, FS_Subset DEF Others
        <5> QED
          BY <5>1, ServerAssumption, FS_CardinalityType
      <4>4. Cardinality(S) + 1 >= QuorumSize /\ n \in 1..Len(log[l])
        BY <1>1, <4>1, <4>3, LogFacts, Types DEF QuorumSize
      <4> HIDE DEF S
      <4> QED
        BY <4>2, <4>3, <4>4, AgreeingHold
    <3> QED
      BY <1>1, <2>2, <3>1, <3>2
  <2> QED
    BY <2>1, <2>2, LeadershipOfOne
<1> QED
  BY <1>1, <1>2, HeldStays

LEMMA AckedHeldStays ==
    ASSUME NEW l \in Server, Impatient \subseteq {l}, MatchInv(l), SendsLast(l),
           AckedHeld(l), Next
    PROVE  AckedHeld(l)'
<1> TypeInv /\ OnlyLeads(l) /\ ServesLast(l)
  BY DEF MatchInv
<1> SUFFICES ASSUME NEW a \in acked'
             PROVE  \E n \in 1..Len(log'[l]) : log'[l][n].data = a /\ HeldByQuorum(l, n)'
  BY DEF AckedHeld
<1>1. ASSUME NEW n \in 1..Len(log[l]), log[l][n].data = a, HeldByQuorum(l, n)
      PROVE  \E m \in 1..Len(log'[l]) : log'[l][m].data = a /\ HeldByQuorum(l, m)'
  <2>1. n \in Nat \ {0}
    BY LogFacts, Types
  <2> QED
    BY <1>1, <2>1, HeldStays
<1>2. CASE a \in acked
  BY <1>1, <1>2 DEF AckedHeld
<1>3. CASE FinishCommand(l) /\ Replicated(l) /\ a = serving[l]
  <2> DEFINE S == {j \in Others(l) : call[l]["client"][j].ok}
             n == Len(log[l])
  <2>1. loop[l] = "mutating" /\ \A j \in Others(l) : call[l]["client"][j].phase = "done"
    BY <1>3 DEF FinishCommand
  <2>2. n \in 1..Len(log[l]) /\ log[l][n].data = a
    <3>1. log[l] # <<>> /\ log[l][n] = Received(l)
      BY <2>1 DEF TypeInv, MutatingHasEntry, ServesLast
    <3> QED
      BY <1>3, <3>1, LogFacts, Types DEF Received
  <2>3. \A j \in S : Agree(l, j, n)
    BY <2>1 DEF SendsLast
  <2>4. Cardinality(S) + 1 >= QuorumSize
    BY <1>3 DEF Replicated
  <2>5. S \in SUBSET Others(l)
    OBVIOUS
  <2> HIDE DEF S, n
  <2>6. HeldByQuorum(l, n)
    BY <2>2, <2>3, <2>4, <2>5, AgreeingHold
  <2> QED
    BY <1>1, <2>2, <2>6
<1> QED
  BY <1>2, <1>3, LeadershipOfOne

LEMMA InitQuorumInv ==
    ASSUME NEW l \in Server, Init
    PROVE  QuorumInv(l)
<1>1. MatchInv(l)
  BY InitMatchInv
<1>2. /\ \A i, j \in Server : \A k \in Kind : call[i][k][j] = IdleCall
      /\ \A j \in Server : matchIndex[l][j] = 0
      /\ commitIndex[l] = 0 /\ acked = {}
  BY DEF Init, ForEachServer
<1>3. \A j \in Server : Len(log[j]) \in Nat
  BY <1>1, LogFacts, Types DEF MatchInv
<1>4. CarriesEntries(l) /\ AnsweredAgree(l) /\ SendsLast(l)
  BY <1>2, CallFacts DEF CarriesEntries, AnsweredAgree, SendsLast, Others, Kind
<1>5. MatchedAgree(l)
  BY <1>2, <1>3 DEF MatchedAgree, Agree, Others
<1>6. CommittedHeld(l) /\ AckedHeld(l)
  BY <1>2 DEF CommittedHeld, AckedHeld
<1> QED
  BY <1>1, <1>4, <1>5, <1>6 DEF QuorumInv

LEMMA NextQuorumInv ==
    ASSUME NEW l \in Server, Impatient \subseteq {l}, QuorumInv(l), [Next]_vars
    PROVE  QuorumInv(l)'
<1> USE DEF QuorumInv
<1>1. MatchInv(l)'
  BY NextMatchInv
<1>2. CASE Next
  <2>1. CarriesEntries(l)' /\ AnsweredAgree(l)' /\ SendsLast(l)'
    BY <1>2, CarriesEntriesStays, AnsweredAgreeStays, SendsLastStays
  <2>2. MatchedAgree(l)' /\ CommittedHeld(l)' /\ AckedHeld(l)'
    BY <1>2, MatchedAgreeStays, CommittedHeldStays, AckedHeldStays
  <2> QED
    BY <1>1, <2>1, <2>2
<1>3. CASE UNCHANGED vars
  <2> USE <1>3 DEF vars, diskVars, commitVars, leaderVars, clientVars
  <2>1. CarriesEntries(l)' /\ AnsweredAgree(l)' /\ SendsLast(l)' /\ MatchedAgree(l)'
    BY DEF CarriesEntries, AnsweredAgree, SendsLast, MatchedAgree, Agree
  <2>2. CommittedHeld(l)' /\ AckedHeld(l)'
    <3>1. \A n : HeldByQuorum(l, n)' = HeldByQuorum(l, n)
      BY DEF HeldByQuorum, Holders
    <3> QED
      BY <3>1 DEF CommittedHeld, AckedHeld
  <2> QED
    BY <1>1, <2>1, <2>2
<1> QED
  BY <1>2, <1>3

\* The entries that l has committed and the commands whose clients were told
\* OK are in the logs of a majority.
LEMMA QuorumHas ==
    ASSUME NEW l \in Server, QuorumInv(l)
    PROVE  CommitIsReplicated /\ AckedIsReplicated
<1> USE DEF QuorumInv, MatchInv
<1>1. CommitIsReplicated
  <2> SUFFICES ASSUME NEW i \in Server, serverState[i] = Leader, NEW n \in 1..commitIndex[i]
               PROVE  n <= Len(log[i]) /\ Cardinality(Holders(i, n)) >= QuorumSize
    BY DEF CommitIsReplicated
  <2>1. i = l
    BY DEF OnlyLeads, Others, Follower, Leader
  <2> QED
    BY <2>1 DEF CommittedHeld, HeldByQuorum
<1>2. AckedIsReplicated
  <2> SUFFICES ASSUME NEW a \in acked
               PROVE  Cardinality({j \in Server : a \in Commands(log[j])}) >= QuorumSize
    BY DEF AckedIsReplicated
  <2> DEFINE having == {j \in Server : a \in Commands(log[j])}
  <2>1. PICK n \in 1..Len(log[l]) : log[l][n].data = a /\ HeldByQuorum(l, n)
    BY DEF AckedHeld
  <2>2. ASSUME NEW j \in Holders(l, n) PROVE j \in having
    <3>1. j \in Server /\ n <= Len(log[j]) /\ log[j][n].data = a
      BY <2>1 DEF Holders
    <3>2. n \in DOMAIN log[j]
      BY <3>1, LogFacts, Types
    <3> QED
      BY <3>1, <3>2 DEF Commands
  <2>3. /\ Holders(l, n) \subseteq having /\ having \subseteq Server
        /\ Cardinality(Holders(l, n)) >= QuorumSize
    BY <2>1, <2>2 DEF Holders, HeldByQuorum
  <2> HIDE DEF having
  <2>4. /\ Cardinality(Holders(l, n)) <= Cardinality(having)
        /\ Cardinality(having) \in Nat /\ Cardinality(Holders(l, n)) \in Nat
        /\ Cardinality(Server) \in Nat
    BY <2>3, ServerAssumption, FS_Subset, FS_CardinalityType
  <2>5. Cardinality(having) >= QuorumSize
    BY <2>3, <2>4 DEF QuorumSize
  <2> QED
    BY <2>5 DEF having
<1> QED
  BY <1>1, <1>2

(* Under one candidate, a majority has every entry that the leader has        *)
(* committed, although matchIndex is written by goroutines that ask neither   *)
(* which leadership nor which log an answer is about.                         *)
THEOREM CommitsAreReplicated ==
    ASSUME NEW l \in Server, Impatient \subseteq {l}
    PROVE  Spec => []CommitIsReplicated
<1>1. Init => QuorumInv(l)
  BY InitQuorumInv
<1>2. QuorumInv(l) /\ [Next]_vars => QuorumInv(l)'
  BY NextQuorumInv
<1>3. QuorumInv(l) => CommitIsReplicated
  BY QuorumHas
<1> QED
  BY <1>1, <1>2, <1>3, PTL DEF Spec

(* Under one candidate, a command whose client was answered OK is in the logs *)
(* of a majority, and stays there through crashes, restarts and requests that *)
(* come late or twice.                                                        *)
THEOREM AnswersAreReplicated ==
    ASSUME NEW l \in Server, Impatient \subseteq {l}
    PROVE  Spec => []AckedIsReplicated
<1>1. Init => QuorumInv(l)
  BY InitQuorumInv
<1>2. QuorumInv(l) /\ [Next]_vars => QuorumInv(l)'
  BY NextQuorumInv
<1>3. QuorumInv(l) => AckedIsReplicated
  BY QuorumHas
<1> QED
  BY <1>1, <1>2, <1>3, PTL DEF Spec

\* What a step may not do to the entries of the current term.
EntriesOfTermStay ==
    \A i \in Server : \A n \in DOMAIN log[i] :
        log[i][n].term = currentTerm'[i] => n \in DOMAIN log'[i] /\ log'[i][n] = log[i][n]

LEMMA StepKeepsEntries ==
    ASSUME NEW l \in Server, Impatient \subseteq {l}, MatchInv(l), Next
    PROVE  EntriesOfTermStay
<1> USE DEF MatchInv
<1> SUFFICES ASSUME NEW i \in Server, NEW n \in DOMAIN log[i],
                    log[i][n].term = currentTerm'[i]
             PROVE  n \in DOMAIN log'[i] /\ log'[i][n] = log[i][n]
  BY DEF EntriesOfTermStay
<1>1. /\ n \in 1..Len(log[i]) /\ n \in Nat
      /\ Len(log[i]) \in Nat /\ Len(log[l]) \in Nat
  <2>1. log[i] \in Seq(Entry) /\ log[l] \in Seq(Entry)
    BY Types
  <2>2. DOMAIN log[i] = 1..Len(log[i]) /\ Len(log[i]) \in Nat /\ Len(log[l]) \in Nat
    BY <2>1, LogFacts
  <2> QED
    BY <2>2
<1>2. DOMAIN log'[i] = 1..Len(log'[i]) /\ Len(log'[i]) \in Nat
  <2>1. TypeInv'
    BY NextTypeInv
  <2>2. log'[i] \in Seq(Entry)
    BY <2>1 DEF TypeInv, TypeOK
  <2> QED
    BY <2>2, LogFacts
<1>3. CASE i = l
  BY <1>1, <1>2, <1>3, LogOfLeader
<1>4. CASE log'[i] = log[i]
  BY <1>4
<1>5. ASSUME i # l, NEW req \in Incoming(i), currentTerm'[i] = req.term
      PROVE  n \in DOMAIN log'[i] /\ log'[i][n] = log[i][n]
  <2>1. log[i][n].term > InitTerm
    BY <1>5 DEF LeadsInOwnTerm
  <2>2. n <= Len(log[l]) /\ log[l][n] = log[i][n]
    BY <1>1, <2>1 DEF NewEntriesAre
  <2>3. i \in Others(l) /\ Agree(l, i, n)
    BY <1>1, <1>5, <2>2, SharedEntryAgrees DEF Others
  <2>4. AgreeAfter(l, i, n)
    BY <1>1, <2>3, AgreeStays
  <2>5. \A m \in 1..Len(log[l]) : log'[l][m] = log[l][m]
    BY LogOfLeader
  <2> QED
    BY <1>1, <1>2, <2>2, <2>4, <2>5 DEF AgreeAfter
<1>6. CASE i # l
  <2>1. loop[i] # "accepted"
    BY <1>6 DEF OnlyLeads, Others
  <2> QED
    BY <1>4, <1>5, <1>6, <2>1, LogSteps
<1> QED
  BY <1>3, <1>6

(* Under one candidate, no request removes or replaces an entry of the term   *)
(* it is accepted in, however late it comes and however often.                *)
THEOREM EntriesStay ==
    ASSUME NEW l \in Server, Impatient \subseteq {l}
    PROVE  Spec => CurrentEntriesStay
<1>1. Init => MatchInv(l)
  BY InitMatchInv
<1>2. MatchInv(l) /\ [Next]_vars => MatchInv(l)'
  BY NextMatchInv
<1>3. MatchInv(l) /\ [Next]_vars => [EntriesOfTermStay]_<<log, currentTerm>>
  <2>1. ASSUME MatchInv(l), Next PROVE EntriesOfTermStay
    BY <2>1, StepKeepsEntries
  <2>2. UNCHANGED vars => UNCHANGED <<log, currentTerm>>
    BY DEF vars, diskVars
  <2> QED
    BY <2>1, <2>2
<1>4. CurrentEntriesStay <=> [][EntriesOfTermStay]_<<log, currentTerm>>
  BY DEF CurrentEntriesStay, EntriesOfTermStay
<1> QED
  BY <1>1, <1>2, <1>3, <1>4, PTL DEF Spec
===============================================================================
