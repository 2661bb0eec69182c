------------------------- MODULE ElectionSafetyProofs -------------------------
(* What the election of one leader per term rests on: while a candidate waits *)
(* for votes it holds its own, an answer that deposes it takes that vote away *)
(* and the votes it has counted with it, and in a cluster of at most four     *)
(* servers the votes that are still to come are then too few to win.  In one  *)
(* of five they are enough: see LeaderKeepsOwnVote.                           *)
EXTENDS ElectionProofs

(* Server i waits for votes in a term in which it has voted for itself.       *)
Standing(i) == loop[i] = "polling" /\ votedFor[i] = i

\* The servers whose vote i may still count.
Uncounted(i) ==
    {j \in Others(i) : call[i][j].phase \in {"idle", "spawned", "sent", "answered"}}

\* A goroutine that has found a newer term and has not yet finished writing it.
Deposing(i, j) == call[i][j].phase \in {"deposed", "rewriting"}

\* The event loop is in the loop of the server's state, but for a candidate
\* deposed while it waits for votes.
LoopFits(i) ==
    /\ loop[i] \in {"candidate", "backoff"} => serverState[i] = Candidate
    /\ serverState[i] = Leader => loop[i] = "leader"

\* Whoever stands asks for votes in its own term and is deposed by newer ones.
StandsInOwnTerm(i) ==
    Standing(i) => \A j \in Others(i) :
        /\ call[i][j].phase = "sent" => call[i][j].term = currentTerm[i]
        /\ Deposing(i, j) => call[i][j].term > currentTerm[i]

\* Who stands and is no candidate any more is about to lose its own vote.
DeposedSoonRewrites(i) ==
    Standing(i) /\ serverState[i] # Candidate =>
        \E j \in Others(i) : call[i][j].phase = "rewriting"

\* Who waits without its own vote has lost with it all the votes it had: its
\* own and that of the server that deposed it are missing for good.
ResetCountIsLow(i) ==
    loop[i] = "polling" /\ votedFor[i] # i =>
        receivedVoteCount[i] + Cardinality(Uncounted(i)) + 2 <= Cardinality(Server)

CampaignOf(i) ==
    /\ LoopFits(i)
    /\ votedFor[i] \in {i, Nil}
    /\ StandsInOwnTerm(i)
    /\ DeposedSoonRewrites(i)
    /\ ResetCountIsLow(i)

CampaignInv == IInv /\ \A i \in Server : CampaignOf(i)
-----------------------------------------------------------------------------
(* What a step does to a server that it does not name, or that only makes or  *)
(* ends vote requests: each of its goroutines stays, sends, is answered by a  *)
(* server that has reached its term, is not needed any more, or loses its RPC.*)
CallAdvances(i, j) ==
    \/ call'[i][j] = call[i][j]
    \/ /\ call[i][j].phase = "spawned"
       /\ call'[i][j].phase = "sent"
       /\ call'[i][j].term = currentTerm[i]
    \/ /\ call[i][j].phase = "sent"
       /\ call'[i][j].phase = "answered"
       /\ loop'[j] \in Listening
       /\ currentTerm'[j] >= call[i][j].term
    \/ /\ call[i][j].phase = "spawned"
       /\ serverState[i] # Candidate
       /\ call'[i][j].phase = "done"
    \/ /\ call[i][j].phase \in {"sent", "answered"}
       /\ call'[i][j].phase = "done"
       /\ loop[j] = "down" \/ MaxFaults # 0

SameVote(i) ==
    /\ currentTerm'[i] = currentTerm[i]
    /\ votedFor'[i] = votedFor[i]
    /\ receivedVoteCount'[i] = receivedVoteCount[i]

Stays(i) ==
    /\ SameVote(i)
    /\ loop'[i] = loop[i] /\ serverState'[i] = serverState[i]
    /\ \A j \in Others(i) : CallAdvances(i, j)

\* A timer fires, or the process starts again.
Wakes(i) ==
    /\ SameVote(i) /\ call'[i] = call[i]
    /\ \/ loop[i] = "follower" /\ loop'[i] = "candidate" /\ serverState'[i] = Candidate
       \/ loop[i] = "backoff" /\ loop'[i] = "candidate" /\ serverState'[i] = serverState[i]
       \/ loop[i] = "down" /\ loop'[i] = "follower" /\ serverState'[i] = serverState[i]

\* A request is handled.
Hears(i) ==
    /\ loop[i] \in Listening
    /\ call'[i] = call[i]
    /\ \/ SameVote(i) /\ loop'[i] = loop[i] /\ serverState'[i] = serverState[i]
       \/ /\ loop'[i] = "follower" /\ serverState'[i] = Follower
          /\ \/ SameVote(i)
             \/ currentTerm'[i] > currentTerm[i] /\ votedFor'[i] = Nil

\* A process dies.  Only a campaign's crash takes its vote without a new term.
Dies(i) ==
    /\ loop'[i] = "down" /\ serverState'[i] = Follower
    /\ currentTerm'[i] \in Nat
    /\ votedFor'[i] \in {votedFor[i], Nil}
    /\ \/ currentTerm'[i] >= currentTerm[i]
       \/ \E j \in Others(i) : Deposing(i, j) /\ currentTerm'[i] = call[i][j].term
    /\ MaxFaults # 0

ReceivesAnswer(i) ==
    \E j \in Others(i) : ReceiveVote(i, j) \/ StepDown(i, j) \/ RewriteTerm(i, j)

Moves(i) ==
    \/ Stays(i) \/ Wakes(i) \/ Hears(i) \/ Dies(i)
    \/ Campaign(i) \/ ReceivesAnswer(i) \/ Win(i) \/ Lose(i)
-----------------------------------------------------------------------------
\* A server of which nothing changes stays.
LEMMA NothingMoves ==
    ASSUME NEW k \in Server, SameVote(k), call'[k] = call[k],
           loop'[k] = loop[k], serverState'[k] = serverState[k]
    PROVE  Stays(k)
BY DEF Stays, CallAdvances, Others

\* Steps of the goroutines that send heartbeats change none of it.
LEMMA HeartbeatsMove ==
    ASSUME IInv, NEW i \in Server, NEW k \in Server,
           \/ StartHeartbeats(i)
           \/ \E j \in Others(i) : SendHeartbeat(i, j) \/ BeatRefused(i, j) \/ BreakBeat(i, j)
    PROVE  Stays(k)
<1>1. UNCHANGED <<diskVars, voteVars, nodeVars, call>>
  BY DEF StartHeartbeats, SendHeartbeat, BeatRefused, BreakBeat
<1> QED
  BY <1>1, NothingMoves DEF diskVars, voteVars, nodeVars, SameVote

\* Timers and restarts.
LEMMA TimersMove ==
    ASSUME IInv, NEW i \in Server, NEW k \in Server,
           Timeout(i) \/ BackoffTimeout(i) \/ Restart(i)
    PROVE  Stays(k) \/ Wakes(k)
<1>1. SameVote(k) /\ call'[k] = call[k]
  BY DEF Timeout, BackoffTimeout, Restart, diskVars, voteVars, rpcVars, SameVote
<1>2. /\ loop \in [Server -> LoopState] /\ serverState \in [Server -> ServerState]
  BY DEF IInv, TypeOK
<1>3. CASE k # i
  <2>1. loop'[k] = loop[k] /\ serverState'[k] = serverState[k]
    BY <1>2, <1>3 DEF Timeout, BackoffTimeout, Restart
  <2> QED
    BY <1>1, <2>1, NothingMoves
<1>4. CASE k = i
  <2>1. Wakes(i)
    BY <1>1, <1>2, <1>4 DEF Wakes, Timeout, BackoffTimeout, Restart
  <2> QED
    BY <1>4, <2>1
<1> QED
  BY <1>3, <1>4

\* A campaign, the end of one and what one of its goroutines does are moves of
\* one server.
LEMMA CampaignsMove ==
    ASSUME IInv, NEW i \in Server, NEW k \in Server,
           Campaign(i) \/ Win(i) \/ Lose(i) \/ ReceivesAnswer(i)
    PROVE  Moves(k)
<1>1. CASE k = i
  BY <1>1 DEF Moves
<1>2. CASE k # i
  <2>1. /\ currentTerm \in [Server -> Nat] /\ votedFor \in [Server -> Server \cup {Nil}]
        /\ loop \in [Server -> LoopState] /\ serverState \in [Server -> ServerState]
        /\ receivedVoteCount \in [Server -> 0..Cardinality(Server)]
        /\ call \in [Server -> [Server -> Call]]
    BY DEF IInv, TypeOK
  <2>2. Campaign(i) \/ Win(i) \/ Lose(i) => Stays(k)
    <3>1. Campaign(i) => /\ SameVote(k) /\ call'[k] = call[k]
                         /\ loop'[k] = loop[k] /\ serverState'[k] = serverState[k]
      BY <1>2, <2>1 DEF Campaign, SameVote
    <3>2. Win(i) => /\ SameVote(k) /\ call'[k] = call[k]
                    /\ loop'[k] = loop[k] /\ serverState'[k] = serverState[k]
      BY <1>2, <2>1 DEF Win, SameVote, diskVars, voteVars
    <3>3. Lose(i) => /\ SameVote(k) /\ call'[k] = call[k]
                     /\ loop'[k] = loop[k] /\ serverState'[k] = serverState[k]
      BY <1>2, <2>1 DEF Lose, SameVote, diskVars, voteVars
    <3> QED
      BY <3>1, <3>2, <3>3, NothingMoves
  <2>3. ASSUME NEW j \in Others(i), ReceiveVote(i, j) \/ StepDown(i, j) \/ RewriteTerm(i, j)
        PROVE  Stays(k)
    <3>1. loop'[k] = loop[k] /\ serverState'[k] = serverState[k]
      BY <1>2, <2>1, <2>3 DEF ReceiveVote, StepDown, RewriteTerm, nodeVars
    <3>2. SameVote(k)
      BY <1>2, <2>1, <2>3
         DEF ReceiveVote, StepDown, RewriteTerm, SameVote, diskVars, voteVars
    <3>3. call'[k] = call[k]
      BY <1>2, <2>1, <2>3 DEF ReceiveVote, StepDown, RewriteTerm
    <3> QED
      BY <3>1, <3>2, <3>3, NothingMoves
  <2> QED
    BY <2>2, <2>3 DEF Moves, ReceivesAnswer
<1> QED
  BY <1>1, <1>2

\* Sending a vote request, and losing it or its answer.
LEMMA RequestsMove ==
    ASSUME IInv, NEW i \in Server, NEW j \in Others(i), NEW k \in Server,
           \/ SendVoteRequest(i, j)
           \/ SkipVoteRequest(i, j)
           \/ CallRefused(i, j)
           \/ BreakCall(i, j)
    PROVE  Stays(k)
<1> DEFINE sent == [phase |-> "sent", term |-> currentTerm[i], granted |-> FALSE]
<1>1. UNCHANGED <<diskVars, voteVars, nodeVars>>
  BY DEF SendVoteRequest, SkipVoteRequest, CallRefused, BreakCall
<1>2. SameVote(k) /\ loop'[k] = loop[k] /\ serverState'[k] = serverState[k]
  BY <1>1 DEF diskVars, voteVars, nodeVars, SameVote
<1>3. /\ call \in [Server -> [Server -> Call]] /\ faults \in Nat
      /\ j \in Server /\ j # i
  BY DEF IInv, TypeOK, Others
<1>4. sent.phase = "sent" /\ sent.term = currentTerm[i] /\ Done(FALSE).phase = "done"
  BY DEF Done
<1>5. PICK c \in {sent, Done(FALSE)} : call' = [call EXCEPT ![i][j] = c]
  BY DEF SendVoteRequest, SkipVoteRequest, CallRefused, BreakCall
<1>6. \A a, b \in Server : call'[a][b] = IF a = i /\ b = j THEN c ELSE call[a][b]
  BY <1>3, <1>5
<1>7. CallAdvances(i, j)
  <2>1. CASE SendVoteRequest(i, j)
    <3>1. call'[i][j] = sent /\ call[i][j].phase = "spawned"
      BY <1>3, <2>1 DEF SendVoteRequest
    <3> QED
      BY <1>4, <3>1 DEF CallAdvances
  <2>2. CASE SkipVoteRequest(i, j)
    <3>1. /\ call'[i][j] = Done(FALSE) /\ call[i][j].phase = "spawned"
          /\ serverState[i] # Candidate
      BY <1>3, <2>2 DEF SkipVoteRequest
    <3> QED
      BY <1>4, <3>1 DEF CallAdvances
  <2>3. CASE CallRefused(i, j)
    <3>1. call'[i][j] = Done(FALSE) /\ call[i][j].phase = "sent" /\ loop[j] = "down"
      BY <1>3, <2>3 DEF CallRefused
    <3> QED
      BY <1>4, <3>1 DEF CallAdvances
  <2>4. CASE BreakCall(i, j)
    <3>1. /\ call'[i][j] = Done(FALSE) /\ call[i][j].phase \in {"sent", "answered"}
          /\ faults < MaxFaults
      BY <1>3, <2>4 DEF BreakCall
    <3>2. MaxFaults # 0
      BY <1>3, <3>1, BoundAssumption
    <3> QED
      BY <1>4, <3>1, <3>2 DEF CallAdvances
  <2> QED
    BY <2>1, <2>2, <2>3, <2>4
<1>8. \A b \in Others(k) : CallAdvances(k, b)
  BY <1>3, <1>6, <1>7 DEF CallAdvances, Others
<1> QED
  BY <1>2, <1>8 DEF Stays

\* What handling a request of a term does to the receiver and to nobody else.
LEMMA ReceiverMoves ==
    ASSUME TypeOK, NEW j \in Server, NEW term \in Nat, NEW follows \in BOOLEAN,
           term > currentTerm[j] => follows,
           loop[j] \in Listening, AdoptTerm(j, term), Settle(j, follows)
    PROVE  /\ \A k \in Server \ {j} :
                 SameVote(k) /\ loop'[k] = loop[k] /\ serverState'[k] = serverState[k]
           /\ \/ SameVote(j) /\ loop'[j] = loop[j] /\ serverState'[j] = serverState[j]
              \/ /\ loop'[j] = "follower" /\ serverState'[j] = Follower
                 /\ \/ SameVote(j)
                    \/ currentTerm'[j] > currentTerm[j] /\ votedFor'[j] = Nil
           /\ loop'[j] \in Listening
           /\ currentTerm'[j] >= term
<1>1. /\ currentTerm \in [Server -> Nat] /\ votedFor \in [Server -> Server \cup {Nil}]
      /\ loop \in [Server -> LoopState] /\ serverState \in [Server -> ServerState]
      /\ receivedVoteCount \in [Server -> 0..Cardinality(Server)]
  BY DEF TypeOK
<1>2. /\ \A k \in Server \ {j} : loop'[k] = loop[k] /\ serverState'[k] = serverState[k]
      /\ follows => loop'[j] = "follower" /\ serverState'[j] = Follower
      /\ ~ follows => loop'[j] = loop[j] /\ serverState'[j] = serverState[j]
  BY <1>1 DEF Settle
<1>3. CASE term > currentTerm[j]
  <2>1. /\ currentTerm' = [currentTerm EXCEPT ![j] = term]
        /\ votedFor' = [votedFor EXCEPT ![j] = Nil]
        /\ receivedVoteCount' = [receivedVoteCount EXCEPT ![j] = 0]
    BY <1>3 DEF AdoptTerm
  <2>2. \A k \in Server \ {j} : SameVote(k)
    BY <1>1, <2>1 DEF SameVote
  <2>3. currentTerm'[j] = term /\ votedFor'[j] = Nil
    BY <1>1, <2>1
  <2> QED
    BY <1>1, <1>2, <1>3, <2>2, <2>3 DEF Listening
<1>4. CASE ~ (term > currentTerm[j])
  <2>1. UNCHANGED <<currentTerm, votedFor, receivedVoteCount>>
    BY <1>4 DEF AdoptTerm
  <2>2. \A k \in Server : SameVote(k)
    BY <2>1 DEF SameVote
  <2>3. currentTerm'[j] >= term
    BY <1>1, <1>4, <2>1
  <2> QED
    BY <1>2, <2>2, <2>3 DEF Listening
<1> QED
  BY <1>3, <1>4

\* The handlers of heartbeats and of requests that nobody waits for.
LEMMA HandlersMove ==
    ASSUME IInv, NEW k \in Server,
           \/ \E i \in Server : \E j \in Others(i) : HandleHeartbeat(i, j)
           \/ LateNext
    PROVE  Stays(k) \/ Hears(k)
<1> TypeOK
  BY DEF IInv
<1>1. PICK j \in Server, term \in Nat, follows \in BOOLEAN :
         /\ term > currentTerm[j] => follows
         /\ loop[j] \in Listening
         /\ AdoptTerm(j, term)
         /\ Settle(j, follows)
         /\ UNCHANGED call
  <2>1. ASSUME NEW i \in Server, NEW j \in Server, NEW term \in Nat, ProcessHeartbeat(i, j, term)
        PROVE  \E follows \in BOOLEAN :
                  /\ term > currentTerm[j] => follows
                  /\ loop[j] \in Listening
                  /\ AdoptTerm(j, term)
                  /\ Settle(j, follows)
                  /\ UNCHANGED call
    <3> DEFINE follows == \/ term > currentTerm[j]
                          \/ term = currentTerm[j] /\ loop[j] = "backoff"
    <3>1. follows \in BOOLEAN /\ (term > currentTerm[j] => follows)
      OBVIOUS
    <3>2. /\ loop[j] \in Listening
          /\ AdoptTerm(j, term)
          /\ Settle(j, follows)
          /\ UNCHANGED call
      BY <2>1 DEF ProcessHeartbeat
    <3> HIDE DEF follows
    <3> QED
      BY <3>1, <3>2
  <2>2. CASE \E i \in Server : \E j \in Others(i) : HandleHeartbeat(i, j)
    <3> PICK i \in Server, j \in Server : j \in Others(i) /\ HandleHeartbeat(i, j)
      BY <2>2 DEF Others
    <3>1. beat[i][j].term \in Nat
      BY DEF TypeOK, Beat
    <3>2. ProcessHeartbeat(i, j, beat[i][j].term)
      BY DEF HandleHeartbeat
    <3> QED
      BY <2>1, <3>1, <3>2
  <2>3. CASE LateNext
    <3> PICK m \in late : HandleLateRequestVote(m) \/ HandleLateHeartbeat(m)
      BY <2>3 DEF LateNext
    <3>1. m.from \in Server /\ m.to \in Server /\ m.term \in Nat
      BY DEF TypeOK, LateRequest
    <3>2. CASE HandleLateHeartbeat(m)
      <4>1. ProcessHeartbeat(m.from, m.to, m.term)
        BY <3>2 DEF HandleLateHeartbeat
      <4> QED
        BY <2>1, <3>1, <4>1
    <3>3. CASE HandleLateRequestVote(m)
      <4> DEFINE follows == m.term > currentTerm[m.to]
      <4>1. follows \in BOOLEAN /\ (m.term > currentTerm[m.to] => follows)
        OBVIOUS
      <4>2. /\ loop[m.to] \in Listening
            /\ AdoptTerm(m.to, m.term)
            /\ Settle(m.to, follows)
            /\ UNCHANGED call
        BY <3>3 DEF HandleLateRequestVote, ProcessVoteRequest
      <4> HIDE DEF follows
      <4> QED
        BY <3>1, <4>1, <4>2
    <3> QED
      BY <3>2, <3>3
  <2> QED
    BY <2>2, <2>3
<1>2. CASE k = j
  BY <1>1, <1>2, ReceiverMoves DEF Hears
<1>3. CASE k # j
  <2>1. SameVote(k) /\ loop'[k] = loop[k] /\ serverState'[k] = serverState[k]
    BY <1>1, <1>3, ReceiverMoves
  <2> QED
    BY <1>1, <2>1, NothingMoves
<1> QED
  BY <1>2, <1>3

\* A vote request is handled: the voter moves, and so does the call.
LEMMA VoterMoves ==
    ASSUME IInv, NEW i \in Server, NEW j \in Others(i), HandleRequestVote(i, j), NEW k \in Server
    PROVE  Stays(k) \/ Hears(k)
<1> DEFINE term == call[i][j].term
           c == [phase |-> "answered",
                 term |-> currentTerm'[j],
                 granted |-> VoteGranted(i, j, term)]
           follows == term > currentTerm[j]
<1> j \in Server /\ j # i /\ i \in Server /\ TypeOK
  BY DEF Others, IInv
<1>1. term \in Nat /\ follows \in BOOLEAN /\ (term > currentTerm[j] => follows)
  BY DEF TypeOK, Call
<1>2. /\ call[i][j].phase = "sent"
      /\ call' = [call EXCEPT ![i][j] = c]
      /\ loop[j] \in Listening
      /\ AdoptTerm(j, term)
      /\ Settle(j, follows)
  BY DEF HandleRequestVote, ProcessVoteRequest
<1>3. c.phase = "answered" /\ call \in [Server -> [Server -> Call]]
  BY DEF TypeOK
<1> HIDE DEF c, follows
<1>4. /\ \A h \in Server \ {j} :
            SameVote(h) /\ loop'[h] = loop[h] /\ serverState'[h] = serverState[h]
      /\ \/ SameVote(j) /\ loop'[j] = loop[j] /\ serverState'[j] = serverState[j]
         \/ /\ loop'[j] = "follower" /\ serverState'[j] = Follower
            /\ \/ SameVote(j)
               \/ currentTerm'[j] > currentTerm[j] /\ votedFor'[j] = Nil
      /\ loop'[j] \in Listening
      /\ currentTerm'[j] >= term
  BY <1>1, <1>2, ReceiverMoves
<1>5. \A a, b \in Server : call'[a][b] = IF a = i /\ b = j THEN c ELSE call[a][b]
  BY <1>2, <1>3
<1>6. CASE k = j
  <2>1. call'[j] = call[j]
    BY <1>2, <1>3
  <2> QED
    BY <1>2, <1>4, <1>6, <2>1 DEF Hears
<1>7. CASE k # j
  <2>1. ASSUME NEW b \in Others(k) PROVE CallAdvances(k, b)
    <3>1. CASE k = i /\ b = j
      BY <1>2, <1>3, <1>4, <1>5, <3>1 DEF CallAdvances
    <3>2. CASE ~ (k = i /\ b = j)
      BY <1>5, <3>2 DEF CallAdvances, Others
    <3> QED
      BY <3>1, <3>2
  <2> QED
    BY <1>4, <1>7, <2>1 DEF Stays
<1> QED
  BY <1>6, <1>7

\* A crash ends the calls to the process.
LEMMA CrashesMove ==
    ASSUME IInv, NEW i \in Server, NEW k \in Server,
           Crash(i) \/ CrashInCampaign(i) \/ CrashInTermChange(i)
    PROVE  Stays(k) \/ Dies(k)
<1> TypeOK
  BY DEF IInv
<1>1. Die(i)
  BY DEF Crash, CrashInCampaign, CrashInTermChange
<1>2. MaxFaults # 0
  <2>1. faults \in Nat /\ faults < MaxFaults
    BY <1>1 DEF TypeOK, Die
  <2> QED
    BY <2>1, BoundAssumption
<1>3. /\ currentTerm \in [Server -> Nat] /\ votedFor \in [Server -> Server \cup {Nil}]
      /\ loop \in [Server -> LoopState] /\ serverState \in [Server -> ServerState]
      /\ receivedVoteCount \in [Server -> 0..Cardinality(Server)]
  BY DEF TypeOK
<1>4. /\ \A h \in Server \ {i} : currentTerm'[h] = currentTerm[h] /\ votedFor'[h] = votedFor[h]
      /\ currentTerm'[i] \in Nat
      /\ votedFor'[i] \in {votedFor[i], Nil}
      /\ \/ currentTerm'[i] >= currentTerm[i]
         \/ \E j \in Others(i) : Deposing(i, j) /\ currentTerm'[i] = call[i][j].term
  <2>1. CASE Crash(i)
    BY <1>3, <2>1 DEF Crash
  <2>2. CASE CrashInCampaign(i)
    <3>1. PICK t \in {currentTerm[i], currentTerm[i] + 1} :
             currentTerm' = [currentTerm EXCEPT ![i] = t]
      BY <2>2 DEF CrashInCampaign
    <3>2. votedFor' = [votedFor EXCEPT ![i] = Nil]
      BY <2>2 DEF CrashInCampaign
    <3> QED
      BY <1>3, <3>1, <3>2
  <2>3. CASE CrashInTermChange(i)
    <3>1. PICK term \in 0..MaxTerm :
             /\ TermBeingWritten(i, term)
             /\ currentTerm' = [currentTerm EXCEPT ![i] = term]
      BY <2>3 DEF CrashInTermChange
    <3>2. term \in Nat /\ UNCHANGED votedFor
      BY <2>3, BoundAssumption DEF CrashInTermChange
    <3>3. \/ term > currentTerm[i]
          \/ \E j \in Others(i) : Deposing(i, j) /\ term = call[i][j].term
      BY <3>1 DEF TermBeingWritten, Deposing
    <3> QED
      BY <1>3, <3>1, <3>2, <3>3
  <2> QED
    BY <2>1, <2>2, <2>3
<1>5. /\ loop'[i] = "down" /\ serverState'[i] = Follower
      /\ \A h \in Server \ {i} : /\ loop'[h] = loop[h] /\ serverState'[h] = serverState[h]
                                 /\ receivedVoteCount'[h] = receivedVoteCount[h]
  BY <1>1, <1>3 DEF Die
<1>6. CASE k = i
  BY <1>2, <1>4, <1>5, <1>6 DEF Dies
<1>7. CASE k # i
  <2>1. ASSUME NEW l \in Others(k) PROVE CallAdvances(k, l)
    <3>1. l \in Server
      BY DEF Others
    <3>2. call'[k][l] = IF l = i /\ call[k][l].phase = "sent" THEN Done(FALSE) ELSE call[k][l]
      BY <1>1, <1>7, <3>1 DEF Die
    <3> QED
      BY <1>2, <3>2, DoneFacts DEF CallAdvances
  <2> QED
    BY <1>4, <1>5, <1>7, <2>1 DEF Stays, SameVote
<1> QED
  BY <1>6, <1>7

(* What any step does to any server.                                          *)
LEMMA EveryStepMoves ==
    ASSUME IInv, [Next]_vars, NEW k \in Server
    PROVE  Moves(k)
<1>1. CASE UNCHANGED vars
  <2>1. SameVote(k) /\ call'[k] = call[k] /\ loop'[k] = loop[k] /\ serverState'[k] = serverState[k]
    BY <1>1 DEF vars, diskVars, voteVars, nodeVars, rpcVars, SameVote
  <2> QED
    BY <2>1, NothingMoves DEF Moves
<1>2. CASE \E i \in Server : ServerNext(i)
  <2> PICK i \in Server : ServerNext(i)
    BY <1>2
  <2>1. CASE StartHeartbeats(i)
    BY <2>1, HeartbeatsMove DEF Moves
  <2>2. CASE Timeout(i) \/ BackoffTimeout(i) \/ Restart(i)
    BY <2>2, TimersMove DEF Moves
  <2>3. CASE Campaign(i) \/ Win(i) \/ Lose(i)
    BY <2>3, CampaignsMove
  <2>4. CASE Crash(i) \/ CrashInCampaign(i) \/ CrashInTermChange(i)
    BY <2>4, CrashesMove DEF Moves
  <2> QED
    BY <2>1, <2>2, <2>3, <2>4 DEF ServerNext
<1>3. CASE \E i \in Server : \E j \in Others(i) : PairNext(i, j)
  <2> PICK i \in Server : \E j \in Others(i) : PairNext(i, j)
    BY <1>3
  <2> PICK j \in Others(i) : PairNext(i, j)
    OBVIOUS
  <2>1. CASE SendHeartbeat(i, j) \/ BeatRefused(i, j) \/ BreakBeat(i, j)
    BY <2>1, HeartbeatsMove DEF Moves
  <2>2. CASE HandleHeartbeat(i, j)
    BY <2>2, HandlersMove DEF Moves
  <2>3. CASE HandleRequestVote(i, j)
    BY <2>3, VoterMoves DEF Moves
  <2>4. CASE ReceiveVote(i, j) \/ StepDown(i, j) \/ RewriteTerm(i, j)
    BY <2>4, CampaignsMove DEF ReceivesAnswer
  <2>5. CASE \/ SendVoteRequest(i, j) \/ SkipVoteRequest(i, j)
             \/ CallRefused(i, j) \/ BreakCall(i, j)
    BY <2>5, RequestsMove DEF Moves
  <2> QED
    BY <2>1, <2>2, <2>3, <2>4, <2>5 DEF PairNext
<1>4. CASE LateNext
  BY <1>4, HandlersMove DEF Moves
<1> QED
  BY <1>1, <1>2, <1>3, <1>4 DEF Next
-----------------------------------------------------------------------------
\* The empty string names no server.
LEMMA NilIsNobody == ASSUME NEW i \in Server PROVE Nil # i
BY NilAssumption

\* Fewer servers have a vote to be counted, or one fewer.
LEMMA UncountedFacts ==
    ASSUME NEW i \in Server, NEW S \in SUBSET Others(i)
    PROVE  /\ Cardinality(S) \in Nat /\ Cardinality(Server) \in Nat
           /\ Cardinality(S) + 1 <= Cardinality(Server)
           /\ \A T \in SUBSET S : /\ Cardinality(T) \in Nat /\ Cardinality(T) <= Cardinality(S)
                                  /\ T # S => Cardinality(T) + 1 <= Cardinality(S)
<1>1. /\ Cardinality(S) \in Nat /\ Cardinality(Server) \in Nat
      /\ Cardinality(S) + 1 <= Cardinality(Server)
  BY WithSelf DEF Others
<1>2. S \in SUBSET Server
  BY DEF Others
<1>3. ASSUME NEW T \in SUBSET S
      PROVE  /\ Cardinality(T) \in Nat /\ Cardinality(T) <= Cardinality(S)
             /\ T # S => Cardinality(T) + 1 <= Cardinality(S)
  <2>1. /\ Cardinality(T) \in Nat /\ Cardinality(T) <= Cardinality(S)
        /\ Cardinality(T) = Cardinality(S) => T = S
    BY <1>2, ServerSubsets
  <2> QED
    BY <1>1, <2>1
<1> QED
  BY <1>1, <1>3

\* Making requests and losing them.
LEMMA StayingKeeps ==
    ASSUME TypeOK, NEW i \in Server, CampaignOf(i), Stays(i)
    PROVE  CampaignOf(i)'
<1>1. /\ SameVote(i) /\ loop'[i] = loop[i] /\ serverState'[i] = serverState[i]
      /\ Standing(i)' <=> Standing(i)
  BY DEF Stays, SameVote, Standing
<1>2. \A j \in Others(i) :
         /\ call'[i][j].phase = "sent" =>
               \/ call[i][j].phase = "sent" /\ call'[i][j].term = call[i][j].term
               \/ call'[i][j].term = currentTerm[i]
         /\ Deposing(i, j)' => Deposing(i, j) /\ call'[i][j].term = call[i][j].term
         /\ call[i][j].phase = "rewriting" => call'[i][j].phase = "rewriting"
         /\ j \in Uncounted(i)' => j \in Uncounted(i)
  BY DEF Stays, CallAdvances, Deposing, Uncounted
<1>3. LoopFits(i)' /\ votedFor'[i] \in {i, Nil}
  BY <1>1 DEF CampaignOf, LoopFits, SameVote
<1>4. StandsInOwnTerm(i)'
  BY <1>1, <1>2 DEF CampaignOf, StandsInOwnTerm, SameVote
<1>5. DeposedSoonRewrites(i)'
  BY <1>1, <1>2 DEF CampaignOf, DeposedSoonRewrites
<1>6. ResetCountIsLow(i)'
  <2> SUFFICES ASSUME loop[i] = "polling", votedFor[i] # i
               PROVE  receivedVoteCount[i] + Cardinality(Uncounted(i)') + 2 <= Cardinality(Server)
    BY <1>1 DEF ResetCountIsLow, SameVote
  <2>1. receivedVoteCount[i] + Cardinality(Uncounted(i)) + 2 <= Cardinality(Server)
    BY DEF CampaignOf, ResetCountIsLow
  <2>2. Uncounted(i) \in SUBSET Others(i) /\ Uncounted(i)' \in SUBSET Uncounted(i)
    BY <1>2 DEF Uncounted
  <2> QED
    BY <2>1, <2>2, UncountedFacts, CountsAreNumbers
<1> QED
  BY <1>3, <1>4, <1>5, <1>6 DEF CampaignOf

\* Timers, requests handled and crashes: the server does not wait for votes.
LEMMA NotPollingKeeps ==
    ASSUME NEW i \in Server, loop'[i] # "polling", LoopFits(i)', votedFor'[i] \in {i, Nil}
    PROVE  CampaignOf(i)'
BY DEF CampaignOf, StandsInOwnTerm, DeposedSoonRewrites, ResetCountIsLow, Standing

LEMMA WakingHearingDyingKeeps ==
    ASSUME NEW i \in Server, CampaignOf(i), Wakes(i) \/ Hears(i) \/ Dies(i)
    PROVE  CampaignOf(i)'
<1>1. loop'[i] # "polling"
  BY DEF Wakes, Hears, Dies, Listening
<1>2. LoopFits(i)'
  BY DEF CampaignOf, LoopFits, Wakes, Hears, Dies, Listening, Candidate, Leader, Follower
<1>3. votedFor'[i] \in {i, Nil}
  BY DEF CampaignOf, Wakes, Hears, Dies, SameVote
<1> QED
  BY <1>1, <1>2, <1>3, NotPollingKeeps

\* The end of a campaign.
LEMMA TallyKeeps ==
    ASSUME TypeOK, NEW i \in Server, CampaignOf(i), Win(i) \/ Lose(i)
    PROVE  CampaignOf(i)'
<1>1. /\ loop \in [Server -> LoopState] /\ serverState \in [Server -> ServerState]
      /\ loop[i] = "polling" /\ serverState[i] # Leader
  BY DEF TypeOK, Win, Lose, AllAnswered, CampaignOf, LoopFits
<1>2. loop'[i] # "polling" /\ LoopFits(i)'
  BY <1>1 DEF Win, Lose, LoopFits, Candidate, Leader
<1>3. votedFor'[i] \in {i, Nil}
  BY DEF CampaignOf, Win, Lose, diskVars
<1> QED
  BY <1>2, <1>3, NotPollingKeeps

\* The beginning of one.
LEMMA CampaignKeeps ==
    ASSUME TypeOK, NEW i \in Server, CampaignOf(i), Campaign(i)
    PROVE  CampaignOf(i)'
<1>1. /\ loop'[i] = "polling" /\ votedFor'[i] = i
      /\ serverState' = serverState /\ serverState[i] = Candidate
      /\ \A j \in Others(i) : call'[i][j].phase = "spawned"
  <2>1. /\ loop' = [loop EXCEPT ![i] = "polling"]
        /\ votedFor' = [votedFor EXCEPT ![i] = i]
        /\ serverState' = serverState /\ loop[i] = "candidate"
    BY DEF Campaign
  <2>2. call' = [call EXCEPT ![i] =
                   [j \in Server |-> IF j = i THEN IdleCall ELSE [IdleCall EXCEPT !.phase = "spawned"]]]
    BY DEF Campaign
  <2>3. \A j \in Others(i) : call'[i][j] = [IdleCall EXCEPT !.phase = "spawned"]
    BY <2>2 DEF TypeOK, Others
  <2>4. [IdleCall EXCEPT !.phase = "spawned"].phase = "spawned"
    BY DEF IdleCall
  <2> QED
    BY <2>1, <2>3, <2>4 DEF TypeOK, CampaignOf, LoopFits
<1> QED
  BY <1>1 DEF CampaignOf, LoopFits, StandsInOwnTerm, DeposedSoonRewrites, ResetCountIsLow,
              Deposing, Candidate, Leader

\* An answer is counted and compared: one vote more, one that can come less.
LEMMA CountingKeeps ==
    ASSUME TypeOK, NEW i \in Server, NEW j \in Others(i), CampaignOf(i), loop[i] = "polling",
           ReceiveVote(i, j)
    PROVE  CampaignOf(i)'
<1> DEFINE c == IF call[i][j].term > currentTerm[i]
                THEN [call[i][j] EXCEPT !.phase = "deposed"]
                ELSE Done(call[i][j].granted)
<1>1. /\ call[i][j].phase = "answered"
      /\ call' = [call EXCEPT ![i][j] = c]
      /\ UNCHANGED <<currentTerm, votedFor, serverState, loop>>
      /\ receivedVoteCount'[i] \in {receivedVoteCount[i], receivedVoteCount[i] + 1}
  BY DEF ReceiveVote, diskVars, nodeVars, TypeOK
<1>2. /\ c.phase \in {"deposed", "done"}
      /\ c.phase = "deposed" => c.term > currentTerm[i]
  <2>1. call[i][j] \in Call
    BY DEF TypeOK, Others
  <2> QED
    BY <2>1 DEF Call, Done
<1> HIDE DEF c
<1>3. \A l \in Others(i) : call'[i][l] = IF l = j THEN c ELSE call[i][l]
  BY <1>1 DEF TypeOK, Others
<1>4. LoopFits(i)' /\ votedFor'[i] \in {i, Nil}
  BY <1>1 DEF CampaignOf, LoopFits
<1>5. StandsInOwnTerm(i)'
  BY <1>1, <1>2, <1>3 DEF CampaignOf, StandsInOwnTerm, Standing, Deposing
<1>6. DeposedSoonRewrites(i)'
  BY <1>1, <1>3 DEF CampaignOf, DeposedSoonRewrites, Standing
<1>7. ResetCountIsLow(i)'
  <2> SUFFICES ASSUME votedFor[i] # i
               PROVE  receivedVoteCount'[i] + Cardinality(Uncounted(i)') + 2 <= Cardinality(Server)
    BY <1>1 DEF ResetCountIsLow
  <2>1. receivedVoteCount[i] + Cardinality(Uncounted(i)) + 2 <= Cardinality(Server)
    BY DEF CampaignOf, ResetCountIsLow
  <2>2. /\ Uncounted(i) \in SUBSET Others(i) /\ Uncounted(i)' \in SUBSET Uncounted(i)
        /\ Uncounted(i)' # Uncounted(i)
    BY <1>1, <1>2, <1>3 DEF Uncounted
  <2>3. /\ Cardinality(Uncounted(i)) \in Nat /\ Cardinality(Uncounted(i)') \in Nat
        /\ Cardinality(Uncounted(i)') + 1 <= Cardinality(Uncounted(i))
    BY <2>2, UncountedFacts
  <2>4. receivedVoteCount[i] \in Nat /\ Cardinality(Server) \in Nat
    BY CountsAreNumbers
  <2> QED
    BY <1>1, <2>1, <2>3, <2>4
<1> QED
  BY <1>4, <1>5, <1>6, <1>7 DEF CampaignOf

\* A newer term makes the server a follower; it goes on to write that term.
LEMMA SteppingDownKeeps ==
    ASSUME TypeOK, NEW i \in Server, NEW j \in Others(i), CampaignOf(i), loop[i] = "polling",
           StepDown(i, j)
    PROVE  CampaignOf(i)'
<1> DEFINE c == IF call[i][j].term = currentTerm[i]
                THEN Done(call[i][j].granted)
                ELSE [call[i][j] EXCEPT !.phase = "rewriting"]
<1>1. /\ call[i][j].phase = "deposed"
      /\ call' = [call EXCEPT ![i][j] = c]
      /\ UNCHANGED <<currentTerm, votedFor, receivedVoteCount, loop>>
      /\ serverState'[i] = Follower
  BY DEF StepDown, diskVars, voteVars, TypeOK
<1>2. /\ c.phase \in {"rewriting", "done"}
      /\ c.phase = "rewriting" => c.term = call[i][j].term
      /\ call[i][j].term # currentTerm[i] => c.phase = "rewriting"
  <2>1. call[i][j] \in Call
    BY DEF TypeOK, Others
  <2> QED
    BY <2>1 DEF Call, Done
<1> HIDE DEF c
<1>3. \A l \in Others(i) : call'[i][l] = IF l = j THEN c ELSE call[i][l]
  BY <1>1 DEF TypeOK, Others
<1>4. LoopFits(i)' /\ votedFor'[i] \in {i, Nil}
  BY <1>1 DEF CampaignOf, LoopFits, Follower, Leader
<1>5. StandsInOwnTerm(i)'
  BY <1>1, <1>2, <1>3 DEF CampaignOf, StandsInOwnTerm, Standing, Deposing
<1>6. DeposedSoonRewrites(i)'
  <2> SUFFICES ASSUME Standing(i) PROVE call'[i][j].phase = "rewriting"
    BY <1>1 DEF DeposedSoonRewrites, Standing
  <2>1. call[i][j].term > currentTerm[i] /\ call[i][j].term \in Nat /\ currentTerm[i] \in Nat
    BY <1>1 DEF CampaignOf, StandsInOwnTerm, Deposing, TypeOK, Call, Others
  <2> QED
    BY <1>2, <1>3, <2>1
<1>7. ResetCountIsLow(i)'
  <2>1. Uncounted(i)' = Uncounted(i)
    BY <1>1, <1>2, <1>3 DEF Uncounted
  <2> QED
    BY <1>1, <2>1 DEF CampaignOf, ResetCountIsLow
<1> QED
  BY <1>4, <1>5, <1>6, <1>7 DEF CampaignOf

\* The newer term is written: own vote and count are gone, and the server whose
\* answer it was has nothing to add.
LEMMA RewritingKeeps ==
    ASSUME TypeOK, NEW i \in Server, NEW j \in Others(i), CampaignOf(i), loop[i] = "polling",
           RewriteTerm(i, j)
    PROVE  CampaignOf(i)'
<1>1. /\ call[i][j].phase = "rewriting"
      /\ call' = [call EXCEPT ![i][j] = Done(call[i][j].granted)]
      /\ UNCHANGED <<serverState, loop>>
      /\ votedFor'[i] = Nil /\ receivedVoteCount'[i] = 0
  BY DEF RewriteTerm, nodeVars, TypeOK
<1>2. LoopFits(i)' /\ votedFor'[i] \in {i, Nil} /\ ~ Standing(i)'
  BY <1>1, NilIsNobody DEF CampaignOf, LoopFits, Standing
<1>3. StandsInOwnTerm(i)' /\ DeposedSoonRewrites(i)'
  BY <1>2 DEF StandsInOwnTerm, DeposedSoonRewrites
<1>4. ResetCountIsLow(i)'
  <2>1. Uncounted(i)' \in SUBSET Others(i) /\ Uncounted(i)' # Others(i)
    <3>1. call'[i][j].phase = "done"
      BY <1>1 DEF TypeOK, Others, Done
    <3> QED
      BY <3>1 DEF Uncounted
  <2>2. /\ Cardinality(Others(i)) \in Nat /\ Cardinality(Server) \in Nat
        /\ Cardinality(Others(i)) + 1 <= Cardinality(Server)
        /\ Cardinality(Uncounted(i)') \in Nat
        /\ Cardinality(Uncounted(i)') + 1 <= Cardinality(Others(i))
    BY <2>1, UncountedFacts, Others(i) \in SUBSET Others(i)
  <2> QED
    BY <1>1, <2>2 DEF ResetCountIsLow
<1> QED
  BY <1>2, <1>3, <1>4 DEF CampaignOf

(* Every step keeps what is said of a campaign.                               *)
LEMMA NextCampaignInv ==
    ASSUME CampaignInv, [Next]_vars
    PROVE  CampaignInv'
<1> IInv /\ TypeOK
  BY DEF CampaignInv, IInv
<1>1. IInv'
  BY NextIInv
<1>2. ASSUME NEW k \in Server PROVE CampaignOf(k)'
  <2>1. CampaignOf(k) /\ Moves(k)
    BY EveryStepMoves DEF CampaignInv
  <2>2. CASE Stays(k)
    BY <2>1, <2>2, StayingKeeps
  <2>3. CASE Wakes(k) \/ Hears(k) \/ Dies(k)
    BY <2>1, <2>3, WakingHearingDyingKeeps
  <2>4. CASE Campaign(k)
    BY <2>1, <2>4, CampaignKeeps
  <2>5. CASE Win(k) \/ Lose(k)
    BY <2>1, <2>5, TallyKeeps
  <2>6. CASE ReceivesAnswer(k)
    <3>1. PICK j \in Others(k) : ReceiveVote(k, j) \/ StepDown(k, j) \/ RewriteTerm(k, j)
      BY <2>6 DEF ReceivesAnswer
    <3>2. call[k][j].phase # "idle" /\ j \in Server
      BY <3>1 DEF ReceiveVote, StepDown, RewriteTerm, Others
    <3>3. loop[k] = "polling"
      BY <3>2, BusyMeansPolling
    <3> QED
      BY <2>1, <3>1, <3>3, CountingKeeps, SteppingDownKeeps, RewritingKeeps
  <2> QED
    BY <2>1, <2>2, <2>3, <2>4, <2>5, <2>6 DEF Moves
<1> QED
  BY <1>1, <1>2 DEF CampaignInv

LEMMA InitCampaignInv == Init => CampaignInv
<1> SUFFICES ASSUME Init PROVE CampaignInv
  OBVIOUS
<1>1. IInv
  BY InitIInv
<1>2. ASSUME NEW k \in Server PROVE CampaignOf(k)
  BY DEF Init, CampaignOf, LoopFits, StandsInOwnTerm, DeposedSoonRewrites, ResetCountIsLow,
         Standing, Leader, Follower
<1> QED
  BY <1>1, <1>2 DEF CampaignInv

LEMMA CampaignsAreSound == Spec => []CampaignInv
<1>1. CampaignInv /\ [Next]_vars => CampaignInv'
  BY NextCampaignInv
<1> QED
  BY <1>1, InitCampaignInv, PTL DEF Spec
-----------------------------------------------------------------------------
\* Nobody's election is forgotten, and only a winner's is added.
LEMMA ElectedGrows ==
    ASSUME [Next]_vars
    PROVE  \/ elected' = elected
           \/ \E i \in Server :
                 Win(i) /\ elected' = elected \cup {[server |-> i, term |-> currentTerm[i]]}
<1>1. CASE UNCHANGED vars
  BY <1>1 DEF vars
<1>2. ASSUME NEW i \in Server, ServerNext(i)
      PROVE  elected' = elected \/ Win(i)
  <2>1. Timeout(i) \/ BackoffTimeout(i) \/ Campaign(i) \/ Lose(i) \/ StartHeartbeats(i)
           \/ Restart(i) => elected' = elected
    BY DEF Timeout, BackoffTimeout, Campaign, Lose, StartHeartbeats, Restart
  <2>2. Crash(i) \/ CrashInCampaign(i) \/ CrashInTermChange(i) => elected' = elected
    BY DEF Crash, CrashInCampaign, CrashInTermChange, Die
  <2> QED
    BY <1>2, <2>1, <2>2 DEF ServerNext
<1>3. ASSUME NEW i \in Server, NEW j \in Others(i), PairNext(i, j)
      PROVE  elected' = elected
  <2>1. SendVoteRequest(i, j) \/ SkipVoteRequest(i, j) \/ CallRefused(i, j) \/ BreakCall(i, j)
           => elected' = elected
    BY DEF SendVoteRequest, SkipVoteRequest, CallRefused, BreakCall
  <2>2. SendHeartbeat(i, j) \/ BeatRefused(i, j) \/ BreakBeat(i, j) => elected' = elected
    BY DEF SendHeartbeat, BeatRefused, BreakBeat
  <2>3. HandleRequestVote(i, j) \/ HandleHeartbeat(i, j) => elected' = elected
    BY DEF HandleRequestVote, ProcessVoteRequest, HandleHeartbeat, ProcessHeartbeat
  <2>4. ReceiveVote(i, j) \/ StepDown(i, j) \/ RewriteTerm(i, j) => elected' = elected
    BY DEF ReceiveVote, StepDown, RewriteTerm
  <2> QED
    BY <1>3, <2>1, <2>2, <2>3, <2>4 DEF PairNext
<1>4. LateNext => elected' = elected
  BY DEF LateNext, HandleLateRequestVote, ProcessVoteRequest, HandleLateHeartbeat, ProcessHeartbeat
<1>5. \A i \in Server :
         Win(i) => elected' = elected \cup {[server |-> i, term |-> currentTerm[i]]}
  BY DEF Win
<1> QED
  BY <1>1, <1>2, <1>3, <1>4, <1>5 DEF Next

(* Where four servers or fewer make a cluster, the winner of an election is   *)
(* still the candidate it was when it voted for itself.                       *)
LEMMA WinnerStands ==
    ASSUME Cardinality(Server) <= 4, CampaignInv, NEW i \in Server, Win(i)
    PROVE  Standing(i) /\ serverState[i] = Candidate
<1> TypeOK /\ CampaignOf(i)
  BY DEF CampaignInv, IInv
<1>1. /\ loop[i] = "polling"
      /\ \A j \in Others(i) : call[i][j].phase = "done"
      /\ receivedVoteCount[i] >= QuorumSize
  BY DEF Win, AllAnswered, HaveEnoughVotes
<1>2. votedFor[i] = i
  <2> SUFFICES ASSUME votedFor[i] # i PROVE FALSE
    OBVIOUS
  <2>1. Uncounted(i) = {}
    BY <1>1 DEF Uncounted
  <2>2. receivedVoteCount[i] + 0 + 2 <= Cardinality(Server)
    BY <1>1, <2>1, FS_EmptySet DEF CampaignOf, ResetCountIsLow
  <2>3. Cardinality(Server) \in {0, 1, 2, 3, 4} /\ receivedVoteCount[i] \in Nat
    BY CountsAreNumbers
  <2>4. /\ (Cardinality(Server) \div 2) + 1 + 2 <= Cardinality(Server)
    <3>1. receivedVoteCount[i] >= (Cardinality(Server) \div 2) + 1
      BY <1>1 DEF QuorumSize
    <3>2. Cardinality(Server) \div 2 \in Nat
      BY <2>3
    <3> QED
      BY <2>2, <2>3, <3>1, <3>2
  <2> QED
    BY <2>3, <2>4
<1>3. serverState[i] = Candidate
  BY <1>1, <1>2 DEF CampaignOf, DeposedSoonRewrites, Standing
<1> QED
  BY <1>1, <1>2, <1>3 DEF Standing

\* One server's part of LeaderHoldsOwnVote.
LeaderHeld(i) ==
    serverState[i] = Leader =>
        votedFor[i] = i /\ [server |-> i, term |-> currentTerm[i]] \in elected

LEMMA LeaderHeldStays ==
    ASSUME Cardinality(Server) <= 4, CampaignInv, [Next]_vars, NEW k \in Server, LeaderHeld(k)
    PROVE  LeaderHeld(k)'
<1> TypeOK /\ CampaignOf(k) /\ IInv
  BY DEF CampaignInv, IInv
<1>1. elected \subseteq elected'
  BY ElectedGrows
<1>2. CASE Win(k)
  <2>1. votedFor[k] = k
    BY <1>2, WinnerStands DEF Standing
  <2>2. UNCHANGED diskVars /\ [server |-> k, term |-> currentTerm[k]] \in elected'
    BY <1>2 DEF Win
  <2> QED
    BY <2>1, <2>2 DEF LeaderHeld, diskVars
<1>3. CASE \/ Stays(k)
           \/ Hears(k) /\ SameVote(k) /\ serverState'[k] = serverState[k]
  BY <1>1, <1>3 DEF LeaderHeld, Stays, SameVote
<1>4. CASE Wakes(k) \/ Dies(k) \/ Campaign(k) \/ Lose(k) \/ (Hears(k) /\ serverState'[k] = Follower)
  <2>1. serverState'[k] # Leader
    <3>1. Wakes(k) => serverState'[k] # Leader
      BY DEF Wakes, CampaignOf, LoopFits, Candidate, Leader
    <3>2. Dies(k) \/ (Hears(k) /\ serverState'[k] = Follower) => serverState'[k] # Leader
      BY DEF Dies, Follower, Leader
    <3>3. Campaign(k) => serverState'[k] # Leader
      BY DEF Campaign, CampaignOf, LoopFits, Candidate, Leader
    <3>4. Lose(k) => serverState'[k] # Leader
      BY DEF Lose, AllAnswered, CampaignOf, LoopFits
    <3> QED
      BY <1>4, <3>1, <3>2, <3>3, <3>4
  <2> QED
    BY <2>1 DEF LeaderHeld
<1>5. CASE ReceivesAnswer(k)
  <2>1. PICK j \in Others(k) : ReceiveVote(k, j) \/ StepDown(k, j) \/ RewriteTerm(k, j)
    BY <1>5 DEF ReceivesAnswer
  <2>2. loop[k] = "polling"
    BY <2>1, BusyMeansPolling DEF ReceiveVote, StepDown, RewriteTerm, Others
  <2>3. serverState[k] # Leader
    BY <2>2 DEF CampaignOf, LoopFits
  <2>4. serverState'[k] \in {serverState[k], Follower}
    BY <2>1 DEF ReceiveVote, StepDown, RewriteTerm, nodeVars, TypeOK
  <2> QED
    BY <2>3, <2>4 DEF LeaderHeld, Follower, Leader
<1>6. Hears(k) => \/ SameVote(k) /\ serverState'[k] = serverState[k]
                  \/ serverState'[k] = Follower
  BY DEF Hears
<1> QED
  BY <1>2, <1>3, <1>4, <1>5, <1>6, EveryStepMoves DEF Moves

(* In clusters of at most four servers a leader leads in the term it was      *)
(* elected in, and holds its own vote of that term, whatever is lost, late or *)
(* crashes.  In a cluster of five it need not, without any fault: after an    *)
(* answer has deposed a candidate, the votes of the other three still make a  *)
(* majority.                                                                  *)
THEOREM LeaderKeepsOwnVote ==
    ASSUME Cardinality(Server) <= 4
    PROVE  Spec => []LeaderHoldsOwnVote
<1> DEFINE Held == \A i \in Server : LeaderHeld(i)
<1>1. Init => Held
  BY DEF Init, LeaderHeld, Follower, Leader
<1>2. CampaignInv /\ Held /\ [Next]_vars => Held'
  BY LeaderHeldStays
<1>3. Held => LeaderHoldsOwnVote
  BY DEF LeaderHeld, LeaderHoldsOwnVote
<1> HIDE DEF Held
<1> QED
  BY <1>1, <1>2, <1>3, CampaignsAreSound, PTL DEF Spec

(* Without faults, in clusters of any size: a server that has voted for       *)
(* itself loses that vote to a newer term only.  (A crash between the writes  *)
(* of a campaign takes it in the old one.)                                    *)
THEOREM OwnVoteKept ==
    ASSUME MaxFaults = 0
    PROVE  Spec => OwnVoteIsKept
<1>1. ASSUME CampaignInv, [Next]_vars, NEW k \in Server, votedFor[k] = k, votedFor'[k] # k
      PROVE  currentTerm'[k] > currentTerm[k]
  <2> TypeOK /\ CampaignOf(k) /\ IInv
    BY <1>1 DEF CampaignInv, IInv
  <2>1. ~ SameVote(k) /\ ~ Dies(k)
    BY <1>1 DEF SameVote, Dies
  <2>2. ~ Stays(k) /\ ~ Wakes(k) /\ ~ Win(k) /\ ~ Lose(k)
    BY <1>1, <2>1 DEF Stays, Wakes, Win, Lose, diskVars
  <2>3. ~ Campaign(k)
    <3>1. Campaign(k) => votedFor'[k] = k
      BY DEF Campaign, TypeOK
    <3> QED
      BY <1>1, <3>1
  <2>4. CASE Hears(k)
    BY <1>1, <2>1, <2>4 DEF Hears
  <2>5. CASE ReceivesAnswer(k)
    <3>1. PICK j \in Others(k) : ReceiveVote(k, j) \/ StepDown(k, j) \/ RewriteTerm(k, j)
      BY <2>5 DEF ReceivesAnswer
    <3>2. RewriteTerm(k, j)
      BY <1>1, <3>1 DEF ReceiveVote, StepDown, diskVars
    <3>3. call[k][j].phase = "rewriting" /\ currentTerm'[k] = call[k][j].term
      BY <3>2 DEF RewriteTerm, TypeOK
    <3>4. Standing(k)
      BY <1>1, <3>3, BusyMeansPolling DEF Standing, Others
    <3> QED
      BY <3>3, <3>4 DEF CampaignOf, StandsInOwnTerm, Deposing
  <2> QED
    BY <1>1, <2>1, <2>2, <2>3, <2>4, <2>5, EveryStepMoves DEF Moves
<1>2. CampaignInv /\ [Next]_vars =>
         [\A i \in Server :
             votedFor[i] = i /\ votedFor'[i] # i => currentTerm'[i] > currentTerm[i]]_vars
  BY <1>1
<1> QED
  BY <1>2, CampaignsAreSound, PTL DEF Spec, OwnVoteIsKept
-----------------------------------------------------------------------------
(* Server k has left the elections of term T behind: it has reached the term, *)
(* does not stand in it, and whatever it is still going to write is no less.  *)
Past(k, T) ==
    /\ currentTerm[k] >= T
    /\ ~ (Standing(k) /\ currentTerm[k] = T)
    /\ \A j \in Others(k) : Deposing(k, j) => call[k][j].term >= T

\* Whoever has answered a candidate's request has left its term behind.
AnsweredIsPast(i) ==
    Standing(i) /\ serverState[i] = Candidate =>
        \A k \in Others(i) :
            call[i][k].phase \in {"answered", "deposed", "rewriting", "done"} =>
                Past(k, currentTerm[i])

\* Nobody else can win a term that has been won.
WonIsPast == \A e \in elected : \A k \in Server : Past(k, e.term)

NobodyIsDown == \A i \in Server : loop[i] # "down"

PastInv ==
    /\ CampaignInv
    /\ NobodyIsDown
    /\ \A i \in Server : AnsweredIsPast(i)
    /\ WonIsPast
    /\ ElectionSafety

\* Only who waits for votes has anything to write or stands.
LEMMA NotPollingIsPast ==
    ASSUME IInv', NEW k \in Server, NEW T \in Nat, loop'[k] # "polling", currentTerm'[k] >= T
    PROVE  Past(k, T)'
<1>1. \A j \in Others(k) : call'[k][j] = IdleCall
  BY DEF IInv, CallsOnlyWhilePolling, Others
<1> QED
  BY <1>1, IdleFacts DEF Past, Standing, Deposing

(* No server comes back to a term it has left behind, not even by a crash.    *)
LEMMA PastStays ==
    ASSUME CampaignInv, [Next]_vars, NEW k \in Server, NEW T \in Nat, Past(k, T)
    PROVE  Past(k, T)'
<1> TypeOK /\ CampaignOf(k) /\ IInv
  BY DEF CampaignInv, IInv
<1>1. IInv'
  BY NextIInv
<1>2. /\ currentTerm[k] \in Nat /\ currentTerm[k] >= T
      /\ \A j \in Others(k) : call[k][j] \in Call /\ call[k][j].term \in Nat
  BY DEF TypeOK, Past, Others, Call
<1>3. CASE Stays(k)
  <2>1. currentTerm'[k] = currentTerm[k] /\ (Standing(k)' <=> Standing(k))
    BY <1>3 DEF Stays, SameVote, Standing
  <2>2. \A j \in Others(k) : Deposing(k, j)' => Deposing(k, j) /\ call'[k][j] = call[k][j]
    BY <1>3 DEF Stays, CallAdvances, Deposing
  <2> QED
    BY <2>1, <2>2 DEF Past
<1>4. CASE Wakes(k) \/ Hears(k) \/ Dies(k)
  <2>1. loop'[k] # "polling"
    BY <1>4 DEF Wakes, Hears, Dies, Listening
  <2>2. currentTerm'[k] >= T
    <3>1. CASE currentTerm'[k] = currentTerm[k]
      BY <1>2, <3>1
    <3>2. CASE Hears(k) /\ currentTerm'[k] > currentTerm[k]
      <4>1. currentTerm'[k] \in Nat
        BY <1>1 DEF IInv, TypeOK
      <4> QED
        BY <1>2, <3>2, <4>1
    <3>3. CASE Dies(k)
      <4>1. currentTerm'[k] \in Nat
        BY <3>3 DEF Dies
      <4> QED
        BY <1>2, <3>3, <4>1 DEF Dies, Past
    <3> QED
      BY <1>4, <3>1, <3>2, <3>3 DEF Wakes, Hears, SameVote
  <2> QED
    BY <1>1, <2>1, <2>2, NotPollingIsPast
<1>5. CASE Win(k) \/ Lose(k)
  <2>1. loop'[k] # "polling" /\ currentTerm'[k] = currentTerm[k]
    BY <1>5 DEF Win, Lose, diskVars, TypeOK
  <2> QED
    BY <1>1, <1>2, <2>1, NotPollingIsPast
<1>6. CASE Campaign(k)
  <2>1. currentTerm'[k] = currentTerm[k] + 1
    BY <1>6 DEF Campaign, TypeOK
  <2>2. \A j \in Others(k) : call'[k][j].phase = "spawned"
    <3>1. call' = [call EXCEPT ![k] =
             [j \in Server |-> IF j = k THEN IdleCall ELSE [IdleCall EXCEPT !.phase = "spawned"]]]
      BY <1>6 DEF Campaign
    <3>2. \A j \in Others(k) : call'[k][j] = [IdleCall EXCEPT !.phase = "spawned"]
      BY <3>1 DEF TypeOK, Others
    <3> QED
      BY <3>2 DEF IdleCall
  <2> QED
    BY <1>2, <2>1, <2>2 DEF Past, Deposing
<1>7. CASE ReceivesAnswer(k)
  <2>1. PICK j \in Others(k) : ReceiveVote(k, j) \/ StepDown(k, j) \/ RewriteTerm(k, j)
    BY <1>7 DEF ReceivesAnswer
  <2>2. \A l \in Others(k) : l # j => call'[k][l] = call[k][l]
    BY <2>1 DEF ReceiveVote, StepDown, RewriteTerm, TypeOK, Others
  <2>3. CASE ReceiveVote(k, j)
    <3>1. UNCHANGED <<currentTerm, votedFor, loop>>
      BY <2>3 DEF ReceiveVote, diskVars, nodeVars
    <3>2. Deposing(k, j)' => call'[k][j].term > currentTerm[k] /\ call'[k][j].term \in Nat
      <4>1. call'[k][j] = IF call[k][j].term > currentTerm[k]
                          THEN [call[k][j] EXCEPT !.phase = "deposed"]
                          ELSE Done(call[k][j].granted)
        BY <2>3 DEF ReceiveVote, TypeOK, Others
      <4> QED
        BY <1>2, <4>1 DEF Deposing, Done, Call
    <3> QED
      BY <1>2, <2>2, <3>1, <3>2 DEF Past, Standing, Deposing
  <2>4. CASE StepDown(k, j)
    <3>1. UNCHANGED <<currentTerm, votedFor, loop>>
      BY <2>4 DEF StepDown, diskVars
    <3>2. Deposing(k, j) /\ (Deposing(k, j)' => call'[k][j].term = call[k][j].term)
      <4>1. /\ call[k][j].phase = "deposed"
            /\ call'[k][j] = IF call[k][j].term = currentTerm[k]
                             THEN Done(call[k][j].granted)
                             ELSE [call[k][j] EXCEPT !.phase = "rewriting"]
        BY <2>4 DEF StepDown, TypeOK, Others
      <4> QED
        BY <1>2, <4>1 DEF Deposing, Done, Call
    <3> QED
      BY <2>2, <3>1, <3>2 DEF Past, Standing, Deposing
  <2>5. CASE RewriteTerm(k, j)
    <3>1. /\ Deposing(k, j) /\ currentTerm'[k] = call[k][j].term
          /\ votedFor'[k] = Nil /\ call'[k][j].phase = "done"
      <4>1. /\ call[k][j].phase = "rewriting"
            /\ call'[k][j] = Done(call[k][j].granted)
            /\ currentTerm'[k] = call[k][j].term /\ votedFor'[k] = Nil
        BY <2>5 DEF RewriteTerm, TypeOK, Others
      <4> QED
        BY <4>1 DEF Deposing, Done
    <3> QED
      BY <2>2, <3>1, NilIsNobody DEF Past, Standing, Deposing
  <2> QED
    BY <2>1, <2>3, <2>4, <2>5
<1> QED
  BY <1>3, <1>4, <1>5, <1>6, <1>7, EveryStepMoves DEF Moves

\* Without faults every process goes on.
LEMMA NobodyDies ==
    ASSUME MaxFaults = 0, CampaignInv, NobodyIsDown, [Next]_vars
    PROVE  NobodyIsDown'
<1> SUFFICES ASSUME NEW k \in Server PROVE loop'[k] # "down"
  BY DEF NobodyIsDown
<1> TypeOK /\ IInv /\ loop[k] # "down"
  BY DEF CampaignInv, IInv, NobodyIsDown
<1>1. CASE Stays(k) \/ Wakes(k) \/ Hears(k)
  BY <1>1 DEF Stays, Wakes, Hears, Listening
<1>2. CASE Campaign(k) \/ Win(k) \/ Lose(k)
  BY <1>2 DEF Campaign, Win, Lose, TypeOK
<1>3. CASE ReceivesAnswer(k)
  BY <1>3 DEF ReceivesAnswer, ReceiveVote, StepDown, RewriteTerm, nodeVars
<1> QED
  BY <1>1, <1>2, <1>3, EveryStepMoves DEF Moves, Dies

\* An answer comes from a server that has reached the term it is about.
LEMMA AnsweredIsPastStays ==
    ASSUME MaxFaults = 0, CampaignInv, NobodyIsDown, [Next]_vars,
           NEW i \in Server, AnsweredIsPast(i)
    PROVE  AnsweredIsPast(i)'
<1> TypeOK /\ CampaignOf(i) /\ IInv
  BY DEF CampaignInv, IInv
<1>1. IInv'
  BY NextIInv
<1> SUFFICES ASSUME Standing(i)', serverState'[i] = Candidate, NEW k \in Others(i),
                    call'[i][k].phase \in {"answered", "deposed", "rewriting", "done"}
             PROVE  Past(k, currentTerm[i])'
  BY DEF AnsweredIsPast
<1> k \in Server /\ k # i
  BY DEF Others
<1>2. currentTerm[i] \in Nat /\ loop'[i] = "polling" /\ votedFor'[i] = i
  BY DEF TypeOK, Standing
<1>3. ASSUME currentTerm'[i] = currentTerm[i], Past(k, currentTerm[i])
      PROVE  Past(k, currentTerm[i])'
  <2>1. PICK T \in Nat : T = currentTerm[i]
    BY <1>2
  <2>2. Past(k, T)'
    BY <1>3, <2>1, PastStays
  <2> QED
    BY <1>3, <2>1, <2>2 DEF Past
<1>4. CASE Stays(i)
  <2>1. /\ currentTerm'[i] = currentTerm[i]
        /\ Standing(i) /\ serverState[i] = Candidate
        /\ CallAdvances(i, k)
    BY <1>2, <1>4 DEF Stays, SameVote, Standing
  <2>2. CASE call'[i][k] = call[i][k]
    <3>1. Past(k, currentTerm[i])
      BY <2>1, <2>2 DEF AnsweredIsPast
    <3> QED
      BY <1>3, <2>1, <3>1
  <2>3. CASE /\ call[i][k].phase = "sent"
             /\ loop'[k] \in Listening
             /\ currentTerm'[k] >= call[i][k].term
    <3>1. call[i][k].term = currentTerm[i]
      BY <2>1, <2>3 DEF CampaignOf, StandsInOwnTerm
    <3>2. currentTerm'[i] \in Nat /\ currentTerm'[k] >= currentTerm'[i] /\ loop'[k] # "polling"
      BY <1>2, <2>1, <2>3, <3>1 DEF Listening
    <3>3. \A j \in Others(k) : call'[k][j] = IdleCall
      BY <1>1, <3>2 DEF IInv, CallsOnlyWhilePolling, Others
    <3> QED
      BY <3>2, <3>3, IdleFacts DEF Past, Standing, Deposing
  <2> QED
    BY <2>1, <2>2, <2>3 DEF CallAdvances, NobodyIsDown
<1>5. CASE ReceivesAnswer(i)
  <2>1. PICK j \in Others(i) : ReceiveVote(i, j) \/ StepDown(i, j) \/ RewriteTerm(i, j)
    BY <1>5 DEF ReceivesAnswer
  <2>2. ~ StepDown(i, j)
    <3>1. StepDown(i, j) => serverState'[i] = Follower
      BY DEF StepDown, TypeOK
    <3> QED
      BY <3>1 DEF Follower, Candidate
  <2>3. ~ RewriteTerm(i, j)
    <3>1. RewriteTerm(i, j) => votedFor'[i] = Nil
      BY DEF RewriteTerm, TypeOK
    <3> QED
      BY <1>2, <3>1, NilIsNobody
  <2>4. /\ call[i][j].phase = "answered"
        /\ UNCHANGED <<currentTerm, votedFor, loop, serverState>>
        /\ \A l \in Others(i) : l # j => call'[i][l] = call[i][l]
    BY <2>1, <2>2, <2>3 DEF ReceiveVote, diskVars, nodeVars, TypeOK, Others
  <2>5. call[i][k].phase \in {"answered", "deposed", "rewriting", "done"}
    BY <2>4
  <2>6. Past(k, currentTerm[i])
    BY <1>2, <2>4, <2>5 DEF AnsweredIsPast, Standing
  <2> QED
    BY <1>3, <2>4, <2>6
<1>6. ~ Campaign(i)
  <2>1. Campaign(i) => call'[i][k].phase = "spawned"
    <3> SUFFICES ASSUME Campaign(i) PROVE call'[i][k].phase = "spawned"
      OBVIOUS
    <3>1. call' = [call EXCEPT ![i] =
             [j \in Server |-> IF j = i THEN IdleCall ELSE [IdleCall EXCEPT !.phase = "spawned"]]]
      BY DEF Campaign
    <3>2. call'[i][k] = [IdleCall EXCEPT !.phase = "spawned"]
      BY <3>1 DEF TypeOK
    <3> QED
      BY <3>2 DEF IdleCall
  <2> QED
    BY <2>1
<1>7. ~ (Wakes(i) \/ Hears(i) \/ Dies(i))
  BY <1>2 DEF Wakes, Hears, Dies, Listening
<1>8. ~ (Win(i) \/ Lose(i))
  BY <1>2 DEF Win, Lose, TypeOK
<1> QED
  BY <1>4, <1>5, <1>6, <1>7, <1>8, EveryStepMoves DEF Moves

\* A winner has the answer of every other server, and is itself done standing.
LEMMA WonIsPastStays ==
    ASSUME MaxFaults = 0, Cardinality(Server) <= 4, PastInv, [Next]_vars
    PROVE  WonIsPast'
<1> CampaignInv /\ IInv /\ TypeOK
  BY DEF PastInv, CampaignInv, IInv
<1> SUFFICES ASSUME NEW e \in elected', NEW k \in Server PROVE Past(k, e.term)'
  BY DEF WonIsPast
<1>1. CASE e \in elected
  <2>1. e.term \in Nat /\ Past(k, e.term)
    BY <1>1 DEF TypeOK, PastInv, WonIsPast
  <2> QED
    BY <2>1, PastStays
<1>2. CASE e \notin elected
  <2>1. PICK i \in Server : Win(i) /\ e = [server |-> i, term |-> currentTerm[i]]
    BY <1>2, ElectedGrows
  <2>2. /\ Standing(i) /\ serverState[i] = Candidate
        /\ \A j \in Others(i) : call[i][j].phase = "done"
    BY <2>1, WinnerStands DEF Win, AllAnswered
  <2>3. e.term = currentTerm[i] /\ e.term \in Nat
    BY <2>1 DEF TypeOK
  <2>4. CASE k \in Others(i)
    <3>1. Past(k, e.term)
      BY <2>2, <2>3, <2>4 DEF PastInv, AnsweredIsPast
    <3> QED
      BY <2>3, <3>1, PastStays
  <2>5. CASE k = i
    <3>1. loop'[i] # "polling" /\ currentTerm'[i] >= e.term
      BY <2>1, <2>3 DEF Win, diskVars, TypeOK
    <3> QED
      BY <2>3, <2>5, <3>1, NextIInv, NotPollingIsPast
  <2> QED
    BY <2>4, <2>5 DEF Others
<1> QED
  BY <1>1, <1>2

\* Who wins stands in its term, so nobody has won it before.
LEMMA ElectionSafetyStays ==
    ASSUME Cardinality(Server) <= 4, PastInv, [Next]_vars
    PROVE  ElectionSafety'
<1>1. CASE elected' = elected
  BY <1>1 DEF PastInv, ElectionSafety
<1>2. ASSUME NEW i \in Server, Win(i),
             elected' = elected \cup {[server |-> i, term |-> currentTerm[i]]}
      PROVE  ElectionSafety'
  <2>1. Standing(i)
    BY <1>2, WinnerStands DEF PastInv
  <2>2. \A e \in elected : e.term # currentTerm[i]
    BY <2>1 DEF PastInv, WonIsPast, Past
  <2> QED
    BY <1>2, <2>2 DEF PastInv, ElectionSafety
<1> QED
  BY <1>1, <1>2, ElectedGrows

(* In clusters of at most four servers, if nothing is lost and nobody         *)
(* crashes, at most one server wins the election of a term, although nobody   *)
(* remembers whom it voted for: every server has answered the winner before   *)
(* it wins, and who has answered never stands in that term again.  Neither    *)
(* hypothesis can be left out: one lost answer makes two leaders, and so do   *)
(* five servers without any fault.                                            *)
THEOREM OneLeaderPerTerm ==
    ASSUME MaxFaults = 0, Cardinality(Server) <= 4
    PROVE  Spec => []ElectionSafety
<1>1. Init => PastInv
  <2> SUFFICES ASSUME Init PROVE PastInv
    OBVIOUS
  <2>1. NobodyIsDown
    BY DEF Init, NobodyIsDown
  <2>2. \A i \in Server : AnsweredIsPast(i)
    BY DEF Init, AnsweredIsPast, Standing
  <2>3. WonIsPast /\ ElectionSafety
    BY DEF Init, WonIsPast, ElectionSafety
  <2> QED
    BY <2>1, <2>2, <2>3, InitCampaignInv DEF PastInv
<1>2. PastInv /\ [Next]_vars => PastInv'
  <2> SUFFICES ASSUME PastInv, [Next]_vars PROVE PastInv'
    OBVIOUS
  <2>1. CampaignInv' /\ NobodyIsDown'
    BY NextCampaignInv, NobodyDies DEF PastInv
  <2>2. \A i \in Server : AnsweredIsPast(i)'
    BY AnsweredIsPastStays DEF PastInv
  <2> QED
    BY <2>1, <2>2, WonIsPastStays, ElectionSafetyStays DEF PastInv
<1>3. PastInv => ElectionSafety
  BY DEF PastInv
<1> QED
  BY <1>1, <1>2, <1>3, PTL DEF Spec
-----------------------------------------------------------------------------
WasElected(i) == \E e \in elected : e.server = i

\* Whoever leads, sends a heartbeat, has left one on its way or is named to
\* clients has won an election.
HintInv ==
    /\ \A i \in Server : serverState[i] = Leader => WasElected(i)
    /\ \A i \in Server : \A j \in Others(i) : beat[i][j].phase # "idle" => WasElected(i)
    /\ \A m \in late : m.kind = "heartbeat" => WasElected(m.from)
    /\ LeaderHintWasElected

\* Nobody becomes leader but by winning.
LEMMA OnlyWinnersLead ==
    ASSUME IInv, [Next]_vars, NEW k \in Server, serverState'[k] = Leader
    PROVE  serverState[k] = Leader \/ Win(k)
<1> TypeOK
  BY DEF IInv
<1>1. Stays(k) \/ Wakes(k) \/ Hears(k) \/ Dies(k) => serverState'[k] \in {serverState[k], Candidate, Follower}
  BY DEF Stays, Wakes, Hears, Dies
<1>2. Campaign(k) \/ Lose(k) => serverState'[k] = serverState[k]
  BY DEF Campaign, Lose
<1>3. ReceivesAnswer(k) => serverState'[k] \in {serverState[k], Follower}
  BY DEF ReceivesAnswer, ReceiveVote, StepDown, RewriteTerm, nodeVars, TypeOK
<1> QED
  BY <1>1, <1>2, <1>3, EveryStepMoves DEF Moves, Candidate, Follower, Leader

\* Only a leader starts to send heartbeats.
LEMMA OnlyLeadersBeat ==
    ASSUME IInv, [Next]_vars, NEW k \in Server, NEW l \in Others(k), beat'[k][l].phase # "idle"
    PROVE  beat[k][l].phase # "idle" \/ serverState[k] = Leader
<1> TypeOK /\ l \in Server
  BY DEF IInv, Others
<1> beat \in [Server -> [Server -> Beat]] /\ IdleBeat.phase = "idle"
  BY DEF TypeOK, IdleBeat
<1>1. CASE UNCHANGED beat
  BY <1>1
<1>2. ASSUME NEW i \in Server, NEW j \in Others(i), beat' = [beat EXCEPT ![i][j] = IdleBeat]
      PROVE  beat[k][l].phase # "idle"
  BY <1>2 DEF Others
<1>3. ASSUME NEW i \in Server, Win(i) PROVE beat[k][l].phase # "idle"
  <2>1. beat' = [beat EXCEPT ![i] = [j \in Server |-> IdleBeat]]
    BY <1>3 DEF Win
  <2> QED
    BY <2>1
<1>4. ASSUME NEW i \in Server, StartHeartbeats(i)
      PROVE  beat[k][l].phase # "idle" \/ serverState[k] = Leader
  <2>1. serverState[i] = Leader /\ (k # i => beat'[k] = beat[k])
    BY <1>4 DEF StartHeartbeats, IsLeader
  <2> QED
    BY <2>1
<1>5. ASSUME NEW i \in Server, Die(i) PROVE beat[k][l].phase # "idle"
  <2>1. beat'[k][l] \in {IdleBeat, beat[k][l]}
    BY <1>5 DEF Die
  <2> QED
    BY <2>1
<1>6. ASSUME NEW i \in Server, NEW j \in Others(i), SendHeartbeat(i, j)
      PROVE  beat[k][l].phase # "idle"
  <2>1. /\ beat[i][j].phase = "spawned"
        /\ beat' = [beat EXCEPT ![i][j] = [phase |-> "sent", term |-> currentTerm[i]]]
    BY <1>6 DEF SendHeartbeat
  <2>2. CASE k = i /\ l = j
    BY <2>1, <2>2
  <2>3. CASE ~ (k = i /\ l = j)
    BY <2>1, <2>3 DEF Others
  <2> QED
    BY <2>2, <2>3
<1>7. CASE \E i \in Server : ServerNext(i)
  <2> PICK i \in Server : ServerNext(i)
    BY <1>7
  <2>1. Timeout(i) \/ BackoffTimeout(i) \/ Campaign(i) \/ Lose(i) \/ Restart(i) => UNCHANGED beat
    BY DEF Timeout, BackoffTimeout, Campaign, Lose, Restart, rpcVars
  <2>2. Crash(i) \/ CrashInCampaign(i) \/ CrashInTermChange(i) => Die(i)
    BY DEF Crash, CrashInCampaign, CrashInTermChange
  <2> QED
    BY <1>1, <1>3, <1>4, <1>5, <2>1, <2>2 DEF ServerNext
<1>8. CASE \E i \in Server : \E j \in Others(i) : PairNext(i, j)
  <2> PICK i \in Server : \E j \in Others(i) : PairNext(i, j)
    BY <1>8
  <2> PICK j \in Others(i) : PairNext(i, j)
    OBVIOUS
  <2>1. SendVoteRequest(i, j) \/ SkipVoteRequest(i, j) \/ HandleRequestVote(i, j)
           \/ ReceiveVote(i, j) \/ StepDown(i, j) \/ RewriteTerm(i, j)
           \/ CallRefused(i, j) \/ BreakCall(i, j) => UNCHANGED beat
    BY DEF SendVoteRequest, SkipVoteRequest, HandleRequestVote, ProcessVoteRequest, ReceiveVote,
           StepDown, RewriteTerm, CallRefused, BreakCall
  <2>2. HandleHeartbeat(i, j) \/ BeatRefused(i, j) \/ BreakBeat(i, j)
           => beat' = [beat EXCEPT ![i][j] = IdleBeat]
    BY DEF HandleHeartbeat, BeatRefused, BreakBeat
  <2> QED
    BY <1>1, <1>2, <1>6, <2>1, <2>2 DEF PairNext
<1>9. CASE LateNext \/ UNCHANGED vars
  <2>1. UNCHANGED beat
    BY <1>9 DEF LateNext, HandleLateRequestVote, ProcessVoteRequest, HandleLateHeartbeat,
                ProcessHeartbeat, vars, rpcVars
  <2> QED
    BY <1>1, <2>1
<1> QED
  BY <1>7, <1>8, <1>9 DEF Next

\* A heartbeat that is late now was late before or has just been sent.
LEMMA LateHeartbeats ==
    ASSUME [Next]_vars, NEW m \in late', m.kind = "heartbeat", m \notin late
    PROVE  m.from \in Server /\ \E j \in Others(m.from) : beat[m.from][j].phase = "sent"
<1>1. \A i \in Server : m \in InFlight(i) =>
         m.from = i /\ \E j \in Others(i) : beat[i][j].phase = "sent"
  BY DEF InFlight
<1>2. ASSUME NEW i \in Server, ServerNext(i) PROVE m \in InFlight(i)
  <2>1. Timeout(i) \/ BackoffTimeout(i) \/ Campaign(i) \/ Lose(i) \/ Restart(i) \/ StartHeartbeats(i)
           => late' = late
    BY DEF Timeout, BackoffTimeout, Campaign, Lose, Restart, StartHeartbeats, rpcVars
  <2>2. Win(i) => late' \subseteq late \cup InFlight(i)
    BY DEF Win
  <2>3. Crash(i) \/ CrashInCampaign(i) \/ CrashInTermChange(i) => late' \subseteq late \cup InFlight(i)
    BY DEF Crash, CrashInCampaign, CrashInTermChange, Die
  <2> QED
    BY <1>2, <2>1, <2>2, <2>3 DEF ServerNext
<1>3. ASSUME NEW i \in Server, NEW j \in Others(i), PairNext(i, j) PROVE m \in InFlight(i)
  <2>1. SendVoteRequest(i, j) \/ SkipVoteRequest(i, j) \/ HandleRequestVote(i, j)
           \/ ReceiveVote(i, j) \/ StepDown(i, j) \/ RewriteTerm(i, j) \/ CallRefused(i, j)
           => late' = late
    BY DEF SendVoteRequest, SkipVoteRequest, HandleRequestVote, ReceiveVote, StepDown,
           RewriteTerm, CallRefused
  <2>2. SendHeartbeat(i, j) \/ HandleHeartbeat(i, j) \/ BeatRefused(i, j) => late' = late
    BY DEF SendHeartbeat, HandleHeartbeat, BeatRefused
  <2>3. BreakCall(i, j) \/ BreakBeat(i, j) => late' \subseteq late \cup InFlight(i)
    BY DEF BreakCall, BreakBeat
  <2> QED
    BY <1>3, <2>1, <2>2, <2>3 DEF PairNext
<1>4. ~ LateNext /\ ~ UNCHANGED vars
  BY DEF LateNext, HandleLateRequestVote, HandleLateHeartbeat, vars, rpcVars
<1> QED
  BY <1>1, <1>2, <1>3, <1>4 DEF Next

\* Servers learn of leaders from heartbeats only.
LEMMA HintsAreHeartbeats ==
    ASSUME IInv, [Next]_vars, NEW k \in Server, leaderId'[k] # Nil, leaderId'[k] # leaderId[k]
    PROVE  \/ \E i \in Server : \E j \in Others(i) : beat[i][j].phase = "sent" /\ leaderId'[k] = i
           \/ \E m \in late : m.kind = "heartbeat" /\ leaderId'[k] = m.from
<1> TypeOK
  BY DEF IInv
<1>1. ASSUME NEW i \in Server, ServerNext(i) PROVE FALSE
  <2>1. Timeout(i) \/ BackoffTimeout(i) \/ Campaign(i) \/ Lose(i) \/ Restart(i) \/ StartHeartbeats(i)
           \/ Win(i) => leaderId' = leaderId
    BY DEF Timeout, BackoffTimeout, Campaign, Lose, Restart, StartHeartbeats, Win, nodeVars
  <2>2. Crash(i) \/ CrashInCampaign(i) \/ CrashInTermChange(i)
           => leaderId' = [leaderId EXCEPT ![i] = Nil]
    BY DEF Crash, CrashInCampaign, CrashInTermChange, Die
  <2> QED
    BY <1>1, <2>1, <2>2 DEF ServerNext, TypeOK
<1>2. ASSUME NEW i \in Server, NEW j \in Server, NEW term \in Nat, ProcessHeartbeat(i, j, term)
      PROVE  leaderId'[k] = i
  BY <1>2 DEF ProcessHeartbeat, TypeOK
<1>3. ASSUME NEW i \in Server, NEW j \in Others(i), PairNext(i, j)
      PROVE  beat[i][j].phase = "sent" /\ leaderId'[k] = i
  <2>1. SendVoteRequest(i, j) \/ SkipVoteRequest(i, j) \/ HandleRequestVote(i, j)
           \/ ReceiveVote(i, j) \/ StepDown(i, j) \/ RewriteTerm(i, j)
           \/ CallRefused(i, j) \/ BreakCall(i, j)
           \/ SendHeartbeat(i, j) \/ BeatRefused(i, j) \/ BreakBeat(i, j) => leaderId' = leaderId
    BY DEF SendVoteRequest, SkipVoteRequest, HandleRequestVote, ProcessVoteRequest, ReceiveVote,
           StepDown, RewriteTerm, CallRefused, BreakCall, SendHeartbeat, BeatRefused, BreakBeat,
           nodeVars
  <2>2. HandleHeartbeat(i, j)
    BY <1>3, <2>1 DEF PairNext
  <2>3. j \in Server /\ beat[i][j].term \in Nat
    BY DEF Others, TypeOK, Beat
  <2> QED
    BY <1>2, <2>2, <2>3 DEF HandleHeartbeat
<1>4. ASSUME LateNext
      PROVE  \E m \in late : m.kind = "heartbeat" /\ leaderId'[k] = m.from
  <2>1. PICK m \in late : HandleLateRequestVote(m) \/ HandleLateHeartbeat(m)
    BY <1>4 DEF LateNext
  <2>2. ~ HandleLateRequestVote(m)
    BY DEF HandleLateRequestVote, ProcessVoteRequest
  <2>3. m.from \in Server /\ m.to \in Server /\ m.term \in Nat
    BY DEF TypeOK, LateRequest
  <2> QED
    BY <1>2, <2>1, <2>2, <2>3 DEF HandleLateHeartbeat
<1>5. ~ UNCHANGED vars
  BY DEF vars, nodeVars
<1> QED
  BY <1>1, <1>3, <1>4, <1>5 DEF Next

(* In clusters of any size, whatever is lost, late or crashes: the server     *)
(* that another names to its clients as the leader has won an election.       *)
THEOREM HintsNameLeaders == Spec => []LeaderHintWasElected
<1>1. Init => HintInv
  <2> SUFFICES ASSUME Init PROVE HintInv
    OBVIOUS
  <2>1. \A i \in Server : serverState[i] # Leader /\ leaderId[i] = Nil
    BY DEF Init, Follower, Leader
  <2>2. \A i \in Server : \A j \in Others(i) : beat[i][j].phase = "idle"
    BY DEF Init, IdleBeat, Others
  <2>3. late = {}
    BY DEF Init
  <2> QED
    BY <2>1, <2>2, <2>3 DEF HintInv, LeaderHintWasElected
<1>2. ASSUME IInv, HintInv, [Next]_vars PROVE HintInv'
  <2>1. \A i : WasElected(i) => WasElected(i)'
    BY <1>2, ElectedGrows DEF WasElected
  <2>2. ASSUME NEW i \in Server, Win(i) PROVE WasElected(i)'
    <3> DEFINE e == [server |-> i, term |-> currentTerm[i]]
    <3>1. e \in elected' /\ e.server = i
      BY <2>2 DEF Win
    <3> QED
      BY <3>1 DEF WasElected
  <2>3. \A i \in Server : serverState'[i] = Leader => WasElected(i)'
    BY <1>2, <2>1, <2>2, OnlyWinnersLead DEF HintInv
  <2>4. \A i \in Server : \A j \in Others(i) : beat'[i][j].phase # "idle" => WasElected(i)'
    BY <1>2, <2>1, OnlyLeadersBeat DEF HintInv
  <2>5. \A m \in late' : m.kind = "heartbeat" => WasElected(m.from)'
    BY <1>2, <2>1, LateHeartbeats DEF HintInv
  <2>6. ASSUME NEW k \in Server, leaderId'[k] # Nil PROVE \E e \in elected' : e.server = leaderId'[k]
    <3>1. CASE leaderId'[k] = leaderId[k]
      BY <1>2, <2>1, <2>6, <3>1 DEF HintInv, LeaderHintWasElected, WasElected
    <3>2. CASE leaderId'[k] # leaderId[k]
      <4>1. PICK i : WasElected(i) /\ leaderId'[k] = i
        <5>1. CASE \E i \in Server : \E j \in Others(i) :
                      beat[i][j].phase = "sent" /\ leaderId'[k] = i
          BY <1>2, <5>1 DEF HintInv
        <5>2. CASE \E m \in late : m.kind = "heartbeat" /\ leaderId'[k] = m.from
          BY <1>2, <5>2 DEF HintInv
        <5> QED
          BY <1>2, <2>6, <3>2, <5>1, <5>2, HintsAreHeartbeats
      <4> QED
        BY <2>1, <4>1 DEF WasElected
    <3> QED
      BY <3>1, <3>2
  <2>7. LeaderHintWasElected'
    BY <2>6 DEF LeaderHintWasElected, WasElected
  <2> QED
    BY <2>3, <2>4, <2>5, <2>7 DEF HintInv
<1>3. HintInv => LeaderHintWasElected
  BY DEF HintInv
<1> QED
  BY <1>1, <1>2, <1>3, Invariance, PTL DEF Spec
===============================================================================
