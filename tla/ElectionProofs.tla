--------------------------- MODULE ElectionProofs ---------------------------
(* What holds of elections in clusters of every size, for every bound and     *)
(* every initial state: type correctness, and that a leader's log is at least *)
(* as up to date as a majority's.                                             *)
EXTENDS Election, FiniteSetTheorems, TLAPS

\* The servers whose granted vote has been added to i's count.
Counted(i) ==
    {j \in Server \ {i} : /\ call[i][j].granted
                          /\ call[i][j].phase \in {"deposed", "rewriting", "done"}}

\* A granted vote comes from a server that has compared the logs.
VotesVouched ==
    \A i, j \in Server :
        call[i][j].granted => AtLeastAsUpToDate(lastLog[i], lastLog[j])

\* Vote goroutines live only while their candidate loop waits for them.
CallsOnlyWhilePolling ==
    \A i, j \in Server : loop[i] # "polling" => call[i][j] = IdleCall

\* While the candidate waits, its count is at most its own vote and the votes
\* added to it.  (It may be less: SetRaftCurrentTerm resets it.)
CountBacked ==
    \A i \in Server :
        loop[i] = "polling" => receivedVoteCount[i] <= 1 + Cardinality(Counted(i))

IInv ==
    /\ TypeOK
    /\ VotesVouched
    /\ CallsOnlyWhilePolling
    /\ CountBacked
    /\ LeaderBackedByQuorum
-----------------------------------------------------------------------------
(* Sets of servers are finite; their sizes are ordered as they are.           *)
LEMMA ServerSubsets ==
    ASSUME NEW S \in SUBSET Server, NEW T \in SUBSET S
    PROVE  /\ IsFiniteSet(T)
           /\ Cardinality(T) \in Nat
           /\ Cardinality(T) <= Cardinality(S)
           /\ Cardinality(T) = Cardinality(S) => T = S
<1>1. IsFiniteSet(S)
  BY ServerAssumption, FS_Subset
<1>2. /\ IsFiniteSet(T)
      /\ Cardinality(T) <= Cardinality(S)
      /\ Cardinality(S) = Cardinality(T) => S = T
  BY <1>1, FS_Subset
<1>3. Cardinality(T) \in Nat
  BY <1>2, FS_CardinalityType
<1> QED
  BY <1>2, <1>3

(* A set of other servers and the server itself.                              *)
LEMMA WithSelf ==
    ASSUME NEW i \in Server, NEW S \in SUBSET (Server \ {i})
    PROVE  /\ Cardinality(S \cup {i}) = Cardinality(S) + 1
           /\ Cardinality(S) + 1 <= Cardinality(Server)
           /\ Cardinality(S) \in Nat
           /\ Cardinality(Server) \in Nat
<1>1. IsFiniteSet(S)
  BY ServerSubsets, S \in SUBSET Server
<1>2. Cardinality(S \cup {i}) = Cardinality(S) + 1
  BY <1>1, FS_AddElement
<1>3. Cardinality(S \cup {i}) <= Cardinality(Server)
  BY ServerSubsets, S \cup {i} \in SUBSET Server
<1>4. Cardinality(S) \in Nat /\ Cardinality(Server) \in Nat
  BY <1>1, ServerAssumption, FS_CardinalityType
<1> QED
  BY <1>2, <1>3, <1>4

(* Counting one more vote.                                                    *)
LEMMA OneMore ==
    ASSUME NEW i \in Server, NEW j \in Server \ {i},
           NEW S \in SUBSET (Server \ {i}), j \notin S
    PROVE  Cardinality(S \cup {j}) = Cardinality(S) + 1
<1>1. IsFiniteSet(S)
  BY ServerSubsets, S \in SUBSET Server
<1> QED
  BY <1>1, FS_AddElement

\* Initially nobody waits for votes and nobody leads.
LEMMA InitIInv == Init => IInv
<1> SUFFICES ASSUME Init PROVE IInv
  OBVIOUS
<1>1. Cardinality(Server) \in Nat
  BY ServerAssumption, FS_CardinalityType
<1>2. TypeOK
  <2>1. IdleCall \in Call /\ IdleBeat \in Beat
    BY DEF Call, CallPhase, IdleCall, Beat, IdleBeat
  <2>2. /\ call \in [Server -> [Server -> Call]]
        /\ beat \in [Server -> [Server -> Beat]]
    BY <2>1 DEF Init
  <2>3. /\ currentTerm \in [Server -> Nat]
        /\ lastLog \in [Server -> LogEnd]
    BY InitAssumption DEF Init
  <2>4. /\ serverState \in [Server -> ServerState]
        /\ receivedVoteCount \in [Server -> 0..Cardinality(Server)]
        /\ loop \in [Server -> LoopState]
    BY <1>1 DEF Init, ServerState, LoopState, Listening
  <2> QED
    BY <2>2, <2>3, <2>4 DEF Init, TypeOK
<1>3. VotesVouched /\ CallsOnlyWhilePolling /\ CountBacked
  BY DEF Init, VotesVouched, CallsOnlyWhilePolling, CountBacked, IdleCall
<1>4. LeaderBackedByQuorum
  BY DEF Init, LeaderBackedByQuorum, Follower, Leader
<1> QED
  BY <1>2, <1>3, <1>4 DEF IInv
-----------------------------------------------------------------------------
\* A goroutine that does not run has no vote to report.
LEMMA IdleFacts ==
    /\ IdleCall \in Call
    /\ IdleBeat \in Beat
    /\ ~ IdleCall.granted
    /\ IdleCall.phase = "idle"
BY DEF IdleCall, IdleBeat, Call, CallPhase, Beat

\* A finished one reports what it was told.
LEMMA DoneFacts ==
    ASSUME NEW granted \in BOOLEAN
    PROVE  /\ Done(granted) \in Call
           /\ Done(granted).granted = granted
           /\ Done(granted).phase = "done"
BY DEF Done, Call, CallPhase

(* Steps that leave the vote goroutines alone keep the invariant if a server  *)
(* that now waits for votes has waited before, and so has its count, and if   *)
(* nobody becomes leader.                                                     *)
LEMMA CallsUntouched ==
    ASSUME IInv, TypeOK', UNCHANGED <<call, lastLog>>,
           \A k \in Server :
              /\ loop'[k] = "polling" <=> loop[k] = "polling"
              /\ loop[k] = "polling" => receivedVoteCount'[k] <= receivedVoteCount[k]
              /\ serverState'[k] = Leader => serverState[k] = Leader
    PROVE  IInv'
<1>1. VotesVouched' /\ CallsOnlyWhilePolling'
  BY DEF IInv, VotesVouched, CallsOnlyWhilePolling
<1>2. CountBacked'
  <2> SUFFICES ASSUME NEW k \in Server, loop'[k] = "polling"
               PROVE  receivedVoteCount'[k] <= 1 + Cardinality(Counted(k)')
    BY DEF CountBacked
  <2>1. Counted(k)' = Counted(k)
    BY DEF Counted
  <2>2. receivedVoteCount[k] <= 1 + Cardinality(Counted(k))
    BY DEF IInv, CountBacked
  <2>3. Cardinality(Counted(k)) \in Nat
    BY WithSelf, Counted(k) \in SUBSET (Server \ {k}) DEF Counted
  <2>4. receivedVoteCount[k] \in Int /\ receivedVoteCount'[k] \in Int
    <3>1. Cardinality(Server) \in Nat
      BY ServerAssumption, FS_CardinalityType
    <3> QED
      BY <3>1 DEF IInv, TypeOK
  <2> QED
    BY <2>1, <2>2, <2>3, <2>4
<1>3. LeaderBackedByQuorum'
  <2> SUFFICES ASSUME NEW k \in Server, serverState'[k] = Leader
               PROVE  Cardinality(Behind(k)') >= QuorumSize
    BY DEF LeaderBackedByQuorum
  <2>1. Behind(k)' = Behind(k)
    BY DEF Behind
  <2> QED
    BY <2>1 DEF IInv, LeaderBackedByQuorum
<1> QED
  BY <1>1, <1>2, <1>3 DEF IInv

\* Vote counts and the size of the cluster are numbers.
LEMMA CountsAreNumbers ==
    ASSUME TypeOK, NEW k \in Server
    PROVE  receivedVoteCount[k] \in Nat /\ Cardinality(Server) \in Nat
<1>1. Cardinality(Server) \in Nat
  BY ServerAssumption, FS_CardinalityType
<1> QED
  BY <1>1 DEF TypeOK

\* Timers, the first turn of a restarted loop: no votes involved.
LEMMA TimeoutStep ==
    ASSUME IInv, NEW i \in Server, Timeout(i) \/ BackoffTimeout(i) \/ Restart(i)
    PROVE  IInv'
<1>1. TypeOK'
  BY DEF IInv, TypeOK, Timeout, BackoffTimeout, Restart, diskVars, voteVars, rpcVars,
         ServerState, LoopState, Listening
<1>2. \A k \in Server :
         /\ loop'[k] = "polling" <=> loop[k] = "polling"
         /\ receivedVoteCount'[k] <= receivedVoteCount[k]
         /\ serverState'[k] = Leader => serverState[k] = Leader
  BY CountsAreNumbers DEF IInv, TypeOK, Timeout, BackoffTimeout, Restart, voteVars,
         Candidate, Leader
<1> QED
  BY <1>1, <1>2, CallsUntouched
     DEF Timeout, BackoffTimeout, Restart, diskVars, rpcVars

\* Sending heartbeats touches only the goroutines that send them.
LEMMA HeartbeatSendStep ==
    ASSUME IInv, NEW i \in Server, NEW j \in Others(i),
           \/ StartHeartbeats(i)
           \/ SendHeartbeat(i, j)
           \/ BeatRefused(i, j)
           \/ BreakBeat(i, j)
    PROVE  IInv'
<1> j \in Server /\ j # i
  BY DEF Others
<1>1. UNCHANGED <<diskVars, voteVars, nodeVars, call, elected>>
  BY DEF StartHeartbeats, SendHeartbeat, BeatRefused, BreakBeat
<1>2. beat' \in [Server -> [Server -> Beat]]
  <2> DEFINE Sent == [phase |-> "sent", term |-> currentTerm[i]]
             Spawned == [IdleBeat EXCEPT !.phase = "spawned"]
  <2>1. Sent \in Beat /\ Spawned \in Beat /\ IdleBeat \in Beat
    BY DEF IInv, TypeOK, Beat, IdleBeat
  <2>2. CASE StartHeartbeats(i)
    <3>1. beat' = [beat EXCEPT ![i] = [k \in Server |-> IF k = i THEN IdleBeat ELSE Spawned]]
      BY <2>2 DEF StartHeartbeats
    <3>2. [k \in Server |-> IF k = i THEN IdleBeat ELSE Spawned] \in [Server -> Beat]
      BY <2>1
    <3>3. beat \in [Server -> [Server -> Beat]]
      BY DEF IInv, TypeOK
    <3> QED
      BY <3>1, <3>2, <3>3
  <2>3. CASE SendHeartbeat(i, j)
    BY <2>1, <2>3 DEF IInv, TypeOK, SendHeartbeat
  <2>4. CASE BeatRefused(i, j) \/ BreakBeat(i, j)
    <3>1. beat' = [beat EXCEPT ![i][j] = IdleBeat]
      BY <2>4 DEF BeatRefused, BreakBeat
    <3>2. beat \in [Server -> [Server -> Beat]]
      BY DEF IInv, TypeOK
    <3> QED
      BY <2>1, <3>1, <3>2
  <2> QED
    BY <2>2, <2>3, <2>4
<1>3. late' \subseteq LateRequest /\ faults' \in Nat
  <2>1. InFlight(i) \subseteq LateRequest
    BY DEF IInv, TypeOK, InFlight, LateRequest, Others, Call, Beat
  <2> QED
    BY <2>1 DEF IInv, TypeOK, StartHeartbeats, SendHeartbeat, BeatRefused, BreakBeat
<1>4. TypeOK'
  BY <1>1, <1>2, <1>3 DEF IInv, TypeOK, diskVars, voteVars, nodeVars
<1> QED
  BY <1>1, <1>4, CallsUntouched DEF diskVars, voteVars, nodeVars, IInv, TypeOK

(* What both handlers do to the terms, votes and state of the receiver.       *)
LEMMA ReceiverFacts ==
    ASSUME TypeOK, NEW j \in Server, NEW term \in Nat, NEW follows \in BOOLEAN,
           loop[j] \in Listening, AdoptTerm(j, term), Settle(j, follows)
    PROVE  /\ currentTerm' \in [Server -> Nat]
           /\ votedFor' \in [Server -> Server \cup {Nil}]
           /\ receivedVoteCount' \in [Server -> 0..Cardinality(Server)]
           /\ serverState' \in [Server -> ServerState]
           /\ loop' \in [Server -> LoopState]
           /\ \A k \in Server :
                 /\ loop'[k] = "polling" <=> loop[k] = "polling"
                 /\ receivedVoteCount'[k] <= receivedVoteCount[k]
                 /\ serverState'[k] = Leader => serverState[k] = Leader
<1>1. Cardinality(Server) \in Nat
  BY ServerAssumption, FS_CardinalityType
<1>2. /\ currentTerm' \in [Server -> Nat]
      /\ votedFor' \in [Server -> Server \cup {Nil}]
      /\ receivedVoteCount' \in [Server -> 0..Cardinality(Server)]
      /\ \A k \in Server : receivedVoteCount'[k] <= receivedVoteCount[k]
  <2>1. CASE term > currentTerm[j]
    <3>1. /\ currentTerm' = [currentTerm EXCEPT ![j] = term]
          /\ votedFor' = [votedFor EXCEPT ![j] = Nil]
          /\ receivedVoteCount' = [receivedVoteCount EXCEPT ![j] = 0]
      BY <2>1 DEF AdoptTerm
    <3>2. /\ currentTerm \in [Server -> Nat]
          /\ votedFor \in [Server -> Server \cup {Nil}]
          /\ receivedVoteCount \in [Server -> 0..Cardinality(Server)]
      BY DEF TypeOK
    <3>3. /\ currentTerm' \in [Server -> Nat]
          /\ votedFor' \in [Server -> Server \cup {Nil}]
      BY <3>1, <3>2
    <3>4. /\ receivedVoteCount' \in [Server -> 0..Cardinality(Server)]
          /\ \A k \in Server : receivedVoteCount'[k] <= receivedVoteCount[k]
      BY <1>1, <3>1, <3>2
    <3> QED
      BY <3>3, <3>4
  <2>2. CASE ~ (term > currentTerm[j])
    BY <1>1, <2>2 DEF TypeOK, AdoptTerm
  <2> QED
    BY <2>1, <2>2
<1>3. /\ serverState' \in [Server -> ServerState]
      /\ loop' \in [Server -> LoopState]
      /\ \A k \in Server :
            /\ loop'[k] = "polling" <=> loop[k] = "polling"
            /\ serverState'[k] = Leader => serverState[k] = Leader
  BY DEF TypeOK, Settle, ServerState, LoopState, Listening, Follower, Leader
<1> QED
  BY <1>2, <1>3

\* A handled heartbeat may change the receiver's term, vote and state.
LEMMA HeartbeatStep ==
    ASSUME IInv, NEW i \in Server, NEW j \in Others(i), HandleHeartbeat(i, j)
    PROVE  IInv'
<1> DEFINE term == beat[i][j].term
           follows == \/ term > currentTerm[j]
                      \/ term = currentTerm[j] /\ loop[j] = "backoff"
<1> j \in Server /\ j # i
  BY DEF Others
<1>1. term \in Nat /\ follows \in BOOLEAN
  BY DEF IInv, TypeOK, Beat
<1>2. /\ loop[j] \in Listening
      /\ AdoptTerm(j, term)
      /\ Settle(j, follows)
      /\ UNCHANGED <<lastLog, call, faults, elected>>
  BY DEF HandleHeartbeat, ProcessHeartbeat
<1>3. /\ receivedHeartbeat' \in [Server -> BOOLEAN]
      /\ leaderId' \in [Server -> Server \cup {Nil}]
      /\ beat' \in [Server -> [Server -> Beat]]
      /\ late' = late
  <2>1. beat' = [beat EXCEPT ![i][j] = IdleBeat] /\ late' = late
    BY DEF HandleHeartbeat
  <2>2. beat \in [Server -> [Server -> Beat]]
    BY DEF IInv, TypeOK
  <2>3. beat' \in [Server -> [Server -> Beat]]
    BY <2>1, <2>2, IdleFacts
  <2>4. /\ receivedHeartbeat' \in [Server -> BOOLEAN]
        /\ leaderId' \in [Server -> Server \cup {Nil}]
    BY DEF IInv, TypeOK, HandleHeartbeat, ProcessHeartbeat
  <2> QED
    BY <2>1, <2>3, <2>4
<1> HIDE DEF term, follows
<1>4. TypeOK'
  BY <1>1, <1>2, <1>3, ReceiverFacts DEF IInv, TypeOK
<1> QED
  BY <1>1, <1>2, <1>4, ReceiverFacts, CallsUntouched DEF IInv

\* So may a request whose sender has given up.
LEMMA LateStep ==
    ASSUME IInv, LateNext
    PROVE  IInv'
<1> PICK m \in late : HandleLateRequestVote(m) \/ HandleLateHeartbeat(m)
  BY DEF LateNext
<1>1. m.from \in Server /\ m.to \in Server /\ m.term \in Nat
  BY DEF IInv, TypeOK, LateRequest
<1>2. PICK follows \in BOOLEAN :
         /\ loop[m.to] \in Listening
         /\ AdoptTerm(m.to, m.term)
         /\ Settle(m.to, follows)
         /\ UNCHANGED <<lastLog, call, beat, faults, elected>>
  <2>1. CASE HandleLateRequestVote(m)
    <3> (m.term > currentTerm[m.to]) \in BOOLEAN
      OBVIOUS
    <3> QED
      BY <2>1 DEF HandleLateRequestVote, ProcessVoteRequest
  <2>2. CASE HandleLateHeartbeat(m)
    <3> DEFINE follows == \/ m.term > currentTerm[m.to]
                          \/ m.term = currentTerm[m.to] /\ loop[m.to] = "backoff"
    <3>1. follows \in BOOLEAN
      OBVIOUS
    <3>2. /\ loop[m.to] \in Listening
          /\ AdoptTerm(m.to, m.term)
          /\ Settle(m.to, follows)
          /\ UNCHANGED <<lastLog, call, beat, faults, elected>>
      BY <2>2 DEF HandleLateHeartbeat, ProcessHeartbeat
    <3> HIDE DEF follows
    <3> QED
      BY <3>1, <3>2
  <2> QED
    BY <2>1, <2>2
<1>3. /\ receivedHeartbeat' \in [Server -> BOOLEAN]
      /\ leaderId' \in [Server -> Server \cup {Nil}]
      /\ late' \subseteq LateRequest
  BY <1>1 DEF IInv, TypeOK, HandleLateRequestVote, ProcessVoteRequest,
              HandleLateHeartbeat, ProcessHeartbeat
<1>4. TypeOK'
  BY <1>1, <1>2, <1>3, ReceiverFacts DEF IInv, TypeOK
<1> QED
  BY <1>1, <1>2, <1>4, ReceiverFacts, CallsUntouched DEF IInv
-----------------------------------------------------------------------------
(* A step of one vote goroutine that adds no vote to a count: it keeps the    *)
(* invariant if a vote it reports is vouched for, and if its own vote, when   *)
(* it was counted before, still is.                                           *)
LEMMA OneCallStep ==
    ASSUME IInv, TypeOK', UNCHANGED lastLog,
           NEW i \in Server, NEW j \in Server \ {i}, NEW c \in Call,
           loop[i] = "polling",
           call' = [call EXCEPT ![i][j] = c],
           c.granted => \/ call[i][j].granted
                        \/ AtLeastAsUpToDate(lastLog[i], lastLog[j]),
           j \in Counted(i) =>
              c.granted /\ c.phase \in {"deposed", "rewriting", "done"},
           \A k \in Server :
              /\ loop'[k] = "polling" <=> loop[k] = "polling"
              /\ receivedVoteCount'[k] <= receivedVoteCount[k]
              /\ serverState'[k] = Leader => serverState[k] = Leader
    PROVE  IInv'
<1>1. call \in [Server -> [Server -> Call]]
  BY DEF IInv, TypeOK
<1>2. \A k, l \in Server :
         call'[k][l] = IF k = i /\ l = j THEN c ELSE call[k][l]
  BY <1>1
<1>3. VotesVouched'
  BY <1>2 DEF IInv, VotesVouched
<1>4. CallsOnlyWhilePolling'
  BY <1>2 DEF IInv, CallsOnlyWhilePolling
<1>5. CountBacked'
  <2> SUFFICES ASSUME NEW k \in Server, loop'[k] = "polling"
               PROVE  receivedVoteCount'[k] <= 1 + Cardinality(Counted(k)')
    BY DEF CountBacked
  <2>1. Counted(k) \subseteq Counted(k)'
    BY <1>2 DEF Counted
  <2>2. Cardinality(Counted(k)) <= Cardinality(Counted(k)')
    BY <2>1, ServerSubsets, Counted(k)' \in SUBSET Server DEF Counted
  <2>3. receivedVoteCount[k] <= 1 + Cardinality(Counted(k))
    BY DEF IInv, CountBacked
  <2>4. Cardinality(Counted(k)) \in Nat /\ Cardinality(Counted(k)') \in Nat
    BY WithSelf, Counted(k) \in SUBSET (Server \ {k}),
       Counted(k)' \in SUBSET (Server \ {k}) DEF Counted
  <2>5. receivedVoteCount[k] \in Nat /\ receivedVoteCount'[k] \in Nat
    <3>1. Cardinality(Server) \in Nat
      BY ServerAssumption, FS_CardinalityType
    <3> QED
      BY <3>1 DEF IInv, TypeOK
  <2> QED
    BY <2>2, <2>3, <2>4, <2>5
<1>6. LeaderBackedByQuorum'
  <2> SUFFICES ASSUME NEW k \in Server, serverState'[k] = Leader
               PROVE  Cardinality(Behind(k)') >= QuorumSize
    BY DEF LeaderBackedByQuorum
  <2>1. Behind(k)' = Behind(k)
    BY DEF Behind
  <2> QED
    BY <2>1 DEF IInv, LeaderBackedByQuorum
<1> QED
  BY <1>3, <1>4, <1>5, <1>6 DEF IInv

\* A vote goroutine that runs has a candidate loop waiting for it.
LEMMA BusyMeansPolling ==
    ASSUME IInv, NEW i \in Server, NEW j \in Server, call[i][j].phase # "idle"
    PROVE  loop[i] = "polling"
BY IdleFacts DEF IInv, CallsOnlyWhilePolling

(* Changing one goroutine's record keeps the type of them all.                *)
LEMMA CallType ==
    ASSUME TypeOK, NEW i \in Server, NEW j \in Server, NEW c \in Call,
           call' = [call EXCEPT ![i][j] = c]
    PROVE  call' \in [Server -> [Server -> Call]]
<1>1. call \in [Server -> [Server -> Call]]
  BY DEF TypeOK
<1> QED
  BY <1>1

(* Sending a vote request, not sending it, and losing it or its answer.       *)
LEMMA VoteSendStep ==
    ASSUME IInv, NEW i \in Server, NEW j \in Others(i),
           \/ SendVoteRequest(i, j)
           \/ SkipVoteRequest(i, j)
           \/ CallRefused(i, j)
           \/ BreakCall(i, j)
    PROVE  IInv'
<1> DEFINE sent == [phase |-> "sent", term |-> currentTerm[i], granted |-> FALSE]
<1> j \in Server \ {i} /\ TypeOK
  BY DEF Others, IInv
<1>1. sent \in Call /\ ~ sent.granted /\ Done(FALSE) \in Call /\ ~ Done(FALSE).granted
  BY DoneFacts DEF TypeOK, Call, CallPhase
<1>2. PICK c \in Call : call' = [call EXCEPT ![i][j] = c] /\ ~ c.granted
  <2>1. \/ call' = [call EXCEPT ![i][j] = sent]
        \/ call' = [call EXCEPT ![i][j] = Done(FALSE)]
    <3>1. SendVoteRequest(i, j) => call' = [call EXCEPT ![i][j] = sent]
      BY DEF SendVoteRequest
    <3>2. SkipVoteRequest(i, j) => call' = [call EXCEPT ![i][j] = Done(FALSE)]
      BY DEF SkipVoteRequest
    <3>3. CallRefused(i, j) \/ BreakCall(i, j) => call' = [call EXCEPT ![i][j] = Done(FALSE)]
      BY DEF CallRefused, BreakCall
    <3> QED
      BY <3>1, <3>2, <3>3
  <2> HIDE DEF sent
  <2> QED
    BY <1>1, <2>1
<1>3. call[i][j].phase \in {"spawned", "sent", "answered"}
  BY DEF SendVoteRequest, SkipVoteRequest, CallRefused, BreakCall
<1>4. UNCHANGED <<diskVars, voteVars, nodeVars, beat, elected>>
  BY DEF SendVoteRequest, SkipVoteRequest, CallRefused, BreakCall
<1>5. late' \subseteq LateRequest /\ faults' \in Nat
  <2>1. InFlight(i) \subseteq LateRequest
    BY DEF TypeOK, InFlight, LateRequest, Others, Call, Beat
  <2> QED
    <3>1. late \subseteq LateRequest /\ faults \in Nat
      BY DEF TypeOK
    <3>2. \/ late' = late
          \/ late' \subseteq late \cup InFlight(i)
      BY DEF SendVoteRequest, SkipVoteRequest, CallRefused, BreakCall
    <3>3. faults' = faults \/ faults' = faults + 1
      BY DEF SendVoteRequest, SkipVoteRequest, CallRefused, BreakCall
    <3> QED
      BY <2>1, <3>1, <3>2, <3>3
<1>6. TypeOK'
  BY <1>2, <1>4, <1>5, CallType DEF TypeOK, diskVars, voteVars, nodeVars
<1>7. j \notin Counted(i) /\ loop[i] = "polling"
  BY <1>3, BusyMeansPolling DEF Counted
<1>8. \A k \in Server : receivedVoteCount'[k] <= receivedVoteCount[k]
  BY <1>4, CountsAreNumbers DEF voteVars
<1> QED
  BY <1>2, <1>4, <1>6, <1>7, <1>8, OneCallStep DEF diskVars, nodeVars

\* A voter answers: the vote it grants is vouched for by its own log.
LEMMA RequestVoteStep ==
    ASSUME IInv, NEW i \in Server, NEW j \in Others(i), HandleRequestVote(i, j)
    PROVE  IInv'
<1> DEFINE term == call[i][j].term
           c == [phase |-> "answered",
                 term |-> currentTerm'[j],
                 granted |-> VoteGranted(i, j, term)]
           newer == term > currentTerm[j]
<1> j \in Server \ {i} /\ TypeOK
  BY DEF Others, IInv
<1>1. term \in Nat /\ newer \in BOOLEAN
  BY DEF TypeOK, Call
<1>2. /\ call[i][j].phase = "sent"
      /\ call' = [call EXCEPT ![i][j] = c]
      /\ late' = late
      /\ loop[j] \in Listening
      /\ AdoptTerm(j, term)
      /\ Settle(j, newer)
      /\ UNCHANGED <<lastLog, leaderId, beat, faults, elected>>
  BY DEF HandleRequestVote, ProcessVoteRequest
<1>3. receivedHeartbeat' \in [Server -> BOOLEAN]
  BY DEF TypeOK, HandleRequestVote, ProcessVoteRequest
<1>4. /\ c \in Call
      /\ c.granted => AtLeastAsUpToDate(lastLog[i], lastLog[j])
  <2>1. currentTerm'[j] \in Nat
    BY <1>1, <1>2, ReceiverFacts
  <2>2. VoteGranted(i, j, term) \in BOOLEAN
    BY DEF VoteGranted
  <2>3. VoteGranted(i, j, term) => AtLeastAsUpToDate(lastLog[i], lastLog[j])
    BY DEF VoteGranted
  <2> QED
    BY <2>1, <2>2, <2>3 DEF Call, CallPhase
<1> HIDE DEF term, c, newer
<1>5. TypeOK'
  <2>1. /\ currentTerm' \in [Server -> Nat]
        /\ votedFor' \in [Server -> Server \cup {Nil}]
        /\ receivedVoteCount' \in [Server -> 0..Cardinality(Server)]
        /\ serverState' \in [Server -> ServerState]
        /\ loop' \in [Server -> LoopState]
    BY <1>1, <1>2, ReceiverFacts
  <2>2. call' \in [Server -> [Server -> Call]]
    BY <1>2, <1>4, CallType
  <2> QED
    BY <1>2, <1>3, <2>1, <2>2 DEF TypeOK
<1>6. j \notin Counted(i) /\ loop[i] = "polling"
  BY <1>2, BusyMeansPolling DEF Counted
<1> QED
  BY <1>1, <1>2, <1>4, <1>5, <1>6, ReceiverFacts, OneCallStep

\* A vote is counted: one more goroutine is among the counted ones.
LEMMA ReceiveVoteStep ==
    ASSUME IInv, NEW i \in Server, NEW j \in Others(i), ReceiveVote(i, j)
    PROVE  IInv'
<1> DEFINE g == call[i][j].granted
           c == IF call[i][j].term > currentTerm[i]
                THEN [call[i][j] EXCEPT !.phase = "deposed"]
                ELSE Done(g)
<1> j \in Server \ {i} /\ TypeOK
  BY DEF Others, IInv
<1>1. /\ call[i][j].phase = "answered"
      /\ call' = [call EXCEPT ![i][j] = c]
      /\ receivedVoteCount' = IF g THEN [receivedVoteCount EXCEPT ![i] = @ + 1]
                                   ELSE receivedVoteCount
      /\ UNCHANGED <<diskVars, receivedHeartbeat, nodeVars, beat, late, faults, elected>>
  BY DEF ReceiveVote
<1>2. call[i][j] \in Call /\ g \in BOOLEAN /\ call \in [Server -> [Server -> Call]]
  BY DEF TypeOK, Call
<1>3. c \in Call /\ c.granted = g /\ c.phase \in {"deposed", "done"}
  BY <1>2, DoneFacts DEF Call, CallPhase
<1> HIDE DEF c
<1>4. loop[i] = "polling"
  BY <1>1, BusyMeansPolling
<1>5. \A k, l \in Server :
         call'[k][l] = IF k = i /\ l = j THEN c ELSE call[k][l]
  BY <1>1, <1>2
<1>6. /\ j \notin Counted(i)
      /\ Counted(i)' = IF g THEN Counted(i) \cup {j} ELSE Counted(i)
      /\ \A k \in Server \ {i} : Counted(k)' = Counted(k)
  BY <1>1, <1>3, <1>5 DEF Counted
<1>7. /\ Counted(i) \in SUBSET (Server \ {i})
      /\ Counted(i)' \in SUBSET (Server \ {i})
  BY DEF Counted
<1>8. receivedVoteCount[i] <= 1 + Cardinality(Counted(i))
  BY <1>4 DEF IInv, CountBacked
<1>9. /\ receivedVoteCount'[i] <= 1 + Cardinality(Counted(i)')
      /\ receivedVoteCount'[i] \in 0..Cardinality(Server)
  <2>1. /\ receivedVoteCount[i] \in Nat
        /\ receivedVoteCount[i] <= Cardinality(Server)
        /\ Cardinality(Server) \in Nat
    BY CountsAreNumbers DEF TypeOK
  <2>2. /\ Cardinality(Counted(i)) \in Nat
        /\ Cardinality(Counted(i)') \in Nat
        /\ Cardinality(Counted(i)') + 1 <= Cardinality(Server)
    BY <1>7, WithSelf
  <2>3. CASE g
    <3>1. receivedVoteCount'[i] = receivedVoteCount[i] + 1
      BY <1>1, <2>3 DEF TypeOK
    <3>2. Cardinality(Counted(i)') = Cardinality(Counted(i)) + 1
      BY <1>6, <1>7, <2>3, OneMore
    <3> QED
      BY <1>8, <2>1, <2>2, <3>1, <3>2
  <2>4. CASE ~ g
    <3>1. receivedVoteCount'[i] = receivedVoteCount[i] /\ Counted(i)' = Counted(i)
      BY <1>1, <1>6, <2>4
    <3> QED
      BY <1>8, <2>1, <3>1
  <2> QED
    BY <2>3, <2>4
<1>10. TypeOK'
  <2>1. receivedVoteCount' \in [Server -> 0..Cardinality(Server)]
    BY <1>1, <1>9 DEF TypeOK
  <2>2. call' \in [Server -> [Server -> Call]]
    BY <1>1, <1>3, CallType
  <2> QED
    BY <1>1, <2>1, <2>2 DEF TypeOK, diskVars, nodeVars
<1>11. VotesVouched' /\ CallsOnlyWhilePolling'
  BY <1>1, <1>3, <1>4, <1>5 DEF IInv, VotesVouched, CallsOnlyWhilePolling, diskVars, nodeVars
<1>12. CountBacked'
  <2> SUFFICES ASSUME NEW k \in Server, loop'[k] = "polling"
               PROVE  receivedVoteCount'[k] <= 1 + Cardinality(Counted(k)')
    BY DEF CountBacked
  <2>1. CASE k = i
    BY <1>9, <2>1
  <2>2. CASE k # i
    <3>1. receivedVoteCount'[k] = receivedVoteCount[k] /\ loop'[k] = loop[k]
      BY <1>1, <2>2 DEF TypeOK, nodeVars
    <3> QED
      BY <1>6, <2>2, <3>1 DEF IInv, CountBacked
  <2> QED
    BY <2>1, <2>2
<1>13. LeaderBackedByQuorum'
  <2>1. \A k \in Server : Behind(k)' = Behind(k)
    BY <1>1 DEF Behind, diskVars
  <2> QED
    BY <1>1, <2>1 DEF IInv, LeaderBackedByQuorum, nodeVars
<1> QED
  BY <1>10, <1>11, <1>12, <1>13 DEF IInv

\* A newer term in the answer resets the count and the state.
LEMMA StepDownStep ==
    ASSUME IInv, NEW i \in Server, NEW j \in Others(i), StepDown(i, j)
    PROVE  IInv'
<1> DEFINE c == IF call[i][j].term = currentTerm[i]
                THEN Done(call[i][j].granted)
                ELSE [call[i][j] EXCEPT !.phase = "rewriting"]
<1> j \in Server \ {i} /\ TypeOK
  BY DEF Others, IInv
<1>1. /\ call[i][j].phase = "deposed"
      /\ call' = [call EXCEPT ![i][j] = c]
      /\ serverState' = [serverState EXCEPT ![i] = Follower]
      /\ UNCHANGED <<diskVars, voteVars, loop, leaderId, beat, late, faults, elected>>
  BY DEF StepDown
<1>2. call[i][j] \in Call /\ call[i][j].granted \in BOOLEAN
  BY DEF TypeOK, Call
<1>3. c \in Call /\ c.granted = call[i][j].granted /\ c.phase \in {"done", "rewriting"}
  BY <1>2, DoneFacts DEF Call, CallPhase
<1> HIDE DEF c
<1>4. TypeOK'
  BY <1>1, <1>3, CallType DEF TypeOK, ServerState, diskVars, voteVars
<1>5. loop[i] = "polling"
  BY <1>1, BusyMeansPolling
<1>6. j \in Counted(i) => c.granted
  BY <1>3 DEF Counted
<1>7. \A k \in Server : /\ receivedVoteCount'[k] <= receivedVoteCount[k]
                        /\ serverState'[k] = Leader => serverState[k] = Leader
  BY <1>1, CountsAreNumbers DEF TypeOK, voteVars, Follower, Leader
<1> QED
  BY <1>1, <1>3, <1>4, <1>5, <1>6, <1>7, OneCallStep DEF diskVars

\* The term is written after the lock was given up and taken again.
LEMMA RewriteTermStep ==
    ASSUME IInv, NEW i \in Server, NEW j \in Others(i), RewriteTerm(i, j)
    PROVE  IInv'
<1> DEFINE c == Done(call[i][j].granted)
<1> j \in Server \ {i} /\ TypeOK
  BY DEF Others, IInv
<1>1. /\ call[i][j].phase = "rewriting"
      /\ currentTerm' = [currentTerm EXCEPT ![i] = call[i][j].term]
      /\ votedFor' = [votedFor EXCEPT ![i] = Nil]
      /\ receivedVoteCount' = [receivedVoteCount EXCEPT ![i] = 0]
      /\ receivedHeartbeat' = [receivedHeartbeat EXCEPT ![i] = FALSE]
      /\ call' = [call EXCEPT ![i][j] = c]
      /\ UNCHANGED <<lastLog, nodeVars, beat, late, faults, elected>>
  BY DEF RewriteTerm
<1>2. call[i][j].granted \in BOOLEAN /\ call[i][j].term \in Nat
  BY DEF TypeOK, Call
<1>3. c \in Call /\ c.granted = call[i][j].granted /\ c.phase = "done"
  BY <1>2, DoneFacts
<1> HIDE DEF c
<1>4. \A k \in Server : receivedVoteCount'[k] <= receivedVoteCount[k]
  BY <1>1, CountsAreNumbers DEF TypeOK
<1>5. TypeOK'
  <2>1. /\ currentTerm' \in [Server -> Nat]
        /\ votedFor' \in [Server -> Server \cup {Nil}]
        /\ receivedHeartbeat' \in [Server -> BOOLEAN]
    BY <1>1, <1>2 DEF TypeOK
  <2>2. receivedVoteCount' \in [Server -> 0..Cardinality(Server)]
    BY <1>1, CountsAreNumbers DEF TypeOK
  <2>3. call' \in [Server -> [Server -> Call]]
    BY <1>1, <1>3, CallType
  <2> QED
    BY <1>1, <2>1, <2>2, <2>3 DEF TypeOK, nodeVars
<1>6. loop[i] = "polling"
  BY <1>1, BusyMeansPolling
<1>7. j \in Counted(i) => c.granted
  BY <1>3 DEF Counted
<1> QED
  BY <1>1, <1>3, <1>4, <1>5, <1>6, <1>7, OneCallStep DEF nodeVars
-----------------------------------------------------------------------------
(* Replacing all the goroutines of a server by idle or fresh ones: none of    *)
(* them is counted, and none is granted a vote.                               *)
LEMMA CallsReplaced ==
    ASSUME IInv, TypeOK', UNCHANGED lastLog, NEW i \in Server,
           \A l \in Server : /\ ~ call'[i][l].granted
                             /\ loop'[i] # "polling" => call'[i][l] = IdleCall,
           loop'[i] = "polling" => receivedVoteCount'[i] <= 1,
           \A k \in Server \ {i} :
              /\ \A l \in Server :
                    \/ call'[k][l] = call[k][l]
                    \/ /\ call[k][l].phase = "sent"
                       /\ ~ call'[k][l].granted
              /\ loop'[k] = loop[k]
              /\ receivedVoteCount'[k] = receivedVoteCount[k]
              /\ serverState'[k] = serverState[k],
           serverState'[i] = Leader => Cardinality(Behind(i)) >= QuorumSize
    PROVE  IInv'
<1>1. VotesVouched'
  BY DEF IInv, VotesVouched
<1>2. CallsOnlyWhilePolling'
  BY IdleFacts DEF IInv, CallsOnlyWhilePolling
<1>3. CountBacked'
  <2> SUFFICES ASSUME NEW k \in Server, loop'[k] = "polling"
               PROVE  receivedVoteCount'[k] <= 1 + Cardinality(Counted(k)')
    BY DEF CountBacked
  <2>1. CASE k = i
    <3>1. Cardinality(Counted(i)') \in Nat
      BY WithSelf, Counted(i)' \in SUBSET (Server \ {i}) DEF Counted
    <3>2. receivedVoteCount'[i] \in Nat
      <4>1. Cardinality(Server) \in Nat
        BY ServerAssumption, FS_CardinalityType
      <4> QED
        BY <4>1 DEF TypeOK
    <3> QED
      BY <2>1, <3>1, <3>2
  <2>2. CASE k # i
    <3>1. Counted(k) \subseteq Counted(k)'
      BY <2>2 DEF Counted
    <3>2. Cardinality(Counted(k)) <= Cardinality(Counted(k)')
      BY <3>1, ServerSubsets, Counted(k)' \in SUBSET Server DEF Counted
    <3>3. receivedVoteCount[k] <= 1 + Cardinality(Counted(k))
      BY <2>2 DEF IInv, CountBacked
    <3>4. Cardinality(Counted(k)) \in Nat /\ Cardinality(Counted(k)') \in Nat
      BY WithSelf, Counted(k) \in SUBSET (Server \ {k}),
         Counted(k)' \in SUBSET (Server \ {k}) DEF Counted
    <3>5. receivedVoteCount[k] \in Nat /\ receivedVoteCount'[k] = receivedVoteCount[k]
      BY <2>2, CountsAreNumbers DEF IInv
    <3> QED
      BY <3>2, <3>3, <3>4, <3>5
  <2> QED
    BY <2>1, <2>2
<1>4. LeaderBackedByQuorum'
  <2>1. \A k \in Server : Behind(k)' = Behind(k)
    BY DEF Behind
  <2> QED
    BY <2>1 DEF IInv, LeaderBackedByQuorum
<1> QED
  BY <1>1, <1>2, <1>3, <1>4 DEF IInv

\* A new campaign starts from the server's own vote and no answers.
LEMMA CampaignStep ==
    ASSUME IInv, NEW i \in Server, Campaign(i)
    PROVE  IInv'
<1> DEFINE fresh == [IdleCall EXCEPT !.phase = "spawned"]
<1>1. TypeOK /\ Cardinality(Server) \in Nat /\ 1 \in 0..Cardinality(Server)
  <2>1. {} \in SUBSET (Server \ {i})
    OBVIOUS
  <2>2. /\ Cardinality({}) \in Nat
        /\ Cardinality({}) + 1 <= Cardinality(Server)
        /\ Cardinality(Server) \in Nat
    BY <2>1, WithSelf
  <2> QED
    BY <2>2 DEF IInv
<1>2. fresh \in Call /\ ~ fresh.granted
  BY DEF Call, CallPhase, IdleCall
<1>3. call' = [call EXCEPT ![i] = [j \in Server |-> IF j = i THEN IdleCall ELSE fresh]]
  BY DEF Campaign
<1> HIDE DEF fresh
<1>4. /\ currentTerm' = [currentTerm EXCEPT ![i] = @ + 1]
      /\ votedFor' = [votedFor EXCEPT ![i] = i]
      /\ receivedVoteCount' = [receivedVoteCount EXCEPT ![i] = 1]
      /\ receivedHeartbeat' = [receivedHeartbeat EXCEPT ![i] = FALSE]
      /\ loop' = [loop EXCEPT ![i] = "polling"]
      /\ UNCHANGED <<lastLog, serverState, leaderId, beat, late, faults, elected>>
  BY DEF Campaign, CountOfOwnVote
<1>5. \A l \in Server : call'[i][l] \in Call /\ ~ call'[i][l].granted
  BY <1>1, <1>2, <1>3, IdleFacts DEF TypeOK
<1>6. TypeOK'
  <2>1. call' \in [Server -> [Server -> Call]]
    <3>1. [j \in Server |-> IF j = i THEN IdleCall ELSE fresh] \in [Server -> Call]
      BY <1>2, IdleFacts
    <3> QED
      BY <1>1, <1>3, <3>1 DEF TypeOK
  <2>2. /\ currentTerm' \in [Server -> Nat]
        /\ votedFor' \in [Server -> Server \cup {Nil}]
        /\ receivedHeartbeat' \in [Server -> BOOLEAN]
        /\ receivedVoteCount' \in [Server -> 0..Cardinality(Server)]
    BY <1>1, <1>4 DEF TypeOK
  <2>3. loop' \in [Server -> LoopState]
    BY <1>1, <1>4 DEF TypeOK, LoopState
  <2> QED
    BY <1>1, <1>4, <2>1, <2>2, <2>3 DEF TypeOK
<1>7. \A k \in Server \ {i} :
         /\ \A l \in Server : call'[k][l] = call[k][l]
         /\ loop'[k] = loop[k]
         /\ receivedVoteCount'[k] = receivedVoteCount[k]
         /\ serverState'[k] = serverState[k]
  BY <1>1, <1>3, <1>4 DEF TypeOK
<1>8. loop'[i] = "polling" /\ receivedVoteCount'[i] = 1
  BY <1>1, <1>4 DEF TypeOK
<1>9. serverState'[i] = Leader => Cardinality(Behind(i)) >= QuorumSize
  BY <1>4 DEF IInv, LeaderBackedByQuorum
<1> QED
  BY <1>4, <1>5, <1>6, <1>7, <1>8, <1>9, CallsReplaced

(* The end of a campaign.  A winner's count is backed by the servers that     *)
(* granted it their vote, and each of them has compared the logs.             *)
LEMMA TallyStep ==
    ASSUME IInv, NEW i \in Server, Win(i) \/ Lose(i)
    PROVE  IInv'
<1>1. TypeOK /\ loop[i] = "polling"
  BY DEF IInv, Win, Lose, AllAnswered
<1>2. Win(i) => Cardinality(Behind(i)) >= QuorumSize
  <2> SUFFICES ASSUME HaveEnoughVotes(i)
               PROVE  Cardinality(Behind(i)) >= QuorumSize
    BY DEF Win
  <2>1. Counted(i) \cup {i} \subseteq Behind(i)
    <3>1. AtLeastAsUpToDate(lastLog[i], lastLog[i])
      BY <1>1 DEF TypeOK, LogEnd, AtLeastAsUpToDate
    <3>2. Counted(i) \subseteq Behind(i)
      BY DEF IInv, VotesVouched, Counted, Behind
    <3> QED
      BY <3>1, <3>2 DEF Behind
  <2>2. Cardinality(Counted(i) \cup {i}) = Cardinality(Counted(i)) + 1
    BY WithSelf, Counted(i) \in SUBSET (Server \ {i}) DEF Counted
  <2>3. /\ Cardinality(Counted(i) \cup {i}) <= Cardinality(Behind(i))
        /\ Cardinality(Counted(i) \cup {i}) \in Nat
        /\ Cardinality(Behind(i)) \in Nat
    BY <2>1, ServerSubsets, Behind(i) \in SUBSET Server DEF Behind
  <2>4. receivedVoteCount[i] <= 1 + Cardinality(Counted(i))
    BY <1>1 DEF IInv, CountBacked
  <2>5. /\ Cardinality(Counted(i)) \in Nat
        /\ receivedVoteCount[i] \in Nat
        /\ QuorumSize \in Nat
    <3>1. Cardinality(Counted(i)) \in Nat /\ Cardinality(Server) \in Nat
      BY WithSelf, Counted(i) \in SUBSET (Server \ {i}) DEF Counted
    <3> QED
      BY <1>1, <3>1, CountsAreNumbers DEF QuorumSize
  <2>6. receivedVoteCount[i] >= QuorumSize
    BY DEF HaveEnoughVotes
  <2> QED
    BY <2>2, <2>3, <2>4, <2>5, <2>6
<1>3. /\ call' = [call EXCEPT ![i] = [j \in Server |-> IdleCall]]
      /\ UNCHANGED <<diskVars, voteVars, leaderId, faults>>
  BY DEF Win, Lose
<1>4. /\ loop' \in [Server -> LoopState]
      /\ loop'[i] # "polling"
      /\ \A k \in Server \ {i} : loop'[k] = loop[k]
  BY <1>1 DEF TypeOK, Win, Lose, LoopState, Listening
<1>5. /\ serverState' \in [Server -> ServerState]
      /\ \A k \in Server \ {i} : serverState'[k] = serverState[k]
      /\ serverState'[i] = Leader => Win(i) \/ serverState[i] = Leader
  BY <1>1 DEF TypeOK, Win, Lose, ServerState
<1>6. call' \in [Server -> [Server -> Call]]
  <2>1. [j \in Server |-> IdleCall] \in [Server -> Call]
    BY IdleFacts
  <2> QED
    BY <1>1, <1>3, <2>1 DEF TypeOK
<1>7. beat' \in [Server -> [Server -> Beat]]
  <2>1. [j \in Server |-> IdleBeat] \in [Server -> Beat]
    BY IdleFacts
  <2>2. \/ beat' = [beat EXCEPT ![i] = [j \in Server |-> IdleBeat]]
        \/ beat' = beat
    BY DEF Win, Lose
  <2>3. beat \in [Server -> [Server -> Beat]]
    BY <1>1 DEF TypeOK
  <2> QED
    BY <2>1, <2>2, <2>3
<1>8. late' \subseteq LateRequest
  <2>1. InFlight(i) \subseteq LateRequest
    BY <1>1 DEF TypeOK, InFlight, LateRequest, Others, Call, Beat
  <2>2. late' \subseteq late \cup InFlight(i)
    BY DEF Win, Lose
  <2> QED
    BY <1>1, <2>1, <2>2 DEF TypeOK
<1>9. elected' \subseteq [server : Server, term : Nat]
  BY <1>1 DEF TypeOK, Win, Lose
<1>10. TypeOK'
  BY <1>1, <1>3, <1>4, <1>5, <1>6, <1>7, <1>8, <1>9 DEF TypeOK, diskVars, voteVars
<1>11. /\ \A l \in Server : call'[i][l] = IdleCall
       /\ \A k \in Server \ {i} : \A l \in Server : call'[k][l] = call[k][l]
  BY <1>1, <1>3 DEF TypeOK
<1>12. serverState'[i] = Leader => Cardinality(Behind(i)) >= QuorumSize
  BY <1>2, <1>5 DEF IInv, LeaderBackedByQuorum
<1> QED
  BY <1>3, <1>4, <1>5, <1>10, <1>11, <1>12, IdleFacts, CallsReplaced
     DEF diskVars, voteVars

\* A crash leaves no goroutine and no leader behind.
LEMMA CrashStep ==
    ASSUME IInv, NEW i \in Server,
           Crash(i) \/ CrashInCampaign(i) \/ CrashInTermChange(i)
    PROVE  IInv'
<1> TypeOK
  BY DEF IInv
<1>1. Die(i)
  BY DEF Crash, CrashInCampaign, CrashInTermChange
<1>2. currentTerm' \in [Server -> Nat] /\ votedFor' \in [Server -> Server \cup {Nil}]
  <2>1. currentTerm \in [Server -> Nat] /\ votedFor \in [Server -> Server \cup {Nil}]
    BY DEF TypeOK
  <2>2. CASE Crash(i)
    BY <2>1, <2>2 DEF Crash
  <2>3. CASE CrashInCampaign(i)
    BY <2>1, <2>3 DEF CrashInCampaign
  <2>4. CASE CrashInTermChange(i)
    BY <2>1, <2>4, BoundAssumption DEF CrashInTermChange
  <2> QED
    BY <2>2, <2>3, <2>4
<1>3. /\ loop' = [loop EXCEPT ![i] = "down"]
      /\ serverState' = [serverState EXCEPT ![i] = Follower]
      /\ receivedVoteCount' = [receivedVoteCount EXCEPT ![i] = 0]
      /\ receivedHeartbeat' = [receivedHeartbeat EXCEPT ![i] = FALSE]
      /\ leaderId' = [leaderId EXCEPT ![i] = Nil]
      /\ faults' = faults + 1
      /\ UNCHANGED <<lastLog, elected>>
  BY <1>1 DEF Die
<1>4. /\ call' \in [Server -> [Server -> Call]]
      /\ \A l \in Server : call'[i][l] = IdleCall
      /\ \A k \in Server \ {i} : \A l \in Server :
            \/ call'[k][l] = call[k][l]
            \/ call[k][l].phase = "sent" /\ ~ call'[k][l].granted
  <2>1. call' = [k \in Server |-> [j \in Server |->
                  IF k = i THEN IdleCall
                  ELSE IF j = i /\ call[k][j].phase = "sent" THEN Done(FALSE)
                  ELSE call[k][j]]]
    BY <1>1 DEF Die
  <2>2. call \in [Server -> [Server -> Call]]
    BY DEF TypeOK
  <2>3. Done(FALSE) \in Call /\ ~ Done(FALSE).granted
    BY DoneFacts
  <2>4. \A k, l \in Server : call'[k][l] \in Call
    BY <2>1, <2>2, <2>3, IdleFacts
  <2>5. call' \in [Server -> [Server -> Call]]
    BY <2>1, <2>2, <2>3, IdleFacts
  <2>6. \A l \in Server : call'[i][l] = IdleCall
    BY <2>1
  <2>7. \A k \in Server \ {i} : \A l \in Server :
            \/ call'[k][l] = call[k][l]
            \/ call[k][l].phase = "sent" /\ ~ call'[k][l].granted
    BY <2>1, <2>3
  <2> QED
    BY <2>5, <2>6, <2>7
<1>5. beat' \in [Server -> [Server -> Beat]]
  <2>1. beat' = [k \in Server |-> [j \in Server |->
                  IF k = i \/ (j = i /\ beat[k][j].phase = "sent") THEN IdleBeat
                  ELSE beat[k][j]]]
    BY <1>1 DEF Die
  <2> QED
    BY <2>1, IdleFacts DEF TypeOK
<1>6. late' \subseteq LateRequest
  <2>1. InFlight(i) \subseteq LateRequest
    BY DEF TypeOK, InFlight, LateRequest, Others, Call, Beat
  <2>2. late' \subseteq late \cup InFlight(i)
    BY <1>1 DEF Die
  <2> QED
    BY <2>1, <2>2 DEF TypeOK
<1>7. /\ loop' \in [Server -> LoopState]
      /\ serverState' \in [Server -> ServerState]
      /\ receivedHeartbeat' \in [Server -> BOOLEAN]
      /\ leaderId' \in [Server -> Server \cup {Nil}]
      /\ faults' \in Nat
  BY <1>3 DEF TypeOK, LoopState, ServerState
<1>8. receivedVoteCount' \in [Server -> 0..Cardinality(Server)]
  BY <1>3, CountsAreNumbers DEF TypeOK
<1>9. TypeOK'
  BY <1>2, <1>3, <1>4, <1>5, <1>6, <1>7, <1>8 DEF TypeOK
<1>10. /\ loop'[i] = "down"
       /\ serverState'[i] = Follower
       /\ \A k \in Server \ {i} :
             /\ loop'[k] = loop[k]
             /\ receivedVoteCount'[k] = receivedVoteCount[k]
             /\ serverState'[k] = serverState[k]
  BY <1>3 DEF TypeOK
<1> QED
  BY <1>3, <1>4, <1>9, <1>10, IdleFacts, CallsReplaced DEF Follower, Leader
-----------------------------------------------------------------------------
\* Every step keeps the invariant.
LEMMA NextIInv ==
    ASSUME IInv, [Next]_vars
    PROVE  IInv'
<1>1. CASE UNCHANGED vars
  BY <1>1 DEF vars, diskVars, voteVars, nodeVars, rpcVars, IInv, TypeOK, VotesVouched,
              CallsOnlyWhilePolling, CountBacked, Counted, LeaderBackedByQuorum, Behind
<1>2. CASE \E i \in Server : ServerNext(i)
  <2> PICK i \in Server : ServerNext(i)
    BY <1>2
  <2>1. CASE StartHeartbeats(i)
    <3>1. PICK j \in Others(i) : TRUE
      BY <2>1 DEF StartHeartbeats
    <3> QED
      BY <2>1, HeartbeatSendStep
  <2>2. CASE Timeout(i) \/ BackoffTimeout(i) \/ Restart(i)
    BY <2>2, TimeoutStep
  <2> QED
    BY <2>1, <2>2, CampaignStep, TallyStep, CrashStep DEF ServerNext
<1>3. CASE \E i \in Server : \E j \in Others(i) : PairNext(i, j)
  BY <1>3, VoteSendStep, RequestVoteStep, ReceiveVoteStep, StepDownStep,
     RewriteTermStep, HeartbeatSendStep, HeartbeatStep DEF PairNext
<1>4. CASE LateNext
  BY <1>4, LateStep
<1> QED
  BY <1>1, <1>2, <1>3, <1>4 DEF Next

\* The inductive invariant holds in every behaviour.
LEMMA Invariance == Spec => []IInv
<1>1. Init => IInv
  BY InitIInv
<1>2. IInv /\ [Next]_vars => IInv'
  BY NextIInv
<1> QED
  BY <1>1, <1>2, PTL DEF Spec

(* Every variable keeps its type, and no server ever counts more votes than   *)
(* the cluster has members, in clusters of any size.                          *)
THEOREM TypeCorrect == Spec => []TypeOK
<1>1. IInv => TypeOK
  BY DEF IInv
<1> QED
  BY <1>1, Invariance, PTL

(* In clusters of any size, with any number of faults: the log of a leader is *)
(* at least as up to date as the logs of a majority.                          *)
THEOREM LeaderHasQuorumsLogs == Spec => []LeaderBackedByQuorum
<1>1. IInv => LeaderBackedByQuorum
  BY DEF IInv
<1> QED
  BY <1>1, Invariance, PTL
=============================================================================
