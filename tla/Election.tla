------------------------------- MODULE Election -------------------------------
(* Leader election in a cluster that serves no client commands: the event     *)
(* loop of each server (follower, candidate and leader loops), the goroutines *)
(* that request votes and send heartbeats, and the RPCs between them.         *)
(*                                                                            *)
(* The events channel is unbuffered, so a request waits inside the receiving  *)
(* server until its event loop is at a select; `loop' says where it is.  The  *)
(* candidate loop waits for all its vote RPCs without serving any event, and  *)
(* an RPC has no deadline.                                                    *)
(*                                                                            *)
(* Without client commands nextIndex stays at the end of every leader's log,  *)
(* so no AppendEntries with an entry is ever sent: logs stay what they were   *)
(* loaded from disk, commit indexes stay 0, and every AppendEntries is a      *)
(* heartbeat.                                                                 *)
EXTENDS RaftBase

CONSTANTS InitTerms,   \* the terms a server may have persisted before it starts
          Logs,        \* the ends of the logs it may have persisted
          Impatient,   \* the servers whose election timer may fire
          MaxTerm,     \* bound: no campaign beyond this term
          MaxFaults    \* bound: transport errors and crashes in a behaviour

ASSUME InitAssumption == InitTerms \subseteq Nat /\ Logs \subseteq LogEnd
ASSUME BoundAssumption == MaxTerm \in Nat /\ MaxFaults \in Nat
ASSUME ImpatientAssumption == Impatient \subseteq Server

VARIABLES
    currentTerm, votedFor,  \* raftState.persistentState; survive a crash
    lastLog,                \* the end of persistentState.log
    serverState,            \* Follower, Candidate or Leader
    receivedVoteCount,
    receivedHeartbeat,
    leaderId,               \* volatileState.leaderId, the hint given to clients
    loop,                   \* where the event loop is
    call,                   \* call[i][j]: i's goroutine requesting j's vote (idle for j = i)
    beat,                   \* beat[i][j]: i's goroutine sending j a heartbeat
    late,                   \* requests whose sender has given up on them
    faults,                 \* transport errors and crashes so far
    elected                 \* history: who became leader, in which term

diskVars == <<currentTerm, votedFor, lastLog>>
voteVars == <<receivedVoteCount, receivedHeartbeat>>
nodeVars == <<serverState, loop, leaderId>>
rpcVars  == <<call, beat, late>>
vars     == <<diskVars, voteVars, nodeVars, rpcVars, faults, elected>>
-------------------------------------------------------------------------------
(* "follower", "backoff" and "leader" are the selects of FollowerLoop, of the *)
(* inner loop of CandidateLoop and of LeaderLoop; "candidate" is the top of   *)
(* CandidateLoop, "polling" the wait for the vote RPCs, "down" a dead process.*)
Listening == {"follower", "backoff", "leader"}
LoopState == Listening \cup {"candidate", "polling", "down"}

\* A vote goroutine: not begun, in its RPC, holding the response, past the
\* comparison with its term, past the one in SetRaftCurrentTerm, finished.
CallPhase == {"idle", "spawned", "sent", "answered", "deposed", "rewriting", "done"}
Call == [phase : CallPhase, term : Nat, granted : BOOLEAN]
IdleCall == [phase |-> "idle", term |-> 0, granted |-> FALSE]
Done(granted) == [phase |-> "done", term |-> 0, granted |-> granted]

Beat == [phase : {"idle", "spawned", "sent"}, term : Nat]
IdleBeat == [phase |-> "idle", term |-> 0]

LateRequest ==
    [kind : {"vote", "heartbeat"}, from : Server, to : Server, term : Nat]

\* The requests of server i that are in the hands of another server.
InFlight(i) ==
    {[kind |-> "vote", from |-> i, to |-> j, term |-> call[i][j].term] :
        j \in {k \in Others(i) : call[i][k].phase = "sent"}}
    \cup
    {[kind |-> "heartbeat", from |-> i, to |-> j, term |-> beat[i][j].term] :
        j \in {k \in Others(i) : beat[i][k].phase = "sent"}}

Init ==
    /\ currentTerm \in [Server -> InitTerms]
    /\ votedFor \in [Server -> Server \cup {Nil}]
    /\ \A i \in Server : votedFor[i] \in {i, Nil}
    /\ lastLog \in [Server -> Logs]
    /\ \A i \in Server : lastLog[i].term <= currentTerm[i]
    /\ serverState = [i \in Server |-> Follower]
    /\ receivedVoteCount = [i \in Server |-> 0]
    /\ receivedHeartbeat = [i \in Server |-> FALSE]
    /\ leaderId = [i \in Server |-> Nil]
    /\ loop = [i \in Server |-> "follower"]
    /\ call = [i \in Server |-> [j \in Server |-> IdleCall]]
    /\ beat = [i \in Server |-> [j \in Server |-> IdleBeat]]
    /\ late = {}
    /\ faults = 0
    /\ elected = {}
-------------------------------------------------------------------------------
(* The follower loop's timer fires. *)
Timeout(i) ==
    /\ loop[i] = "follower"
    /\ i \in Impatient
    /\ currentTerm[i] < MaxTerm
    /\ serverState' = [serverState EXCEPT ![i] = Candidate]
    /\ loop' = [loop EXCEPT ![i] = "candidate"]
    /\ UNCHANGED <<diskVars, voteVars, leaderId, rpcVars, faults, elected>>

(* The candidate's randomized wait ends without a winner. *)
BackoffTimeout(i) ==
    /\ loop[i] = "backoff"
    /\ currentTerm[i] < MaxTerm
    /\ loop' = [loop EXCEPT ![i] = "candidate"]
    /\ UNCHANGED <<diskVars, voteVars, serverState, leaderId, rpcVars, faults, elected>>

\* IncrementElectionTerm resets the count, VoteForSelf adds one.
CountOfOwnVote_NotReset(i) == receivedVoteCount[i] + 1
CountOfOwnVote(i) == 1

(* One turn of CandidateLoop up to the wait: IncrementElectionTerm, *)
(* VoteForSelf, and one goroutine per other node.                   *)
Campaign(i) ==
    /\ loop[i] = "candidate"
    /\ currentTerm' = [currentTerm EXCEPT ![i] = @ + 1]
    /\ votedFor' = [votedFor EXCEPT ![i] = i]
    /\ receivedVoteCount' = [receivedVoteCount EXCEPT ![i] = CountOfOwnVote(i)]
    /\ receivedHeartbeat' = [receivedHeartbeat EXCEPT ![i] = FALSE]
    /\ call' = [call EXCEPT ![i] =
                  [j \in Server |-> IF j = i THEN IdleCall ELSE [IdleCall EXCEPT !.phase = "spawned"]]]
    /\ loop' = [loop EXCEPT ![i] = "polling"]
    /\ UNCHANGED <<lastLog, serverState, leaderId, beat, late, faults, elected>>

(* RequestVoteFromNode up to the RPC.  It looks at the state first and reads  *)
(* the term afterwards; other goroutines of the same server may change both   *)
(* in between.  The state was Candidate when the goroutine began, so it can   *)
(* always have looked in time; only if the state has changed may it have      *)
(* looked too late.                                                           *)
SendVoteRequest(i, j) ==
    /\ call[i][j].phase = "spawned"
    /\ call' = [call EXCEPT ![i][j] =
                  [phase |-> "sent", term |-> currentTerm[i], granted |-> FALSE]]
    /\ UNCHANGED <<diskVars, voteVars, nodeVars, beat, late, faults, elected>>

SkipVoteRequest(i, j) ==
    /\ call[i][j].phase = "spawned"
    /\ serverState[i] # Candidate
    /\ call' = [call EXCEPT ![i][j] = Done(FALSE)]
    /\ UNCHANGED <<diskVars, voteVars, nodeVars, beat, late, faults, elected>>

-------------------------------------------------------------------------------
(* What both handlers begin with: a newer term makes the receiver j a        *)
(* follower of that term (ChangeToFollowerStatus, SetRaftCurrentTerm).       *)
AdoptTerm_AnyOther(j, term) ==
    IF term # currentTerm[j]
    THEN /\ currentTerm' = [currentTerm EXCEPT ![j] = term]
         /\ votedFor' = [votedFor EXCEPT ![j] = Nil]
         /\ receivedVoteCount' = [receivedVoteCount EXCEPT ![j] = 0]
    ELSE UNCHANGED <<currentTerm, votedFor, receivedVoteCount>>
AdoptTerm(j, term) ==
    IF term > currentTerm[j]
    THEN /\ currentTerm' = [currentTerm EXCEPT ![j] = term]
         /\ votedFor' = [votedFor EXCEPT ![j] = Nil]
         /\ receivedVoteCount' = [receivedVoteCount EXCEPT ![j] = 0]
    ELSE UNCHANGED <<currentTerm, votedFor, receivedVoteCount>>

\* When the event loop is back at its select after an event that made j a
\* follower, it is in FollowerLoop.
Settle_LeaderStays(j, follows) ==
    IF serverState[j] = Leader
    THEN UNCHANGED <<serverState, loop>>
    ELSE /\ serverState' = IF follows THEN [serverState EXCEPT ![j] = Follower] ELSE serverState
         /\ loop' = IF follows THEN [loop EXCEPT ![j] = "follower"] ELSE loop
Settle(j, follows) ==
    /\ serverState' = IF follows THEN [serverState EXCEPT ![j] = Follower] ELSE serverState
    /\ loop' = IF follows THEN [loop EXCEPT ![j] = "follower"] ELSE loop

(* handleRequestVoteRpc at j for a request of server i.  The vote is granted *)
(* without being recorded: votedFor only ever names the server itself.       *)
VoteGranted_AnyLog(i, j, term) ==
    /\ term >= currentTerm[j]
    /\ term > currentTerm[j] \/ votedFor[j] = Nil
VoteGranted_LongerLog(i, j, term) ==
    /\ VoteGranted_AnyLog(i, j, term)
    /\ ~ AtLeastAsUpToDate(lastLog[j], lastLog[i])
VoteGranted(i, j, term) ==
    /\ term >= currentTerm[j]
    /\ term > currentTerm[j] \/ votedFor[j] = Nil
    /\ AtLeastAsUpToDate(lastLog[i], lastLog[j])

ProcessVoteRequest(j, term) ==
    /\ loop[j] \in Listening
    /\ AdoptTerm(j, term)
    /\ receivedHeartbeat' = IF term > currentTerm[j]
                            THEN [receivedHeartbeat EXCEPT ![j] = FALSE]
                            ELSE receivedHeartbeat
    /\ Settle(j, term > currentTerm[j])
    /\ UNCHANGED <<lastLog, leaderId, beat, faults, elected>>

HandleRequestVote(i, j) ==
    /\ call[i][j].phase = "sent"
    /\ ProcessVoteRequest(j, call[i][j].term)
    /\ call' = [call EXCEPT ![i][j] =
                  [phase |-> "answered",
                   term |-> currentTerm'[j],
                   granted |-> VoteGranted(i, j, call[i][j].term)]]
    /\ UNCHANGED late

\* The same handler for a request nobody waits for any more.
HandleLateRequestVote(m) ==
    /\ m.kind = "vote"
    /\ ProcessVoteRequest(m.to, m.term)
    /\ late' = late \ {m}
    /\ UNCHANGED call

(* handleAppendEntriesRpc and handleHeartBeatRpc at j for a request without  *)
(* entries.  A candidate that has heard a heartbeat converts at the top of   *)
(* its inner loop.                                                           *)
ProcessHeartbeat(i, j, term) ==
    /\ loop[j] \in Listening
    /\ AdoptTerm(j, term)
    /\ IF term >= currentTerm[j]
       THEN /\ receivedHeartbeat' = [receivedHeartbeat EXCEPT ![j] = TRUE]
            /\ leaderId' = [leaderId EXCEPT ![j] = i]
       ELSE UNCHANGED <<receivedHeartbeat, leaderId>>
    /\ Settle(j, \/ term > currentTerm[j]
                 \/ term = currentTerm[j] /\ loop[j] = "backoff")
    /\ UNCHANGED <<lastLog, call, faults, elected>>

\* SendHeartBeatRpc ignores the response, so the call simply ends.
HandleHeartbeat(i, j) ==
    /\ beat[i][j].phase = "sent"
    /\ ProcessHeartbeat(i, j, beat[i][j].term)
    /\ beat' = [beat EXCEPT ![i][j] = IdleBeat]
    /\ UNCHANGED late

HandleLateHeartbeat(m) ==
    /\ m.kind = "heartbeat"
    /\ ProcessHeartbeat(m.from, m.to, m.term)
    /\ late' = late \ {m}
    /\ UNCHANGED beat
-------------------------------------------------------------------------------
(* RequestVoteFromNode after the RPC: count the vote, then compare terms.    *)
ReceiveVote(i, j) ==
    /\ call[i][j].phase = "answered"
    /\ receivedVoteCount' =
         IF call[i][j].granted
         THEN [receivedVoteCount EXCEPT ![i] = @ + 1]
         ELSE receivedVoteCount
    /\ call' = [call EXCEPT ![i][j] =
                  IF @.term > currentTerm[i]
                  THEN [@ EXCEPT !.phase = "deposed"]
                  ELSE Done(@.granted)]
    /\ UNCHANGED <<diskVars, receivedHeartbeat, nodeVars, beat, late, faults, elected>>

(* ChangeToFollowerStatus, and SetRaftCurrentTerm up to its lock: an equal   *)
(* term is left alone, a lesser one is only logged.                          *)
StepDown(i, j) ==
    /\ call[i][j].phase = "deposed"
    /\ serverState' = [serverState EXCEPT ![i] = Follower]
    /\ call' = [call EXCEPT ![i][j] =
                  IF @.term = currentTerm[i]
                  THEN Done(@.granted)
                  ELSE [@ EXCEPT !.phase = "rewriting"]]
    /\ UNCHANGED <<diskVars, voteVars, loop, leaderId, beat, late, faults, elected>>

(* The rest of SetRaftCurrentTerm, under the lock. *)
RewriteTerm(i, j) ==
    /\ call[i][j].phase = "rewriting"
    /\ currentTerm' = [currentTerm EXCEPT ![i] = call[i][j].term]
    /\ votedFor' = [votedFor EXCEPT ![i] = Nil]
    /\ receivedVoteCount' = [receivedVoteCount EXCEPT ![i] = 0]
    /\ receivedHeartbeat' = [receivedHeartbeat EXCEPT ![i] = FALSE]
    /\ call' = [call EXCEPT ![i][j] = Done(@.granted)]
    /\ UNCHANGED <<lastLog, nodeVars, beat, late, faults, elected>>

HaveEnoughVotes(i) == receivedVoteCount[i] >= QuorumSize

(* waitGroup.Wait in RequestVotesFromOtherNodes: every vote goroutine is done.*)
AllAnswered_OnQuorum(i) ==
    /\ loop[i] = "polling"
    /\ HaveEnoughVotes(i) \/ \A j \in Others(i) : call[i][j].phase = "done"
AllAnswered(i) ==
    /\ loop[i] = "polling"
    /\ \A j \in Others(i) : call[i][j].phase = "done"

(* HaveEnoughVotes is asked before the state is looked at again.  The winner *)
(* starts a heartbeat goroutine of its own: heartbeats of an earlier         *)
(* leadership that are still in the hands of another server stay there.      *)
Win(i) ==
    /\ AllAnswered(i)
    /\ HaveEnoughVotes(i)
    /\ serverState' = [serverState EXCEPT ![i] = Leader]
    /\ loop' = [loop EXCEPT ![i] = "leader"]
    /\ elected' = elected \cup {[server |-> i, term |-> currentTerm[i]]}
    /\ call' = [call EXCEPT ![i] = [j \in Server |-> IdleCall]]
    /\ beat' = [beat EXCEPT ![i] = [j \in Server |-> IdleBeat]]
    /\ late' = late \cup {m \in InFlight(i) : m.kind = "heartbeat" /\ loop[m.to] # "down"}
    /\ UNCHANGED <<diskVars, voteVars, leaderId, faults>>

Lose(i) ==
    /\ AllAnswered(i)
    /\ ~ HaveEnoughVotes(i)
    /\ loop' = [loop EXCEPT ![i] =
                  IF serverState[i] = Candidate THEN "backoff" ELSE "follower"]
    /\ call' = [call EXCEPT ![i] = [j \in Server |-> IdleCall]]
    /\ UNCHANGED <<diskVars, voteVars, serverState, leaderId, beat, late, faults, elected>>
-------------------------------------------------------------------------------
IsLeader_Candidate(i) == serverState[i] # Follower
IsLeader(i) == serverState[i] = Leader

(* A turn of the leader's heartbeat goroutine: it looks at the state, then   *)
(* starts one goroutine per follower and waits for all of them.              *)
StartHeartbeats(i) ==
    /\ IsLeader(i)
    /\ Others(i) # {}
    /\ \A j \in Others(i) : beat[i][j].phase = "idle"
    /\ beat' = [beat EXCEPT ![i] = [j \in Server |-> IF j = i THEN IdleBeat ELSE [IdleBeat EXCEPT !.phase = "spawned"]]]
    /\ UNCHANGED <<diskVars, voteVars, nodeVars, call, late, faults, elected>>

(* SendHeartBeatRpc reads the term, without looking at the state again. *)
SendHeartbeat(i, j) ==
    /\ beat[i][j].phase = "spawned"
    /\ beat' = [beat EXCEPT ![i][j] = [phase |-> "sent", term |-> currentTerm[i]]]
    /\ UNCHANGED <<diskVars, voteVars, nodeVars, call, late, faults, elected>>
-------------------------------------------------------------------------------
(* Transport errors.  A server that is down refuses the RPC.  Otherwise a    *)
(* broken connection costs one of MaxFaults; the handler goroutine at the    *)
(* receiver may be left behind, waiting to deliver the request.              *)
CallRefused(i, j) ==
    /\ call[i][j].phase = "sent"
    /\ loop[j] = "down"
    /\ call' = [call EXCEPT ![i][j] = Done(FALSE)]
    /\ UNCHANGED <<diskVars, voteVars, nodeVars, beat, late, faults, elected>>

BeatRefused(i, j) ==
    /\ beat[i][j].phase = "sent"
    /\ loop[j] = "down"
    /\ beat' = [beat EXCEPT ![i][j] = IdleBeat]
    /\ UNCHANGED <<diskVars, voteVars, nodeVars, call, late, faults, elected>>

BreakCall(i, j) ==
    /\ faults < MaxFaults
    /\ faults' = faults + 1
    /\ \/ /\ call[i][j].phase = "sent"
          /\ loop[j] # "down"
          /\ \E L \in SUBSET {m \in InFlight(i) : m.kind = "vote" /\ m.to = j} :
                late' = late \cup L
       \/ /\ call[i][j].phase = "answered"
          /\ UNCHANGED late
    /\ call' = [call EXCEPT ![i][j] = Done(FALSE)]
    /\ UNCHANGED <<diskVars, voteVars, nodeVars, beat, elected>>

BreakBeat(i, j) ==
    /\ faults < MaxFaults
    /\ faults' = faults + 1
    /\ beat[i][j].phase = "sent"
    /\ loop[j] # "down"
    /\ \E L \in SUBSET {m \in InFlight(i) : m.kind = "heartbeat" /\ m.to = j} :
          late' = late \cup L
    /\ beat' = [beat EXCEPT ![i][j] = IdleBeat]
    /\ UNCHANGED <<diskVars, voteVars, nodeVars, call, elected>>

-------------------------------------------------------------------------------
(* The process dies: what it had in memory and the requests it was serving   *)
(* are gone, and the RPCs of others to it end in an error.  Some of the      *)
(* requests it had sent are served all the same.                             *)
Die(i) ==
    /\ loop[i] # "down"
    /\ faults < MaxFaults
    /\ faults' = faults + 1
    /\ loop' = [loop EXCEPT ![i] = "down"]
    /\ serverState' = [serverState EXCEPT ![i] = Follower]
    /\ receivedVoteCount' = [receivedVoteCount EXCEPT ![i] = 0]
    /\ receivedHeartbeat' = [receivedHeartbeat EXCEPT ![i] = FALSE]
    /\ leaderId' = [leaderId EXCEPT ![i] = Nil]
    /\ call' = [k \in Server |-> [j \in Server |->
                  IF k = i THEN IdleCall
                  ELSE IF j = i /\ call[k][j].phase = "sent" THEN Done(FALSE)
                  ELSE call[k][j]]]
    /\ beat' = [k \in Server |-> [j \in Server |->
                  IF k = i \/ (j = i /\ beat[k][j].phase = "sent") THEN IdleBeat
                  ELSE beat[k][j]]]
    /\ \E L \in SUBSET InFlight(i) :
          late' = {m \in late \cup L : m.to # i /\ loop[m.to] # "down"}
    /\ UNCHANGED <<lastLog, elected>>

Crash(i) ==
    /\ Die(i)
    /\ UNCHANGED <<currentTerm, votedFor>>

(* IncrementElectionTerm and VoteForSelf are three database transactions:    *)
(* clear the vote, raise the term, vote.  A crash may fall after the first   *)
(* or after the second.                                                      *)
CrashInCampaign(i) ==
    /\ loop[i] = "candidate"
    /\ Die(i)
    /\ votedFor' = [votedFor EXCEPT ![i] = Nil]
    /\ \E t \in {currentTerm[i], currentTerm[i] + 1} :
          currentTerm' = [currentTerm EXCEPT ![i] = t]

(* SetRaftCurrentTerm is two: write the term, clear the vote.  It runs in    *)
(* the handlers of requests with a newer term and in the vote goroutines.    *)
TermBeingWritten(i, term) ==
    \/ /\ loop[i] \in Listening
       /\ term > currentTerm[i]
       /\ \E m \in late \cup UNION {InFlight(k) : k \in Others(i)} :
             m.to = i /\ m.term = term
    \/ \E j \in Others(i) : call[i][j].phase = "rewriting" /\ call[i][j].term = term

CrashInTermChange(i) ==
    /\ Die(i)
    /\ \E term \in 0..MaxTerm :
          /\ TermBeingWritten(i, term)
          /\ currentTerm' = [currentTerm EXCEPT ![i] = term]
    /\ UNCHANGED votedFor

(* StartServer, InitializeDatabases and the first turn of StartElectionLoop. *)
Restart(i) ==
    /\ loop[i] = "down"
    /\ loop' = [loop EXCEPT ![i] = "follower"]
    /\ UNCHANGED <<diskVars, voteVars, serverState, leaderId, rpcVars, faults, elected>>
-------------------------------------------------------------------------------
ServerNext(i) ==
    \/ Timeout(i) \/ BackoffTimeout(i) \/ Campaign(i)
    \/ Win(i) \/ Lose(i)
    \/ StartHeartbeats(i)
    \/ Crash(i) \/ CrashInCampaign(i) \/ CrashInTermChange(i) \/ Restart(i)

PairNext(i, j) ==
    \/ SendVoteRequest(i, j) \/ SkipVoteRequest(i, j) \/ HandleRequestVote(i, j) \/ ReceiveVote(i, j)
    \/ StepDown(i, j) \/ RewriteTerm(i, j)
    \/ SendHeartbeat(i, j) \/ HandleHeartbeat(i, j)
    \/ CallRefused(i, j) \/ BeatRefused(i, j)
    \/ BreakCall(i, j) \/ BreakBeat(i, j)

LateNext == \E m \in late : HandleLateRequestVote(m) \/ HandleLateHeartbeat(m)

Next ==
    \/ \E i \in Server : ServerNext(i)
    \/ \E i \in Server : \E j \in Others(i) : PairNext(i, j)
    \/ LateNext

Spec == Init /\ [][Next]_vars

(* Goroutines run, requests reach servers that listen, and timers fire.  A    *)
(* follower's timer is only sure to fire while no leader can reset it.        *)
(* Nothing is assumed of crashes, errors and restarts.                        *)
NobodyLeads == \A i \in Server : serverState[i] # Leader

Fairness ==
    /\ \A i \in Server :
          /\ WF_vars(NobodyLeads /\ Timeout(i))
          /\ WF_vars(BackoffTimeout(i))
          /\ WF_vars(Campaign(i))
          /\ WF_vars(Win(i) \/ Lose(i))
          /\ WF_vars(StartHeartbeats(i))
    /\ \A i \in Server : \A j \in Others(i) :
          /\ WF_vars(SendVoteRequest(i, j) \/ SkipVoteRequest(i, j))
          /\ WF_vars(HandleRequestVote(i, j) \/ CallRefused(i, j))
          /\ WF_vars(ReceiveVote(i, j) \/ StepDown(i, j) \/ RewriteTerm(i, j))
          /\ WF_vars(SendHeartbeat(i, j))
          /\ WF_vars(HandleHeartbeat(i, j) \/ BeatRefused(i, j))
    /\ WF_vars(LateNext)

FairSpec == Spec /\ Fairness
-------------------------------------------------------------------------------
(* Types and ranges of the variables.  No server counts more votes than the   *)
(* cluster has members, though the count is kept outside the lock, is reset   *)
(* by other goroutines and outlives the campaign it belongs to.               *)
TypeOK ==
    /\ currentTerm \in [Server -> Nat]
    /\ votedFor \in [Server -> Server \cup {Nil}]
    /\ lastLog \in [Server -> LogEnd]
    /\ serverState \in [Server -> ServerState]
    /\ receivedVoteCount \in [Server -> 0..Cardinality(Server)]
    /\ receivedHeartbeat \in [Server -> BOOLEAN]
    /\ leaderId \in [Server -> Server \cup {Nil}]
    /\ loop \in [Server -> LoopState]
    /\ call \in [Server -> [Server -> Call]]
    /\ beat \in [Server -> [Server -> Beat]]
    /\ late \subseteq LateRequest
    /\ faults \in Nat
    /\ elected \subseteq [server : Server, term : Nat]

(* At most one server wins the election of a term.  handleRequestVoteRpc does *)
(* not record the vote it grants, so without transport errors this rests on   *)
(* RequestVotesFromOtherNodes waiting for every server's answer, and on there *)
(* being at most four servers: one lost answer is enough to break it, and so  *)
(* are three votes of an abandoned campaign that are counted after the reset. *)
ElectionSafety ==
    \A a, b \in elected : a.term = b.term => a.server = b.server

\* The servers whose log i's log is at least as up to date as.
Behind(i) == {j \in Server : AtLeastAsUpToDate(lastLog[i], lastLog[j])}

(* The log of a leader is at least as up to date as the logs of a majority,   *)
(* whatever is lost and however long an answer was on its way: every vote     *)
(* counted in HaveEnoughVotes comes from a server that has compared the logs. *)
LeaderBackedByQuorum ==
    \A i \in Server :
        serverState[i] = Leader => Cardinality(Behind(i)) >= QuorumSize

(* A leader leads in the term it was elected in, with its own vote still      *)
(* given to itself: its loop never serves an event, nor does one of its vote  *)
(* goroutines write a term, that leaves it leader in a term it did not win.   *)
LeaderHoldsOwnVote ==
    \A i \in Server : serverState[i] = Leader =>
        /\ votedFor[i] = i
        /\ [server |-> i, term |-> currentTerm[i]] \in elected

(* The leader a server names to its clients (NewLeaderId) won an election.    *)
LeaderHintWasElected ==
    \A i \in Server : leaderId[i] # Nil => \E e \in elected : e.server = leaderId[i]

(* "Heartbeat sent by leader": the sender of a heartbeat won the election of  *)
(* the term the heartbeat carries.  SendHeartBeatRpc reads the term after the *)
(* state was looked at, so a deposed leader can send one in the term of its   *)
(* successor.                                                                 *)
HeartbeatsAreFromLeaders ==
    \A i \in Server : \A j \in Others(i) :
        beat[i][j].phase = "sent" => [server |-> i, term |-> beat[i][j].term] \in elected


(* A server that has voted for itself in a term keeps that vote until the     *)
(* term is over: nothing but a newer term frees it to vote for another.       *)
OwnVoteIsKept ==
    [][\A i \in Server :
          votedFor[i] = i /\ votedFor'[i] # i => currentTerm'[i] > currentTerm[i]]_vars

(* A server whose rivals' timers do not fire ends up as leader for good, and  *)
(* every other live server learns who leads, unless it dies itself: lost      *)
(* answers, dead followers and higher terms only cost it more campaigns.      *)
StableLeader ==
    \A i \in Impatient :
        <>[](loop[i] # "down" =>
                /\ serverState[i] = Leader
                /\ \A j \in Others(i) : loop[j] # "down" => leaderId[j] = i)

===============================================================================
