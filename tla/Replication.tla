----------------------------- MODULE Replication -----------------------------
(* Replication of client commands: a leader appends a command to its log and  *)
(* sends it to every follower before it answers, a background goroutine sends *)
(* followers the entries they miss, and AppendEntries requests carry the      *)
(* commit index that makes followers apply entries to their database.         *)
(*                                                                            *)
(* A vote request, its handling and its answer are one step here; what may    *)
(* come between them is Election's subject.  A candidate that waits out a     *)
(* lost election treats requests as a follower does and is one here.          *)
EXTENDS RaftBase, Sequences, Integers

CONSTANTS Command,   \* the SQL statements clients may send, each at most once
          InitTerm,  \* the term the servers have persisted before they start
          InitLogs,  \* the logs they may have persisted
          Started,   \* the servers that run from the beginning
          Impatient, \* the servers whose election timer may fire
          MaxTerm,   \* bound: no campaign beyond this term
          FaultKinds, \* what may go wrong: "vote", "client" and "sync" calls
                      \* that break, the "delay" of a heartbeat and a "crash"
          MaxFaults  \* bound: transport errors, delays and crashes in a behaviour

VARIABLES
    currentTerm, votedFor, log,   \* persistentState; survive a crash
    db,                           \* the statements run on sqlDb; a file too
    serverState,                  \* Follower or Leader
    loop,                         \* "free" to take an event, or what keeps it busy
    serving,                      \* the command a leader is replicating
    poll,                         \* the campaign a candidate waits for
    commitIndex, lastApplied,     \* volatileState
    nextIndex, matchIndex,        \* volatileLeaderState, indexed by server
    call,                         \* call[i][k][j]: i's goroutine of kind k for j
    late,                         \* requests whose sender has given up on them
    sent, acked,                  \* commands given to a leader; answered with OK
    faults

diskVars   == <<currentTerm, votedFor, log, db>>
commitVars == <<commitIndex, lastApplied>>
leaderVars == <<nextIndex, matchIndex>>
nodeVars   == <<serverState, loop, serving, poll>>
clientVars == <<sent, acked>>
vars == <<diskVars, commitVars, leaderVars, nodeVars, call, late, clientVars, faults>>
-------------------------------------------------------------------------------
Entry == [term : Nat, data : Command]

ASSUME InitAssumption == InitTerm \in Nat /\ InitLogs \subseteq Seq(Entry)
ASSUME SomeAssumption == Impatient \subseteq Server /\ Started \subseteq Server
ASSUME BoundAssumption == MaxTerm \in Nat /\ MaxFaults \in Nat
ASSUME CommandAssumption == Nil \notin Command

\* "client": IssueAppendEntriesRpcToNode; "sync": the background replication.
Kind == {"client", "sync"}

\* An AppendEntries request with its one entry, none for a heartbeat.
Request == [term : Nat, prevIndex : Nat, prevTerm : Nat,
            entries : Seq(Entry), commit : Nat]
NoRequest == [term |-> 0, prevIndex |-> 0, prevTerm |-> 0, entries |-> <<>>, commit |-> 0]

Phase == {"idle", "spawned", "sent", "answered", "done"}
\* term and ok are the response's Term and Success; once done, ok is the result.
Call == [phase : Phase, req : Request, term : Nat, ok : BOOLEAN]
IdleCall == [phase |-> "idle", req |-> NoRequest, term |-> 0, ok |-> FALSE]
Done(ok) == [IdleCall EXCEPT !.phase = "done", !.ok = ok]
Spawned  == [IdleCall EXCEPT !.phase = "spawned"]

\* A new slice with the same number for every server.
ForEachServer(n) == [j \in Server |-> n]

LastTerm(s) == IF s = <<>> THEN 0 ELSE s[Len(s)].term
TermAt(s, n) == IF n = 0 THEN 0 ELSE s[n].term
LastEntry(s) == [index |-> Len(s), term |-> LastTerm(s)]

LoopState == {"free", "polling", "accepted", "mutating", "down", "panicked"}
Alive(i) == loop[i] \notin {"down", "panicked"}

\* The term a campaign asks for, those yet to answer, receivedVoteCount.
Poll == [term : Nat, pending : SUBSET Server, count : Nat]
NoPoll == [term |-> 0, pending |-> {}, count |-> 0]

Fault(kind) ==
    /\ kind \in FaultKinds
    /\ faults < MaxFaults
    /\ faults' = faults + 1

Lesser(a, b) == IF a < b THEN a ELSE b
Larger(a, b) == IF a < b THEN b ELSE a
Commands(s) == {s[n].data : n \in DOMAIN s}

(* The terms in a log never decrease and never exceed the server's own.  The  *)
(* comparison of logs in handleRequestVoteRpc means nothing without it; it    *)
(* has to survive deposed leaders, which go on appending and sending entries  *)
(* in a term they only know from the answer that deposed them.                *)
TermsInOrder ==
    \A i \in Server : \A n \in DOMAIN log[i] :
        /\ log[i][n].term <= currentTerm[i]
        /\ n > 1 => log[i][n - 1].term <= log[i][n].term

(* Two logs that hold an entry of the same term at the same index are the     *)
(* same up to it.  handleAppendEntriesRpc relies on it: it compares only the  *)
(* terms of the entry before the new one and of the one in its place.  Repair *)
(* by one leader keeps it; a deposed leader that goes on sending breaks it.   *)
LogMatching ==
    \A i, j \in Server : \A n \in DOMAIN log[i] \cap DOMAIN log[j] :
        log[i][n].term = log[j][n].term =>
            \A m \in 1..n : log[i][m] = log[j][m]

Init ==
    /\ currentTerm = [i \in Server |-> InitTerm]
    /\ votedFor = [i \in Server |-> Nil]
    /\ log \in [Server -> InitLogs]
    /\ TermsInOrder /\ LogMatching   \* as earlier behaviours have left them
    /\ db = [i \in Server |-> <<>>]
    /\ serverState = [i \in Server |-> Follower]
    /\ loop = [i \in Server |-> IF i \in Started THEN "free" ELSE "down"]
    /\ serving = [i \in Server |-> Nil]
    /\ poll = [i \in Server |-> NoPoll]
    /\ commitIndex = [i \in Server |-> 0]
    /\ lastApplied = [i \in Server |-> 0]
    /\ matchIndex = [i \in Server |-> ForEachServer(0)]
    /\ nextIndex = [i \in Server |-> ForEachServer(1)]
    /\ call = [i \in Server |-> [k \in Kind |-> [j \in Server |-> IdleCall]]]
    /\ late = {}
    /\ sent = UNION {Commands(log[i]) : i \in Server}
    /\ acked = {}
    /\ faults = 0
-------------------------------------------------------------------------------
(* ChangeToFollowerIfTermStale.  A new term also resets the count of votes.   *)
StepDownIfStale(i, term) ==
    IF term > currentTerm[i]
    THEN /\ currentTerm' = [currentTerm EXCEPT ![i] = term]
         /\ votedFor' = [votedFor EXCEPT ![i] = Nil]
         /\ serverState' = [serverState EXCEPT ![i] = Follower]
    ELSE UNCHANGED <<currentTerm, votedFor, serverState>>

CountAfter(i, term) == IF term > currentTerm[i] THEN 0 ELSE poll[i].count

(* CandidateLoop: a new term, the server's own vote, and a goroutine for each *)
(* other server.  Until they are done the candidate takes no event.           *)
Campaign(i) ==
    /\ loop[i] = "free"
    /\ serverState[i] # Leader
    /\ i \in Impatient
    /\ currentTerm[i] < MaxTerm
    /\ currentTerm' = [currentTerm EXCEPT ![i] = @ + 1]
    /\ votedFor' = [votedFor EXCEPT ![i] = i]
    /\ loop' = [loop EXCEPT ![i] = "polling"]
    /\ poll' = [poll EXCEPT ![i] =
                  [term |-> currentTerm[i] + 1, pending |-> Others(i), count |-> 1]]
    /\ UNCHANGED <<log, db, commitVars, leaderVars, serverState, serving, call, late,
                   clientVars, faults>>

Asks(i, j) == loop[i] = "polling" /\ j \in poll[i].pending

\* handleRequestVoteRpc at j.
Grants(i, j) ==
    /\ poll[i].term >= currentTerm[j]
    /\ poll[i].term = currentTerm[j] => votedFor[j] = Nil
    /\ AtLeastAsUpToDate(LastEntry(log[i]), LastEntry(log[j]))

(* Either the request has a newer term for j, or the answer one for i.        *)
HandleVote(i, j) ==
    LET answer == Larger(currentTerm[j], poll[i].term)
        stale  == IF answer > currentTerm[i] THEN i ELSE j
        count  == CountAfter(i, answer) + (IF Grants(i, j) THEN 1 ELSE 0)
    IN
    /\ Asks(i, j)
    /\ loop[j] = "free"
    /\ StepDownIfStale(stale, answer)
    /\ poll' = [poll EXCEPT ![i].pending = @ \ {j}, ![i].count = count]
    /\ UNCHANGED <<log, db, commitVars, leaderVars, loop, serving, call, late,
                   clientVars, faults>>

(* No answer: a candidate that has been deposed does not ask, the server is   *)
(* not there, or the call fails before or after it is handled.                *)
LoseVote(i, j) ==
    /\ Asks(i, j)
    /\ poll' = [poll EXCEPT ![i].pending = @ \ {j}]
    /\ \/ /\ poll[i].term # currentTerm[i] \/ ~ Alive(j)
          /\ UNCHANGED <<currentTerm, votedFor, serverState, faults>>
       \/ /\ Alive(j)
          /\ Fault("vote")
          /\ \/ UNCHANGED <<currentTerm, votedFor, serverState>>
             \/ loop[j] = "free" /\ StepDownIfStale(j, poll[i].term)
    /\ UNCHANGED <<log, db, commitVars, leaderVars, loop, serving, call, late, clientVars>>

\* A new leader knows of no entry that a follower has, and will send the one
\* after its last.
ReinitVolatileLeaderState(i) ==
    /\ matchIndex' = [matchIndex EXCEPT ![i] = ForEachServer(0)]
    /\ nextIndex' = [nextIndex EXCEPT ![i] = ForEachServer(Len(log[i]) + 1)]

(* HaveEnoughVotes, ChangeToLeaderStatus and ReinitVolatileLeaderState.       *)
FinishCampaign_OnQuorum(i) ==
    /\ loop[i] = "polling"
    /\ poll[i].pending = {} \/ poll[i].count >= QuorumSize
    /\ loop' = [loop EXCEPT ![i] = "free"]
    /\ poll' = [poll EXCEPT ![i] = NoPoll]
    /\ IF poll[i].count >= QuorumSize
       THEN /\ serverState' = [serverState EXCEPT ![i] = Leader]
            /\ ReinitVolatileLeaderState(i)
       ELSE UNCHANGED <<serverState, leaderVars>>
    /\ UNCHANGED <<diskVars, commitVars, serving, call, late, clientVars, faults>>
FinishCampaign(i) ==
    /\ loop[i] = "polling"
    /\ poll[i].pending = {}
    /\ loop' = [loop EXCEPT ![i] = "free"]
    /\ poll' = [poll EXCEPT ![i] = NoPoll]
    /\ IF poll[i].count >= QuorumSize
       THEN /\ serverState' = [serverState EXCEPT ![i] = Leader]
            /\ ReinitVolatileLeaderState(i)
       ELSE UNCHANGED <<serverState, leaderVars>>
    /\ UNCHANGED <<diskVars, commitVars, serving, call, late, clientVars, faults>>
-------------------------------------------------------------------------------
(* handleClientCommandRpc sees that i is leader ... *)
AcceptCommand(i, c) ==
    /\ loop[i] = "free"
    /\ serverState[i] = Leader
    /\ c \notin sent
    /\ sent' = sent \cup {c}
    /\ serving' = [serving EXCEPT ![i] = c]
    /\ loop' = [loop EXCEPT ![i] = "accepted"]
    /\ UNCHANGED <<diskVars, commitVars, leaderVars, serverState, poll, call, late, acked, faults>>

(* ... and handleClientMutateCommand appends the command to the local log, in *)
(* whatever term i is by now, and starts a goroutine for each other node.  If *)
(* i has been deposed in between, each of them sees it and gives up.          *)
AppendCommand(i) ==
    /\ loop[i] = "accepted"
    /\ log' = [log EXCEPT ![i] = Append(@, [term |-> currentTerm[i], data |-> serving[i]])]
    /\ loop' = [loop EXCEPT ![i] = "mutating"]
    /\ call' = [call EXCEPT ![i]["client"] =
                  [j \in Server |-> IF j = i THEN IdleCall
                                   ELSE IF serverState[i] = Leader THEN Spawned
                                   ELSE Done(FALSE)]]
    /\ UNCHANGED <<currentTerm, votedFor, db, commitVars, leaderVars, serverState,
                   serving, poll, late, clientVars, faults>>

(* IssueAppendEntriesRpcToNode up to the RPC.  It looks whether i is leader,  *)
(* then reads the term, which is also the term the entry is sent with.        *)
SendEntry(i, j) ==
    /\ call[i]["client"][j].phase = "spawned"
    /\ LET n == Len(log[i]) IN
       call' = [call EXCEPT ![i]["client"][j] =
          [IdleCall EXCEPT
             !.phase = "sent",
             !.req = [term |-> currentTerm[i],
                      prevIndex |-> n - 1,
                      prevTerm |-> TermAt(log[i], n - 1),
                      entries |-> <<[term |-> currentTerm[i], data |-> serving[i]]>>,
                      commit |-> commitIndex[i]]]]
    /\ UNCHANGED <<diskVars, commitVars, leaderVars, nodeVars, late, clientVars, faults>>

SkipEntry(i, j) ==
    /\ call[i]["client"][j].phase = "spawned"
    /\ serverState[i] # Leader
    /\ call' = [call EXCEPT ![i]["client"][j] = Done(FALSE)]
    /\ UNCHANGED <<diskVars, commitVars, leaderVars, nodeVars, late, clientVars, faults>>

(* The rest of IssueAppendEntriesRpcToNode, and of the goroutine around it.   *)
ReceiveEntryReply(i, j) ==
    LET reply == call[i]["client"][j]
        ok == reply.ok /\ reply.term <= currentTerm[i]
    IN
    /\ reply.phase = "answered"
    /\ StepDownIfStale(i, reply.term)
    /\ IF ok
       THEN /\ matchIndex' = [matchIndex EXCEPT ![i][j] = Len(log[i])]
            /\ nextIndex' = [nextIndex EXCEPT ![i][j] = Len(log[i]) + 1]
       ELSE UNCHANGED leaderVars
    /\ call' = [call EXCEPT ![i]["client"][j] = Done(ok)]
    /\ UNCHANGED <<log, db, commitVars, loop, serving, poll, late, clientVars, faults>>

(* All goroutines are done: with a majority the command is applied to the     *)
(* leader's database and the client is answered OK, else Aborted.  Neither    *)
(* commitIndex nor lastApplied is touched.                                    *)
Replicated(i) ==
    Cardinality({j \in Others(i) : call[i]["client"][j].ok}) + 1 >= QuorumSize

FinishCommand_OnlyAnswers(i) ==
    /\ loop[i] = "mutating"
    /\ \A j \in Others(i) : call[i]["client"][j].phase = "done"
    /\ acked' = IF Replicated(i) THEN acked \cup {serving[i]} ELSE acked
    /\ serving' = [serving EXCEPT ![i] = Nil]
    /\ loop' = [loop EXCEPT ![i] = "free"]
    /\ call' = [call EXCEPT ![i]["client"] = [j \in Server |-> IdleCall]]
    /\ UNCHANGED <<currentTerm, votedFor, log, db, commitVars, leaderVars, serverState,
                   poll, late, sent, faults>>
FinishCommand(i) ==
    /\ loop[i] = "mutating"
    /\ \A j \in Others(i) : call[i]["client"][j].phase = "done"
    /\ IF Replicated(i)
       THEN /\ db' = [db EXCEPT ![i] = Append(@, serving[i])]
            /\ acked' = acked \cup {serving[i]}
       ELSE UNCHANGED <<db, acked>>
    /\ serving' = [serving EXCEPT ![i] = Nil]
    /\ loop' = [loop EXCEPT ![i] = "free"]
    /\ call' = [call EXCEPT ![i]["client"] = [j \in Server |-> IdleCall]]
    /\ UNCHANGED <<currentTerm, votedFor, log, commitVars, leaderVars, serverState,
                   poll, late, sent, faults>>
-------------------------------------------------------------------------------
(* The background replication: a round starts one goroutine per follower and  *)
(* waits for all of them.  Each looks for itself whether its follower lacks   *)
(* an entry.                                                                  *)
Lacks_LastOnly(i, j) == nextIndex[i][j] = Len(log[i])
Lacks(i, j) == nextIndex[i][j] \in 1..Len(log[i])

\* IncrementCommitIndexIfPossible looks at one index only.
CanCommitNext_OneShort(i) ==
    LET n == commitIndex[i] + 1 IN
    /\ n <= Len(log[i])
    /\ Cardinality({j \in Others(i) : matchIndex[i][j] >= n}) >= QuorumSize - 2
    /\ log[i][n].term = currentTerm[i]
CanCommitNext(i) ==
    LET n == commitIndex[i] + 1 IN
    /\ n <= Len(log[i])
    /\ Cardinality({j \in Others(i) : matchIndex[i][j] >= n}) >= QuorumSize - 1
    /\ log[i][n].term = currentTerm[i]

BeginSync(i) ==
    /\ serverState[i] = Leader
    /\ Alive(i)
    /\ call[i]["sync"] = [j \in Server |-> IdleCall]
    /\ call' = [call EXCEPT ![i]["sync"] =
                  [j \in Server |-> IF j = i THEN Done(FALSE) ELSE Spawned]]
    /\ UNCHANGED <<diskVars, commitVars, leaderVars, nodeVars, late, clientVars, faults>>

(* SendAppendEntriesReplicationRpcForFollower up to the RPC: the entry at     *)
(* nextIndex, if there is one.                                                *)
SendSync(i, j) ==
    /\ call[i]["sync"][j].phase = "spawned"
    /\ LET n == nextIndex[i][j] IN
       call' = [call EXCEPT ![i]["sync"][j] =
          IF Lacks(i, j)
          THEN [IdleCall EXCEPT
                  !.phase = "sent",
                  !.req = [term |-> currentTerm[i],
                           prevIndex |-> n - 1,
                           prevTerm |-> TermAt(log[i], n - 1),
                           entries |-> <<log[i][n]>>,
                           commit |-> commitIndex[i]]]
          ELSE Done(FALSE)]
    /\ UNCHANGED <<diskVars, commitVars, leaderVars, nodeVars, late, clientVars, faults>>

SkipSync(i, j) ==
    /\ call[i]["sync"][j].phase = "spawned"
    /\ serverState[i] # Leader
    /\ call' = [call EXCEPT ![i]["sync"][j] = Done(FALSE)]
    /\ UNCHANGED <<diskVars, commitVars, leaderVars, nodeVars, late, clientVars, faults>>

(* The rest of it.  Whether i still leads in the request's term is not asked: *)
(* nextIndex and matchIndex may belong to a later leadership.                 *)
ReceiveSyncReply(i, j) ==
    LET reply == call[i]["sync"][j] IN
    /\ reply.phase = "answered"
    /\ IF reply.term > reply.req.term
       THEN /\ StepDownIfStale(i, reply.term)
            /\ poll' = [poll EXCEPT ![i].count = CountAfter(i, reply.term)]
            /\ UNCHANGED leaderVars
       ELSE /\ IF reply.ok
               THEN /\ nextIndex' = [nextIndex EXCEPT ![i][j] = reply.req.prevIndex + 2]
                    /\ matchIndex' = [matchIndex EXCEPT ![i][j] = reply.req.prevIndex + 1]
               ELSE /\ nextIndex' = [nextIndex EXCEPT ![i][j] = @ - 1]
                    /\ UNCHANGED matchIndex
            /\ UNCHANGED <<currentTerm, votedFor, serverState, poll>>
    /\ call' = [call EXCEPT ![i]["sync"][j] = Done(reply.ok)]
    /\ UNCHANGED <<log, db, commitVars, loop, serving, late, clientVars, faults>>

EndSync(i) ==
    /\ \A j \in Server : call[i]["sync"][j].phase = "done"
    /\ call' = [call EXCEPT ![i]["sync"] = [j \in Server |-> IdleCall]]
    /\ commitIndex' = IF CanCommitNext(i) THEN [commitIndex EXCEPT ![i] = @ + 1] ELSE commitIndex
    /\ UNCHANGED <<diskVars, lastApplied, leaderVars, nodeVars, late, clientVars, faults>>
-------------------------------------------------------------------------------
(* handleAppendEntriesRpc and handleHeartBeatRpc at j.                        *)
IsHeartbeat(req) == req.entries = <<>>

HasPrevious_AnyTerm(j, req) == req.prevIndex <= Len(log[j])
HasPrevious_NotEvenFirst(j, req) ==
    /\ req.prevIndex \in DOMAIN log[j]
    /\ log[j][req.prevIndex].term = req.prevTerm
HasPrevious(j, req) ==
    req.prevIndex > 0 =>
        /\ req.prevIndex <= Len(log[j])
        /\ log[j][req.prevIndex].term = req.prevTerm

Accepts(j, req) ==
    /\ req.term >= currentTerm[j]
    /\ IsHeartbeat(req) \/ HasPrevious(j, req)

\* A conflicting entry goes, with all that follow it.
LogAfter_Truncates(j, req) ==
    IF ~ Accepts(j, req) \/ IsHeartbeat(req) THEN log[j]
    ELSE Append(SubSeq(log[j], 1, req.prevIndex), req.entries[1])
LogAfter_AlwaysAppends(j, req) ==
    IF ~ Accepts(j, req) \/ IsHeartbeat(req) THEN log[j]
    ELSE Append(log[j], req.entries[1])
LogAfter(j, req) ==
    LET n == req.prevIndex + 1 IN
    IF ~ Accepts(j, req) \/ IsHeartbeat(req) THEN log[j]
    ELSE IF n <= Len(log[j]) /\ log[j][n].term = req.entries[1].term THEN log[j]
    ELSE Append(SubSeq(log[j], 1, n - 1), req.entries[1])

\* A heartbeat does not say how far the logs agree.
CommitTarget(j, req) ==
    Lesser(req.commit, IF IsHeartbeat(req) THEN Len(log[j]) ELSE req.prevIndex + 1)

CommitsUpTo(j, req) == Accepts(j, req) /\ req.commit > commitIndex[j]

(* MoveCommitIndexTo: a target below the commit index is only logged, and the *)
(* slice expression that follows panics.                                      *)
Panics(j, req) == CommitsUpTo(j, req) /\ CommitTarget(j, req) < commitIndex[j]

\* The statements it runs, of the log as it is then.
ToApply_FromStart(j, target) ==
    IF target > lastApplied[j] THEN [n \in 1..target |-> log'[j][n].data] ELSE <<>>
ToApply(j, target) ==
    IF target > lastApplied[j]
    THEN [n \in 1..(target - commitIndex[j]) |-> log'[j][commitIndex[j] + n].data]
    ELSE <<>>

MoveCommitIndexTo(j, target) ==
    /\ db' = [db EXCEPT ![j] = @ \o ToApply(j, target)]
    /\ lastApplied' = [lastApplied EXCEPT ![j] = target]
    /\ commitIndex' = [commitIndex EXCEPT ![j] = target]

Receive(j, req) ==
    /\ loop[j] = "free"
    /\ ~ Panics(j, req)
    /\ StepDownIfStale(j, req.term)
    /\ log' = [log EXCEPT ![j] = LogAfter(j, req)]
    /\ IF CommitsUpTo(j, req)
       THEN MoveCommitIndexTo(j, CommitTarget(j, req))
       ELSE UNCHANGED <<db, commitVars>>
    /\ UNCHANGED <<leaderVars, loop, serving, poll, clientVars>>

HandleAppendEntries(i, k, j) ==
    LET req == call[i][k][j].req IN
    /\ call[i][k][j].phase = "sent"
    /\ Receive(j, req)
    /\ call' = [call EXCEPT ![i][k][j] =
                  [@ EXCEPT !.phase = "answered", !.term = currentTerm'[j],
                            !.ok = Accepts(j, req)]]
    /\ UNCHANGED <<late, faults>>

HandleLate(m) ==
    /\ Receive(m.to, m.req)
    /\ late' = late \ {m}
    /\ UNCHANGED <<call, faults>>

(* A heartbeat and its handling, in one step unless it is delayed; a lost one *)
(* changes nothing, and neither does its response.                            *)
Heartbeat(i) == [NoRequest EXCEPT !.term = currentTerm[i], !.commit = commitIndex[i]]

SendsHeartbeats(i) == Alive(i) /\ serverState[i] = Leader

HandleHeartbeat(i, j) ==
    /\ SendsHeartbeats(i)
    /\ Receive(j, Heartbeat(i))
    /\ UNCHANGED <<call, late, faults>>

DelayHeartbeat(i, j) ==
    /\ SendsHeartbeats(i)
    /\ Alive(j)
    /\ Fault("delay")
    /\ late' = late \cup {[to |-> j, req |-> Heartbeat(i)]}
    /\ UNCHANGED <<diskVars, commitVars, leaderVars, nodeVars, call, clientVars>>
-------------------------------------------------------------------------------
(* Transport errors: the server is not there, or the connection breaks.  Then *)
(* the request is left behind, and it is handled at once (the answer is lost),*)
(* late, or never.                                                            *)
Refused(i, k, j) ==
    /\ call[i][k][j].phase = "sent"
    /\ ~ Alive(j)
    /\ call' = [call EXCEPT ![i][k][j] = Done(FALSE)]
    /\ UNCHANGED <<diskVars, commitVars, leaderVars, nodeVars, late, clientVars, faults>>

Break(i, k, j) ==
    /\ call[i][k][j].phase = "sent"
    /\ Alive(j)
    /\ Fault(k)
    /\ late' = late \cup {[to |-> j, req |-> call[i][k][j].req]}
    /\ call' = [call EXCEPT ![i][k][j] = Done(FALSE)]
    /\ UNCHANGED <<diskVars, commitVars, leaderVars, nodeVars, clientVars>>

(* A process ends.  The raft log and the database are files, the rest is      *)
(* gone; the calls to it fail, and its own requests are left behind.          *)
Die(i, how) ==
    /\ loop' = [loop EXCEPT ![i] = how]
    /\ serving' = [serving EXCEPT ![i] = Nil]
    /\ poll' = [poll EXCEPT ![i] = NoPoll]
    /\ serverState' = [serverState EXCEPT ![i] = Follower]
    /\ commitIndex' = [commitIndex EXCEPT ![i] = 0]
    /\ lastApplied' = [lastApplied EXCEPT ![i] = 0]
    /\ matchIndex' = [matchIndex EXCEPT ![i] = ForEachServer(0)]
    /\ nextIndex' = [nextIndex EXCEPT ![i] = ForEachServer(1)]
    /\ call' = [h \in Server |-> [k \in Kind |-> [j \in Server |->
                  IF h = i THEN IdleCall
                  ELSE IF j = i /\ call[h][k][j].phase = "sent" THEN Done(FALSE)
                  ELSE call[h][k][j]]]]
    /\ late' = {m \in late : m.to # i} \cup
               UNION {{[to |-> j, req |-> call[i][k][j].req] :
                          k \in {x \in Kind : call[i][x][j].phase = "sent"}} :
                         j \in {h \in Others(i) : Alive(h)}}
    /\ UNCHANGED <<db, clientVars>>

Crash(i) ==
    /\ Alive(i)
    /\ Fault("crash")
    /\ Die(i, "down")
    /\ UNCHANGED <<currentTerm, votedFor, log>>

\* The requests that may be given to j next.
Incoming(j) ==
    {m.req : m \in {l \in late : l.to = j}}
    \cup {Heartbeat(i) : i \in {h \in Others(j) : SendsHeartbeats(h)}}
    \cup UNION {{call[i][k][j].req : k \in {x \in Kind : call[i][x][j].phase = "sent"}} :
                   i \in Others(j)}

(* By then the handler has written the term and the entry.                    *)
Panic(j, req) ==
    /\ loop[j] = "free"
    /\ Panics(j, req)
    /\ currentTerm' = [currentTerm EXCEPT ![j] = req.term]
    /\ votedFor' = IF req.term > currentTerm[j] THEN [votedFor EXCEPT ![j] = Nil] ELSE votedFor
    /\ log' = [log EXCEPT ![j] = LogAfter(j, req)]
    /\ Die(j, "panicked")
    /\ UNCHANGED faults

Restart_ForgetsTerm(i) ==
    /\ ~ Alive(i)
    /\ loop' = [loop EXCEPT ![i] = "free"]
    /\ currentTerm' = [currentTerm EXCEPT ![i] = 0]
    /\ UNCHANGED <<votedFor, log, db, commitVars, leaderVars, serverState, serving, poll,
                   call, late, clientVars, faults>>
Restart(i) ==
    /\ ~ Alive(i)
    /\ loop' = [loop EXCEPT ![i] = "free"]
    /\ UNCHANGED <<diskVars, commitVars, leaderVars, serverState, serving, poll, call,
                   late, clientVars, faults>>
-------------------------------------------------------------------------------
ServerNext(i) ==
    \/ Campaign(i) \/ FinishCampaign(i)
    \/ \E c \in Command : AcceptCommand(i, c)
    \/ AppendCommand(i) \/ FinishCommand(i)
    \/ BeginSync(i) \/ EndSync(i)
    \/ Crash(i) \/ Restart(i)
    \/ \E req \in Incoming(i) : Panic(i, req)

PairNext(i, j) ==
    \/ HandleVote(i, j) \/ LoseVote(i, j)
    \/ SendEntry(i, j) \/ SkipEntry(i, j) \/ ReceiveEntryReply(i, j)
    \/ SendSync(i, j) \/ SkipSync(i, j) \/ ReceiveSyncReply(i, j)
    \/ HandleHeartbeat(i, j) \/ DelayHeartbeat(i, j)
    \/ \E k \in Kind : HandleAppendEntries(i, k, j) \/ Refused(i, k, j) \/ Break(i, k, j)

Next ==
    \/ \E i \in Server : ServerNext(i)
    \/ \E i \in Server : \E j \in Others(i) : PairNext(i, j)
    \/ \E m \in late : HandleLate(m)

Spec == Init /\ [][Next]_vars

(* Goroutines run, requests reach servers that listen, and the leader's timer *)
(* for heartbeats fires.  Nothing is assumed of campaigns, clients, crashes,  *)
(* errors and restarts.                                                       *)
Fairness ==
    /\ \A i \in Server :
          /\ WF_vars(FinishCampaign(i))
          /\ WF_vars(AppendCommand(i) \/ FinishCommand(i))
          /\ WF_vars(BeginSync(i))
          /\ WF_vars(EndSync(i))
    /\ \A i \in Server : \A j \in Others(i) :
          /\ WF_vars(HandleVote(i, j) \/ LoseVote(i, j))
          /\ WF_vars(SendEntry(i, j) \/ SkipEntry(i, j))
          /\ WF_vars(ReceiveEntryReply(i, j))
          /\ WF_vars(SendSync(i, j) \/ SkipSync(i, j))
          /\ WF_vars(ReceiveSyncReply(i, j))
          /\ WF_vars(HandleHeartbeat(i, j))
          /\ \A k \in Kind : WF_vars(HandleAppendEntries(i, k, j) \/ Refused(i, k, j))

FairSpec == Spec /\ Fairness
-------------------------------------------------------------------------------
(* Types and ranges of the variables.  nextIndex never goes down to 0, although*)
(* nothing stops a rejection from decrementing it: "TODO: See if we can avoid *)
(* hack fix" guards its use.                                                  *)
TypeOK ==
    /\ currentTerm \in [Server -> Nat]
    /\ votedFor \in [Server -> Server \cup {Nil}]
    /\ log \in [Server -> Seq(Entry)]
    /\ db \in [Server -> Seq(Command)]
    /\ serverState \in [Server -> {Follower, Leader}]
    /\ loop \in [Server -> LoopState]
    /\ serving \in [Server -> Command \cup {Nil}]
    /\ \A i \in Server : serving[i] \in Command <=> loop[i] \in {"accepted", "mutating"}
    /\ poll \in [Server -> Poll]
    /\ \A i \in Server : loop[i] # "polling" => poll[i] = NoPoll
    /\ commitIndex \in [Server -> Nat]
    /\ lastApplied \in [Server -> Nat]
    /\ nextIndex \in [Server -> [Server -> Nat \ {0}]]
    /\ matchIndex \in [Server -> [Server -> Nat]]
    /\ call \in [Server -> [Kind -> [Server -> Call]]]
    /\ late \subseteq [to : Server, req : Request]
    /\ acked \subseteq sent /\ sent \subseteq Command
    /\ faults \in Nat

(* Entries of the current term stay where they are, however late or often a   *)
(* request for one of them arrives.  Checked with one leader per term.        *)
CurrentEntriesStay ==
    [][\A i \in Server : \A n \in DOMAIN log[i] :
          log[i][n].term = currentTerm'[i] =>
              n \in DOMAIN log'[i] /\ log'[i][n] = log[i][n]]_<<log, currentTerm>>

Newest(i) == \A j \in Server : currentTerm[j] <= currentTerm[i]

(* "If Code.OK - that means client command was replicated": the leader of the *)
(* newest term has every command whose client was told so.                    *)
AckedSurvives ==
    \A i \in Server :
        serverState[i] = Leader /\ Newest(i) => acked \subseteq Commands(log[i])

(* A command is only answered with OK when a majority has it in its log, and  *)
(* under one leader it stays there, whatever arrives late or twice.           *)
AckedIsReplicated ==
    \A c \in acked : Cardinality({j \in Server : c \in Commands(log[j])}) >= QuorumSize

\* Those that have i's entry n.
Holders(i, n) == {j \in Server : n <= Len(log[j]) /\ log[j][n] = log[i][n]}

(* A leader commits what a majority holds, although its matchIndex is written *)
(* by answers that may be about an earlier leadership or a later log.         *)
CommitIsReplicated ==
    \A i \in Server : serverState[i] = Leader /\ Newest(i) =>
        \A n \in 1..commitIndex[i] :
            n <= Len(log[i]) /\ Cardinality(Holders(i, n)) >= QuorumSize

IsPrefixOf(s, t) == Len(s) <= Len(t) /\ s = SubSeq(t, 1, Len(s))

(* The databases are replicas: of two servers one has run the statements of   *)
(* the other, in the same order, and maybe more.  The leader runs a command   *)
(* when it has replicated it, the others when they learn that it is committed.*)
ReplicasAgree ==
    \A i, j \in Server : IsPrefixOf(db[i], db[j]) \/ IsPrefixOf(db[j], db[i])

(* What two servers have both committed is the same.  A heartbeat says how    *)
(* many entries that is; whether the receiver has the same ones is not asked. *)
CommittedAgree ==
    \A i, j \in Server : \A n \in 1..Lesser(commitIndex[i], commitIndex[j]) :
        log[i][n] = log[j][n]

(* No server runs a statement twice.  Two things must not happen for that: a  *)
(* restart, which replays the log, and a leader deposed while it replicates.  *)
AppliedOnce ==
    \A i \in Server : \A m, n \in DOMAIN db[i] : db[i][m] = db[i][n] => m = n

(* The databases, with what clients are told, implement ReplicatedMachine: the*)
(* order is that of the database that has run most.  Nothing that was run is  *)
(* undone, and OK is the answer to a statement that has been run by then.     *)
Ahead == CHOOSE i \in Server : \A j \in Server : Len(db[j]) <= Len(db[i])
Machine == INSTANCE ReplicatedMachine
               WITH order <- db[Ahead], done <- [i \in Server |-> Len(db[i])]
RunsAsOneMachine == Machine!Spec

(* A server that believes to lead answers a SELECT from its own database and  *)
(* asks nobody.  If OK means "executed on a majority of the raft cluster",    *)
(* such a server has executed every statement whose client was told OK.       *)
QueriesSeeAcked ==
    \A i \in Server : loop[i] = "free" /\ serverState[i] = Leader =>
        acked \subseteq {db[i][n] : n \in DOMAIN db[i]}

(* "Moves the commit index forward": it is never told to move it backwards.   *)
NeverPanics == \A i \in Server : loop[i] # "panicked"

(* "The term when the log entry command was received by the leader": no entry *)
(* is sent with another term than it has in its leader's log.                 *)
EntriesKeepTheirTerm ==
    \A i, j \in Server :
        call[i]["client"][j].phase = "sent" /\ loop[i] = "mutating" =>
            call[i]["client"][j].req.entries[1] = log[i][Len(log[i])]

(* Once a leader has got a command of its own term from a client, it brings   *)
(* the logs of all servers into line with its own, for as long as it leads:   *)
(* nextIndex goes down to where they agree, one rejection at a time.          *)
LogsConverge ==
    \A i \in Server :
        LastTerm(log[i]) = currentTerm[i] /\ serverState[i] = Leader
            ~> serverState[i] # Leader \/ \A j \in Server : log[j] = log[i]

(* A leader is to "wait for all of them to complete" when it has sent a       *)
(* command: some day they are complete, and it serves requests again.         *)
LoopReturns == \A i \in Server : loop[i] = "mutating" ~> loop[i] # "mutating"

(* "If Code.OK - that means client command was replicated/executed on a       *)
(* majority of the raft cluster": every server gets to execute it.            *)
AckedIsExecuted ==
    \A c \in Command : \A i \in Server :
        c \in acked ~> \E n \in DOMAIN db[i] : db[i][n] = c
===============================================================================
