------------------------------ MODULE Failover ------------------------------
(***************************************************************************)
(* The two loops that look for the leader: ReplicatedDB::get and put       *)
(* (ohmydb/ReplicatedDB.H), which every client runs, and AddServer and     *)
(* RemoveServer of the admin tool (ohmyserver/admin.cpp).                  *)
(*                                                                         *)
(* Both try one server at a time.  A server that is not the leader answers *)
(* with the address of the last leader it knows of.  When an RPC fails the *)
(* loops go on to the servers of the configuration, by counting ids: the   *)
(* client starts again when it has counted them all, the tool gives up.    *)
(* The number of ids is the size of a std::map that the lookups themselves *)
(* enlarge, since operator[] inserts an id that it does not find.          *)
(*                                                                         *)
(* The replicas are here only what the loops see of them.  Their           *)
(* membership does not change.                                             *)
(***************************************************************************)
EXTENDS Integers, FiniteSets

CONSTANTS
    Config,      \* the configurations considered: sets of ids of servers
    MaxTries,    \* MAX_TRIES
    Nowhere      \* an address where nobody listens

ASSUME FailoverAssumption ==
    /\ \A c \in Config : c \subseteq Nat /\ IsFiniteSet(c) /\ c # {}
    /\ MaxTries \in Nat \ {0}
    /\ Nowhere \notin Nat

VARIABLES
    \* the cluster
    servers,    \* the ids in config.csv
    up,         \* the servers that are running
    leaders,    \* the servers whose role is Leader
    known,      \* LastKnownLeaderId of each server
    \* the process with the loop
    program,    \* "ReplicatedDB" or "Admin"
    state,      \* where the call is
    target,     \* the address that client_ is connected to
    ids,        \* the keys of serverInfo_ (servers_ in Admin)
    next,       \* backupID (server_id in Admin)
    iters,      \* the tries that are left
    \* history
    connected,  \* the servers connected to by counting, in this pass
    missed,     \* the servers that some finished pass did not connect to
    disturbed,  \* the cluster changed since the call began
    found,      \* a leader took the call
    astray,     \* the tries that did not reach a leader, since the call began, a
                \* leader last took it or the cluster changed,
    failures,   \* those of them whose RPC failed,
    visited     \* and the servers that redirected the call since the last of these

clusterVars == <<servers, up, leaders, known>>
loopVars    == <<program, state, target, ids, next, iters>>
counted     == <<connected, missed>>
tries       == <<disturbed, found, astray, failures, visited>>
history     == <<counted, tries>>
vars        == <<clusterVars, loopVars, history>>

Programs == {"ReplicatedDB", "Admin"}
Ended    == {"answered", "exceeded", "dead", "noPing"}
States   == {"idle", "trying", "waiting", "failed"} \cup Ended

\* The address of an id: the entry that operator[] inserts has none.
Address(id) == IF id \in servers THEN id ELSE Nowhere

\* The constructor of ReplicatedDB connects to serverInfo[0]; that of Admin to an
\* address which no operation uses.
Init ==
    /\ servers \in Config
    /\ up \in SUBSET servers
    /\ leaders \in SUBSET up
    /\ known \in [servers -> servers \cup {0}]
    /\ program \in Programs
    /\ state = "idle"
    /\ target = IF program = "ReplicatedDB" THEN Address(0) ELSE Nowhere
    /\ ids = IF program = "ReplicatedDB" THEN servers \cup {0} ELSE servers
    /\ next = 0
    /\ iters = 0
    /\ connected = {}
    /\ missed = {}
    /\ disturbed = FALSE
    /\ found = FALSE
    /\ astray = 0 /\ failures = 0 /\ visited = {}

\* From here on the tries that go astray are counted anew.
CountAnew == astray' = 0 /\ failures' = 0 /\ visited' = {}

-----------------------------------------------------------------------------
(* The cluster, as far as it answers clients.                              *)

\* The call that s is serving fails with its process.
Die(s) ==
    /\ s \in up
    /\ up' = up \ {s}
    /\ leaders' = leaders \ {s}
    /\ state' = IF state = "waiting" /\ target = s THEN "failed" ELSE state
    /\ UNCHANGED <<servers, known, program, target, ids, next, iters>>

\* The constructor of RaftManager.
Start(s) ==
    /\ s \in servers \ up
    /\ up' = up \cup {s}
    /\ known' = [known EXCEPT ![s] = 0]
    /\ UNCHANGED <<servers, leaders, loopVars>>

BecomeLeader(s) ==
    /\ s \in up \ leaders
    /\ leaders' = leaders \cup {s}
    /\ known' = [known EXCEPT ![s] = s]
    /\ UNCHANGED <<servers, up, loopVars>>

BecomeFollower(s) ==
    /\ s \in leaders
    /\ leaders' = leaders \ {s}
    /\ UNCHANGED <<servers, up, known, loopVars>>

\* AppendEntries notes the sender before it looks at the term: the request may
\* be one that a former leader sent long ago.
HearFrom(s, l) ==
    /\ s \in up /\ l \in servers \ {s}
    /\ known[s] # l
    /\ known' = [known EXCEPT ![s] = l]
    /\ UNCHANGED <<servers, up, leaders, loopVars>>

ClusterNext ==
    /\ \E s \in servers :
          \/ Die(s) \/ Start(s) \/ BecomeLeader(s) \/ BecomeFollower(s)
          \/ \E l \in servers : HearFrom(s, l)
    /\ disturbed' = TRUE
    /\ CountAnew
    /\ UNCHANGED <<counted, found>>

-----------------------------------------------------------------------------
(* What both loops do.                                                     *)

\* while ( iters-- ): a try is counted when the RPC is sent.
Left == IF state = "trying" THEN iters - 1 ELSE iters

MaySend == state = "trying" /\ iters > 0

\* Mutation: the client does not reconnect.
RedirectNowhere ==
    /\ MaySend \/ (program = "Admin" /\ state = "waiting")
    /\ target \in up \ leaders
    /\ state' = "trying"
    /\ iters' = Left
    /\ astray' = astray + 1
    /\ visited' = visited \cup {target}
    /\ UNCHANGED <<clusterVars, program, target, ids, next, counted, disturbed, found, failures>>

\* NOT_LEADER: connect to where the answer says.  AddServer also answers so when
\* the role is lost while it waits for the commit.
Redirect ==
    /\ MaySend \/ (program = "Admin" /\ state = "waiting")
    /\ target \in up \ leaders
    /\ target' = Address(known[target])
    /\ state' = "trying"
    /\ iters' = Left
    /\ astray' = astray + 1
    /\ visited' = visited \cup {target}
    /\ UNCHANGED <<clusterVars, program, ids, next, counted, disturbed, found, failures>>

\* The leader takes the call.
Accept ==
    /\ MaySend
    /\ target \in leaders
    /\ state' = "waiting"
    /\ iters' = Left
    /\ found' = TRUE
    /\ CountAnew
    /\ UNCHANGED <<clusterVars, program, target, ids, next, counted, disturbed>>

\* The leader answers, and the call returns true, false or a value.
Answer ==
    /\ state = "waiting"
    /\ state' = "answered"
    /\ UNCHANGED <<clusterVars, program, target, ids, next, iters, history>>

\* "Exceeded MAX_TRIES", "Failed to add server after ... tries."
Exceed ==
    /\ state = "trying" /\ iters = 0
    /\ state' = "exceeded"
    /\ UNCHANGED <<clusterVars, program, target, ids, next, iters, history>>

\* The RPC fails, because nobody listens at the address, the server died while
\* it served the call, or the network failed, which counts as a change of the
\* cluster.
Fails ==
    /\ MaySend \/ state \in {"waiting", "failed"}
    /\ iters' = Left
    /\ IF target \in up
       THEN disturbed' = TRUE /\ CountAnew
       ELSE /\ astray' = astray + 1 /\ failures' = failures + 1 /\ visited' = {}
            /\ UNCHANGED disturbed
    /\ UNCHANGED found

-----------------------------------------------------------------------------
(* ReplicatedDB::get and put, which are the same loop.                     *)

CallDB ==
    /\ state \in {"idle"} \cup Ended
    /\ state' = "trying"
    /\ next' = 0
    /\ iters' = MaxTries
    /\ connected' = {}
    /\ disturbed' = FALSE
    /\ found' = FALSE
    /\ CountAnew
    /\ UNCHANGED <<clusterVars, program, target, ids, missed>>

\* Mutation: the size of the configuration, without what lookups inserted.
WrapsAtSize(id) == id + 1 >= Cardinality(servers)

\* Mutation: off by one.
WrapsLate(id) == id >= Cardinality(ids \cup {id})

\* backupID >= serverInfo_.size(), after serverInfo_[backupID] was looked up.
Wraps(id) == id + 1 >= Cardinality(ids \cup {id})

\* Connect to the server backupID.
NextBackup ==
    /\ Fails
    /\ state' = "trying"
    /\ target' = Address(next)
    /\ ids' = ids \cup {next}
    /\ IF Wraps(next)
       THEN /\ next' = 0
            /\ connected' = {}
            /\ missed' = missed \cup (servers \ (connected \cup {next}))
       ELSE /\ next' = next + 1
            /\ connected' = connected \cup {next}
            /\ UNCHANGED missed
    /\ UNCHANGED <<clusterVars, program>>

ClientNext ==
    /\ program = "ReplicatedDB"
    /\ CallDB \/ NextBackup \/ Redirect \/ Accept \/ Answer \/ Exceed

-----------------------------------------------------------------------------
(* Admin::AddServer and RemoveServer.  A process of the tool calls one.    *)

CallAdmin ==
    /\ state = "idle"
    /\ state' = "trying"
    /\ target' = Address(0)
    /\ ids' = ids \cup {0}
    /\ next' = 0
    /\ iters' = MaxTries
    /\ connected' = {0}
    /\ disturbed' = FALSE
    /\ found' = FALSE
    /\ CountAnew
    /\ UNCHANGED <<clusterVars, program, missed>>

\* The server that is to be added does not answer.
NoPing ==
    /\ state = "idle"
    /\ state' = "noPing"
    /\ UNCHANGED <<clusterVars, program, target, ids, next, iters, history>>

\* Mutation: SwitchClient( server_id++ ).
SwitchThenCount ==
    /\ Fails
    /\ next + 1 < Cardinality(ids)
    /\ state' = "trying"
    /\ target' = Address(next)
    /\ ids' = ids \cup {next}
    /\ next' = next + 1
    /\ connected' = connected \cup {next}
    /\ UNCHANGED <<clusterVars, program, missed>>

\* Connect to the next server.
NextServer ==
    /\ Fails
    /\ next + 1 < Cardinality(ids)
    /\ state' = "trying"
    /\ target' = Address(next + 1)
    /\ ids' = ids \cup {next + 1}
    /\ next' = next + 1
    /\ connected' = connected \cup {next + 1}
    /\ UNCHANGED <<clusterVars, program, missed>>

\* "All servers are dead. Aborting."
AllDead ==
    /\ Fails
    /\ next + 1 >= Cardinality(ids)
    /\ state' = "dead"
    /\ next' = next + 1
    /\ missed' = missed \cup (servers \ connected)
    /\ UNCHANGED <<clusterVars, program, target, ids, connected>>

\* PREV_NOT_COMMITTED_TIMEOUT and CUR_NOT_COMMITTED_TIMEOUT.
Retry ==
    /\ state = "waiting"
    /\ state' = "trying"
    /\ UNCHANGED <<clusterVars, program, target, ids, next, iters, history>>

AdminNext ==
    /\ program = "Admin"
    /\ \/ CallAdmin \/ NoPing \/ NextServer \/ AllDead \/ Retry
       \/ Redirect \/ Accept \/ Answer \/ Exceed

Next == ClusterNext \/ ClientNext \/ AdminNext

Spec == Init /\ [][Next]_vars

-----------------------------------------------------------------------------
\* Types.  backupID stays inside the map it counts, although the map and the
\* count grow together; the tool counts one further before it gives up.
TypeOK ==
    /\ servers \in Config
    /\ up \subseteq servers /\ leaders \subseteq up
    /\ known \in [servers -> servers \cup {0}]
    /\ program \in Programs
    /\ state \in States
    /\ target \in servers \cup {Nowhere}
    /\ servers \subseteq ids /\ ids \subseteq Nat
    /\ IsFiniteSet(ids)
    /\ next \in 0..Cardinality(ids)
    /\ program = "ReplicatedDB" => next < Cardinality(ids)
    /\ iters \in 0..MaxTries
    /\ connected \subseteq Nat
    /\ missed \subseteq servers
    /\ disturbed \in BOOLEAN /\ found \in BOOLEAN
    /\ astray \in Nat /\ failures \in Nat /\ visited \subseteq servers

\* A client that starts again at server 0, and a tool that reports all servers
\* dead, has connected to every server of the configuration, also if the ids
\* have gaps or do not begin at 0: ids that do not exist enlarge the map by as
\* much as they delay the count.
EveryServerTried == missed = {}

\* There is a leader, and no running servers send clients only to each other.
\* They may know nothing of the leader, and point to one that is dead.
LeaderReachable ==
    /\ leaders # {}
    /\ \A S \in SUBSET (up \ leaders) : S # {} => \E s \in S : known[s] \notin S

\* The largest id that is counted.
LargestId == CHOOSE n \in servers \cup {0} : \A m \in servers : m <= n

\* The running servers that are not the leader redirect once each between two
\* ids that are counted.
TriesToLeader == (LargestId + 1) * (Cardinality(up \ leaders) + 1)

\* "try until you find a leader": since the cluster last changed no more than
\* TriesToLeader tries in a row went astray, from whatever address and count the
\* loop was at then, also over servers that point to dead leaders: the next one
\* reaches a leader, unless the call has ended before (LeaderIsFound is about that).
FindsLeaderSoon == LeaderReachable => astray <= TriesToLeader

\* "could not find leader": a call during which the cluster does not change
\* reaches a leader.  In particular the tool does not find all servers dead.
LeaderIsFound ==
    LeaderReachable /\ ~disturbed =>
        /\ state # "dead"
        /\ state = "exceeded" /\ MaxTries > TriesToLeader => found
=============================================================================
