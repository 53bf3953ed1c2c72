--------------------------- MODULE RaftTransport ---------------------------
(***************************************************************************)
(* How log entries travel: RaftClient::AppendEntries packs each into a     *)
(* TransportEntry, a struct with room for the arguments of every kind of   *)
(* operation, and RaftService::AppendEntries unpacks it                    *)
(* (ohmyserver/RaftServiceImpl.C).                                         *)
(*                                                                         *)
(* The arguments of an operation are a std::variant: the record has the    *)
(* fields that its kind holds.  The promise handle of an operation stays   *)
(* behind (withoutPromise), so it is no field here.                        *)
(***************************************************************************)
EXTENDS Integers, Sequences

CONSTANTS
    Garbage     \* the content of a ServerInfo that nobody has initialised

\* The operations over keys, values and ids.
RaftOps(key, val, id) ==
         [kind : {"GET"}, key : key]
    \cup [kind : {"PUT"}, key : key, val : val]
    \cup [kind : {"ADD_SERVER"}, info : [id : id]]
    \cup [kind : {"REMOVE_SERVER"}, id : id]

\* A change of the membership, and the id of the server that it is about.
IsChange(op)  == op.kind \in {"ADD_SERVER", "REMOVE_SERVER"}
ChangedId(op) == IF op.kind = "ADD_SERVER" THEN op.info.id ELSE op.id

-----------------------------------------------------------------------------
\* arg1, arg2 and serverInfo of RaftClient::AppendEntries, per kind.
Arg1(op) ==
    CASE op.kind \in {"GET", "PUT"}    -> op.key
      [] op.kind = "REMOVE_SERVER"     -> op.id
      [] op.kind = "ADD_SERVER"        -> 0
Arg2(op)    == IF op.kind = "PUT" THEN op.val ELSE 0
InfoOf(op)  == IF op.kind = "ADD_SERVER" THEN op.info ELSE Garbage

\* One entry, with the term and the index it has in the leader's log.
PackEntry(e) ==
    [term |-> e.term, index |-> e.index, kind |-> e.op.kind,
     arg1 |-> Arg1(e.op), arg2 |-> Arg2(e.op), serverInfo |-> InfoOf(e.op)]

\* Mutation: the id of REMOVE_SERVER is looked for where ADD_SERVER has it.
UnpackOpFromInfo(t) ==
    CASE t.kind = "GET"           -> [kind |-> "GET", key |-> t.arg1]
      [] t.kind = "PUT"           -> [kind |-> "PUT", key |-> t.arg1, val |-> t.arg2]
      [] t.kind = "ADD_SERVER"    -> [kind |-> "ADD_SERVER", info |-> t.serverInfo]
      [] t.kind = "REMOVE_SERVER" -> [kind |-> "REMOVE_SERVER", id |-> t.serverInfo]

UnpackOp(t) ==
    CASE t.kind = "GET"           -> [kind |-> "GET", key |-> t.arg1]
      [] t.kind = "PUT"           -> [kind |-> "PUT", key |-> t.arg1, val |-> t.arg2]
      [] t.kind = "ADD_SERVER"    -> [kind |-> "ADD_SERVER", info |-> t.serverInfo]
      [] t.kind = "REMOVE_SERVER" -> [kind |-> "REMOVE_SERVER", id |-> t.arg1]

UnpackEntry(t) == [term |-> t.term, index |-> t.index, op |-> UnpackOp(t)]

\* The array of structs that is shipped as one string, and back.
Pack(es)   == [i \in DOMAIN es |-> PackEntry(es[i])]
Unpack(ts) == [i \in DOMAIN ts |-> UnpackEntry(ts[i])]
=============================================================================
