------------------------------ MODULE HostInv ------------------------------
(***************************************************************************)
(* The inductive invariant of module Host, and what its steps are called   *)
(* in the proofs of modules HostNet and HostProofs.                        *)
(***************************************************************************)
EXTENDS Host

\* The places of the thread of a connection.
ConPCs == { "none", "queued", "new", "head", "recv", "serve", "pages", "find", "tree",
            "read", "use", "release", "reply", "leave", "unlink", "exit", "closing" }

\* Where a connection is nobody's to free but that of the socket or its own,
\* where it holds superblocks, and where it has a request to answer.
FreePCs == { "none", "queued", "closing" }

HeldPCs == { "tree", "read", "use", "release" }

BusyPCs == { "serve", "pages", "find", "reply" } \cup HeldPCs

\* The calls on a device: adding one that is in the list, all that work on
\* one, and all that know one.
Adding == { "start", "publish", "set", "unlink" }

WorkPCs == Adding \cup { "insert", "stop", "assert", "close", "put" }

SlotPCs == WorkPCs \cup { "query", "unref" }

Mounts == [ name : Names \cup {None}, ref : Int, linked : BOOLEAN, open : BOOLEAN, set : BOOLEAN,
            sbref : Int, listed : BOOLEAN, stopped : BOOLEAN, id : Ids \cup {None}, removed : BOOLEAN ]

Calls == [ pc : SlotPCs \cup {"idle", "await", "abort", "kill", "join", "devs"}, slot : Slots \cup {None},
           call : {"none", "add", "format", "remove", "query", "start", "stop", "exit"} ]

Servers == [ pc : {"none", "listen", "head", "accept", "again", "asleep", "drain", "wait", "exit"},
             sock : BOOLEAN, stopping : BOOLEAN, stop : BOOLEAN, con : Clients \cup {None} ]

Ops == { "none", "create", "get", "put", "empty", "neigh", "data" }

Cons == [ pc : ConPCs, listed : BOOLEAN, stop : BOOLEAN, err : BOOLEAN, op : Ops, n : {0, 1},
          held : SUBSET Slots ]

Types ==
  /\ plan \in Plan
  /\ disk \in [Names -> Ids \cup {None}]
  /\ mnt \in [Slots -> Mounts]
  /\ ctl \in [Ctls -> Calls]
  /\ srv \in Servers
  /\ con \in [Clients -> Cons]
  /\ cli \in [Clients -> [pc : {"out", "idle", "data", "wait"}, n : {0, 1}]]
  /\ up \in [Clients -> Seq([op : Ops, n : {0, 1}])]
  /\ down \in [Clients -> Seq({0, 1})]
  /\ host \in BOOLEAN
  /\ mode \in {"up", "gone", "oops"}

\* The server's thread: when it waits and when its socket is open, and that it
\* leaves no connection in its list.
ServerOK ==
  /\ srv.con # None <=> srv.pc = "wait"
  /\ srv.sock <=> srv.pc \in {"head", "accept", "again", "asleep"}
  /\ srv.pc \in {"none", "listen", "exit"} => \A c \in Clients : ~con[c].listed

\* A connection is the list's, the server's or its own.
ConOK(c) ==
  /\ con[c].pc = "none" => con[c] = NoCon /\ up[c] = << >>
  /\ con[c].pc = "queued" => srv.sock
  /\ con[c].pc \in FreePCs => ~con[c].listed /\ srv.con # c
  /\ con[c].pc \notin FreePCs => (con[c].listed <=> srv.con # c)
  /\ con[c].pc \notin HeldPCs => con[c].held = {}

\* A call of a client is in one place at most: a packet on its way up, the
\* request that is being served, or the answer on its way down.
StreamOK(c) ==
  /\ \A i, j \in DOMAIN up[c] : up[c][i].op # "data" /\ up[c][j].op # "data" => i = j
  /\ con[c].pc \in BusyPCs => \A i \in DOMAIN up[c] : up[c][i].op = "data"
  /\ down[c] # << >> => /\ con[c].pc \notin BusyPCs
                        /\ \A i \in DOMAIN up[c] : up[c][i].op = "data"
                        /\ cli[c].pc \in {"data", "wait"} /\ down[c] = << cli[c].n >>
  /\ cli[c].pc # "out" =>
       /\ con[c].pc \in BusyPCs => cli[c].pc \in {"data", "wait"} /\ con[c].n = cli[c].n
       /\ \A i \in DOMAIN up[c] : up[c][i].op # "data" =>
            cli[c].pc \in {"data", "wait"} /\ up[c][i].n = cli[c].n

\* A control call.  While the module exits there is no other, and once the
\* server is stopped there is no server.
CtlOK(t) ==
  /\ ctl[t].pc = "idle" => ctl[t] = NoCall
  /\ ctl[t].pc \in SlotPCs <=> ctl[t].slot # None
  /\ ctl[t].pc \in {"query", "unref"} => ctl[t].call = "query"
  /\ ctl[t].pc = "devs" => ctl[t].call = "exit"
  /\ ctl[t].call = "exit" =>
       /\ \A u \in Ctls \ {t} : ctl[u] = NoCall
       /\ ctl[t].pc \notin {"abort", "kill", "join"} => srv.pc = "none"

Holds(s) == { c \in Clients : s \in con[c].held }

\* What call t knows of the device s it works on.
WorkOK(t, s) ==
  /\ ctl[t].pc \in Adding \cup {"insert"} => /\ ctl[t].call \in {"add", "format"}
                                             /\ mnt[s].open /\ ~mnt[s].set
  /\ ctl[t].pc \in Adding => mnt[s].linked \/ \E u \in Works(s) : ctl[u].call = "remove"
  /\ ctl[t].pc = "insert" => ~mnt[s].linked
  /\ ctl[t].pc \in {"insert", "start", "unlink"} => mnt[s].sbref = 0
  /\ ctl[t].pc = "publish" => mnt[s].sbref = 1
  /\ ctl[t].pc \in {"insert", "start", "unlink", "publish", "assert", "close", "put"} => ~mnt[s].listed
  /\ ctl[t].pc = "set" => mnt[s].listed
  /\ ctl[t].pc \in {"stop", "assert"} => ctl[t].call \in {"remove", "exit"}
  /\ ctl[t].pc \in {"close", "put"} /\ ctl[t].call \notin {"remove", "exit"} =>
       mnt[s].sbref = 0 /\ ~mnt[s].linked
  /\ ctl[t].call = "remove" => mnt[s].removed /\ ~mnt[s].linked
  /\ ctl[t].call = "exit" => mnt[s].linked
  /\ ctl[t].pc = "stop" => mnt[s].set \/ \E u \in Works(s) : ctl[u].pc \in Adding

\* The counts of RefsExact.
CountOK(s) ==
  /\ mnt[s].ref = Cardinality(Asks(s)) + IF mnt[s].linked \/ Works(s) # {} THEN 1 ELSE 0
  /\ mnt[s].sbref = Cardinality(Holds(s))
       + IF mnt[s].set \/ \E t \in Works(s) : ctl[t].pc \in {"publish", "set"} THEN 1 ELSE 0

\* A device: of two calls that work on it one adds it, and the other has taken
\* it off the list meanwhile and is about to find out.
SlotOK(s) ==
  /\ CountOK(s)
  /\ mnt[s].ref = 0 /\ mnt[s].sbref = 0 => mnt[s] = NoMnt
  /\ mnt[s].set => mnt[s].ref > 0
  /\ mnt[s].listed => mnt[s].open
  /\ Holds(s) # {} => mnt[s].open \/ mnt[s].removed
  /\ mnt[s].linked => mnt[s].set \/ \E t \in Works(s) : ctl[t].pc \in Adding
  /\ mnt[s].linked => \A t \in Works(s) : ctl[t].pc \in Adding \/ ctl[t].call = "exit"
  /\ \A t \in Works(s) : WorkOK(t, s)
  /\ \A t, u \in Works(s) : t # u => \/ ctl[t].pc = "stop" /\ ctl[u].pc \in Adding
                                     \/ ctl[u].pc = "stop" /\ ctl[t].pc \in Adding

\* No two superblocks of the list have one id.
ListOK ==
  \A r, s \in Slots : mnt[r].listed /\ mnt[s].listed /\ mnt[r].id = mnt[s].id => r = s

\* What the exit of the module leaves.
GoneOK ==
  mode = "gone" => /\ \A s \in Slots : mnt[s] = NoMnt
                   /\ \A c \in Clients : con[c].pc \in {"none", "closing"}

NetInv == ServerOK /\ \A c \in Clients : ConOK(c) /\ StreamOK(c)

DevInv == ListOK /\ (\A t \in Ctls : CtlOK(t)) /\ \A s \in Slots : SlotOK(s)

IInv == Types /\ NetInv /\ DevInv /\ GoneOK /\ HostSafe

(* The connections.                                                        *)
\* Only client c and its connection take part.
OnlyAt(c) ==
  \A d \in Clients \ {c} : /\ con'[d] = con[d] /\ cli'[d] = cli[d]
                           /\ up'[d] = up[d] /\ down'[d] = down[d]

\* The server's thread is at most woken.
SrvSame ==
  /\ srv'.con = srv.con /\ srv'.sock = srv.sock
  /\ srv'.pc = srv.pc \/ (srv.pc = "asleep" /\ srv'.pc = "again")

\* Call t, which works on device s, goes on to l and leaves r of the device.
Worked(t, s, l, r) ==
  /\ mnt'[s] = r /\ Works(s)' = Works(s) /\ Asks(s)' = Asks(s) /\ Holds(s)' = Holds(s)
  /\ t \in Works(s) /\ Works(s) \subseteq Ctls
  /\ ctl'[t].pc = l /\ ctl'[t].call = ctl[t].call /\ \A u \in Works(s) \ {t} : ctl'[u] = ctl[u]
  /\ mnt'[s].ref = Cardinality(Asks(s)') + IF mnt'[s].linked \/ Works(s)' # {} THEN 1 ELSE 0
  /\ mnt'[s].ref > 0
  /\ \A u \in Works(s) : WorkOK(u, s)
  /\ \A u \in Works(s) \ {t} : \/ ctl[t].pc = "stop" /\ ctl[u].pc \in Adding
                               \/ ctl[u].pc = "stop" /\ ctl[t].pc \in Adding

\* Call t turns into v, a sound one, and leaves r of device s, which may leave
\* the list of superblocks.
Turns(t, s, v, r) ==
  /\ v \in Calls /\ r \in Mounts /\ ctl' = [ctl EXCEPT ![t] = v] /\ Set(s, r)
  /\ ctl[t].slot \in {s, None} /\ v.slot \in {s, None} /\ (v.pc \in SlotPCs <=> v.slot # None)
  /\ r.listed => mnt[s].listed /\ r.id = mnt[s].id
  /\ ctl[t] # NoCall \/ \A u \in Ctls : ctl[u].call # "exit"
  /\ v.pc = "idle" => v = NoCall
  /\ v.pc \in {"query", "unref"} => v.call = "query"
  /\ v.pc = "devs" => v.call = "exit"
  /\ v.call = "exit" => ctl[t].call = "exit" /\ ctl[t].pc \notin {"abort", "kill", "join"}
  /\ UNCHANGED << disk, net, world >>

\* Call t turns into v, and neither of them knows a device.
Aside(t, v) ==
  /\ v \in Calls /\ ctl' = [ctl EXCEPT ![t] = v] /\ mnt' = mnt /\ con' = con
  /\ ctl[t].slot = None /\ v.slot = None /\ v.pc \notin SlotPCs
  /\ v.pc = "idle" => v = NoCall
  /\ v.pc = "devs" => v.call = "exit"
  /\ v.call = "exit" => /\ \A u \in Ctls \ {t} : ctl[u] = NoCall
                        /\ v.pc \notin {"abort", "kill", "join"} => srv'.pc = "none"
  /\ ctl[t] # NoCall \/ \A u \in Ctls : ctl[u].call # "exit"

\* What may change of a device when requests take and drop its superblock.
Recounted(s) ==
  /\ mnt'[s] \in Mounts /\ ctl' = ctl
  /\ mnt'[s].sbref - Cardinality(Holds(s)') = mnt[s].sbref - Cardinality(Holds(s))
  /\ mnt'[s].ref = mnt[s].ref /\ mnt'[s].linked = mnt[s].linked /\ (mnt'[s].set <=> mnt[s].set)
  /\ \/ /\ mnt'[s].open = mnt[s].open /\ mnt'[s].listed = mnt[s].listed /\ mnt'[s].removed = mnt[s].removed
        /\ mnt'[s].ref # 0 \/ mnt'[s].sbref # 0
        /\ Holds(s)' # {} => mnt[s].open \/ mnt[s].removed
     \/ mnt'[s] = NoMnt /\ mnt[s].ref = 0
  /\ ~\E t \in Works(s) : ctl[t].pc \in {"insert", "start", "unlink", "publish", "close", "put"}
                            /\ ctl[t].call \notin {"remove", "exit"}

\* The ways in which the host comes to harm.
Harm ==
  \/ \E s \in Slots :
       \/ mnt[s].removed /\ \E c \in Clients : s \in con[c].held
       \/ mnt[s].removed /\ \E t \in Works(s) : ctl[t].call \in {"add", "format"}
       \/ ~mnt[s].open /\ \E t \in Asks(s) : ctl[t].pc = "query"
  \/ ~host /\ \E c \in Clients : con[c].pc = "serve" /\ con[c].op = "neigh"

\* A device that is added at the start.
Added(n) == [ name |-> n, ref |-> 1, linked |-> TRUE, open |-> TRUE, set |-> TRUE, sbref |-> 1,
              listed |-> TRUE, stopped |-> FALSE, id |-> plan.disk[n], removed |-> FALSE ]

\* No request takes or drops a superblock.
SameHeld == \A d \in Clients : con'[d].held = con[d].held

=============================================================================
