-------------------------------- MODULE Host --------------------------------
(***************************************************************************)
(* One host that serves objects: its devices and superblocks (core/dev.c   *)
(* and the list in core/super.c), its server with a thread that accepts    *)
(* and a thread for every connection (core/net.c over core/ksocket.c), the *)
(* control calls and the exit of the kernel module (core/module.c), and    *)
(* the clients (client/lib/client.c) at the other end of the connections.  *)
(*                                                                         *)
(* A record of mnt stands for a struct nkfs_dev and for the struct nkfs_sb *)
(* made by its start, each with its own count of references: they are      *)
(* allocated by one nkfs_dev_add and the superblock never outlives the     *)
(* place.  What a request does inside its superblock is modules Store and  *)
(* Balloc; here it matters which superblock it holds and whether the       *)
(* device is still open when it does input or output.  A stream between a  *)
(* client and its connection carries packets and the data behind them.     *)
(***************************************************************************)
EXTENDS Integers, Sequences, FiniteSets

CONSTANTS
  Clients,  \* client processes; each has one connection at a time
  Ctls,     \* processes that call the control device
  Names,    \* paths of block devices
  Ids,      \* ids of images; nkfs_obj_id_gen gives each once
  Slots,    \* places for a device with its superblock
  Object,   \* the id of the images that hold the object clients ask for
  Plans,    \* scenarios: see Plan
  None

\* A scenario: what the devices hold, which of them may be added and which are
\* at the start, who runs and what they ask, whether memory and reads may fail.
\* nkfs_sb_insert has refused a second device with the id of one that is added.
Plan == [ disk : [Names -> Ids \cup {None}], names : SUBSET Names,
          added : SUBSET Names, clients : SUBSET Clients,
          ctls : SUBSET Ctls, calls : SUBSET {"add", "format", "remove", "query", "start",
          "stop", "exit"}, ops : SUBSET {"create", "get", "put", "empty", "neigh"}, fails : BOOLEAN ]

ASSUME PlanAssumption ==
  /\ \A S \in {Clients, Ctls, Names, Ids, Slots} : IsFiniteSet(S) /\ None \notin S
  /\ Object \in Ids /\ Plans \subseteq Plan
  /\ \A p \in Plans : Cardinality(p.added) <= Cardinality(Slots)
                   /\ \A m, n \in p.added : p.disk[n] # None /\ (p.disk[m] = p.disk[n] => m = n)

VARIABLES
  plan,  \* the scenario
  disk,  \* [Names -> the id in the header of the image, or None]
  mnt,   \* [Slots -> device and superblock]
  ctl,   \* [Ctls -> the control call in progress]
  srv,   \* the server and its thread
  con,   \* [Clients -> the connection and its thread]
  cli,   \* [Clients -> the client]
  up,    \* [Clients -> the stream to the server]
  down,  \* [Clients -> the stream to the client]
  host,  \* nkfs_host, the state of core/route.c, is there
  mode   \* "up", "gone" after the exit, "oops" after an assertion or a bad access

vars == << plan, disk, mnt, ctl, srv, con, cli, up, down, host, mode >>
net == << srv, con, cli, up, down >>
world == << plan, host, mode >>

NoMnt == [ name |-> None, ref |-> 0, linked |-> FALSE, open |-> FALSE, set |-> FALSE,
           sbref |-> 0, listed |-> FALSE, stopped |-> FALSE, id |-> None, removed |-> FALSE ]
NoCall == [ pc |-> "idle", slot |-> None, call |-> "none" ]
NoSrv == [ pc |-> "none", sock |-> FALSE, stopping |-> FALSE, stop |-> FALSE, con |-> None ]
NoCon == [ pc |-> "none", listed |-> FALSE, stop |-> FALSE, err |-> FALSE, op |-> "none",
           n |-> 0, held |-> {} ]

\* nkfs_init has returned, plan.added are added and the server listens.
Init ==
  /\ plan \in Plans
  /\ disk = plan.disk
  /\ LET at == CHOOSE f \in [plan.added -> Slots] : \A m, n \in plan.added : f[m] = f[n] => m = n
         on(s) == { n \in plan.added : at[n] = s }
     IN mnt = [s \in Slots |->
          IF on(s) = {} THEN NoMnt
          ELSE [ NoMnt EXCEPT !.name = CHOOSE n \in on(s) : TRUE, !.ref = 1, !.linked = TRUE,
                 !.open = TRUE, !.set = TRUE, !.sbref = 1, !.listed = TRUE,
                 !.id = plan.disk[CHOOSE n \in on(s) : TRUE] ]]
  /\ ctl = [t \in Ctls |-> NoCall]
  /\ srv = [NoSrv EXCEPT !.pc = "head", !.sock = TRUE]
  /\ con = [c \in Clients |-> NoCon]
  /\ cli = [c \in Clients |-> [pc |-> "out", n |-> 0]]
  /\ up = [c \in Clients |-> << >>]
  /\ down = [c \in Clients |-> << >>]
  /\ host = TRUE
  /\ mode = "up"

Oops == mode' = "oops" /\ UNCHANGED << plan, disk, mnt, ctl, net, host >>

-----------------------------------------------------------------------------
(* The control calls on devices: core/dev.c.                               *)

At(t, l) == mode = "up" /\ ctl[t].pc = l

GoTo(t, l) == ctl' = [ctl EXCEPT ![t].pc = l]

Set(s, r) == mnt' = [mnt EXCEPT ![s] = r]

\* A record whose two counts are 0 is freed.
Freed(r) == IF r.ref = 0 /\ r.sbref = 0 THEN NoMnt ELSE r

\* nkfs_sb_deref
SbDeref(r) == Freed([r EXCEPT !.sbref = @ - 1])

\* nkfs_dev_deref: the last one drops the superblock.
DevDeref(r) ==
  LET d == [r EXCEPT !.ref = @ - 1]
  IN IF d.ref = 0 /\ d.set THEN SbDeref([d EXCEPT !.set = FALSE]) ELSE Freed(d)

\* No process is in the control device while the module exits: an open file
\* holds a reference to the module.
MayCall(t, c) ==
  /\ At(t, "idle")
  /\ t \in plan.ctls /\ c \in plan.calls
  /\ \A u \in Ctls : ctl[u].call # "exit"

\* nkfs_dev_create: the open is exclusive, and fails while another device
\* structure has the path open.
Add(t) ==
  /\ \E r \in Slots : mnt[r] = NoMnt
  /\ \E c \in {"add", "format"}, n \in plan.names :
       LET s == CHOOSE r \in Slots : mnt[r] = NoMnt IN
       /\ MayCall(t, c)
       /\ \A r \in Slots : mnt[r].name = n => ~mnt[r].open
       /\ Set(s, [NoMnt EXCEPT !.name = n, !.ref = 1, !.open = TRUE])
       /\ ctl' = [ctl EXCEPT ![t] = [pc |-> "insert", slot |-> s, call |-> c]]
  /\ UNCHANGED << disk, net, world >>

\* nkfs_dev_insert
Insert(t) ==
  LET s == ctl[t].slot
      dup == \E r \in Slots : mnt[r].linked /\ mnt[r].name = mnt[s].name
  IN /\ At(t, "insert")
     /\ Set(s, [mnt[s] EXCEPT !.linked = ~dup])
     /\ GoTo(t, IF dup THEN "close" ELSE "start")
     /\ UNCHANGED << disk, net, world >>

\* The first half of nkfs_dev_start: nkfs_sb_load, which wants an image, or
\* nkfs_sb_format, which writes one with a new id.
Start(t) ==
  LET s == ctl[t].slot
  IN /\ At(t, "start")
     /\ \/ /\ plan.fails \/ (ctl[t].call = "add" /\ disk[mnt[s].name] = None)
           /\ GoTo(t, "unlink")
           /\ UNCHANGED << disk, mnt >>
        \/ \E i \in Ids :
             /\ \/ ctl[t].call = "add" /\ i = disk[mnt[s].name]
                \/ /\ ctl[t].call = "format"
                   /\ \A n \in Names : disk[n] # i
                   /\ \A r \in Slots : mnt[r].id # i
             /\ disk' = [disk EXCEPT ![mnt[s].name] = i]
             /\ Set(s, [mnt[s] EXCEPT !.sbref = 1, !.id = i])
             /\ GoTo(t, "publish")
     /\ UNCHANGED << net, world >>

\* nkfs_sb_insert with its outcome.
SbInsert(r) ==
  IF \E s \in Slots : mnt[s].listed /\ mnt[s].id = r.id
  THEN [r EXCEPT !.sbref = 0, !.id = None] ELSE [r EXCEPT !.listed = TRUE]

\* The second half of nkfs_dev_start.
Publish(t) ==
  LET s == ctl[t].slot
  IN /\ At(t, "publish")
     /\ Set(s, SbInsert(mnt[s]))
     /\ GoTo(t, IF mnt'[s].listed THEN "set" ELSE "unlink")
     /\ UNCHANGED << disk, net, world >>

SetSb(t) ==
  /\ At(t, "set")
  /\ Set(ctl[t].slot, [mnt[ctl[t].slot] EXCEPT !.set = TRUE])
  /\ ctl' = [ctl EXCEPT ![t] = NoCall]
  /\ UNCHANGED << disk, net, world >>

\* nkfs_dev_unlink: list_del of an entry that is in no list is a bad access.
Unlink(t) ==
  LET s == ctl[t].slot
  IN /\ At(t, "unlink")
     /\ \/ /\ mnt[s].linked
           /\ Set(s, [mnt[s] EXCEPT !.linked = FALSE])
           /\ GoTo(t, "close")
           /\ UNCHANGED << disk, net, world >>
        \/ ~mnt[s].linked /\ Oops

\* nkfs_dev_lookup_unlink
Remove(t) ==
  /\ MayCall(t, "remove")
  /\ \E s \in Slots :
       /\ mnt[s].linked
       /\ Set(s, [mnt[s] EXCEPT !.linked = FALSE, !.removed = TRUE])
       /\ ctl' = [ctl EXCEPT ![t] = [pc |-> "stop", slot |-> s, call |-> "remove"]]
  /\ UNCHANGED << disk, net, world >>

\* nkfs_dev_stop and nkfs_sb_stop up to the assertion.  dev->sb is NULL until
\* the add is at its end.
Stop(t) ==
  LET s == ctl[t].slot
  IN /\ At(t, "stop")
     /\ \/ /\ mnt[s].set
           /\ Set(s, [mnt[s] EXCEPT !.stopped = TRUE, !.listed = FALSE])
           /\ GoTo(t, "assert")
           /\ UNCHANGED << disk, net, world >>
        \/ ~mnt[s].set /\ Oops

\* The threads that have an inode of the superblock in use.
Inside(s) == { c \in Clients : con[c].pc = "use" /\ s \in con[c].held }

\* The rest of nkfs_sb_stop: NKFS_BUG_ON(sb->inodes_active).
NoInodes(t) ==
  /\ At(t, "assert")
  /\ \/ /\ Inside(ctl[t].slot) = {}
        /\ GoTo(t, "close")
        /\ UNCHANGED << disk, mnt, net, world >>
     \/ Inside(ctl[t].slot) # {} /\ Oops

\* nkfs_dev_release
Close(t) ==
  /\ At(t, "close")
  /\ Set(ctl[t].slot, [mnt[ctl[t].slot] EXCEPT !.open = FALSE])
  /\ GoTo(t, "put")
  /\ UNCHANGED << disk, net, world >>

\* Mutant: nkfs_dev_query forgets its reference.
DerefQueryLeaks(t) ==
  /\ At(t, "put") \/ At(t, "unref")
  /\ LET s == ctl[t].slot IN
     Set(s, IF ctl[t].pc = "unref" THEN mnt[s] ELSE DevDeref([mnt[s] EXCEPT !.linked = FALSE]))
  /\ ctl' = [ctl EXCEPT ![t] = IF @.call = "exit" THEN [@ EXCEPT !.pc = "devs", !.slot = None] ELSE NoCall]
  /\ UNCHANGED << disk, net, world >>

\* The nkfs_dev_deref at the end of a call; nkfs_dev_release_all takes the
\* device off the list only now.
Deref(t) ==
  /\ At(t, "put") \/ At(t, "unref")
  /\ LET s == ctl[t].slot IN
     Set(s, DevDeref([mnt[s] EXCEPT !.linked = @ /\ ctl[t].pc = "unref"]))
  /\ ctl' = [ctl EXCEPT ![t] = IF @.call = "exit" THEN [@ EXCEPT !.pc = "devs", !.slot = None] ELSE NoCall]
  /\ UNCHANGED << disk, net, world >>

\* nkfs_dev_query: the lookup,
Query(t) ==
  /\ MayCall(t, "query")
  /\ \E s \in Slots :
       /\ mnt[s].linked
       /\ Set(s, [mnt[s] EXCEPT !.ref = @ + 1])
       /\ ctl' = [ctl EXCEPT ![t] = [pc |-> "query", slot |-> s, call |-> "query"]]
  /\ UNCHANGED << disk, net, world >>

\* and the answer: dev->bdev may have been put in the meantime.
Look(t) ==
  /\ At(t, "query")
  /\ \/ /\ GoTo(t, "unref")
        /\ UNCHANGED << disk, mnt, net, world >>
     \/ ~mnt[ctl[t].slot].open /\ Oops

-----------------------------------------------------------------------------
(* The server: nkfs_server_start and nkfs_server_stop hold srv_list_lock   *)
(* to their end, and there is one server.                                  *)

SrvListLocked == \E t \in Ctls : ctl[t].pc \in {"await", "abort", "kill", "join"}

\* ksock_abort_accept and kthread_stop wake the thread that sleeps in
\* ksock_accept, not one that is about to.
Woken(r) == IF r.pc = "asleep" THEN [r EXCEPT !.pc = "again"] ELSE r

\* nkfs_server_create_start
SrvStart(t) ==
  /\ MayCall(t, "start") /\ ~SrvListLocked
  /\ srv.pc = "none"
  /\ srv' = [NoSrv EXCEPT !.pc = "listen"]
  /\ ctl' = [ctl EXCEPT ![t] = [NoCall EXCEPT !.pc = "await", !.call = "start"]]
  /\ UNCHANGED << disk, mnt, con, cli, up, down, world >>

\* server->comp is complete: the server is listed, or stopped and freed.
Await(t) ==
  /\ At(t, "await") /\ srv.pc # "listen"
  /\ ctl' = [ctl EXCEPT ![t] = IF srv.sock THEN NoCall ELSE [@ EXCEPT !.pc = "abort"]]
  /\ UNCHANGED << disk, mnt, net, world >>

SrvStop(t) ==
  /\ MayCall(t, "stop") /\ ~SrvListLocked
  /\ srv.pc # "none"
  /\ ctl' = [ctl EXCEPT ![t] = [NoCall EXCEPT !.pc = "abort", !.call = "stop"]]
  /\ UNCHANGED << disk, mnt, net, world >>

\* nkfs_server_do_stop
Abort(t) ==
  /\ At(t, "abort")
  /\ srv' = Woken([srv EXCEPT !.stopping = TRUE])
  /\ GoTo(t, "kill")
  /\ UNCHANGED << disk, mnt, con, cli, up, down, world >>

Kill(t) ==
  /\ At(t, "kill")
  /\ srv' = Woken([srv EXCEPT !.stop = TRUE])
  /\ GoTo(t, "join")
  /\ UNCHANGED << disk, mnt, con, cli, up, down, world >>

Join(t) ==
  /\ At(t, "join") /\ srv.pc = "exit"
  /\ srv' = NoSrv
  /\ ctl' = [ctl EXCEPT ![t] = IF @.call = "exit" THEN [@ EXCEPT !.pc = "devs", !.slot = None] ELSE NoCall]
  /\ UNCHANGED << disk, mnt, con, cli, up, down, world >>

\* Mutant: nkfs_exit releases the devices before it stops the server.
ExitDevsFirst(t) ==
  /\ MayCall(t, "exit") /\ \A u \in Ctls : ctl[u].pc = "idle"
  /\ host' = FALSE
  /\ ctl' = [ctl EXCEPT ![t] = [NoCall EXCEPT !.pc = "devs", !.call = "exit"]]
  /\ UNCHANGED << plan, disk, mnt, net, mode >>

\* nkfs_exit: nkfs_route_finit, then nkfs_server_finit
Exit(t) ==
  /\ MayCall(t, "exit") /\ \A u \in Ctls : ctl[u].pc = "idle"
  /\ host' = FALSE
  /\ ctl' = [ctl EXCEPT ![t] =
               [NoCall EXCEPT !.pc = IF srv.pc = "none" THEN "devs" ELSE "abort", !.call = "exit"]]
  /\ UNCHANGED << plan, disk, mnt, net, mode >>

\* and nkfs_dev_finit, device after device.
ExitDevs(t) ==
  /\ At(t, "devs")
  /\ \/ \E s \in Slots :
          /\ mnt[s].linked
          /\ ctl' = [ctl EXCEPT ![t].pc = "stop", ![t].slot = s]
          /\ UNCHANGED mode
     \/ /\ \A s \in Slots : ~mnt[s].linked
        /\ mode' = "gone"
        /\ ctl' = [ctl EXCEPT ![t] = NoCall]
  /\ UNCHANGED << plan, disk, mnt, net, host >>

\* The listening socket, after three tries at a busy address.
Listen ==
  /\ mode = "up" /\ srv.pc = "listen"
  /\ \E ok \in BOOLEAN : srv' = [srv EXCEPT !.sock = ok, !.pc = IF ok THEN "head" ELSE "drain"]
  /\ UNCHANGED << disk, mnt, ctl, con, cli, up, down, world >>

\* The loop of nkfs_server_thread_routine; when it ends the socket is released
\* and connections that nobody accepted are reset.
SrvHead ==
  /\ mode = "up" /\ srv.pc = "head"
  /\ \/ /\ srv.stop
        /\ srv' = [srv EXCEPT !.sock = FALSE, !.pc = "drain"]
        /\ con' = [c \in Clients |-> IF con[c].pc = "queued" THEN NoCon ELSE con[c]]
        /\ up' = [c \in Clients |-> IF con[c].pc = "queued" THEN << >> ELSE up[c]]
     \/ /\ ~srv.stop /\ ~srv.stopping
        /\ srv' = [srv EXCEPT !.pc = "accept"]
        /\ UNCHANGED << con, up >>
  /\ UNCHANGED << disk, mnt, ctl, cli, down, world >>

\* ksock_accept and nkfs_con_start, which may fail.
Accept ==
  /\ mode = "up" /\ srv.pc \in {"accept", "again"}
  /\ \/ \E c \in Clients :
          /\ con[c].pc = "queued"
          /\ \/ con' = [con EXCEPT ![c].pc = "new", ![c].listed = TRUE] /\ UNCHANGED up
             \/ plan.fails /\ con' = [con EXCEPT ![c] = NoCon] /\ up' = [up EXCEPT ![c] = << >>]
          /\ srv' = [srv EXCEPT !.pc = "head"]
     \/ /\ \A c \in Clients : con[c].pc # "queued"
        /\ srv' = [srv EXCEPT !.pc = IF @ = "accept" THEN "asleep" ELSE "head"]
        /\ UNCHANGED << con, up >>
  /\ UNCHANGED << disk, mnt, ctl, cli, down, world >>

\* The end of the thread: each connection still listed is taken off the list,
\* its thread told to stop,
Drain ==
  /\ mode = "up" /\ srv.pc = "drain"
  /\ \/ \E c \in Clients :
          /\ con[c].listed
          /\ con' = [con EXCEPT ![c].listed = FALSE, ![c].stop = TRUE]
          /\ srv' = [srv EXCEPT !.pc = "wait", !.con = c]
     \/ /\ \A c \in Clients : ~con[c].listed
        /\ srv' = [srv EXCEPT !.pc = "exit"]
        /\ UNCHANGED con
  /\ UNCHANGED << disk, mnt, ctl, cli, up, down, world >>

\* waited for (a thread that never ran does not run) and freed.  Its socket is
\* not released.
ConWait ==
  LET c == srv.con
  IN /\ mode = "up" /\ srv.pc = "wait"
     /\ con[c].pc \in {"new", "exit"}
     /\ con' = [con EXCEPT ![c] = NoCon]
     /\ up' = [up EXCEPT ![c] = << >>]
     /\ srv' = [srv EXCEPT !.pc = "drain", !.con = None]
     /\ UNCHANGED << disk, mnt, ctl, cli, down, world >>

-----------------------------------------------------------------------------
(* The thread of a connection: nkfs_con_thread_routine.                    *)

In(c, l) == mode = "up" /\ con[c].pc = l

Move(c, l) == con' = [con EXCEPT ![c].pc = l]

\* The packet is freed and the loop goes round; after nkfs_con_fail it ends.
Done(c) == con' = [con EXCEPT ![c].pc = "head", ![c].op = "none", ![c].n = 0]

Fail(c) == con' = [con EXCEPT ![c].pc = "head", ![c].op = "none", ![c].n = 0, ![c].err = TRUE]

ConOnly == UNCHANGED << disk, mnt, ctl, srv, cli, up, down, world >>

Run(c) == In(c, "new") /\ ~con[c].stop /\ Move(c, "head") /\ ConOnly

\* Mutant: the loop does not ask kthread_should_stop.
ConHeadDeaf(c) ==
  /\ In(c, "head")
  /\ Move(c, IF con[c].err THEN "leave" ELSE "recv")
  /\ ConOnly

ConHead(c) ==
  /\ In(c, "head")
  /\ Move(c, IF con[c].stop \/ con[c].err THEN "leave" ELSE "recv")
  /\ ConOnly

\* Mutant: the signatures and the sum of a packet are not looked at.
PktSoundAny(u) == TRUE

\* net_pkt_check: data are no packet.
PktSound(u) == u.op # "data"

\* nkfs_con_recv_pkt blocks until something comes or the client has gone.
Recv(c) ==
  /\ In(c, "recv")
  /\ \/ /\ up[c] # << >>
        /\ up' = [up EXCEPT ![c] = Tail(@)]
        /\ IF PktSound(Head(up[c]))
           THEN con' = [con EXCEPT ![c].pc = "serve", ![c].op = Head(up[c]).op, ![c].n = Head(up[c]).n]
           ELSE Fail(c)
     \/ up[c] = << >> /\ cli[c].pc = "out" /\ Fail(c) /\ UNCHANGED up
  /\ UNCHANGED << disk, mnt, ctl, srv, cli, down, world >>

\* nkfs_con_process_pkt: where the request goes.  A get of no bytes gets no
\* answer, and without memory for the answer the connection ends.
Serve(c) ==
  /\ In(c, "serve")
  /\ \/ con[c].op = "neigh" /\ ~host /\ Oops
     \/ plan.fails /\ Fail(c) /\ ConOnly
     \/ /\ con[c].op = "neigh" => host
        /\ Move(c, CASE con[c].op = "put" -> "pages"
                      [] con[c].op = "empty" -> "head"
                      [] con[c].op \in {"neigh", "data"} -> "reply"
                      [] OTHER -> "find")
        /\ ConOnly

\* nkfs_con_recv_pages: without memory the data stay in the stream.
Pages(c) ==
  /\ In(c, "pages")
  /\ \/ up[c] # << >> /\ Move(c, "find") /\ up' = [up EXCEPT ![c] = Tail(@)]
     \/ up[c] = << >> /\ cli[c].pc = "out" /\ Fail(c) /\ UNCHANGED up
     \/ plan.fails /\ Move(c, "reply") /\ UNCHANGED up
  /\ UNCHANGED << disk, mnt, ctl, srv, cli, down, world >>

\* nkfs_sb_list_by_obj, or nkfs_sb_select_most_free for a create: the
\* superblocks it may hold on to, under sb_list_lock.
Listed(op) ==
  LET all == { s \in Slots : mnt[s].listed }
  IN IF op = "create" THEN IF all = {} THEN {{}} ELSE { {s} : s \in all }
     ELSE { { s \in all : mnt[s].id = Object /\ ~mnt[s].stopped } }

Find(c) ==
  /\ In(c, "find")
  /\ \E S \in Listed(con[c].op) :
       \/ Cardinality(S) > 1 /\ Oops
       \/ /\ Cardinality(S) <= 1
          /\ con' = [con EXCEPT ![c].held = S, ![c].pc = IF S = {} THEN "reply" ELSE "tree"]
          /\ mnt' = [s \in Slots |-> IF s \in S THEN [mnt[s] EXCEPT !.sbref = @ + 1] ELSE mnt[s]]
          /\ UNCHANGED << disk, ctl, srv, cli, up, down, world >>

\* sb->stopping and the tree of inodes, which refuses once it is stopped.
Tree(c) ==
  /\ In(c, "tree")
  /\ \E s \in con[c].held : Move(c, IF mnt[s].stopped THEN "release" ELSE "read")
  /\ ConOnly

\* nkfs_inode_read and the rest of the request read and write the device.
Read(c) ==
  /\ In(c, "read")
  /\ \E s \in con[c].held :
       \/ ~mnt[s].open /\ Oops
       \/ mnt[s].open /\ Move(c, "use") /\ ConOnly
       \/ mnt[s].open /\ plan.fails /\ Move(c, "release") /\ ConOnly

Use(c) ==
  /\ In(c, "use")
  /\ \E s \in con[c].held :
       \/ ~mnt[s].open /\ Oops
       \/ mnt[s].open /\ Move(c, "release") /\ ConOnly

\* nkfs_sb_list_release
Release(c) ==
  /\ In(c, "release")
  /\ mnt' = [s \in Slots |-> IF s \in con[c].held THEN SbDeref(mnt[s]) ELSE mnt[s]]
  /\ con' = [con EXCEPT ![c].held = {}, ![c].pc = "reply"]
  /\ UNCHANGED << disk, ctl, srv, cli, up, down, world >>

\* nkfs_con_send_reply, with the data of a get: to a client that has gone it
\* may fail or not.
Reply(c) ==
  /\ In(c, "reply")
  /\ \/ /\ cli[c].pc # "out"
        /\ down' = [down EXCEPT ![c] = Append(@, con[c].n)]
        /\ Done(c)
     \/ cli[c].pc = "out" /\ UNCHANGED down /\ (Done(c) \/ Fail(c))
  /\ UNCHANGED << disk, mnt, ctl, srv, cli, up, world >>

\* The end of the thread.  A server that is stopping frees the connection;
\* else the thread does, if it is the one that takes it off the list.
Leave(c) ==
  /\ In(c, "leave")
  /\ Move(c, IF srv.stopping THEN "exit" ELSE "unlink")
  /\ ConOnly

\* Mutant: the list is not asked whether the server has taken the connection.
ConUnlinkBlind(c) ==
  /\ In(c, "unlink")
  /\ con' = [con EXCEPT ![c].listed = FALSE, ![c].pc = "closing"]
  /\ ConOnly

ConUnlink(c) ==
  /\ In(c, "unlink")
  /\ con' = [con EXCEPT ![c].listed = FALSE, ![c].pc = IF con[c].listed THEN "closing" ELSE "exit"]
  /\ ConOnly

\* nkfs_con_close
ConClose(c) ==
  /\ In(c, "closing")
  /\ con' = [con EXCEPT ![c] = NoCon]
  /\ up' = [up EXCEPT ![c] = << >>]
  /\ UNCHANGED << disk, mnt, ctl, srv, cli, down, world >>

-----------------------------------------------------------------------------
(* The client library.                                                     *)

Is(c, l) == mode = "up" /\ cli[c].pc = l

\* nkfs_connect reaches the backlog of the listening socket.
Connect(c) ==
  /\ Is(c, "out") /\ c \in plan.clients
  /\ con[c].pc = "none" /\ srv.sock
  /\ con' = [con EXCEPT ![c].pc = "queued"]
  /\ cli' = [cli EXCEPT ![c].pc = "idle"]
  /\ srv' = Woken(srv)
  /\ UNCHANGED << disk, mnt, ctl, up, down, world >>

Quit(c) ==
  /\ cli' = [cli EXCEPT ![c] = [pc |-> "out", n |-> 0]]
  /\ down' = [down EXCEPT ![c] = << >>]
  /\ UNCHANGED << disk, mnt, ctl, srv, con, up, world >>

\* A packet goes into the stream; if the server has closed it the send fails,
\* or only the recv that follows finds out.
Send(c) ==
  /\ Is(c, "idle")
  /\ \E op \in plan.ops :
       /\ cli' = [cli EXCEPT ![c].pc = IF op = "put" THEN "data" ELSE "wait", ![c].n = 1 - @]
       /\ up' = IF con[c].pc = "none" THEN up
                ELSE [up EXCEPT ![c] = Append(@, [op |-> op, n |-> 1 - cli[c].n])]
  /\ UNCHANGED << disk, mnt, ctl, srv, con, down, world >>

SendData(c) ==
  /\ Is(c, "data")
  /\ cli' = [cli EXCEPT ![c].pc = "wait"]
  /\ up' = IF con[c].pc = "none" THEN up
           ELSE [up EXCEPT ![c] = Append(@, [op |-> "data", n |-> cli[c].n])]
  /\ UNCHANGED << disk, mnt, ctl, srv, con, down, world >>

\* con_recv; at the end of the stream it loops for ever.
Receive(c) ==
  /\ Is(c, "wait")
  /\ down[c] # << >>
  /\ down' = [down EXCEPT ![c] = Tail(@)]
  /\ cli' = [cli EXCEPT ![c].pc = "idle"]
  /\ UNCHANGED << disk, mnt, ctl, srv, con, up, world >>

\* nkfs_close, or a send that fails.
CliClose(c) == Is(c, "idle") /\ Quit(c)

\* The process is killed in the middle of a call.
CliKilled(c) == mode = "up" /\ cli[c].pc \in {"data", "wait"} /\ Quit(c)

-----------------------------------------------------------------------------

\* What a control process does once it is in its call.
Ctl(t) ==
  \/ Insert(t) \/ Start(t) \/ Publish(t) \/ SetSb(t) \/ Unlink(t)
  \/ Stop(t) \/ NoInodes(t) \/ Close(t) \/ Deref(t) \/ Look(t)
  \/ Await(t) \/ Abort(t) \/ Kill(t) \/ Join(t) \/ ExitDevs(t)

Call(t) == Add(t) \/ Remove(t) \/ Query(t) \/ SrvStart(t) \/ SrvStop(t) \/ Exit(t)

Server == Listen \/ SrvHead \/ Accept \/ Drain \/ ConWait

Thread(c) ==
  \/ Run(c) \/ ConHead(c) \/ Recv(c) \/ Serve(c) \/ Pages(c) \/ Find(c) \/ Tree(c)
  \/ Read(c) \/ Use(c) \/ Release(c) \/ Reply(c) \/ Leave(c) \/ ConUnlink(c) \/ ConClose(c)

Client(c) == Send(c) \/ SendData(c) \/ Receive(c) \/ CliClose(c)

Next ==
  \/ \E t \in Ctls : Call(t) \/ Ctl(t)
  \/ Server
  \/ \E c \in Clients : Thread(c) \/ Client(c) \/ Connect(c) \/ CliKilled(c)

Spec == Init /\ [][Next]_vars

\* The kernel runs its threads and the callers of the control device; a client
\* that is running goes on to its next call or closes.  Nobody has to connect,
\* to be killed or to make a control call.
Fairness ==
  /\ WF_vars(Server)
  /\ \A t \in Ctls : WF_vars(Ctl(t))
  /\ \A c \in Clients : WF_vars(Thread(c)) /\ WF_vars(Client(c))

FairSpec == Spec /\ Fairness

-----------------------------------------------------------------------------

Asks(s) == { t \in Ctls : ctl[t].slot = s /\ ctl[t].pc \in {"query", "unref"} }
Works(s) == { t \in Ctls : ctl[t].slot = s } \ Asks(s)

\* The counts of a device and of its superblock are those of the list, the
\* calls and the requests that hold them (nkfs_dev_deref, nkfs_sb_deref), and
\* the exit of the module leaves nothing behind.
RefsExact ==
  /\ \A s \in Slots :
       /\ mnt[s].ref = Cardinality(Asks(s)) + IF mnt[s].linked \/ Works(s) # {} THEN 1 ELSE 0
       /\ mnt[s].sbref = Cardinality({ c \in Clients : s \in con[c].held })
            + IF mnt[s].set \/ \E t \in Works(s) : ctl[t].pc \in {"publish", "set"} THEN 1 ELSE 0
  /\ mode = "gone" => \A s \in Slots : mnt[s] = NoMnt

\* A connection is freed once: it is in the server's list, or the server has
\* taken it off to wait for it, or its own thread has, and no two of these
\* (nkfs_con_thread_routine against nkfs_server_thread_routine).  A module that
\* has exited leaves at most threads on their last call.
ConOwned ==
  /\ \A c \in Clients :
       Cardinality({ o \in {"list", "server", "self"} :
           \/ o = "list" /\ con[c].listed
           \/ o = "server" /\ srv.con = c
           \/ o = "self" /\ con[c].pc = "closing" })
         = IF con[c].pc \in {"none", "queued"} THEN 0 ELSE 1
  /\ mode = "gone" => \A c \in Clients : con[c].pc \in {"none", "closing"}

\* A client never takes the answer to one of its calls for that to another,
\* whatever was left in the stream by a call that failed (net_pkt_check).
Matched ==
  \A c \in Clients :
    down[c] # << >> => cli[c].pc \in {"data", "wait"} /\ down[c] = << cli[c].n >>

\* The host comes to harm in three ways only: a device is removed while it is
\* being added or used by a request; a query looks at a device that a remove or
\* a failed add has closed; the module exits while a neighbour is answered.  In
\* particular the exit takes no device from under a request, and an object is
\* never found on two superblocks (nkfs_exit, nkfs_sb_insert).
HostSafe ==
  mode = "oops" =>
    \/ \E s \in Slots :
         \/ /\ mnt[s].removed
            /\ \/ \E c \in Clients : s \in con[c].held
               \/ \E t \in Works(s) : ctl[t].call \in {"add", "format"}
         \/ ~mnt[s].open /\ \E t \in Asks(s) : ctl[t].pc = "query"
    \/ ~host /\ \E c \in Clients : con[c].pc = "serve" /\ con[c].op = "neigh"

\* The server sleeps with nobody left to wake it, or waits for a connection
\* whose client waits for the answer to a get of no bytes.
Stalled ==
  \/ srv.pc = "asleep" /\ srv.stop
  \/ srv.pc = "wait" /\ con[srv.con].pc = "recv" /\ con[srv.con].op = "empty"

\* A server that is told to stop does, however busy its clients are
\* (nkfs_server_do_stop, kthread_should_stop in the loop of a connection),
\* but for the two ways in which nkfs can stall.
Stops == \A t \in Ctls : ctl[t].pc = "join" ~> ctl[t].pc # "join" \/ mode # "up" \/ Stalled
=============================================================================
