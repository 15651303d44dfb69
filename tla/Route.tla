-------------------------------- MODULE Route -------------------------------
(***************************************************************************)
(* The routing table of every host of a cluster (core/route.c) and the     *)
(* handshakes and heartbeats between them.                                 *)
(*                                                                         *)
(* A host has one server address, by which it is named here, and a host id *)
(* that is new at every start.  Its table holds a neighbour per address,   *)
(* in an rb-tree and in a list; the tree has no reference, the list has    *)
(* one.  A work queue runs one work at a time: the rounds that the timer   *)
(* queues, and for each neighbour of a round a handshake or a heartbeat,   *)
(* which is a request over a connection of its own.  The peer handles it   *)
(* in a thread of that connection.  A work has a bare pointer to its       *)
(* neighbour.  A null or dangling pointer and a failed NKFS_BUG_ON end in  *)
(* "oops" of that host.                                                    *)
(*                                                                         *)
(* All hosts are in the same net and have their server running; the change *)
(* of the table by one handler is atomic where it is under neighs_lock.    *)
(***************************************************************************)
EXTENDS Integers, Sequences, FiniteSets, SequencesExt

CONSTANTS
  Hosts,
  Plans,      \* [links, faults, active]: who is told of whom, how many faults there
              \* are, and whose timers fire
  MaxNeighs,  \* NKFS_ROUTE_MAX_NEIGHS
  MaxFaults,  \* bound on broken connections, restarts and removals
  None

ASSUME RouteAssumption ==
  /\ IsFiniteSet(Hosts) /\ None \notin Hosts
  /\ \A p \in Plans : /\ p.links \subseteq { x \in Hosts \X Hosts : x[1] # x[2] }
                      /\ p.faults \in 0 .. MaxFaults /\ p.active \subseteq Hosts
  /\ MaxNeighs \in Nat /\ MaxFaults \in Nat

VARIABLES
  plan,     \* in Plans
  mode,     \* [Hosts -> "up", "down" or "oops"]
  boot,     \* [Hosts -> how often it was restarted]
  nb,       \* [Hosts -> [Hosts -> its neighbour at that address, or None]]
  list,     \* [Hosts -> neigh_list, a sequence of addresses]
  hids,     \* [Hosts -> [host id -> reference count, None if not in the tree]]
  wq,       \* [Hosts -> the works queued]
  rpc,      \* [Hosts -> the request that its worker waits for, or None]
  late,     \* the requests whose sender has given up
  faults,
  removed   \* history: the hosts that removed a neighbour

vars == << plan, mode, boot, nb, list, hids, wq, rpc, late, faults, removed >>

HostIds == Hosts \X (0 .. MaxFaults)

\* Mutant: the host id stays the same over a restart.
SameId(h) == << h, 0 >>

\* nkfs_obj_id_gen(&host->host_id) at every start.
Id(h) == << h, boot[h] >>

Up(h) == mode[h] = "up"
MayFail(h) == faults < plan.faults /\ \E x \in plan.links : h \in {x[1], x[2]}
Kinds == {"handshake", "heartbeat"}

Inited == [ shaked |-> FALSE, hbt |-> FALSE, hid |-> None ]
Shaked(id) == [ shaked |-> TRUE, hbt |-> FALSE, hid |-> id ]

Listed(h) == ToSet(list[h])
NeighsActive(h) == Cardinality({ a \in Hosts : nb[h][a] # None })

\* nkfs_host_create.
Init ==
  /\ plan \in Plans
  /\ mode = [h \in Hosts |-> "up"]
  /\ boot = [h \in Hosts |-> 0]
  /\ nb = [h \in Hosts |-> [a \in Hosts |-> None]]
  /\ list = [h \in Hosts |-> << >>]
  /\ hids = [h \in Hosts |-> [i \in HostIds |-> None]]
  /\ wq = [h \in Hosts |-> << >>]
  /\ rpc = [h \in Hosts |-> None]
  /\ late = {}
  /\ faults = 0
  /\ removed = {}

Oops(h) ==
  /\ mode' = [mode EXCEPT ![h] = "oops"]
  /\ UNCHANGED << boot, nb, list, hids, wq, rpc, late, faults, removed >>

-----------------------------------------------------------------------------
(* The table.                                                              *)

\* Mutant: a second neighbour with the same address.
CanInsertAgain(h, a) == NeighsActive(h) < MaxNeighs

\* __nkfs_neighs_insert finds no neighbour with this address, and room.
CanInsert(h, a) == nb[h][a] = None /\ NeighsActive(h) < MaxNeighs

\* nkfs_host_add_neigh of neighbour n, which changes nothing when it fails.
Added(h, a, n) ==
  /\ nb' = IF CanInsert(h, a) THEN [nb EXCEPT ![h][a] = n] ELSE nb
  /\ list' = IF CanInsert(h, a) THEN [list EXCEPT ![h] = Append(@, a)] ELSE list

\* nkfs_route_neigh_add, by an ioctl.
NeighAdd(h, a) ==
  /\ Up(h) /\ << h, a >> \in plan.links
  /\ CanInsert(h, a)
  /\ Added(h, a, Inited)
  /\ UNCHANGED << mode, boot, hids, wq, rpc, late, faults, removed >>

\* Mutant: a new id keeps the reference it was allocated with.
HidRefTwice(h, i) ==
  hids' = [hids EXCEPT ![h][i] = IF @ = None THEN 2 ELSE @ + 1]

\* HOST_ID_REF through the tree: a count of 0 is asserted (route.c:142).
Dying(h, i) == hids[h][i] = 0
HidRef(h, i) ==
  hids' = [hids EXCEPT ![h][i] = IF @ = None THEN 1 ELSE @ + 1]

\* nkfs_neigh_release of the neighbours bs.
HidsWithout(h, bs) ==
  [i \in HostIds |->
     LET n == Cardinality({ b \in bs : nb[h][b].hid = i })
     IN  IF n = 0 THEN hids[h][i] ELSE IF hids[h][i] = n THEN None ELSE hids[h][i] - n]

\* nkfs_host_remove_neigh.  The neighbour leaves the list, and the second loop
\* runs over what is left of the list, not over what was taken from it.
NeighRemove(h, a) ==
  LET gone == Listed(h) \ {a}
  IN  /\ Up(h) /\ MayFail(h)
      /\ Listed(h) # {}
      /\ faults' = faults + 1
      /\ removed' = removed \cup {h}
      /\ list' = [list EXCEPT ![h] = << >>]
      /\ nb' = [nb EXCEPT ![h] = [b \in Hosts |-> IF b \in gone THEN None ELSE @[b]]]
      /\ hids' = [hids EXCEPT ![h] = HidsWithout(h, gone)]
      /\ wq' = [wq EXCEPT ![h] = [i \in 1 .. Len(@) |->
                  IF @[i].at \in gone THEN [@[i] EXCEPT !.kind = "freed"] ELSE @[i]]]
      /\ rpc' = [rpc EXCEPT ![h] = IF @ # None /\ @.to \in gone
                                   THEN [@ EXCEPT !.waits = "freed"] ELSE @]
      /\ UNCHANGED << mode, boot, late >>

-----------------------------------------------------------------------------
(* The timer and the work queue.                                           *)

\* The neighbours a round is for.  Mutant: always those shaken hands with.
ForShaked(h, k) == SelectSeq(list[h], LAMBDA a : nb[h][a].shaked)
For(h, k) == SelectSeq(list[h], LAMBDA a : nb[h][a].shaked = (k = "heartbeat"))

\* nkfs_host_timer_callback queues a round, and the round, nkfs_host_handshake_-
\* work or nkfs_host_heartbeat_work, queues a work for each neighbour it is for.
\* A round runs when the works of the one before it are done.
Round(h, k) ==
  LET chosen == For(h, k)
  IN  /\ Up(h) /\ h \in plan.active
      /\ rpc[h] = None /\ wq[h] = << >>
      /\ chosen # << >>
      /\ wq' = [wq EXCEPT ![h] = [i \in 1 .. Len(chosen) |-> [ kind |-> k, at |-> chosen[i] ]]]
      /\ UNCHANGED << mode, boot, nb, list, hids, rpc, late, faults, removed >>

\* nkfs_neigh_do_handshake and nkfs_neigh_do_heartbeat until the request is
\* sent.  A handshake that was made meanwhile is not made again; a heartbeat that
\* cannot connect clears NKFS_NEIGH_S_HBT_OK.
WorkSend(h) ==
  LET w == Head(wq[h])
      a == w.at
      n == nb[h][a]
      skip == w.kind = "handshake" /\ n.shaked
  IN  /\ Up(h) /\ rpc[h] = None /\ wq[h] # << >>
      /\ w.kind # "freed"
      /\ wq' = [wq EXCEPT ![h] = Tail(@)]
      /\ \/ /\ ~skip /\ Up(a)
            /\ rpc' = [rpc EXCEPT ![h] =
                 [ kind |-> w.kind, to |-> a, toBoot |-> boot[a], src |-> Id(h),
                   dst |-> n.hid, st |-> "sent", err |-> FALSE, waits |-> "yes", left |-> 0,
                   id |-> None, neighs |-> << >> ]]
            /\ UNCHANGED nb
         \/ /\ skip \/ ~Up(a)
            /\ nb' = IF w.kind = "heartbeat" THEN [nb EXCEPT ![h][a].hbt = FALSE] ELSE nb
            /\ UNCHANGED rpc
      /\ UNCHANGED << mode, boot, list, hids, late, faults, removed >>

\* The work of a neighbour that was freed.
WorkFreed(h) ==
  /\ Up(h) /\ rpc[h] = None /\ wq[h] # << >>
  /\ Head(wq[h]).kind = "freed"
  /\ Oops(h)

-----------------------------------------------------------------------------
(* The handlers of requests.                                               *)

\* Request m is on its way to a host that is still the one it connected to.
Live(m) == Up(m.to) /\ boot[m.to] = m.toBoot

Requests == late \cup { rpc[h] : h \in { x \in Hosts : rpc[x] # None } }

\* Request m becomes r; when nobody waits for it, its reply goes nowhere.
Advance(m, r) ==
  \/ \E h \in Hosts : /\ rpc[h] = m
                      /\ rpc' = [rpc EXCEPT ![h] = r]
                      /\ UNCHANGED late
  \/ /\ m \in late
     /\ late' = (late \ {m}) \cup (IF r.st = "done" THEN {} ELSE {r})
     /\ UNCHANGED rpc

\* nkfs_neigh_handshake: the sender's id is looked up or created, and attached
\* to a new neighbour,
HandshakeHid(m) ==
  LET h == m.to
  IN  /\ Live(m) /\ m.kind = "handshake" /\ m.st = "sent"
      /\ \/ Dying(h, m.src) /\ Oops(h)
         \/ /\ ~Dying(h, m.src)
            /\ HidRef(h, m.src)
            /\ Advance(m, [m EXCEPT !.st = "hid"])
            /\ UNCHANGED << mode, boot, nb, list, wq, faults, removed >>

\* which is added to the table, or dropped with its reference to the id.
HandshakeAdd(m) ==
  LET h == m.to
      a == m.src[1]
      ok == CanInsert(h, a)
      last == hids[h][m.src] = 1
  IN  /\ Live(m) /\ m.kind = "handshake" /\ m.st = "hid"
      /\ Added(h, a, Shaked(m.src))
      /\ hids' = IF ok THEN hids ELSE [hids EXCEPT ![h][m.src] = @ - 1]
      /\ Advance(m, [m EXCEPT !.st = IF ok \/ ~last THEN "done" ELSE "release",
                              !.err = ~ok, !.id = IF ok THEN Id(h) ELSE None])
      /\ UNCHANGED << mode, boot, wq, faults, removed >>

\* nkfs_hid_release takes an id whose count is 0 out of the tree.
HandshakeRelease(m) ==
  /\ Live(m) /\ m.st = "release"
  /\ hids' = [hids EXCEPT ![m.to][m.src] = None]
  /\ Advance(m, [m EXCEPT !.st = "done"])
  /\ UNCHANGED << mode, boot, nb, list, wq, faults, removed >>

\* Mutant: the sender is told of itself.
GossipAll(h, src) ==
  SelectSeq(list[h], LAMBDA a : nb[h][a].hid # Id(h) /\ nb[h][a].hbt)

\* The neighbours that a heartbeat of src is told of.
Gossip(h, src) ==
  SelectSeq(list[h], LAMBDA a : /\ nb[h][a].hid \notin {Id(h), src}
                                /\ nb[h][a].hbt)

\* nkfs_neigh_heartbeat looks at the id of every neighbour in the list.
Heartbeat(m) ==
  LET h == m.to
      known == m.dst = Id(h) /\ hids[h][m.src] # None
  IN  /\ Live(m) /\ m.kind = "heartbeat" /\ m.st = "sent"
      /\ \/ /\ ~known
            /\ Advance(m, [m EXCEPT !.st = "done", !.err = TRUE])
            /\ UNCHANGED << mode, boot, nb, list, hids, wq, faults, removed >>
         \/ /\ known /\ ~Dying(h, m.src)
            /\ \A a \in Listed(h) : nb[h][a].hid # None
            /\ Advance(m, [m EXCEPT !.st = "done", !.neighs = Gossip(h, m.src)])
            /\ UNCHANGED << mode, boot, nb, list, hids, wq, faults, removed >>
         \/ /\ known
            /\ Dying(h, m.src) \/ \E a \in Listed(h) : nb[h][a].hid = None
            /\ Oops(h)

-----------------------------------------------------------------------------
(* The end of a request.                                                   *)

\* The rest of nkfs_neigh_do_handshake.
HandshakeDone(h) ==
  LET m == rpc[h]
  IN  /\ Up(h) /\ m # None
      /\ m.kind = "handshake" /\ m.st = "done"
      /\ \/ (m.waits = "freed" \/ (~m.err /\ Dying(h, m.id))) /\ Oops(h)
         \/ /\ m.waits = "yes"
            /\ \/ m.err /\ UNCHANGED << nb, hids >>
               \/ /\ ~m.err /\ ~Dying(h, m.id)
                  /\ HidRef(h, m.id)
                  /\ nb' = [nb EXCEPT ![h][m.to] = Shaked(m.id)]
            /\ rpc' = [rpc EXCEPT ![h] = None]
            /\ UNCHANGED << mode, boot, list, wq, late, faults, removed >>

\* nkfs_route_neigh_add of every neighbour of the reply.
Learn(h, t, as) ==
  FoldLeft(LAMBDA x, a : IF x.nb[a] # None \/ Cardinality({ b \in Hosts : x.nb[b] # None }) >= MaxNeighs
                         THEN x
                         ELSE [ nb |-> [x.nb EXCEPT ![a] = Inited], list |-> Append(x.list, a) ],
           [ nb |-> t, list |-> list[h] ], as)

\* NKFS_NEIGH_S_HBT_OK after the reply.  Mutant: whatever it says.
HbtAlways(m) == TRUE
HbtOk(m) == ~m.err

\* The rest of nkfs_neigh_do_heartbeat.
HeartbeatDone(h) ==
  LET m == rpc[h]
      x == Learn(h, [nb[h] EXCEPT ![m.to].hbt = HbtOk(m)], m.neighs)
  IN  /\ Up(h) /\ m # None
      /\ m.kind = "heartbeat" /\ m.st = "done"
      /\ \/ m.waits = "freed" /\ Oops(h)
         \/ /\ m.waits = "yes"
            /\ nb' = [nb EXCEPT ![h] = x.nb]
            /\ list' = [list EXCEPT ![h] = x.list]
            /\ rpc' = [rpc EXCEPT ![h] = None]
            /\ UNCHANGED << mode, boot, hids, wq, late, faults, removed >>

\* The connection breaks before the reply is read; the request may still be
\* handled.
Left(m) == IF Live(m) /\ m.st # "done" THEN {[m EXCEPT !.waits = "no", !.left = faults + 1]} ELSE {}

Break(h) ==
  LET m == rpc[h]
  IN  /\ Up(h) /\ m # None
      /\ Live(m) => MayFail(h)
      /\ \/ m.waits = "freed" /\ Oops(h)
         \/ /\ m.waits = "yes"
            /\ faults' = IF Live(m) THEN faults + 1 ELSE faults
            /\ nb' = IF m.kind = "heartbeat" THEN [nb EXCEPT ![h][m.to].hbt = FALSE] ELSE nb
            /\ rpc' = [rpc EXCEPT ![h] = None]
            /\ late' = late \cup Left(m)
            /\ UNCHANGED << mode, boot, list, hids, wq, removed >>

-----------------------------------------------------------------------------
(* The life of a host.                                                     *)

\* The host is gone, with all that it had in memory.
Vanish(h) ==
  /\ mode' = [mode EXCEPT ![h] = "down"]
  /\ faults' = faults + 1
  /\ nb' = [nb EXCEPT ![h] = [a \in Hosts |-> None]]
  /\ list' = [list EXCEPT ![h] = << >>]
  /\ hids' = [hids EXCEPT ![h] = [i \in HostIds |-> None]]
  /\ wq' = [wq EXCEPT ![h] = << >>]
  /\ rpc' = [rpc EXCEPT ![h] = None]
  /\ late' = { m \in late : m.to # h } \cup (IF rpc[h] = None THEN {} ELSE Left(rpc[h]))
  /\ UNCHANGED << boot, removed >>

Crash(h) ==
  /\ Up(h) /\ MayFail(h)
  /\ Vanish(h)

\* The handlers that run in h.
Handled(h) == { m \in Requests : Live(m) /\ m.to = h /\ m.st \in {"hid", "release"} }

\* nkfs_host_release: destroy_workqueue lets the works end, and neighs_active
\* and host_ids_active are asserted to be 0 once the list is empty.
Stop(h) ==
  /\ Up(h) /\ MayFail(h)
  /\ rpc[h] = None /\ wq[h] = << >>
  /\ \/ /\ \A a \in Hosts : nb[h][a] # None => a \in Listed(h)
        /\ Handled(h) = {}
        /\ Vanish(h)
     \/ /\ Handled(h) # {} \/ \E a \in Hosts : nb[h][a] # None /\ a \notin Listed(h)
        /\ Oops(h)

\* nkfs_route_init with a new host id.
Start(h) ==
  /\ mode[h] = "down"
  /\ mode' = [mode EXCEPT ![h] = "up"]
  /\ boot' = [boot EXCEPT ![h] = @ + 1]
  /\ UNCHANGED << nb, list, hids, wq, rpc, late, faults, removed >>

-----------------------------------------------------------------------------

Handle(m) == HandshakeHid(m) \/ HandshakeAdd(m) \/ HandshakeRelease(m) \/ Heartbeat(m)
Worker(h) == \/ WorkSend(h) \/ WorkFreed(h)
             \/ HandshakeDone(h) \/ HeartbeatDone(h)

Next ==
  /\ \/ \E h \in Hosts :
          \/ \E a \in Hosts : NeighAdd(h, a) \/ NeighRemove(h, a)
          \/ \E k \in Kinds : Round(h, k)
          \/ Worker(h) \/ Break(h)
          \/ Crash(h) \/ Stop(h) \/ Start(h)
     \/ \E m \in Requests : Handle(m)
  /\ UNCHANGED plan

Spec == Init /\ [][Next]_vars

\* The progress of the work queue of h: its worker runs, a thread of the peer
\* handles its request, or the connection ends when the peer is gone.
Run(h) ==
  \/ Worker(h)
  \/ rpc[h] # None /\ Handle(rpc[h])
  \/ rpc[h] # None /\ ~Live(rpc[h]) /\ Break(h)

\* The timer fires again and again, and works end.
Fairness ==
  \A h \in Hosts :
    /\ \A k \in Kinds : SF_vars(Round(h, k) /\ UNCHANGED plan)
    /\ WF_vars(Run(h) /\ UNCHANGED plan)

FairSpec == Spec /\ Fairness

-----------------------------------------------------------------------------

Neighbour == [ shaked : BOOLEAN, hbt : BOOLEAN, hid : HostIds \cup {None} ]

\* The counters stay within their limits (route.c:325), and only a neighbour
\* whose host id is known was shaken hands with, and only such a one has had a
\* heartbeat.
TypeOK ==
  /\ \A h \in Hosts :
       /\ mode[h] \in {"up", "down", "oops"}
       /\ boot[h] \in 0 .. MaxFaults
       /\ NeighsActive(h) <= MaxNeighs
       /\ IsInjective(list[h])
       /\ \A a \in Listed(h) : nb[h][a] # None
       /\ \A a \in Hosts : nb[h][a] # None =>
            /\ nb[h][a] \in Neighbour
            /\ nb[h][a].shaked <=> nb[h][a].hid # None
            /\ nb[h][a].hbt => nb[h][a].shaked

\* No host becomes its own neighbour, by whatever the others tell it, however
\* handshakes, heartbeats and restarts fall together (route.c:497-574, 863-917).
NoSelf == \A h \in Hosts : nb[h][h] = None

Shook(h, a) == nb[h][a] # None /\ nb[h][a].shaked

\* A host that has shaken hands with the present incarnation of another is in the
\* other's list, although replies are lost and handled late, unless the other
\* removed neighbours (route.c:386-473, 801-847).
Mutual ==
  \A h, a \in Hosts :
    Up(h) /\ Up(a) /\ Shook(h, a) /\ nb[h][a].hid = Id(a) /\ a \notin removed
      => h \in Listed(a)

\* Every host id in the tree has one reference for each neighbour attached to it
\* and each handshake that is being handled, and goes with the last of them, so
\* that nkfs_host_release finds none (route.c:70-81, 128-151, 226-247, 801-847).
HidsExact ==
  \A h \in Hosts : Up(h) =>
    \A i \in HostIds :
      LET held == { a \in Hosts : nb[h][a] # None /\ nb[h][a].hid = i }
          handled(s) == { m \in Requests : Live(m) /\ m.to = h /\ m.src = i /\ m.st = s }
          refs == Cardinality(held) + Cardinality(handled("hid"))
      IN  /\ hids[h][i] # None => hids[h][i] = refs
          /\ hids[h][i] = None => refs = 0
          /\ hids[h][i] = 0 => handled("release") # {}

Fine == plan.faults = 0 /\ \A h \in Hosts : Up(h)

\* A neighbour that only one side was told of ends in a handshake, as long as
\* nothing fails and the other side does not hear of the first by gossip
\* (route.c:386-495).
Shakes ==
  \A h \in Hosts : \A a \in Hosts \ {h} :
    (Fine /\ h \in plan.active /\ a \in Listed(h) /\ nb[a][h] = None)
      ~> (~Fine \/ Shook(h, a) \/ (nb[a][h] # None /\ ~Shook(a, h)))

Beating(h, a) == Up(h) /\ h \in plan.active /\ a \in Listed(h) /\ nb[h][a].hbt
Gone(h, a) == ~Up(a) \/ nb[h][a].hid # Id(a)

\* A neighbour that has gone down, or is back with a new host id, does not keep
\* NKFS_NEIGH_S_HBT_OK (route.c:497-574, 863-917).
StaleCleared ==
  \A h \in Hosts : \A a \in Hosts \ {h} :
    (Beating(h, a) /\ Gone(h, a)) ~> ~(Beating(h, a) /\ Gone(h, a))
=============================================================================
