----------------------------- MODULE HostProofs -----------------------------
(***************************************************************************)
(* Every step keeps the part of the invariant of module HostNet that is    *)
(* about devices, superblocks and control calls (DevInv), and the          *)
(* theorems about module Host.                                             *)
(***************************************************************************)
EXTENDS HostNet, FiniteSetTheorems

\* What call t does to device s concerns no other device.
LEMMA OtherSlots ==
  ASSUME DevInv, NEW t \in Ctls, NEW s \in Slots, \A u \in Ctls \ {t} : ctl'[u] = ctl[u],
         ctl[t].slot \in {s, None}, ctl'[t].slot \in {s, None},
         \A r \in Slots \ {s} : mnt'[r] = mnt[r], con' = con
  PROVE  \A r \in Slots \ {s} : SlotOK(r)'
PROOF
  <1> SUFFICES ASSUME NEW r \in Slots \ {s} PROVE SlotOK(r)'
    BY Zenon
  <1>1. r # None
    BY Zenon, PlanAssumption
  <1>2. SlotOK(r) /\ mnt'[r] = mnt[r]
    BY DEF DevInv
  <1>3. \A u \in Ctls : ctl[u].slot = r \/ ctl'[u].slot = r => ctl'[u] = ctl[u]
    BY Zenon, <1>1
  <1> QED
    BY Zenon, <1>2, <1>3, SlotKept

\* The requests that hold a superblock can be counted.
LEMMA HoldsCount ==
  ASSUME NEW s \in Slots
  PROVE  /\ IsFiniteSet(Holds(s)) /\ Cardinality(Holds(s)) \in Nat
         /\ Cardinality(Holds(s)) = 0 => Holds(s) = {}
PROOF
  BY Zenon, PlanAssumption, FS_Subset, FS_CardinalityType, FS_EmptySet DEF Holds

\* The calls that ask about a device can be counted.
LEMMA AsksCount ==
  ASSUME NEW s \in Slots
  PROVE  /\ IsFiniteSet(Asks(s)) /\ Cardinality(Asks(s)) \in Nat
         /\ Cardinality(Asks(s)) = 0 <=> Asks(s) = {}
PROOF
  BY Zenon, PlanAssumption, FS_Subset, FS_CardinalityType, FS_EmptySet DEF Asks

(* The devices.                                                            *)
\* The calls on a device are among those of the kernel.
LEMMA CallsOf ==
  ASSUME NEW s \in Slots
  PROVE  \A t \in Ctls : /\ t \in Asks(s) <=> ctl[t].slot = s /\ ctl[t].pc \in {"query", "unref"}
                         /\ t \in Works(s) <=> ctl[t].slot = s /\ ctl[t].pc \notin {"query", "unref"}
PROOF
  BY Zenon DEF Asks, Works

\* A call that works on a device, and the device.
LEMMA AtWork ==
  ASSUME Types, DevInv, NEW t \in Ctls, ctl[t].pc \in WorkPCs
  PROVE  \E s \in Slots : /\ s = ctl[t].slot /\ t \in Works(s) /\ WorkOK(t, s) /\ SlotOK(s)
                          /\ mnt[s] \in Mounts
PROOF
  <1>1. ctl[t] \in Calls /\ CtlOK(t) /\ ctl[t].pc \in SlotPCs /\ ctl[t].pc \notin {"query", "unref"}
    BY Zenon DEF Types, DevInv, SlotPCs, WorkPCs, Adding
  <1>2. PICK s \in Slots : s = ctl[t].slot
    BY Zenon, <1>1 DEF CtlOK, Calls
  <1>3. t \in Works(s) /\ SlotOK(s) /\ mnt[s] \in Mounts
    BY Zenon, <1>1, <1>2, CallsOf DEF DevInv, Types
  <1>4. WorkOK(t, s)
    BY Zenon, <1>3 DEF SlotOK
  <1> QED
    BY Zenon, <1>2, <1>3, <1>4

\* Once the server is stopped no request holds a superblock.
LEMMA ExitHolds ==
  ASSUME Types, NetInv, DevInv, NEW t \in Ctls, ctl[t].call = "exit",
         ctl[t].pc \notin {"abort", "kill", "join"}
  PROVE  (\A c \in Clients : con[c].held = {} /\ con[c].pc \in {"none", "closing"}) /\ \A s \in Slots : Holds(s) = {}
PROOF
  <1>1. srv.pc = "none"
    BY Zenon DEF DevInv, CtlOK
  <1>2. \A c \in Clients : ~con[c].listed /\ srv.con # c /\ ~srv.sock
    BY Zenon, <1>1, PlanAssumption DEF NetInv, ServerOK
  <1>3. ASSUME NEW c \in Clients PROVE con[c].held = {} /\ con[c].pc \in {"none", "closing"}
    <2>1. ConOK(c)
      BY Zenon DEF NetInv
    <2>2. con[c].pc \in FreePCs /\ con[c].pc # "queued"
      BY Zenon, <1>2, <2>1 DEF ConOK
    <2>3. con[c].pc \notin HeldPCs
      BY Zenon, <2>2 DEF FreePCs, HeldPCs
    <2> QED
      BY Zenon, <2>1, <2>2, <2>3 DEF ConOK, FreePCs
  <1> QED
    BY Zenon, <1>3 DEF Holds

\* Such a step concerns no other call and no other device.
LEMMA CallFrame ==
  ASSUME Types, DevInv, NEW t \in Ctls, NEW s \in Slots, NEW v, NEW r, Turns(t, s, v, r)
  PROVE  /\ Types' /\ ListOK' /\ (\A u \in Ctls : CtlOK(u)') /\ (\A q \in Slots \ {s} : SlotOK(q)')
         /\ mnt'[s] = r /\ ctl'[t] = v /\ (\A u \in Ctls \ {t} : ctl'[u] = ctl[u]) /\ Holds(s)' = Holds(s)
PROOF
  <1>1. /\ ctl \in [Ctls -> Calls] /\ mnt \in [Slots -> Mounts] /\ mnt' = [mnt EXCEPT ![s] = r]
        /\ ListOK /\ (\A u \in Ctls : CtlOK(u)) /\ v \in Calls /\ r \in Mounts
        /\ ctl' = [ctl EXCEPT ![t] = v]
    BY Zenon DEF Types, Set, DevInv, Turns
  <1>2. ctl' \in [Ctls -> Calls] /\ ctl'[t] = v /\ \A u \in Ctls \ {t} : ctl'[u] = ctl[u]
    BY Zenon, <1>1
  <1>3. mnt' \in [Slots -> Mounts] /\ mnt'[s] = r /\ \A q \in Slots \ {s} : mnt'[q] = mnt[q]
    BY Zenon, <1>1
  <1>4. UNCHANGED << plan, disk, srv, con, cli, up, down, host, mode >>
    BY Zenon DEF Turns, net, world
  <1>5. Types'
    BY Zenon, <1>2, <1>3, <1>4 DEF Types
  <1>6. ListOK'
    BY <1>1, <1>3 DEF ListOK, Turns
  <1>7. \A q \in Slots \ {s} : SlotOK(q)'
    BY Zenon, <1>2, <1>3, <1>4, OtherSlots DEF Turns
  <1>8. ASSUME NEW u \in Ctls PROVE CtlOK(u)'
    <2>1. CASE u = t
      <3>1. v.call = "exit" => (\A q \in Ctls \ {t} : ctl'[q] = NoCall) /\ srv'.pc = "none"
        BY <1>1, <1>2, <1>4 DEF CtlOK, Turns
      <3> QED
        BY <1>2, <2>1, <3>1 DEF CtlOK, Turns
    <2>2. CASE u # t
      <3>1. ctl'[u] = ctl[u] /\ ctl[u].call # "exit"
        BY <1>1, <1>2, <2>2 DEF CtlOK, Turns
      <3> QED
        BY <1>1, <1>4, <3>1 DEF CtlOK
    <2> QED
      BY Zenon, <2>1, <2>2
  <1>9. Holds(s)' = Holds(s)
    BY Zenon, <1>4 DEF Holds
  <1> QED
    BY Zenon, <1>2, <1>3, <1>5, <1>6, <1>7, <1>8, <1>9

\* The calls that work on a device and go on working on it.
LEMMA WorkerCalls ==
  \A t \in Ctls : Types /\ NetInv /\ DevInv =>
    /\ Insert(t) \/ Start(t) \/ Publish(t) \/ Close(t) => Types' /\ DevInv'
    /\ ~Oops /\ (Unlink(t) \/ Stop(t) \/ NoInodes(t)) => Types' /\ DevInv'

  \* A call that works on a device goes on working on it.
<1>WorkerFrame.
    ASSUME Types, DevInv, NEW t \in Ctls, NEW s \in Slots, ctl[t].slot = s, ctl[t].pc \in WorkPCs,
           NEW l \in WorkPCs, GoTo(t, l), NEW r \in Mounts, Set(s, r),
           r.listed => \/ mnt[s].listed /\ r.id = mnt[s].id
                       \/ \A q \in Slots : mnt[q].listed => mnt[q].id # r.id,
           r.ref = mnt[s].ref,
           disk' \in [Names -> Ids \cup {None}], UNCHANGED << net, world >>
    PROVE  /\ Types' /\ ListOK' /\ (\A u \in Ctls : CtlOK(u)') /\ \A q \in Slots \ {s} : SlotOK(q)'
           /\ Worked(t, s, l, r)
    <2> USE <1>WorkerFrame
    <2>1. /\ ctl \in [Ctls -> Calls] /\ ctl[t] \in Calls /\ mnt \in [Slots -> Mounts]
          /\ ctl' = [ctl EXCEPT ![t].pc = l] /\ mnt' = [mnt EXCEPT ![s] = r]
          /\ SlotOK(s) /\ CountOK(s) /\ ListOK
      BY DEF Types, GoTo, Set, DevInv, SlotOK
    <2>2. /\ ctl' \in [Ctls -> Calls] /\ ctl'[t].pc = l /\ ctl'[t].slot = s
          /\ ctl'[t].call = ctl[t].call /\ \A u \in Ctls \ {t} : ctl'[u] = ctl[u]
      BY Zenon, <2>1 DEF Calls, SlotPCs
    <2>3. mnt' \in [Slots -> Mounts] /\ mnt'[s] = r /\ \A q \in Slots \ {s} : mnt'[q] = mnt[q]
      BY Zenon, <2>1
    <2>4. UNCHANGED << plan, srv, con, cli, up, down, host, mode >>
      BY Zenon DEF net, world
    <2>5. Types'
      BY Zenon, <2>2, <2>3, <2>4 DEF Types
    <2>6. ListOK'
      BY <2>1, <2>3 DEF ListOK
    <2>7. \A q \in Slots \ {s} : SlotOK(q)'
      BY Zenon, <2>2, <2>3, <2>4, OtherSlots
    <2>8. ASSUME NEW u \in Ctls PROVE CtlOK(u)'
      <3>1. CtlOK(t) /\ CtlOK(u) /\ s # None
        BY Zenon, PlanAssumption DEF DevInv
      <3>2. l # "idle" /\ l \in SlotPCs /\ l \notin {"query", "unref", "devs", "abort", "kill", "join"}
            /\ ctl[t].pc \notin {"idle", "abort", "kill", "join"}
        BY Zenon DEF WorkPCs, SlotPCs, Adding
      <3>3. CASE u = t
        <4>1. ctl'[t].call = "exit" => (\A q \in Ctls \ {t} : ctl'[q] = NoCall) /\ srv'.pc = "none"
          BY <2>2, <2>4, <3>1, <3>2 DEF CtlOK
        <4> QED
          BY <2>2, <3>1, <3>2, <3>3, <4>1 DEF CtlOK
      <3>4. CASE u # t
        <4>1. ctl'[u] = ctl[u] /\ ctl[u].call # "exit"
          BY <2>2, <3>1, <3>2, <3>4 DEF CtlOK, NoCall
        <4> QED
          BY <2>4, <3>1, <4>1 DEF CtlOK
      <3> QED
        BY Zenon, <3>3, <3>4
    <2>9. ctl[t].pc \notin {"query", "unref"} /\ l \notin {"query", "unref"}
      BY Zenon DEF WorkPCs, Adding
    <2>10. Asks(s)' = Asks(s) /\ Holds(s)' = Holds(s)
      BY <2>2, <2>4, <2>9 DEF Asks, Holds
    <2>11. Works(s)' = Works(s) /\ t \in Works(s) /\ Works(s) \subseteq Ctls
      BY <2>2, <2>9, <2>10 DEF Works, Asks
    <2>12. mnt'[s].ref = Cardinality(Asks(s)') + IF mnt'[s].linked \/ Works(s)' # {} THEN 1 ELSE 0
      BY <2>1, <2>3, <2>10, <2>11 DEF CountOK
    <2>13. /\ \A u \in Works(s) : WorkOK(u, s)
           /\ \A u \in Works(s) \ {t} : \/ ctl[t].pc = "stop" /\ ctl[u].pc \in Adding
                                        \/ ctl[u].pc = "stop" /\ ctl[t].pc \in Adding
      BY <2>1, <2>11 DEF SlotOK
    <2>14. mnt'[s].ref > 0
      <3>1. IsFiniteSet(Asks(s)') /\ Cardinality(Asks(s)') \in Nat
        BY Zenon, PlanAssumption, FS_Subset, FS_CardinalityType DEF Asks
      <3> QED
        BY <2>11, <2>12, <3>1
    <2> QED
      BY Zenon, <2>2, <2>3, <2>5, <2>6, <2>7, <2>8, <2>10, <2>11, <2>12, <2>13, <2>14 DEF Worked

  \* What is left to show of that device.
<1>WorkerSlot.
    ASSUME NEW t \in Ctls, NEW s \in Slots, NEW l, NEW r, SlotOK(s), Worked(t, s, l, r),
           mnt'[s].sbref = Cardinality(Holds(s))
             + IF mnt'[s].set \/ \E u \in Works(s) : ctl'[u].pc \in {"publish", "set"} THEN 1 ELSE 0,
           mnt'[s].listed => mnt'[s].open, Holds(s) # {} => mnt'[s].open \/ mnt'[s].removed,
           mnt'[s].linked => /\ mnt'[s].set \/ ctl'[t].pc \in Adding
                             /\ ctl'[t].pc \in Adding \/ ctl'[t].call = "exit",
           WorkOK(t, s)', \A u \in Works(s) \ {t} : /\ WorkOK(u, s)' /\ ~mnt'[s].linked
                                                  /\ ctl[u].pc = "stop" /\ ctl'[t].pc \in Adding
    PROVE  SlotOK(s)'
    <2> USE <1>WorkerSlot
    <2>0. /\ Works(s)' = Works(s) /\ Holds(s)' = Holds(s) /\ t \in Works(s) /\ mnt'[s].ref > 0
          /\ \A u \in Works(s) \ {t} : ctl'[u] = ctl[u]
          /\ mnt'[s].ref = Cardinality(Asks(s)') + IF mnt'[s].linked \/ Works(s)' # {} THEN 1 ELSE 0
      BY Zenon DEF Worked
    <2>1. CountOK(s)'
      BY Zenon, <2>0 DEF CountOK
    <2>2. ASSUME NEW u \in Works(s), NEW v \in Works(s), u # v
          PROVE  \/ ctl'[u].pc = "stop" /\ ctl'[v].pc \in Adding
                 \/ ctl'[v].pc = "stop" /\ ctl'[u].pc \in Adding
      <3>1. CASE u = t
        BY <2>0, <2>2, <3>1
      <3>2. CASE v = t
        BY <2>0, <2>2, <3>2
      <3>3. CASE u # t /\ v # t
        <4>1. ctl[u].pc = "stop" /\ ctl[v].pc = "stop" /\ "stop" \notin Adding
          BY Zenon, <3>3 DEF Adding
        <4> QED
          BY <2>2, <4>1 DEF SlotOK
      <3> QED
        BY <3>1, <3>2, <3>3
    <2>3. \A u \in Works(s)' : WorkOK(u, s)'
      BY Zenon, <2>0
    <2> QED
      BY <2>0, <2>1, <2>2, <2>3 DEF SlotOK

  \* nkfs_dev_insert
<1>InsertDev.
    ASSUME Types, NetInv, DevInv, NEW t \in Ctls, Insert(t)
    PROVE  Types' /\ DevInv'
    <2> USE <1>InsertDev
    <2>0. PICK s \in Slots : s = ctl[t].slot
      BY Zenon DEF Insert, At, Types, DevInv, CtlOK, Calls, WorkPCs, SlotPCs, Adding
    <2>1. PICK dup \in BOOLEAN : dup = \E r \in Slots : mnt[r].linked /\ mnt[r].name = mnt[s].name
      BY Zenon
    <2>2. PICK l \in {"close", "start"} : l = IF dup THEN "close" ELSE "start"
      BY Zenon
    <2>3. PICK new : new = [mnt[s] EXCEPT !.linked = ~dup]
      BY Zenon
    <2>4. /\ ctl[t].pc = "insert" /\ Set(s, new) /\ GoTo(t, l) /\ UNCHANGED << disk, net, world >>
      BY <2>0, <2>1, <2>2, <2>3 DEF Insert, At
    <2>5. /\ mnt[s] \in Mounts /\ ctl[t].pc \in WorkPCs /\ l \in WorkPCs
          /\ disk' \in [Names -> Ids \cup {None}] /\ SlotOK(s)
      BY <2>0, <2>4 DEF Types, DevInv, WorkPCs, Adding
    <2>6. /\ new \in Mounts /\ new.linked = ~dup /\ new.listed = mnt[s].listed /\ new.id = mnt[s].id
          /\ new.ref = mnt[s].ref /\ new.sbref = mnt[s].sbref /\ new.set = mnt[s].set
          /\ new.open = mnt[s].open /\ new.removed = mnt[s].removed
      BY Zenon, <2>3, <2>5 DEF Mounts
    <2>7. /\ Types' /\ ListOK' /\ (\A u \in Ctls : CtlOK(u)') /\ \A q \in Slots \ {s} : SlotOK(q)'
          /\ Worked(t, s, l, new)
      BY <2>0, <2>4, <2>5, <2>6, <1>WorkerFrame
    <2>8. /\ Works(s) \ {t} = {} /\ WorkOK(t, s) /\ mnt'[s] = new /\ t \in Works(s)
          /\ ctl'[t].pc = l /\ ctl'[t].call = ctl[t].call
      BY Zenon, <2>4, <2>7 DEF Worked, Adding
    <2>9. /\ ctl[t].call \in {"add", "format"} /\ mnt[s].open /\ ~mnt[s].set /\ mnt[s].sbref = 0
          /\ ~mnt[s].listed
      BY Zenon, <2>4, <2>8 DEF WorkOK
    <2>10. mnt'[s].sbref = Cardinality(Holds(s))
            + IF mnt'[s].set \/ \E u \in Works(s) : ctl'[u].pc \in {"publish", "set"} THEN 1 ELSE 0
      <3>1. /\ ~\E u \in Works(s) : ctl[u].pc \in {"publish", "set"}
            /\ ~\E u \in Works(s) : ctl'[u].pc \in {"publish", "set"}
        BY Zenon, <2>4, <2>8
      <3> QED
        BY <2>5, <2>6, <2>8, <3>1 DEF SlotOK, CountOK
    <2>11. WorkOK(t, s)'
      BY Zenon, <2>2, <2>6, <2>8, <2>9 DEF WorkOK, Adding
    <2>12. mnt'[s].linked => ctl'[t].pc \in Adding
      BY Zenon, <2>2, <2>6, <2>8 DEF Adding
    <2>13. SlotOK(s)'
      BY Zenon, <2>5, <2>6, <2>7, <2>8, <2>9, <2>10, <2>11, <2>12, <1>WorkerSlot
    <2> QED
      BY Zenon, <2>7, <2>13 DEF DevInv

  \* A call that adds a device shares it at most with one that removes it.
<1>Adder.
    ASSUME DevInv, NEW t \in Ctls, NEW s \in Slots, NEW l, NEW r, ctl[t].pc \in Adding, Worked(t, s, l, r)
    PROVE  /\ \A u \in Works(s) \ {t} : /\ ctl[u].pc = "stop" /\ ctl[u].call = "remove"
                                        /\ mnt[s].removed /\ ~mnt[s].linked
           /\ mnt[s].sbref = Cardinality(Holds(s)) + IF ctl[t].pc \in {"publish", "set"} THEN 1 ELSE 0
           /\ (\E u \in Works(s) : ctl'[u].pc \in {"publish", "set"}) <=> l \in {"publish", "set"}
           /\ l \in Adding /\ mnt'[s].removed = mnt[s].removed /\ (mnt'[s].linked => mnt[s].linked) =>
                \A u \in Works(s) \ {t} : /\ WorkOK(u, s)' /\ ~mnt'[s].linked
                                          /\ ctl[u].pc = "stop" /\ ctl'[t].pc \in Adding
    <2> USE <1>Adder
    <2>1. /\ t \in Works(s) /\ Works(s) \subseteq Ctls /\ ctl'[t].pc = l /\ Works(s)' = Works(s)
          /\ \A u \in Works(s) \ {t} : ctl'[u] = ctl[u]
          /\ \A u \in Works(s) : WorkOK(u, s)
          /\ ctl[t].pc # "stop" /\ ctl[t].pc # "idle" /\ SlotOK(s)
      BY Zenon DEF Worked, Adding, DevInv
    <2>2. ASSUME NEW u \in Works(s) \ {t}
          PROVE  ctl[u].pc = "stop" /\ ctl[u].call = "remove" /\ mnt[s].removed /\ ~mnt[s].linked
      <3>1. ctl[u].pc = "stop" /\ WorkOK(u, s)
        BY Zenon, <2>1 DEF Worked
      <3>2. ctl[u].call # "exit"
        BY <2>1 DEF DevInv, CtlOK, NoCall
      <3> QED
        BY Zenon, <3>1, <3>2 DEF WorkOK
    <2>3. (\E u \in Works(s) : ctl[u].pc \in {"publish", "set"}) <=> ctl[t].pc \in {"publish", "set"}
      BY Zenon, <2>1, <2>2
    <2>4. (\E u \in Works(s) : ctl'[u].pc \in {"publish", "set"}) <=> l \in {"publish", "set"}
      BY Zenon, <2>1, <2>2
    <2>5. ~mnt[s].set
      BY Zenon, <2>1 DEF WorkOK
    <2>6. mnt[s].sbref = Cardinality(Holds(s)) + IF ctl[t].pc \in {"publish", "set"} THEN 1 ELSE 0
      BY Zenon, <2>1, <2>3, <2>5 DEF SlotOK, CountOK
    <2>7. ASSUME l \in Adding, mnt'[s].removed = mnt[s].removed, mnt'[s].linked => mnt[s].linked,
                 NEW u \in Works(s) \ {t}
          PROVE  WorkOK(u, s)' /\ ~mnt'[s].linked /\ ctl[u].pc = "stop" /\ ctl'[t].pc \in Adding
      <3>1. ctl'[u].pc = "stop" /\ ctl'[u].call = "remove" /\ mnt'[s].removed /\ ~mnt'[s].linked
        BY Zenon, <2>1, <2>2, <2>7
      <3>2. \E v \in Works(s)' : ctl'[v].pc \in Adding
        BY Zenon, <2>1, <2>7
      <3>3. WorkOK(u, s)'
        BY Zenon, <3>1, <3>2 DEF WorkOK, Adding
      <3> QED
        BY Zenon, <2>1, <2>2, <2>7, <3>1, <3>3
    <2> QED
      BY Zenon, <2>2, <2>4, <2>6, <2>7

  \* A call that adds a device goes on with it.
<1>AdderStep.
    ASSUME Types, DevInv, NEW t \in Ctls, NEW s \in Slots, ctl[t].slot = s, ctl[t].pc \in {"start", "publish"},
           NEW l \in {"publish", "set", "unlink"}, GoTo(t, l), NEW r \in Mounts, Set(s, r),
           l = "set" <=> r.listed, r.listed => \A q \in Slots : mnt[q].listed => mnt[q].id # r.id,
           r.ref = mnt[s].ref, r.linked = mnt[s].linked, r.removed = mnt[s].removed,
           r.open = mnt[s].open, r.set = mnt[s].set, r.sbref = IF l \in {"publish", "set"} THEN 1 ELSE 0,
           disk' \in [Names -> Ids \cup {None}], UNCHANGED << net, world >>
    PROVE  Types' /\ DevInv'
    <2> USE <1>AdderStep
    <2>1. ctl[t].pc \in Adding /\ ctl[t].pc \in WorkPCs /\ l \in Adding /\ l \in WorkPCs
      BY Zenon DEF WorkPCs, Adding
    <2>2. t \in Works(s) /\ WorkOK(t, s) /\ SlotOK(s) /\ mnt[s].open /\ ~mnt[s].set
      BY <2>1, AtWork DEF WorkOK
    <2>3. /\ Types' /\ ListOK' /\ (\A u \in Ctls : CtlOK(u)') /\ (\A q \in Slots \ {s} : SlotOK(q)')
          /\ Worked(t, s, l, r)
      BY Zenon, <2>1, <1>WorkerFrame
    <2>4. /\ mnt'[s] = r /\ ctl'[t].pc = l /\ ctl'[t].call = ctl[t].call /\ Works(s)' = Works(s)
          /\ \A u \in Works(s) \ {t} : ctl'[u] = ctl[u]
      BY Zenon, <2>3 DEF Worked
    <2>5. /\ mnt[s].sbref = Cardinality(Holds(s)) + IF ctl[t].pc \in {"publish", "set"} THEN 1 ELSE 0
          /\ (\E u \in Works(s) : ctl'[u].pc \in {"publish", "set"}) <=> l \in {"publish", "set"}
          /\ \A u \in Works(s) \ {t} : /\ WorkOK(u, s)' /\ ~mnt'[s].linked
                                       /\ ctl[u].pc = "stop" /\ ctl'[t].pc \in Adding
      BY <2>1, <2>3, <2>4, <1>Adder
    <2>6. Cardinality(Holds(s)) = 0 /\ Holds(s) = {}
      BY <2>2, <2>5, HoldsCount DEF WorkOK
    <2>7. mnt'[s].sbref = Cardinality(Holds(s))
            + IF mnt'[s].set \/ \E u \in Works(s) : ctl'[u].pc \in {"publish", "set"} THEN 1 ELSE 0
      BY <2>2, <2>4, <2>5, <2>6
    <2>8. WorkOK(t, s)'
      <3>1. mnt'[s].linked \/ \E u \in Works(s)' : ctl'[u].call = "remove"
        BY <2>1, <2>2, <2>4 DEF WorkOK
      <3>2. ctl'[t].call \in {"add", "format"} /\ mnt'[s].open /\ ~mnt'[s].set
        BY Zenon, <2>1, <2>2, <2>4 DEF WorkOK
      <3> QED
        BY Zenon, <2>4, <3>1, <3>2 DEF WorkOK, Adding
    <2>9. SlotOK(s)'
      BY Zenon, <2>1, <2>2, <2>3, <2>4, <2>5, <2>6, <2>7, <2>8, <1>WorkerSlot
    <2> QED
      BY Zenon, <2>3, <2>9 DEF DevInv

  \* The two halves of nkfs_dev_start.
<1>StartDev.
    ASSUME Types, DevInv, NEW t \in Ctls, Start(t)
    PROVE  Types' /\ DevInv'
    <2> USE <1>StartDev
    <2>0. ctl[t].pc = "start" /\ ctl[t].pc \in WorkPCs /\ UNCHANGED << net, world >>
      BY Zenon DEF Start, At, WorkPCs, Adding
    <2>1. PICK s \in Slots : s = ctl[t].slot /\ WorkOK(t, s) /\ mnt[s] \in Mounts
      BY <2>0, AtWork
    <2>2. ~mnt[s].listed /\ mnt[s].sbref = 0 /\ mnt \in [Slots -> Mounts] /\ disk \in [Names -> Ids \cup {None}]
      BY Zenon, <2>0, <2>1 DEF WorkOK, Types
    <2>3. CASE GoTo(t, "unlink") /\ UNCHANGED << disk, mnt >>
      <3>1. Set(s, mnt[s]) /\ disk' \in [Names -> Ids \cup {None}]
        BY Zenon, <2>2, <2>3 DEF Set
      <3> QED
        BY <2>0, <2>1, <2>2, <2>3, <3>1, <1>AdderStep
    <2>4. ASSUME NEW i \in Ids, disk' = [disk EXCEPT ![mnt[s].name] = i],
                 Set(s, [mnt[s] EXCEPT !.sbref = 1, !.id = i]), GoTo(t, "publish")
          PROVE  Types' /\ DevInv'
      <3>1. PICK r : r = [mnt[s] EXCEPT !.sbref = 1, !.id = i]
        BY Zenon
      <3>2. /\ r \in Mounts /\ r.listed = mnt[s].listed /\ r.ref = mnt[s].ref /\ r.sbref = 1
            /\ r.linked = mnt[s].linked /\ r.removed = mnt[s].removed
            /\ r.open = mnt[s].open /\ r.set = mnt[s].set
        <4>1. PICK m \in Mounts : m = mnt[s]
          BY Zenon, <2>1
        <4>2. PICK k \in Int : k = 1
          OBVIOUS
        <4>3. i \in Ids \cup {None} /\ r = [m EXCEPT !.sbref = k, !.id = i]
          BY Zenon, <3>1, <4>1, <4>2
        <4>4. r \in Mounts
          BY Zenon, <4>1, <4>2, <4>3 DEF Mounts
        <4>5. /\ r.listed = m.listed /\ r.ref = m.ref /\ r.sbref = k /\ r.id = i
              /\ r.linked = m.linked /\ r.removed = m.removed /\ r.open = m.open /\ r.set = m.set
          BY Zenon, <4>1, <4>2, <4>3 DEF Mounts
        <4> QED
          BY Zenon, <4>1, <4>2, <4>4, <4>5
      <3>3. disk' \in [Names -> Ids \cup {None}]
        BY Zenon, <2>2, <2>4
      <3> QED
        <4>1. PICK l \in {"publish", "set", "unlink"} : l = "publish"
          BY Zenon
        <4>2. /\ GoTo(t, l) /\ Set(s, r) /\ (l = "set" <=> r.listed) /\ ctl[t].slot = s
              /\ r.sbref = (IF l \in {"publish", "set"} THEN 1 ELSE 0)
              /\ ctl[t].pc \in {"start", "publish"} /\ ~r.listed
          BY Zenon, <2>0, <2>1, <2>2, <2>4, <3>1, <3>2, <4>1
        <4> QED
          BY <2>0, <3>2, <3>3, <4>2, <1>AdderStep
    <2> QED
      BY Zenon, <2>1, <2>3, <2>4 DEF Start
<1>PublishDev.
    ASSUME Types, DevInv, NEW t \in Ctls, Publish(t)
    PROVE  Types' /\ DevInv'
    <2> USE <1>PublishDev
    <2>0. ctl[t].pc = "publish" /\ ctl[t].pc \in WorkPCs /\ UNCHANGED << net, world >>
          /\ disk' \in [Names -> Ids \cup {None}]
      BY Zenon DEF Publish, At, WorkPCs, Adding, Types
    <2>1. PICK s \in Slots : s = ctl[t].slot /\ WorkOK(t, s) /\ mnt[s] \in Mounts
      BY Zenon, <2>0, AtWork
    <2>2. ~mnt[s].listed /\ mnt[s].sbref = 1 /\ mnt \in [Slots -> Mounts]
      BY Zenon, <2>0, <2>1 DEF WorkOK, Types
    <2>3. PICK dup \in BOOLEAN : dup = \E q \in Slots : mnt[q].listed /\ mnt[q].id = mnt[s].id
      BY Zenon
    <2>4. PICK r : r = IF dup THEN [mnt[s] EXCEPT !.sbref = 0, !.id = None] ELSE [mnt[s] EXCEPT !.listed = TRUE]
      BY Zenon
    <2>5. /\ r \in Mounts /\ (r.listed <=> ~dup) /\ r.ref = mnt[s].ref /\ r.sbref = (IF dup THEN 0 ELSE 1)
          /\ r.linked = mnt[s].linked /\ r.removed = mnt[s].removed
          /\ r.open = mnt[s].open /\ r.set = mnt[s].set /\ (~dup => r.id = mnt[s].id)
      <3>1. CASE dup
        <4>1. PICK m \in Mounts : m = mnt[s]
          BY Zenon, <2>1
        <4>2. PICK k \in Int : k = 0
          OBVIOUS
        <4>3. r = [m EXCEPT !.sbref = k, !.id = None] /\ None \in Ids \cup {None}
          BY Zenon, <2>4, <3>1, <4>1, <4>2
        <4>4. r \in Mounts
          BY Zenon, <4>1, <4>2, <4>3 DEF Mounts
        <4>5. /\ r.listed = m.listed /\ r.ref = m.ref /\ r.sbref = k /\ r.id = None
              /\ r.linked = m.linked /\ r.removed = m.removed /\ r.open = m.open /\ r.set = m.set
          BY Zenon, <4>1, <4>2, <4>3 DEF Mounts
        <4> QED
          BY Zenon, <2>2, <3>1, <4>1, <4>2, <4>4, <4>5
      <3>2. CASE ~dup
        BY Zenon, <2>1, <2>2, <2>4, <3>2 DEF Mounts
      <3> QED
        BY Zenon, <3>1, <3>2
    <2>6. PICK l \in {"set", "unlink"} : l = IF dup THEN "unlink" ELSE "set"
      BY Zenon
    <2>7. Set(s, r) /\ mnt'[s] = r
      BY Zenon, <2>1, <2>2, <2>3, <2>4 DEF Publish, SbInsert, Set
    <2>8. GoTo(t, l)
      BY Zenon, <2>1, <2>5, <2>6, <2>7 DEF Publish
    <2>9. /\ l = "set" <=> r.listed
          /\ r.listed => \A q \in Slots : mnt[q].listed => mnt[q].id # r.id
          /\ r.sbref = (IF l \in {"publish", "set"} THEN 1 ELSE 0)
          /\ ctl[t].pc \in {"start", "publish"} /\ l \in {"publish", "set", "unlink"}
      BY Zenon, <2>0, <2>3, <2>5, <2>6
    <2> QED
      BY <2>0, <2>1, <2>5, <2>7, <2>8, <2>9, <1>AdderStep

  \* The only call that works on a device goes on to take it down.
<1>LoneStep.
    ASSUME Types, DevInv, NEW t \in Ctls, NEW s \in Slots, ctl[t].slot = s, ctl[t].pc \in WorkPCs,
           ctl[t].pc \notin {"publish", "set"}, Works(s) \ {t} = {},
           NEW l \in {"assert", "close", "put"}, GoTo(t, l), NEW r \in Mounts, Set(s, r), ~r.listed,
           r.ref = mnt[s].ref, r.set = mnt[s].set, r.sbref = mnt[s].sbref, r.removed = mnt[s].removed,
           Holds(s) # {} => r.open \/ r.removed, r.linked => r.set /\ ctl[t].call = "exit",
           l = "assert" => ctl[t].call \in {"remove", "exit"},
           ctl[t].call \notin {"remove", "exit"} => r.sbref = 0 /\ ~r.linked,
           ctl[t].call = "remove" => r.removed /\ ~r.linked, ctl[t].call = "exit" => r.linked,
           UNCHANGED << disk, net, world >>
    PROVE  Types' /\ DevInv'
    <2> USE <1>LoneStep
    <2>1. l \in WorkPCs /\ l \notin Adding /\ disk' \in [Names -> Ids \cup {None}] /\ SlotOK(s)
      BY Zenon DEF WorkPCs, Adding, Types, DevInv
    <2>2. /\ Types' /\ ListOK' /\ (\A u \in Ctls : CtlOK(u)') /\ (\A q \in Slots \ {s} : SlotOK(q)')
          /\ Worked(t, s, l, r)
      BY Zenon, <2>1, <1>WorkerFrame
    <2>3. /\ mnt'[s] = r /\ ctl'[t].pc = l /\ ctl'[t].call = ctl[t].call /\ t \in Works(s)
          /\ \A u \in Works(s) : u = t
      BY Zenon, <2>2 DEF Worked
    <2>4. /\ ~\E u \in Works(s) : ctl[u].pc \in {"publish", "set"}
          /\ ~\E u \in Works(s) : ctl'[u].pc \in {"publish", "set"}
      BY Zenon, <2>3
    <2>5. mnt'[s].sbref = Cardinality(Holds(s))
            + IF mnt'[s].set \/ \E u \in Works(s) : ctl'[u].pc \in {"publish", "set"} THEN 1 ELSE 0
      BY Zenon, <2>1, <2>3, <2>4 DEF SlotOK, CountOK
    <2>6. WorkOK(t, s)'
      BY Zenon, <2>1, <2>3 DEF WorkOK, Adding
    <2>7. SlotOK(s)'
      BY Zenon, <2>1, <2>2, <2>3, <2>5, <2>6, <1>WorkerSlot
    <2> QED
      BY Zenon, <2>2, <2>7 DEF DevInv

  \* nkfs_dev_unlink
<1>UnlinkDev.
    ASSUME Types, DevInv, NEW t \in Ctls, Unlink(t), ~Oops
    PROVE  Types' /\ DevInv'
    <2> USE <1>UnlinkDev
    <2>0. ctl[t].pc = "unlink" /\ ctl[t].pc \in WorkPCs /\ ctl[t].pc \in Adding
      BY Zenon DEF Unlink, At, WorkPCs, Adding
    <2>1. PICK s \in Slots : s = ctl[t].slot /\ WorkOK(t, s) /\ mnt[s] \in Mounts /\ SlotOK(s) /\ t \in Works(s)
      BY Zenon, <2>0, AtWork
    <2>2. PICK r : r = [mnt[s] EXCEPT !.linked = FALSE]
      BY Zenon
    <2>3. PICK l \in {"assert", "close", "put"} : l = "close"
      BY Zenon
    <2>4. mnt[s].linked /\ Set(s, r) /\ GoTo(t, l) /\ UNCHANGED << disk, net, world >>
      BY Zenon, <2>1, <2>2, <2>3 DEF Unlink
    <2>5. /\ r \in Mounts /\ r.listed = mnt[s].listed /\ r.ref = mnt[s].ref /\ r.sbref = mnt[s].sbref
          /\ ~r.linked /\ r.removed = mnt[s].removed /\ r.open = mnt[s].open /\ r.set = mnt[s].set
      BY Zenon, <2>1, <2>2 DEF Mounts
    <2>6. Works(s) \ {t} = {}
      <3>1. ASSUME NEW u \in Works(s) \ {t} PROVE FALSE
        <4>1. ctl[u].pc = "stop" /\ WorkOK(u, s) /\ u \in Ctls
          BY Zenon, <2>0, <2>1 DEF SlotOK, Works
        <4>2. ctl[u].call = "exit"
          BY Zenon, <2>4, <4>1 DEF WorkOK
        <4> QED
          BY <2>0, <4>1, <4>2 DEF DevInv, CtlOK, NoCall
      <3> QED
        BY Zenon, <3>1
    <2>7. /\ ctl[t].call \in {"add", "format"} /\ mnt[s].open /\ mnt[s].sbref = 0 /\ ~mnt[s].listed
      BY Zenon, <2>0, <2>1 DEF WorkOK
    <2> QED
      BY Zenon, <2>0, <2>1, <2>3, <2>4, <2>5, <2>6, <2>7, <1>LoneStep

  \* nkfs_dev_stop
<1>StopDev.
    ASSUME Types, DevInv, NEW t \in Ctls, Stop(t), ~Oops
    PROVE  Types' /\ DevInv'
    <2> USE <1>StopDev
    <2>0. ctl[t].pc = "stop" /\ ctl[t].pc \in WorkPCs /\ ctl[t].pc \notin Adding
      BY Zenon DEF Stop, At, WorkPCs, Adding
    <2>1. PICK s \in Slots : s = ctl[t].slot /\ WorkOK(t, s) /\ mnt[s] \in Mounts /\ SlotOK(s) /\ t \in Works(s)
      BY Zenon, <2>0, AtWork
    <2>2. PICK r : r = [mnt[s] EXCEPT !.stopped = TRUE, !.listed = FALSE]
      BY Zenon
    <2>3. PICK l \in {"assert", "close", "put"} : l = "assert"
      BY Zenon
    <2>4. mnt[s].set /\ Set(s, r) /\ GoTo(t, l) /\ UNCHANGED << disk, net, world >>
      BY Zenon, <2>1, <2>2, <2>3 DEF Stop
    <2>5. /\ r \in Mounts /\ ~r.listed /\ r.ref = mnt[s].ref /\ r.sbref = mnt[s].sbref
          /\ (r.linked <=> mnt[s].linked) /\ r.removed = mnt[s].removed /\ r.open = mnt[s].open /\ r.set = mnt[s].set
      <3>1. PICK m \in Mounts : m = mnt[s]
        BY Zenon, <2>1
      <3>2. r = [m EXCEPT !.stopped = TRUE, !.listed = FALSE]
        BY Zenon, <2>2, <3>1
      <3>3. r \in Mounts
        BY Zenon, <3>1, <3>2 DEF Mounts
      <3>4. /\ ~r.listed /\ r.ref = m.ref /\ r.sbref = m.sbref
            /\ (r.linked <=> m.linked) /\ r.removed = m.removed /\ r.open = m.open /\ r.set = m.set
        BY ZenonT(60), <3>1, <3>2 DEF Mounts
      <3> QED
        BY Zenon, <3>1, <3>3, <3>4
    <2>6. Works(s) \ {t} = {}
      BY Zenon, <2>0, <2>1, <2>4 DEF SlotOK, WorkOK
    <2>7. ctl[t].call \in {"remove", "exit"} /\ (Holds(s) # {} => mnt[s].open \/ mnt[s].removed)
          /\ (ctl[t].call = "remove" => mnt[s].removed /\ ~mnt[s].linked)
          /\ (ctl[t].call = "exit" => mnt[s].linked)
      BY ZenonT(60), <2>0, <2>1 DEF WorkOK, SlotOK
    <2> QED
      BY Zenon, <2>0, <2>1, <2>3, <2>4, <2>5, <2>6, <2>7, <1>LoneStep

  \* The end of nkfs_sb_stop.
<1>NoInodesDev.
    ASSUME Types, DevInv, NEW t \in Ctls, NoInodes(t), ~Oops
    PROVE  Types' /\ DevInv'
    <2> USE <1>NoInodesDev
    <2>0. ctl[t].pc = "assert" /\ ctl[t].pc \in WorkPCs /\ ctl[t].pc \notin Adding
      BY Zenon DEF NoInodes, At, WorkPCs, Adding
    <2>1. PICK s \in Slots : s = ctl[t].slot /\ WorkOK(t, s) /\ mnt[s] \in Mounts /\ SlotOK(s) /\ t \in Works(s)
      BY Zenon, <2>0, AtWork
    <2>2. PICK l \in {"assert", "close", "put"} : l = "close"
      BY Zenon
    <2>3. GoTo(t, l) /\ UNCHANGED << disk, mnt, net, world >> /\ mnt \in [Slots -> Mounts]
      BY Zenon, <2>2 DEF NoInodes, Types
    <2>4. Set(s, mnt[s])
      BY Zenon, <2>3 DEF Set
    <2>5. Works(s) \ {t} = {}
      BY Zenon, <2>0, <2>1 DEF SlotOK
    <2>6. ctl[t].call \in {"remove", "exit"} /\ (Holds(s) # {} => mnt[s].open \/ mnt[s].removed)
          /\ (ctl[t].call = "remove" => mnt[s].removed /\ ~mnt[s].linked)
          /\ (ctl[t].call = "exit" => mnt[s].linked) /\ ~mnt[s].listed
      BY Zenon, <2>0, <2>1 DEF WorkOK, SlotOK
    <2>7. mnt[s].linked => mnt[s].set
      BY ZenonT(60), <2>0, <2>1, <2>5 DEF SlotOK
    <2> QED
      BY Zenon, <2>0, <2>1, <2>2, <2>3, <2>4, <2>5, <2>6, <2>7, <1>LoneStep

  \* nkfs_dev_release
<1>CloseDev.
    ASSUME Types, NetInv, DevInv, NEW t \in Ctls, Close(t)
    PROVE  Types' /\ DevInv'
    <2> USE <1>CloseDev
    <2>0. ctl[t].pc = "close" /\ ctl[t].pc \in WorkPCs /\ ctl[t].pc \notin Adding
      BY Zenon DEF Close, At, WorkPCs, Adding
    <2>1. PICK s \in Slots : s = ctl[t].slot /\ WorkOK(t, s) /\ mnt[s] \in Mounts /\ SlotOK(s) /\ t \in Works(s)
      BY Zenon, <2>0, AtWork
    <2>2. PICK r : r = [mnt[s] EXCEPT !.open = FALSE]
      BY Zenon
    <2>3. PICK l \in {"assert", "close", "put"} : l = "put"
      BY Zenon
    <2>4. Set(s, r) /\ GoTo(t, l) /\ UNCHANGED << disk, net, world >>
      BY Zenon, <2>1, <2>2, <2>3 DEF Close
    <2>5. /\ r \in Mounts /\ r.listed = mnt[s].listed /\ r.ref = mnt[s].ref /\ r.sbref = mnt[s].sbref
          /\ r.linked = mnt[s].linked /\ r.removed = mnt[s].removed /\ r.set = mnt[s].set
      BY Zenon, <2>1, <2>2 DEF Mounts
    <2>6. Works(s) \ {t} = {}
      BY Zenon, <2>0, <2>1 DEF SlotOK
    <2>7. mnt[s].linked => mnt[s].set /\ ctl[t].call = "exit"
      BY Zenon, <2>0, <2>1, <2>6 DEF SlotOK
    <2>8. /\ ctl[t].call = "remove" => mnt[s].removed /\ ~mnt[s].linked
          /\ ctl[t].call = "exit" => mnt[s].linked
          /\ ctl[t].call \notin {"remove", "exit"} => mnt[s].sbref = 0 /\ ~mnt[s].linked
          /\ ~mnt[s].listed
      BY Zenon, <2>0, <2>1 DEF WorkOK
    <2>9. Holds(s) # {} => mnt[s].removed
      <3>1. CASE ctl[t].call = "exit"
        BY Zenon, <2>0, <3>1, ExitHolds
      <3>2. CASE ctl[t].call \notin {"remove", "exit"}
        <4>1. mnt[s].sbref = 0 /\ Cardinality(Holds(s)) \in Nat
          BY ZenonT(60), <2>8, <3>2, HoldsCount
        <4>2. Cardinality(Holds(s)) = 0
          <5>1. mnt[s].sbref = Cardinality(Holds(s))
                  + IF mnt[s].set \/ \E w \in Works(s) : ctl[w].pc \in {"publish", "set"} THEN 1 ELSE 0
            BY Zenon, <2>1 DEF SlotOK, CountOK
          <5> QED
            BY <4>1, <5>1
        <4> QED
          BY Zenon, <4>2, HoldsCount
      <3> QED
        BY Zenon, <2>8, <3>1, <3>2
    <2> QED
      BY Zenon, <2>0, <2>1, <2>3, <2>4, <2>5, <2>6, <2>7, <2>8, <2>9, <1>LoneStep

<1> QED
  BY <1>InsertDev, <1>StartDev, <1>PublishDev, <1>CloseDev, <1>UnlinkDev, <1>StopDev, <1>NoInodesDev, Zenon

\* The calls that begin or end on a device, and those that ask about one.
LEMMA AskingCalls ==
  \A t \in Ctls : Types /\ DevInv =>
    /\ Add(t) \/ Remove(t) \/ Query(t) \/ SetSb(t) \/ Deref(t) => Types' /\ DevInv'
    /\ ~Oops /\ Look(t) => Types' /\ DevInv'

  \* A call that adds a device shares it at most with one that removes it.
<1>AdderOthers.
    ASSUME DevInv, NEW s \in Slots, NEW t \in Works(s), ctl[t].pc \in Adding, NEW u \in Works(s) \ {t}
    PROVE  ctl[u].pc = "stop" /\ ctl[u].call = "remove" /\ mnt[s].removed /\ ~mnt[s].linked
    <2> USE <1>AdderOthers
    <2>1. SlotOK(s) /\ t \in Ctls /\ u \in Ctls /\ "stop" \notin Adding /\ "idle" \notin Adding
      BY Zenon DEF DevInv, Works, Adding
    <2>2. ctl[u].pc = "stop" /\ WorkOK(u, s)
      BY Zenon, <2>1 DEF SlotOK
    <2>3. ctl[u].call # "exit"
      BY <2>1 DEF DevInv, CtlOK, NoCall
    <2> QED
      BY Zenon, <2>2, <2>3 DEF WorkOK

  \* dev->sb is set at the end of nkfs_dev_start, and the call returns.
<1>SetSbDev.
    ASSUME Types, DevInv, NEW t \in Ctls, SetSb(t)
    PROVE  Types' /\ DevInv'
    <2> USE <1>SetSbDev
    <2>0. ctl[t].pc = "set" /\ ctl[t].pc \in WorkPCs /\ ctl[t].pc \in Adding /\ ctl[t] # NoCall
      BY DEF SetSb, At, WorkPCs, Adding, NoCall
    <2>1. PICK s \in Slots : s = ctl[t].slot /\ WorkOK(t, s) /\ mnt[s] \in Mounts /\ SlotOK(s) /\ t \in Works(s)
      BY <2>0, AtWork
    <2>2. PICK r : r = [mnt[s] EXCEPT !.set = TRUE]
      BY Zenon
    <2>3. PICK v \in Calls : v = NoCall
      BY Zenon DEF Calls, NoCall
    <2>4. Set(s, r) /\ ctl' = [ctl EXCEPT ![t] = v] /\ UNCHANGED << disk, net, world >>
      BY <2>1, <2>2, <2>3 DEF SetSb
    <2>5. /\ r \in Mounts /\ r.listed = mnt[s].listed /\ r.ref = mnt[s].ref /\ r.sbref = mnt[s].sbref
          /\ r.linked = mnt[s].linked /\ r.removed = mnt[s].removed /\ r.open = mnt[s].open /\ r.set
          /\ r.id = mnt[s].id
      BY Zenon, <2>1, <2>2 DEF Mounts
    <2>6. v.slot = None /\ v.pc = "idle" /\ v.pc \notin SlotPCs /\ v.call = "none" /\ s # None
      BY Zenon, <2>3, PlanAssumption DEF NoCall, SlotPCs, WorkPCs, Adding
    <2>7. /\ Types' /\ ListOK' /\ (\A u \in Ctls : CtlOK(u)') /\ (\A q \in Slots \ {s} : SlotOK(q)')
          /\ mnt'[s] = r /\ ctl'[t] = v /\ (\A u \in Ctls \ {t} : ctl'[u] = ctl[u]) /\ Holds(s)' = Holds(s)
      <3>1. Turns(t, s, v, r)
        BY <2>0, <2>1, <2>3, <2>4, <2>5, <2>6 DEF Turns
      <3> QED
        BY Zenon, <3>1, CallFrame
    <2>8. Asks(s)' = Asks(s)
      BY ZenonT(60), <2>0, <2>6, <2>7 DEF Asks
    <2>9. Works(s)' = Works(s) \ {t}
      BY Zenon, <2>1, <2>6, <2>7, <2>8 DEF Works
    <2>10. \A u \in Works(s) \ {t} : /\ ctl'[u] = ctl[u] /\ ctl[u].pc = "stop" /\ ctl[u].call = "remove"
                                     /\ mnt[s].removed /\ ~mnt[s].linked
      BY <2>0, <2>1, <2>7, <1>AdderOthers DEF Works
    <2>11. mnt[s].linked \/ Works(s) \ {t} # {}
      BY ZenonT(60), <2>0, <2>1 DEF WorkOK
    <2>12. mnt[s].ref = Cardinality(Asks(s)) + 1 /\ mnt[s].sbref = Cardinality(Holds(s)) + 1
           /\ Cardinality(Asks(s)) \in Nat
      BY Zenon, <2>0, <2>1, AsksCount DEF SlotOK, CountOK
    <2>13. CountOK(s)' /\ mnt'[s].ref > 0
      BY <2>5, <2>7, <2>8, <2>9, <2>11, <2>12 DEF CountOK
    <2>14. \A u \in Works(s)' : WorkOK(u, s)'
      <3> SUFFICES ASSUME NEW u \in Works(s) \ {t} PROVE WorkOK(u, s)'
        BY Zenon, <2>9
      <3>1. ctl'[u].pc = "stop" /\ ctl'[u].call = "remove" /\ mnt'[s].removed /\ ~mnt'[s].linked /\ mnt'[s].set
        BY <2>5, <2>7, <2>10
      <3> QED
        BY Zenon, <3>1 DEF WorkOK, Adding
    <2>15. \A u, w \in Works(s)' : u = w
      BY ZenonT(60), <2>9, <2>10, <2>1 DEF SlotOK, Adding
    <2>16. mnt'[s].open /\ (mnt'[s].linked => Works(s)' = {})
      BY Zenon, <2>0, <2>1, <2>5, <2>7, <2>9, <2>10 DEF WorkOK
    <2>17. SlotOK(s)'
      BY <2>5, <2>7, <2>13, <2>14, <2>15, <2>16 DEF SlotOK
    <2> QED
      BY <2>7, <2>17 DEF DevInv

  \* nkfs_dev_deref, and nkfs_sb_deref for the last one.
<1>DerefFields.
    ASSUME NEW m \in Mounts, NEW r, r = DevDeref(m)
    PROVE  /\ r \in Mounts
           /\ r.ref = m.ref - 1
           /\ r.set <=> m.set /\ m.ref # 1
           /\ r.sbref = IF m.set /\ m.ref = 1 THEN m.sbref - 1 ELSE m.sbref
           /\ r.ref = 0 /\ r.sbref = 0 => r = NoMnt
           /\ ~(r.ref = 0 /\ r.sbref = 0) => /\ r.linked = m.linked /\ r.open = m.open /\ r.listed = m.listed
                                             /\ r.id = m.id /\ r.removed = m.removed
    <2> USE <1>DerefFields
    <2>0. NoMnt \in Mounts
      BY DEF NoMnt, Mounts
    <2>1. PICK d : d = [m EXCEPT !.ref = @ - 1]
      BY Zenon
    <2>1a. d \in Mounts
      BY <2>1 DEF Mounts
    <2>2. /\ d.ref = m.ref - 1 /\ d.set = m.set /\ d.sbref = m.sbref /\ d.linked = m.linked /\ d.open = m.open
          /\ d.listed = m.listed /\ d.id = m.id /\ d.removed = m.removed /\ m.ref \in Int /\ m.set \in BOOLEAN
      BY <2>1 DEF Mounts
    <2>3. CASE d.ref = 0 /\ d.set
      <3>1. PICK e : e = [d EXCEPT !.set = FALSE]
        BY Zenon
      <3>2. /\ e \in Mounts /\ e.ref = d.ref /\ ~e.set /\ e.sbref = d.sbref /\ e.linked = d.linked
            /\ e.open = d.open /\ e.listed = d.listed /\ e.id = d.id /\ e.removed = d.removed
        BY Zenon, <2>1a, <3>1 DEF Mounts
      <3>3. PICK f : f = [e EXCEPT !.sbref = @ - 1]
        BY Zenon
      <3>4. /\ f \in Mounts /\ f.ref = e.ref /\ ~f.set /\ f.sbref = e.sbref - 1 /\ f.linked = e.linked
            /\ f.open = e.open /\ f.listed = e.listed /\ f.id = e.id /\ f.removed = e.removed
        BY <3>2, <3>3 DEF Mounts
      <3>5. r = IF f.ref = 0 /\ f.sbref = 0 THEN NoMnt ELSE f
        BY <2>1, <2>3, <3>1, <3>3 DEF DevDeref, SbDeref, Freed
      <3>6. NoMnt.ref = 0 /\ NoMnt.sbref = 0 /\ ~NoMnt.set
        BY Zenon DEF NoMnt
      <3>7. m.ref = 1 /\ m.set
        BY <2>2, <2>3
      <3> QED
        BY ZenonT(60), <2>0, <2>2, <3>2, <3>4, <3>5, <3>6, <3>7
    <2>4. CASE ~(d.ref = 0 /\ d.set)
      <3>1. r = IF d.ref = 0 /\ d.sbref = 0 THEN NoMnt ELSE d
        BY Zenon, <2>1, <2>4 DEF DevDeref, Freed
      <3>2. NoMnt.ref = 0 /\ NoMnt.sbref = 0 /\ ~NoMnt.set
        BY Zenon DEF NoMnt
      <3>3. ~(m.ref = 1 /\ m.set)
        BY <2>2, <2>4
      <3> QED
        BY Zenon, <2>0, <2>1a, <2>2, <2>4, <3>1, <3>2, <3>3
    <2> QED
      BY <2>3, <2>4

  \* The end of a call on a device: one call less of those that ask or work.
<1>DerefDev.
    ASSUME Types, DevInv, NEW t \in Ctls, Deref(t)
    PROVE  Types' /\ DevInv'
    <2> USE <1>DerefDev
    <2>0. /\ ctl[t].pc \in {"put", "unref"} /\ ctl[t] # NoCall /\ ctl[t] \in Calls /\ CtlOK(t)
          /\ ctl[t].pc \in SlotPCs /\ mnt \in [Slots -> Mounts]
      BY DEF Deref, At, NoCall, Types, DevInv, SlotPCs, WorkPCs
    <2>1. PICK s \in Slots : s = ctl[t].slot
      BY Zenon, <2>0 DEF CtlOK, Calls
    <2>2. mnt[s] \in Mounts /\ SlotOK(s) /\ CountOK(s) /\ s # None
      BY <2>0, PlanAssumption DEF DevInv, SlotOK
    <2>3. PICK asks \in BOOLEAN : asks <=> ctl[t].pc = "unref"
      BY Zenon
    <2>4. PICK m : m = [mnt[s] EXCEPT !.linked = @ /\ asks]
      BY Zenon
    <2>5. /\ m \in Mounts /\ m.ref = mnt[s].ref /\ m.sbref = mnt[s].sbref /\ (m.set <=> mnt[s].set)
          /\ m.open = mnt[s].open /\ m.listed = mnt[s].listed /\ m.id = mnt[s].id
          /\ m.removed = mnt[s].removed /\ (m.linked <=> mnt[s].linked /\ asks)
      BY Zenon, <2>2, <2>4 DEF Mounts
    <2>6. PICK r : r = DevDeref(m)
      BY Zenon
    <2>7. PICK v : v = IF ctl[t].call = "exit" THEN [ctl[t] EXCEPT !.pc = "devs", !.slot = None] ELSE NoCall
      BY Zenon
    <2>8. Set(s, r) /\ ctl' = [ctl EXCEPT ![t] = v] /\ UNCHANGED << disk, net, world >>
      <3>1. m = [mnt[s] EXCEPT !.linked = @ /\ ctl[t].pc = "unref"]
        BY Zenon, <2>3, <2>4
      <3> QED
        BY <2>1, <2>6, <2>7, <3>1 DEF Deref
    <2>9. /\ v \in Calls /\ v.slot = None /\ v.pc \in {"idle", "devs"} /\ (v.pc = "idle" => v = NoCall)
          /\ (v.pc = "devs" => v.call = "exit") /\ (v.call = "exit" => ctl[t].call = "exit")
      BY Zenon, <2>0, <2>7 DEF Calls, NoCall
    <2>10. /\ r \in Mounts /\ r.ref = m.ref - 1 /\ (r.set <=> m.set /\ m.ref # 1)
           /\ r.sbref = (IF m.set /\ m.ref = 1 THEN m.sbref - 1 ELSE m.sbref)
           /\ (r.ref = 0 /\ r.sbref = 0 => r = NoMnt)
           /\ (~(r.ref = 0 /\ r.sbref = 0) => /\ r.linked = m.linked /\ r.open = m.open /\ r.listed = m.listed
                                              /\ r.id = m.id /\ r.removed = m.removed)
      BY <2>5, <2>6, <1>DerefFields
    <2>a. m.ref \in Int /\ m.sbref \in Int /\ ~NoMnt.listed /\ ~NoMnt.linked /\ ~NoMnt.set
      BY Zenon, <2>5 DEF Mounts, NoMnt
    <2>11. Turns(t, s, v, r)
      <3>1. r.listed => mnt[s].listed /\ r.id = mnt[s].id
        BY Zenon, <2>5, <2>10, <2>a
      <3>2. v.pc \notin SlotPCs
        BY Zenon, <2>9 DEF SlotPCs, WorkPCs, Adding
      <3> QED
        BY Zenon, <2>0, <2>1, <2>2, <2>8, <2>9, <2>10, <3>1, <3>2 DEF Turns
    <2>12. /\ Types' /\ ListOK' /\ (\A u \in Ctls : CtlOK(u)') /\ (\A q \in Slots \ {s} : SlotOK(q)')
           /\ mnt'[s] = r /\ ctl'[t] = v /\ (\A u \in Ctls \ {t} : ctl'[u] = ctl[u]) /\ Holds(s)' = Holds(s)
      BY Zenon, <2>11, CallFrame
    <2>13. /\ Asks(s)' = Asks(s) \ {t} /\ Works(s)' = Works(s) \ {t}
           /\ \A u \in Works(s) \ {t} : ctl'[u] = ctl[u]
      BY Zenon, <2>2, <2>9, <2>12 DEF Asks, Works
    <2>14. /\ Cardinality(Asks(s)) \in Nat /\ Cardinality(Asks(s) \ {t}) \in Nat /\ Cardinality(Holds(s)) \in Nat
           /\ t \in Asks(s) => Cardinality(Asks(s) \ {t}) = Cardinality(Asks(s)) - 1
           /\ t \notin Asks(s) => Asks(s) \ {t} = Asks(s)
           /\ Cardinality(Holds(s)) = 0 => Holds(s) = {}
      <3>1. IsFiniteSet(Asks(s)) /\ Cardinality(Asks(s)) \in Nat
        BY Zenon, AsksCount
      <3>2. IsFiniteSet(Asks(s) \ {t}) /\ Cardinality(Asks(s) \ {t}) \in Nat
        BY <3>1, FS_Subset, FS_CardinalityType
      <3> QED
        BY <3>1, <3>2, FS_RemoveElement, HoldsCount
    <2>15. CASE asks
      <3>1. t \in Asks(s) /\ t \notin Works(s) /\ (m.linked <=> mnt[s].linked)
        BY <2>1, <2>3, <2>5, <2>15 DEF Asks, Works
      <3>2. Works(s)' = Works(s) /\ \A u \in Works(s) : ctl'[u] = ctl[u]
        BY Zenon, <2>13, <3>1
      <3>3. r.ref = Cardinality(Asks(s)') + IF m.linked \/ Works(s)' # {} THEN 1 ELSE 0
        BY <2>2, <2>5, <2>10, <2>13, <2>14, <3>1, <3>2 DEF CountOK
      <3>4. CASE r.ref = 0
        <4>1. ~m.linked /\ Works(s)' = {} /\ Works(s) = {} /\ m.ref = 1
          <5>1. Cardinality(Asks(s)') \in Nat
            BY Zenon, <2>13, <2>14
          <5>2. ~m.linked /\ Works(s)' = {}
            BY <3>3, <3>4, <5>1
          <5> QED
            BY <2>10, <2>a, <3>2, <3>4, <5>2
        <4>2. ~r.linked /\ ~r.set
          BY Zenon, <2>10, <2>a, <3>4, <4>1
        <4>3. r.sbref = Cardinality(Holds(s))
          <5>1. mnt[s].sbref = Cardinality(Holds(s)) + (IF mnt[s].set THEN 1 ELSE 0)
            BY Zenon, <2>2, <4>1 DEF CountOK
          <5> QED
            BY <2>5, <2>10, <2>14, <4>1, <5>1
        <4>4. CountOK(s)'
          <5>1. r.ref = Cardinality(Asks(s)') + IF r.linked \/ Works(s)' # {} THEN 1 ELSE 0
            BY Zenon, <3>3, <4>1, <4>2
          <5>2. r.sbref = Cardinality(Holds(s)') + IF r.set \/ \E u \in Works(s)' : ctl'[u].pc \in {"publish", "set"} THEN 1 ELSE 0
            <6>1. ~(r.set \/ \E u \in Works(s)' : ctl'[u].pc \in {"publish", "set"})
              BY Zenon, <4>1, <4>2
            <6>2. r.sbref = Cardinality(Holds(s)') /\ Cardinality(Holds(s)') \in Nat
              BY ZenonT(60), <2>12, <2>14, <4>3
            <6> QED
              BY <6>1, <6>2
          <5> QED
            BY <2>12, <5>1, <5>2 DEF CountOK
        <4>5. /\ r.listed => r.open
              /\ Holds(s) # {} => r.open \/ r.removed
          BY <2>2, <2>5, <2>10, <2>14, <3>4, <4>3 DEF SlotOK, NoMnt
        <4>6. SlotOK(s)'
          BY Zenon, <2>10, <2>12, <4>1, <4>2, <4>4, <4>5 DEF SlotOK
        <4> QED
          BY Zenon, <2>12, <4>6 DEF DevInv
      <3>5. CASE r.ref # 0
        <4>1. /\ r.linked = m.linked /\ r.open = m.open /\ r.listed = m.listed /\ r.removed = m.removed
              /\ (r.set <=> m.set) /\ r.sbref = m.sbref /\ r.ref > 0
          BY <2>5, <2>10, <2>13, <2>14, <3>3, <3>5 DEF Mounts
        <4>2. CountOK(s)'
          BY Zenon, <2>2, <2>5, <2>12, <3>2, <3>3, <4>1 DEF CountOK
        <4>3. ASSUME NEW u \in Works(s) PROVE WorkOK(u, s)'
          <5>1. WorkOK(u, s) /\ ctl'[u] = ctl[u]
            BY <2>2, <3>2 DEF SlotOK
          <5>2. /\ (\E w \in Works(s) : ctl[w].pc \in Adding) => \E w \in Works(s)' : ctl'[w].pc \in Adding
                /\ (\E w \in Works(s) : ctl[w].call = "remove") => \E w \in Works(s)' : ctl'[w].call = "remove"
            BY Zenon, <3>2
          <5>3. /\ mnt'[s].linked = mnt[s].linked /\ mnt'[s].open = mnt[s].open /\ mnt'[s].listed = mnt[s].listed
                /\ mnt'[s].removed = mnt[s].removed /\ (mnt'[s].set <=> mnt[s].set) /\ mnt'[s].sbref = mnt[s].sbref
            BY Zenon, <2>2, <2>5, <2>12, <3>1, <4>1 DEF Mounts
          <5> QED
            BY Zenon, <5>1, <5>2, <5>3 DEF WorkOK
        <4>4. /\ r.set => r.ref > 0
              /\ r.listed => r.open
              /\ Holds(s) # {} => r.open \/ r.removed
              /\ r.linked => r.set \/ \E u \in Works(s)' : ctl'[u].pc \in Adding
              /\ r.linked => \A u \in Works(s)' : ctl'[u].pc \in Adding \/ ctl'[u].call = "exit"
          <5>1. /\ mnt[s].listed => mnt[s].open
                /\ Holds(s) # {} => mnt[s].open \/ mnt[s].removed
                /\ mnt[s].linked => mnt[s].set \/ \E u \in Works(s) : ctl[u].pc \in Adding
                /\ mnt[s].linked => \A u \in Works(s) : ctl[u].pc \in Adding \/ ctl[u].call = "exit"
            BY Zenon, <2>2 DEF SlotOK
          <5> QED
            BY Zenon, <2>5, <3>1, <3>2, <4>1, <5>1
        <4>5. \A u, w \in Works(s)' : u # w => \/ ctl'[u].pc = "stop" /\ ctl'[w].pc \in Adding
                                               \/ ctl'[w].pc = "stop" /\ ctl'[u].pc \in Adding
          <5>1. \A u, w \in Works(s) : u # w => \/ ctl[u].pc = "stop" /\ ctl[w].pc \in Adding
                                                \/ ctl[w].pc = "stop" /\ ctl[u].pc \in Adding
            BY Zenon, <2>2 DEF SlotOK
          <5> QED
            BY ZenonT(60), <3>2, <5>1
        <4>6. SlotOK(s)'
          BY Zenon, <2>12, <3>2, <3>5, <4>2, <4>3, <4>4, <4>5 DEF SlotOK
        <4> QED
          BY Zenon, <2>12, <4>6 DEF DevInv
      <3> QED
        BY Zenon, <3>4, <3>5
    <2>16. CASE ~asks
      <3>1. t \in Works(s) /\ t \notin Asks(s) /\ ~m.linked /\ ctl[t].pc = "put"
        BY Zenon, <2>0, <2>1, <2>3, <2>5, <2>16 DEF Asks, Works
      <3>2. Works(s) = {t} /\ Works(s)' = {} /\ Asks(s)' = Asks(s)
        BY Zenon, <2>2, <2>13, <2>14, <3>1 DEF SlotOK, Adding
      <3>3. r.ref = Cardinality(Asks(s)') /\ m.sbref = Cardinality(Holds(s)) + (IF m.set THEN 1 ELSE 0)
        <4>1. Works(s) # {} /\ ~\E w \in Works(s) : ctl[w].pc \in {"publish", "set"}
          BY Zenon, <3>1, <3>2
        <4>2. mnt[s].ref = Cardinality(Asks(s)) + 1
          BY Zenon, <2>2, <4>1 DEF CountOK
        <4>3. mnt[s].sbref = Cardinality(Holds(s)) + (IF mnt[s].set THEN 1 ELSE 0)
          BY Zenon, <2>2, <4>1 DEF CountOK
        <4>4. Cardinality(Asks(s)) \in Nat /\ r.ref = m.ref - 1
          BY Zenon, <2>10, <2>14
        <4>5. m.ref = mnt[s].ref /\ m.sbref = mnt[s].sbref /\ (m.set <=> mnt[s].set)
          BY Zenon, <2>5
        <4> QED
          BY <3>2, <4>2, <4>3, <4>4, <4>5
      <3>4. ~r.linked /\ r.sbref = Cardinality(Holds(s)) + (IF r.set THEN 1 ELSE 0)
        BY <2>10, <2>14, <3>1, <3>3 DEF NoMnt
      <3>5. CountOK(s)'
        <4>1. r.ref = Cardinality(Asks(s)') + IF r.linked \/ Works(s)' # {} THEN 1 ELSE 0
          BY <2>14, <3>2, <3>3, <3>4
        <4>2. r.sbref = Cardinality(Holds(s)') + IF r.set \/ \E u \in Works(s)' : ctl'[u].pc \in {"publish", "set"} THEN 1 ELSE 0
          BY Zenon, <2>12, <3>2, <3>4
        <4> QED
          BY Zenon, <2>12, <4>1, <4>2 DEF CountOK
      <3>6. /\ r.listed => r.open
            /\ Holds(s) # {} => r.open \/ r.removed
        <4>1. CASE r.ref = 0 /\ r.sbref = 0
          <5>1. Holds(s) = {}
            <6>1. Cardinality(Holds(s)) \in Nat /\ (Cardinality(Holds(s)) = 0 => Holds(s) = {})
              BY Zenon, <2>14
            <6>2. Cardinality(Holds(s)) = 0
              BY <3>4, <4>1, <6>1
            <6> QED
              BY Zenon, <6>1, <6>2
          <5> QED
            BY Zenon, <2>10, <2>a, <4>1, <5>1
        <4>2. CASE ~(r.ref = 0 /\ r.sbref = 0)
          BY Zenon, <2>2, <2>5, <2>10, <4>2 DEF SlotOK
        <4> QED
          BY Zenon, <4>1, <4>2
      <3>7. r.set => r.ref > 0
        BY <2>5, <2>10, <2>14, <3>2, <3>3 DEF Mounts
      <3>8. SlotOK(s)'
        BY ZenonT(60), <2>10, <2>12, <3>2, <3>4, <3>5, <3>6, <3>7 DEF SlotOK
      <3> QED
        BY Zenon, <2>12, <3>8 DEF DevInv
    <2> QED
      BY Zenon, <2>15, <2>16

  \* A device that nobody works on anew, and of which no more than the count of
  \* the calls that ask changes.
<1>SameWorks.
    ASSUME DevInv, NEW s \in Slots, mnt[s] \in Mounts, mnt'[s] \in Mounts, mnt'[s].ref > 0,
           Holds(s)' = Holds(s), Works(s)' = Works(s), \A u \in Works(s) : ctl'[u] = ctl[u],
           mnt'[s].linked = mnt[s].linked, mnt'[s].open = mnt[s].open, mnt'[s].listed = mnt[s].listed,
           mnt'[s].removed = mnt[s].removed, mnt'[s].set = mnt[s].set, mnt'[s].sbref = mnt[s].sbref,
           mnt'[s].ref - Cardinality(Asks(s)') = mnt[s].ref - Cardinality(Asks(s)),
           Cardinality(Asks(s)) \in Nat, Cardinality(Asks(s)') \in Nat
    PROVE  SlotOK(s)'
    <2> USE <1>SameWorks
    <2>1. SlotOK(s) /\ CountOK(s) /\ mnt[s].ref \in Int /\ mnt'[s].ref \in Int
      BY Zenon DEF DevInv, SlotOK, Mounts
    <2>2. CountOK(s)'
      <3>1. mnt'[s].ref = Cardinality(Asks(s)') + IF mnt'[s].linked \/ Works(s)' # {} THEN 1 ELSE 0
        BY <2>1 DEF CountOK
      <3>2. (\E w \in Works(s)' : ctl'[w].pc \in {"publish", "set"}) <=> \E w \in Works(s) : ctl[w].pc \in {"publish", "set"}
        BY Zenon
      <3>3. mnt'[s].sbref = Cardinality(Holds(s)')
              + IF mnt'[s].set \/ \E w \in Works(s)' : ctl'[w].pc \in {"publish", "set"} THEN 1 ELSE 0
        BY Zenon, <2>1, <3>2 DEF CountOK
      <3> QED
        BY Zenon, <3>1, <3>3 DEF CountOK
    <2>3. ASSUME NEW u \in Works(s) PROVE WorkOK(u, s)'
      <3>1. WorkOK(u, s) /\ ctl'[u] = ctl[u]
        BY <2>1 DEF SlotOK
      <3>2. /\ (\E w \in Works(s) : ctl[w].pc \in Adding) => \E w \in Works(s)' : ctl'[w].pc \in Adding
            /\ (\E w \in Works(s) : ctl[w].call = "remove") => \E w \in Works(s)' : ctl'[w].call = "remove"
        BY Zenon
      <3> QED
        BY Zenon, <3>1, <3>2 DEF WorkOK
    <2>4. /\ mnt'[s].set => mnt'[s].ref > 0
          /\ mnt'[s].listed => mnt'[s].open
          /\ Holds(s)' # {} => mnt'[s].open \/ mnt'[s].removed
          /\ mnt'[s].linked => mnt'[s].set \/ \E u \in Works(s)' : ctl'[u].pc \in Adding
          /\ mnt'[s].linked => \A u \in Works(s)' : ctl'[u].pc \in Adding \/ ctl'[u].call = "exit"
      <3>1. /\ mnt[s].set => mnt[s].ref > 0
            /\ mnt[s].listed => mnt[s].open
            /\ Holds(s) # {} => mnt[s].open \/ mnt[s].removed
            /\ mnt[s].linked => mnt[s].set \/ \E u \in Works(s) : ctl[u].pc \in Adding
            /\ mnt[s].linked => \A u \in Works(s) : ctl[u].pc \in Adding \/ ctl[u].call = "exit"
        BY Zenon, <2>1 DEF SlotOK
      <3> QED
        BY <2>1, <3>1
    <2>5. \A u, w \in Works(s)' : u # w => \/ ctl'[u].pc = "stop" /\ ctl'[w].pc \in Adding
                                           \/ ctl'[w].pc = "stop" /\ ctl'[u].pc \in Adding
      BY <2>1 DEF SlotOK
    <2>6. mnt'[s].ref # 0
      BY <2>1
    <2> QED
      BY Zenon, <2>2, <2>3, <2>4, <2>5, <2>6 DEF SlotOK

  \* nkfs_dev_query: the lookup takes a reference,
<1>QueryDev.
    ASSUME Types, DevInv, NEW t \in Ctls, Query(t)
    PROVE  Types' /\ DevInv'
    <2> USE <1>QueryDev
    <2>1. PICK s \in Slots : /\ mnt[s].linked /\ Set(s, [mnt[s] EXCEPT !.ref = @ + 1])
                             /\ ctl' = [ctl EXCEPT ![t] = [pc |-> "query", slot |-> s, call |-> "query"]]
      BY Zenon DEF Query
    <2>2. /\ ctl[t].pc = "idle" /\ (\A u \in Ctls : ctl[u].call # "exit") /\ UNCHANGED << disk, net, world >>
          /\ ctl[t] = NoCall /\ mnt[s] \in Mounts /\ s # None
      BY PlanAssumption DEF Query, MayCall, At, DevInv, CtlOK, Types
    <2>3. PICK r : r = [mnt[s] EXCEPT !.ref = @ + 1]
      BY Zenon
    <2>4. /\ r \in Mounts /\ r.ref = mnt[s].ref + 1 /\ r.linked = mnt[s].linked /\ r.open = mnt[s].open
          /\ r.listed = mnt[s].listed /\ r.removed = mnt[s].removed /\ r.set = mnt[s].set
          /\ r.sbref = mnt[s].sbref /\ r.id = mnt[s].id /\ mnt[s].ref \in Int
      BY <2>2, <2>3 DEF Mounts
    <2>5. PICK v : v = [pc |-> "query", slot |-> s, call |-> "query"]
      BY Zenon
    <2>6. v \in Calls /\ v.pc = "query" /\ v.slot = s /\ v.call = "query" /\ v.pc \in SlotPCs
      BY Zenon, <2>5 DEF Calls, SlotPCs
    <2>7. Turns(t, s, v, r)
      <3>1. ctl' = [ctl EXCEPT ![t] = v] /\ Set(s, r) /\ ctl[t].slot = None
        BY <2>1, <2>2, <2>3, <2>5 DEF NoCall
      <3> QED
        BY <2>2, <2>4, <2>6, <3>1 DEF Turns
    <2>8. /\ Types' /\ ListOK' /\ (\A u \in Ctls : CtlOK(u)') /\ (\A q \in Slots \ {s} : SlotOK(q)')
          /\ mnt'[s] = r /\ ctl'[t] = v /\ (\A u \in Ctls \ {t} : ctl'[u] = ctl[u]) /\ Holds(s)' = Holds(s)
      BY Zenon, <2>7, CallFrame
    <2>9. t \notin Works(s) /\ t \notin Asks(s) /\ Works(s)' = Works(s) /\ Asks(s)' = Asks(s) \cup {t}
      BY <2>2, <2>6, <2>8 DEF Works, Asks, WorkPCs, Adding, NoCall
    <2>10. /\ Cardinality(Asks(s)) \in Nat /\ Cardinality(Asks(s)') = Cardinality(Asks(s)) + 1
           /\ Cardinality(Asks(s)') \in Nat
      <3>1. IsFiniteSet(Asks(s)) /\ Cardinality(Asks(s)) \in Nat
        BY AsksCount
      <3>2. Cardinality(Asks(s) \cup {t}) = Cardinality(Asks(s)) + 1
        BY Zenon, <2>9, <3>1, FS_AddElement
      <3> QED
        BY <2>9, <3>1, <3>2
    <2>11. mnt'[s].ref > 0 /\ mnt'[s].ref - Cardinality(Asks(s)') = mnt[s].ref - Cardinality(Asks(s))
      <3>1. mnt[s].ref = Cardinality(Asks(s)) + 1
        BY <2>1 DEF DevInv, SlotOK, CountOK
      <3> QED
        BY <2>4, <2>8, <2>10, <3>1
    <2>12. \A u \in Works(s) : ctl'[u] = ctl[u]
      BY Zenon, <2>8, <2>9 DEF Works
    <2>13. SlotOK(s)'
      BY Zenon, <2>2, <2>4, <2>8, <2>9, <2>10, <2>11, <2>12, <1>SameWorks
    <2> QED
      BY <2>8, <2>13 DEF DevInv

  \* and the answer keeps it.
<1>LookDev.
    ASSUME Types, DevInv, NEW t \in Ctls, Look(t), ~Oops
    PROVE  Types' /\ DevInv'
    <2> USE <1>LookDev
    <2>1. ctl[t].pc = "query" /\ GoTo(t, "unref") /\ UNCHANGED << disk, mnt, net, world >>
      BY Zenon DEF Look, At
    <2>2. ctl[t] \in Calls /\ CtlOK(t) /\ ctl[t].pc \in SlotPCs /\ mnt \in [Slots -> Mounts] /\ ctl[t] # NoCall
      BY <2>1 DEF Types, DevInv, SlotPCs, NoCall
    <2>3. PICK s \in Slots : s = ctl[t].slot
      BY Zenon, <2>2 DEF CtlOK, Calls
    <2>4. mnt[s] \in Mounts /\ s # None /\ ctl[t].call = "query"
      BY Zenon, <2>1, <2>2, PlanAssumption DEF CtlOK
    <2>b. PICK l \in {"unref"} : l = "unref"
      BY Zenon
    <2>5. PICK v : v = [ctl[t] EXCEPT !.pc = l]
      BY Zenon
    <2>6. v \in Calls /\ v.pc = "unref" /\ v.slot = s /\ v.call = "query" /\ v.pc \in SlotPCs
      BY <2>2, <2>3, <2>4, <2>b, <2>5 DEF Calls, SlotPCs
    <2>7. PICK r : r = mnt[s]
      BY Zenon
    <2>8. Turns(t, s, v, r)
      <3>1. ctl' = [ctl EXCEPT ![t] = v] /\ Set(s, r)
        BY <2>1, <2>2, <2>b, <2>5, <2>7 DEF GoTo, Set
      <3> QED
        BY Zenon, <2>1, <2>2, <2>3, <2>4, <2>6, <2>7, <3>1 DEF Turns
    <2>9. /\ Types' /\ ListOK' /\ (\A u \in Ctls : CtlOK(u)') /\ (\A q \in Slots \ {s} : SlotOK(q)')
          /\ mnt'[s] = r /\ ctl'[t] = v /\ (\A u \in Ctls \ {t} : ctl'[u] = ctl[u]) /\ Holds(s)' = Holds(s)
      BY Zenon, <2>8, CallFrame
    <2>10. t \notin Works(s) /\ t \in Asks(s) /\ Works(s)' = Works(s) /\ Asks(s)' = Asks(s)
      BY Zenon, <2>1, <2>3, <2>6, <2>9 DEF Works, Asks, WorkPCs, Adding
    <2>11. \A u \in Works(s) : ctl'[u] = ctl[u]
      BY <2>9, <2>10 DEF Works
    <2>12. Cardinality(Asks(s)) \in Nat /\ Cardinality(Asks(s)) # 0
      BY Zenon, <2>10, AsksCount
    <2>13. mnt[s].ref > 0 /\ mnt[s].ref \in Int
      <3>1. mnt[s].ref = Cardinality(Asks(s)) + IF mnt[s].linked \/ Works(s) # {} THEN 1 ELSE 0
        BY Zenon, <2>4 DEF DevInv, SlotOK, CountOK
      <3>2. mnt[s].ref \in Int
        BY Zenon, <2>4 DEF Mounts
      <3> QED
        BY <2>12, <3>1, <3>2
    <2>14. SlotOK(s)'
      BY Zenon, <2>4, <2>7, <2>9, <2>10, <2>11, <2>12, <2>13, <1>SameWorks
    <2> QED
      BY Zenon, <2>9, <2>14 DEF DevInv

  \* nkfs_dev_create: a new device, which its maker works on.
<1>AddDev.
    ASSUME Types, DevInv, NEW t \in Ctls, Add(t)
    PROVE  Types' /\ DevInv'
    <2> USE <1>AddDev
    <2>1. PICK s \in Slots : s = (CHOOSE q \in Slots : mnt[q] = NoMnt) /\ mnt[s] = NoMnt
      BY Zenon DEF Add
    <2>2. PICK c \in {"add", "format"}, n \in plan.names :
            /\ MayCall(t, c)
            /\ Set(s, [NoMnt EXCEPT !.name = n, !.ref = 1, !.open = TRUE])
            /\ ctl' = [ctl EXCEPT ![t] = [pc |-> "insert", slot |-> s, call |-> c]]
      BY Zenon, <2>1 DEF Add
    <2>3. /\ ctl[t].pc = "idle" /\ (\A u \in Ctls : ctl[u].call # "exit") /\ UNCHANGED << disk, net, world >>
          /\ ctl[t] = NoCall /\ s # None /\ n \in Names
      BY <2>2, PlanAssumption DEF Add, MayCall, At, DevInv, CtlOK, Types, Plan
    <2>4. PICK r : r = [NoMnt EXCEPT !.name = n, !.ref = 1, !.open = TRUE]
      BY Zenon
    <2>5. /\ r \in Mounts /\ r.ref = 1 /\ ~r.linked /\ r.open /\ ~r.listed /\ ~r.removed /\ ~r.set /\ r.sbref = 0
          /\ mnt[s].ref = 0 /\ mnt[s].sbref = 0
      <3>1. NoMnt \in Mounts
        BY DEF Mounts, NoMnt
      <3>2. r \in Mounts
        <4>1. r = [ name |-> n, ref |-> 1, linked |-> FALSE, open |-> TRUE, set |-> FALSE, sbref |-> 0,
                    listed |-> FALSE, stopped |-> FALSE, id |-> None, removed |-> FALSE ]
          BY Zenon, <2>4 DEF NoMnt
        <4> QED
          BY <2>3, <4>1 DEF Mounts
      <3>3. /\ r.ref = 1 /\ r.linked = NoMnt.linked /\ r.open /\ r.listed = NoMnt.listed
            /\ r.removed = NoMnt.removed /\ r.set = NoMnt.set /\ r.sbref = NoMnt.sbref
        BY Zenon, <2>4, <3>1 DEF Mounts
      <3>4. /\ ~NoMnt.linked /\ ~NoMnt.listed /\ ~NoMnt.removed /\ ~NoMnt.set /\ NoMnt.sbref = 0 /\ NoMnt.ref = 0
        BY Zenon DEF NoMnt
      <3> QED
        BY Zenon, <2>1, <3>2, <3>3, <3>4
    <2>6. PICK v : v = [pc |-> "insert", slot |-> s, call |-> c]
      BY Zenon
    <2>7. v \in Calls /\ v.pc = "insert" /\ v.slot = s /\ v.call = c /\ v.pc \in SlotPCs /\ v.pc \in WorkPCs
      BY Zenon, <2>6 DEF Calls, SlotPCs, WorkPCs
    <2>8. Turns(t, s, v, r)
      <3>1. ctl' = [ctl EXCEPT ![t] = v] /\ Set(s, r) /\ ctl[t].slot = None
        BY <2>2, <2>3, <2>4, <2>6 DEF NoCall
      <3> QED
        BY <2>3, <2>5, <2>7, <3>1 DEF Turns
    <2>9. /\ Types' /\ ListOK' /\ (\A u \in Ctls : CtlOK(u)') /\ (\A q \in Slots \ {s} : SlotOK(q)')
          /\ mnt'[s] = r /\ ctl'[t] = v /\ (\A u \in Ctls \ {t} : ctl'[u] = ctl[u]) /\ Holds(s)' = Holds(s)
      BY Zenon, <2>8, CallFrame
    <2>10. CountOK(s) /\ Cardinality(Asks(s)) \in Nat /\ Cardinality(Holds(s)) \in Nat
      BY Zenon, AsksCount, HoldsCount DEF DevInv, SlotOK
    <2>11. Cardinality(Asks(s)) = 0 /\ Works(s) = {} /\ Cardinality(Holds(s)) = 0
      BY <2>5, <2>10 DEF CountOK
    <2>12. Asks(s)' = Asks(s) /\ Works(s)' = {t}
      BY <2>3, <2>7, <2>9, <2>11 DEF Asks, Works, NoCall
    <2>13. Holds(s)' = {} /\ Cardinality(Holds(s)') = 0 /\ Cardinality(Asks(s)') = 0
      BY <2>9, <2>11, <2>12, HoldsCount
    <2>14. CountOK(s)'
      <3>1. r.ref = Cardinality(Asks(s)') + IF r.linked \/ Works(s)' # {} THEN 1 ELSE 0
        BY <2>5, <2>12, <2>13
      <3>2. ~\E w \in Works(s)' : ctl'[w].pc \in {"publish", "set"}
        BY Zenon, <2>7, <2>9, <2>12
      <3>3. r.sbref = Cardinality(Holds(s)')
              + IF r.set \/ \E w \in Works(s)' : ctl'[w].pc \in {"publish", "set"} THEN 1 ELSE 0
        BY <2>5, <2>13, <3>2
      <3> QED
        BY Zenon, <2>9, <3>1, <3>3 DEF CountOK
    <2>15. WorkOK(t, s)'
      BY ZenonT(60), <2>5, <2>7, <2>9 DEF WorkOK, Adding
    <2>16. SlotOK(s)'
      <3>1. r.ref # 0
        BY <2>5
      <3>2. /\ ~mnt'[s].linked /\ ~mnt'[s].set /\ ~mnt'[s].listed /\ mnt'[s].ref # 0
            /\ \A w \in Works(s)' : w = t
        BY Zenon, <2>5, <2>9, <2>12, <3>1
      <3> QED
        BY ZenonT(60), <2>13, <2>14, <2>15, <3>2 DEF SlotOK
    <2> QED
      BY <2>9, <2>16 DEF DevInv

  \* nkfs_dev_lookup_unlink: the caller takes over the reference of the list,
  \* from one that is adding the device too.
<1>RemoveDev.
    ASSUME Types, DevInv, NEW t \in Ctls, Remove(t)
    PROVE  Types' /\ DevInv'
    <2> USE <1>RemoveDev
    <2>1. PICK s \in Slots : /\ mnt[s].linked /\ Set(s, [mnt[s] EXCEPT !.linked = FALSE, !.removed = TRUE])
                             /\ ctl' = [ctl EXCEPT ![t] = [pc |-> "stop", slot |-> s, call |-> "remove"]]
      BY Zenon DEF Remove
    <2>2. /\ ctl[t].pc = "idle" /\ (\A u \in Ctls : ctl[u].call # "exit") /\ UNCHANGED << disk, net, world >>
          /\ ctl[t] = NoCall /\ mnt[s] \in Mounts /\ s # None /\ SlotOK(s) /\ CountOK(s)
      BY PlanAssumption DEF Remove, MayCall, At, DevInv, CtlOK, Types, SlotOK
    <2>3. PICK r : r = [mnt[s] EXCEPT !.linked = FALSE, !.removed = TRUE]
      BY Zenon
    <2>4. /\ r.ref = mnt[s].ref /\ ~r.linked /\ r.open = mnt[s].open
          /\ r.listed = mnt[s].listed /\ r.removed /\ r.set = mnt[s].set
          /\ r.sbref = mnt[s].sbref /\ r.id = mnt[s].id
      BY <2>2, <2>3 DEF Mounts
    <2>a. r \in Mounts
      BY Zenon, <2>2, <2>3 DEF Mounts
    <2>5. PICK v : v = [pc |-> "stop", slot |-> s, call |-> "remove"]
      BY Zenon
    <2>6. v \in Calls /\ v.pc = "stop" /\ v.slot = s /\ v.call = "remove" /\ v.pc \in SlotPCs /\ v.pc \in WorkPCs
      BY <2>5 DEF Calls, SlotPCs, WorkPCs
    <2>7. Turns(t, s, v, r)
      <3>1. ctl' = [ctl EXCEPT ![t] = v] /\ Set(s, r) /\ ctl[t].slot = None
        BY <2>1, <2>2, <2>3, <2>5 DEF NoCall
      <3> QED
        BY Zenon, <2>2, <2>4, <2>a, <2>6, <3>1 DEF Turns
    <2>8. /\ Types' /\ ListOK' /\ (\A u \in Ctls : CtlOK(u)') /\ (\A q \in Slots \ {s} : SlotOK(q)')
          /\ mnt'[s] = r /\ ctl'[t] = v /\ (\A u \in Ctls \ {t} : ctl'[u] = ctl[u]) /\ Holds(s)' = Holds(s)
      BY Zenon, <2>7, CallFrame
    <2>9. t \notin Works(s) /\ Works(s)' = Works(s) \cup {t} /\ Asks(s)' = Asks(s)
      <3>1. NoCall.slot = None
        BY Zenon DEF NoCall
      <3>2. ctl[t].slot # s
        BY Zenon, <2>2, <3>1
      <3>3. "stop" \notin {"query", "unref"}
        OBVIOUS
      <3>4. ctl'[t].slot = s /\ ctl'[t].pc \notin {"query", "unref"}
        BY Zenon, <2>6, <2>8, <3>3
      <3>5. t \notin Works(s) /\ t \notin Asks(s) /\ t \in Works(s)' /\ t \notin Asks(s)'
        BY Zenon, <3>2, <3>4 DEF Works, Asks
      <3>6. \A u \in Ctls \ {t} : (u \in Works(s)' <=> u \in Works(s)) /\ (u \in Asks(s)' <=> u \in Asks(s))
        BY Zenon, <2>8 DEF Works, Asks
      <3>7. Works(s) \subseteq Ctls /\ Asks(s) \subseteq Ctls /\ Works(s)' \subseteq Ctls /\ Asks(s)' \subseteq Ctls
        BY Zenon DEF Works, Asks
      <3>8. \A u \in Ctls : u \in Works(s)' <=> u \in Works(s) \cup {t}
        BY Zenon, <3>5, <3>6
      <3>9. \A u \in Ctls : u \in Asks(s)' <=> u \in Asks(s)
        BY Zenon, <3>5, <3>6
      <3>10. Works(s)' = Works(s) \cup {t}
        BY Zenon, <3>7, <3>8
      <3>11. Asks(s)' = Asks(s)
        BY Zenon, <3>7, <3>9
      <3> QED
        BY Zenon, <3>5, <3>10, <3>11
    <2>10. \A u \in Works(s) : ctl'[u] = ctl[u] /\ u # t /\ ctl[u].pc \in Adding
      BY <2>1, <2>2, <2>8, <2>9 DEF Works, SlotOK
    <2>11. ctl'[t].pc = "stop" /\ ctl'[t].call = "remove" /\ "stop" \notin Adding /\ "insert" \notin Adding
      BY Zenon, <2>6, <2>8 DEF Adding
    <2>12. CountOK(s)'
      <3>1. mnt'[s].ref = Cardinality(Asks(s)') + IF mnt'[s].linked \/ Works(s)' # {} THEN 1 ELSE 0
        BY Zenon, <2>1, <2>2, <2>4, <2>8, <2>9 DEF CountOK
      <3>2. (\E w \in Works(s)' : ctl'[w].pc \in {"publish", "set"}) <=> \E w \in Works(s) : ctl[w].pc \in {"publish", "set"}
        BY <2>9, <2>10, <2>11
      <3>3. mnt'[s].sbref = Cardinality(Holds(s)')
              + IF mnt'[s].set \/ \E w \in Works(s)' : ctl'[w].pc \in {"publish", "set"} THEN 1 ELSE 0
        <4>1. /\ mnt'[s].sbref = mnt[s].sbref /\ mnt'[s].set = mnt[s].set
              /\ Cardinality(Holds(s)') = Cardinality(Holds(s))
          BY Zenon, <2>4, <2>8
        <4>2. mnt[s].sbref = Cardinality(Holds(s))
                + IF mnt[s].set \/ \E w \in Works(s) : ctl[w].pc \in {"publish", "set"} THEN 1 ELSE 0
          BY ZenonT(60), <2>2 DEF CountOK
        <4> QED
          BY Zenon, <3>2, <4>1, <4>2
      <3> QED
        BY <3>1, <3>3 DEF CountOK
    <2>13. ASSUME NEW u \in Works(s) PROVE WorkOK(u, s)'
      <3>1. WorkOK(u, s) /\ ctl'[u] = ctl[u] /\ ctl[u].pc \in Adding
        BY Zenon, <2>2, <2>10 DEF SlotOK
      <3>2. \E w \in Works(s)' : ctl'[w].call = "remove"
        BY Zenon, <2>9, <2>11
      <3>3. ctl[u].call \in {"add", "format"}
        BY ZenonT(60), <3>1 DEF WorkOK
      <3> QED
        BY Zenon, <2>4, <2>8, <3>1, <3>2, <3>3 DEF WorkOK, Adding
    <2>14. WorkOK(t, s)'
      <3>1. mnt[s].set \/ \E w \in Works(s) : ctl[w].pc \in Adding
        BY Zenon, <2>1, <2>2 DEF SlotOK
      <3>2. mnt'[s].set \/ \E w \in Works(s)' : ctl'[w].pc \in Adding
        BY Zenon, <2>4, <2>8, <2>9, <2>10, <3>1
      <3> QED
        BY <2>4, <2>8, <2>11, <3>2 DEF WorkOK, Adding
    <2>15. /\ mnt'[s].set => mnt'[s].ref > 0
           /\ mnt'[s].listed => mnt'[s].open
           /\ mnt'[s].removed /\ ~mnt'[s].linked
           /\ ~(mnt'[s].ref = 0 /\ mnt'[s].sbref = 0)
      <3>1. mnt[s] # NoMnt
        BY <2>1 DEF NoMnt
      <3> QED
        BY Zenon, <2>2, <2>4, <2>8, <3>1 DEF SlotOK
    <2>16. ASSUME NEW u \in Works(s)', NEW w \in Works(s)', u # w
           PROVE  \/ ctl'[u].pc = "stop" /\ ctl'[w].pc \in Adding
                  \/ ctl'[w].pc = "stop" /\ ctl'[u].pc \in Adding
      <3>1. CASE u \in Works(s) /\ w \in Works(s)
        BY ZenonT(60), <2>2, <2>10, <2>11, <2>16, <3>1 DEF SlotOK
      <3> QED
        BY Zenon, <2>9, <2>10, <2>11, <2>16, <3>1
    <2>17. SlotOK(s)'
      BY Zenon, <2>9, <2>12, <2>13, <2>14, <2>15, <2>16 DEF SlotOK
    <2> QED
      BY Zenon, <2>8, <2>17 DEF DevInv

<1> QED
  BY <1>AddDev, <1>RemoveDev, <1>QueryDev, <1>SetSbDev, <1>DerefDev, <1>LookDev, Zenon

\* The calls on the server, and the exit of the module.
LEMMA ServerCalls ==
  \A t \in Ctls : Types /\ NetInv /\ DevInv =>
    /\ SrvStart(t) \/ SrvStop(t) \/ Await(t) \/ Abort(t) \/ Kill(t) \/ Join(t) =>
         Types' /\ NetInv' /\ DevInv' /\ UNCHANGED << mnt, con, host, mode >>
    /\ Exit(t) => Types' /\ NetInv' /\ DevInv' /\ UNCHANGED << mnt, con, mode >>
    /\ GoneOK /\ ExitDevs(t) => Types' /\ NetInv' /\ DevInv' /\ GoneOK' /\ mode' # "oops" /\ UNCHANGED << mnt, con, host >>

  \* Such a step concerns no device.
<1>AsideDev.
    ASSUME Types, DevInv, NEW t \in Ctls, NEW v, Aside(t, v)
    PROVE  DevInv' /\ ctl' \in [Ctls -> Calls] /\ ctl'[t] = v /\ \A u \in Ctls \ {t} : ctl'[u] = ctl[u]
    <2> USE <1>AsideDev
    <2>1. ctl \in [Ctls -> Calls] /\ v \in Calls /\ ctl' = [ctl EXCEPT ![t] = v]
      BY Zenon DEF Types, Aside
    <2>2. ctl' \in [Ctls -> Calls] /\ ctl'[t] = v /\ \A u \in Ctls \ {t} : ctl'[u] = ctl[u]
      BY Zenon, <2>1
    <2>3. ListOK'
      BY Zenon DEF DevInv, ListOK, Aside
    <2>4. ASSUME NEW s \in Slots PROVE SlotOK(s)'
      <3>1. SlotOK(s) /\ mnt'[s] = mnt[s] /\ s # None /\ \A c \in Clients : s \in con'[c].held <=> s \in con[c].held
        BY Zenon, PlanAssumption DEF DevInv, Aside
      <3>2. \A u \in Ctls : ctl[u].slot = s \/ ctl'[u].slot = s => ctl'[u] = ctl[u]
        BY Zenon, <2>2, <3>1 DEF Aside
      <3> QED
        BY Zenon, <3>1, <3>2, SlotKept
    <2>5. ASSUME NEW u \in Ctls PROVE CtlOK(u)'
      <3>1. CtlOK(u)
        BY Zenon DEF DevInv
      <3>2. CASE u = t
        <4>1. ctl'[u] = v /\ \A w \in Ctls \ {u} : ctl'[w] = ctl[w]
          BY Zenon, <2>2, <3>2
        <4>2. v.pc \notin {"query", "unref"}
          BY Zenon DEF Aside, SlotPCs
        <4> QED
          BY Zenon, <3>2, <4>1, <4>2 DEF CtlOK, Aside
      <3>3. CASE u # t
        <4>1. ctl'[u] = ctl[u]
          BY Zenon, <2>2, <3>3
        <4>2. ctl[u].call # "exit"
          BY Zenon, <3>1, <3>3 DEF CtlOK, Aside
        <4> QED
          BY Zenon, <3>1, <4>1, <4>2 DEF CtlOK
      <3> QED
        BY Zenon, <3>2, <3>3
    <2> QED
      BY <2>2, <2>3, <2>4, <2>5 DEF DevInv

  \* nkfs_server_create_start, nkfs_server_stop and the end of a start.
<1>SrvCalls.
    ASSUME Types, NetInv, DevInv, NEW t \in Ctls, SrvStart(t) \/ SrvStop(t) \/ Await(t)
    PROVE  Types' /\ NetInv' /\ DevInv' /\ UNCHANGED << mnt, con, host, mode >>
    <2> USE <1>SrvCalls
    <2>0. /\ ctl[t] \in Calls /\ CtlOK(t) /\ srv \in Servers /\ mode \in {"up", "gone", "oops"} /\ ServerOK
      BY Zenon DEF Types, DevInv, NetInv
    <2>1. CASE SrvStart(t)
      <3>1. /\ ctl[t] = NoCall /\ (\A u \in Ctls : ctl[u].call # "exit") /\ srv.pc = "none"
            /\ srv' = [NoSrv EXCEPT !.pc = "listen"] /\ UNCHANGED << disk, mnt, con, cli, up, down, plan, host, mode >>
        BY Zenon, <2>0, <2>1 DEF SrvStart, MayCall, At, CtlOK, world
      <3>2. PICK v : v = [NoCall EXCEPT !.pc = "await", !.call = "start"]
        BY Zenon
      <3>3. v \in Calls /\ v.pc = "await" /\ v.slot = None /\ v.call = "start"
        BY Zenon, <3>2 DEF NoCall, Calls
      <3>4. Aside(t, v)
        <4>1. ctl[t].slot = None /\ v.pc \notin SlotPCs /\ ctl' = [ctl EXCEPT ![t] = v]
          BY <2>1, <3>1, <3>2, <3>3 DEF SrvStart, NoCall, SlotPCs, WorkPCs, Adding
        <4> QED
          BY <3>1, <3>3, <4>1 DEF Aside
      <3>5. /\ srv' \in Servers /\ srv'.pc = "listen" /\ srv'.con = None /\ ~srv'.sock
            /\ srv.con = None /\ ~srv.sock
        BY Zenon, <2>0, <3>1 DEF Servers, NoSrv, ServerOK
      <3>6. DevInv' /\ ctl' \in [Ctls -> Calls]
        BY <3>4, <1>AsideDev
      <3>7. Types' /\ NetInv'
        BY Zenon, <2>0, <3>1, <3>5, <3>6, SrvMoves
      <3> QED
        BY Zenon, <3>1, <3>6, <3>7
    <2>2. CASE SrvStop(t)
      <3>1. /\ ctl[t] = NoCall /\ (\A u \in Ctls : ctl[u].call # "exit")
            /\ UNCHANGED << disk, mnt, con, cli, up, down, plan, host, mode, srv >>
        BY Zenon, <2>0, <2>2 DEF SrvStop, MayCall, At, CtlOK, world, net
      <3>2. PICK v : v = [NoCall EXCEPT !.pc = "abort", !.call = "stop"]
        BY Zenon
      <3>3. v \in Calls /\ v.pc = "abort" /\ v.slot = None /\ v.call = "stop"
        BY Zenon, <3>2 DEF NoCall, Calls
      <3>4. Aside(t, v)
        <4>1. ctl[t].slot = None /\ v.pc \notin SlotPCs /\ ctl' = [ctl EXCEPT ![t] = v]
          BY <2>2, <3>1, <3>2, <3>3 DEF SrvStop, NoCall, SlotPCs, WorkPCs, Adding
        <4> QED
          BY Zenon, <3>1, <3>3, <4>1 DEF Aside
      <3>6. DevInv' /\ ctl' \in [Ctls -> Calls]
        BY Zenon, <3>4, <1>AsideDev
      <3>7. Types' /\ NetInv'
        BY Zenon, <2>0, <3>1, <3>6, SrvMoves DEF ServerOK
      <3> QED
        BY <3>1, <3>6, <3>7
    <2>3. CASE Await(t)
      <3>1. /\ ctl[t].pc = "await" /\ UNCHANGED << disk, mnt, con, cli, up, down, plan, host, mode, srv >>
        BY Zenon, <2>3 DEF Await, At, world, net
      <3>2. PICK l \in {"abort"} : l = "abort"
        BY Zenon
      <3>3. PICK v : v = IF srv.sock THEN NoCall ELSE [ctl[t] EXCEPT !.pc = l]
        BY Zenon
      <3>4. ctl[t].slot = None /\ ctl[t] # NoCall
        BY <2>0, <3>1 DEF CtlOK, SlotPCs, WorkPCs, Adding, NoCall
      <3>5. /\ v \in Calls /\ v.pc \in {"idle", "abort"} /\ v.slot = None /\ (v.pc = "idle" => v = NoCall)
            /\ (v.call = "exit" => v.pc = "abort" /\ ctl[t].call = "exit")
        BY ZenonT(60), <2>0, <3>2, <3>3, <3>4 DEF NoCall, Calls
      <3>6. Aside(t, v)
        <4>1. v.pc \notin SlotPCs /\ v.pc # "devs" /\ ctl' = [ctl EXCEPT ![t] = v]
          BY Zenon, <2>3, <3>2, <3>3, <3>5 DEF Await, SlotPCs, WorkPCs, Adding
        <4>2. v.call = "exit" => \A u \in Ctls \ {t} : ctl[u] = NoCall
          BY Zenon, <2>0, <3>5 DEF CtlOK
        <4> QED
          BY Zenon, <3>1, <3>4, <3>5, <4>1, <4>2 DEF Aside
      <3>7. DevInv' /\ ctl' \in [Ctls -> Calls]
        BY Zenon, <3>6, <1>AsideDev
      <3>8. Types' /\ NetInv'
        BY Zenon, <2>0, <3>1, <3>7, SrvMoves DEF ServerOK
      <3> QED
        BY Zenon, <3>1, <3>7, <3>8
    <2> QED
      BY Zenon, <2>1, <2>2, <2>3

  \* nkfs_server_do_stop
<1>SrvStops.
    ASSUME Types, NetInv, DevInv, NEW t \in Ctls, Abort(t) \/ Kill(t) \/ Join(t)
    PROVE  Types' /\ NetInv' /\ DevInv' /\ UNCHANGED << mnt, con, host, mode >>
    <2> USE <1>SrvStops
    <2>0. /\ ctl[t] \in Calls /\ CtlOK(t) /\ srv \in Servers /\ mode \in {"up", "gone", "oops"} /\ ServerOK
      BY Zenon DEF Types, DevInv, NetInv
    <2>1. CASE Abort(t) \/ Kill(t)
      <3>1. PICK l \in {"kill", "join"} : GoTo(t, l)
        BY Zenon, <2>1 DEF Abort, Kill
      <3>2. ctl[t].pc \in {"abort", "kill"} /\ UNCHANGED << disk, mnt, con, cli, up, down, plan, host, mode >>
        BY Zenon, <2>1 DEF Abort, Kill, At, world
      <3>3. PICK d \in Servers : /\ srv' = Woken(d) /\ d.pc = srv.pc /\ d.sock = srv.sock /\ d.con = srv.con
        <4>1. PICK a : a = [srv EXCEPT !.stopping = TRUE]
          BY Zenon
        <4>2. PICK k : k = [srv EXCEPT !.stop = TRUE]
          BY Zenon
        <4>3. /\ a \in Servers /\ a.pc = srv.pc /\ a.sock = srv.sock /\ a.con = srv.con
              /\ k \in Servers /\ k.pc = srv.pc /\ k.sock = srv.sock /\ k.con = srv.con
          BY Zenon, <2>0, <4>1, <4>2 DEF Servers
        <4>4. srv' = Woken(a) \/ srv' = Woken(k)
          BY Zenon, <2>1, <4>1, <4>2 DEF Abort, Kill
        <4> QED
          BY Zenon, <4>3, <4>4
      <3>4. /\ srv' \in Servers /\ srv'.sock = srv.sock /\ srv'.con = srv.con
            /\ srv'.pc = IF srv.pc = "asleep" THEN "again" ELSE srv.pc
        BY Zenon, <3>3 DEF Woken, Servers
      <3>5. PICK v : v = [ctl[t] EXCEPT !.pc = l]
        BY Zenon
      <3>6. ctl[t].slot = None /\ ctl[t] # NoCall
        BY <2>0, <3>2 DEF CtlOK, SlotPCs, WorkPCs, Adding, NoCall
      <3>7. v \in Calls /\ v.pc = l /\ v.slot = None /\ v.call = ctl[t].call
        BY Zenon, <2>0, <3>5, <3>6 DEF Calls
      <3>8. Aside(t, v)
        <4>1. v.pc \notin SlotPCs /\ v.pc # "devs" /\ v.pc # "idle" /\ ctl' = [ctl EXCEPT ![t] = v]
          BY Zenon, <3>1, <3>5, <3>7 DEF GoTo, SlotPCs, WorkPCs, Adding
        <4>2. v.call = "exit" => \A u \in Ctls \ {t} : ctl[u] = NoCall
          BY Zenon, <2>0, <3>7 DEF CtlOK
        <4> QED
          BY Zenon, <3>2, <3>6, <3>7, <4>1, <4>2 DEF Aside
      <3>9. DevInv' /\ ctl' \in [Ctls -> Calls]
        BY Zenon, <3>8, <1>AsideDev
      <3>10. /\ srv'.con # None <=> srv'.pc = "wait"
             /\ srv'.sock <=> srv'.pc \in {"head", "accept", "again", "asleep"}
             /\ srv.sock => srv'.sock
             /\ srv'.pc \in {"none", "listen", "exit"} => srv.pc \in {"none", "listen", "exit"}
        BY Zenon, <2>0, <3>4 DEF ServerOK
      <3>11. Types' /\ NetInv'
        BY Zenon, <2>0, <3>2, <3>4, <3>9, <3>10, SrvMoves
      <3> QED
        BY Zenon, <3>2, <3>9, <3>11
    <2>2. CASE Join(t)
      <3>1. /\ ctl[t].pc = "join" /\ srv.pc = "exit" /\ srv' = NoSrv
            /\ UNCHANGED << disk, mnt, con, cli, up, down, plan, host, mode >>
        BY Zenon, <2>2 DEF Join, At, world
      <3>2. PICK v : v = IF ctl[t].call = "exit" THEN [ctl[t] EXCEPT !.pc = "devs", !.slot = None] ELSE NoCall
        BY Zenon
      <3>3. ctl[t].slot = None /\ ctl[t] # NoCall
        BY <2>0, <3>1 DEF CtlOK, SlotPCs, WorkPCs, Adding, NoCall
      <3>4. /\ v \in Calls /\ v.pc \in {"idle", "devs"} /\ v.slot = None /\ (v.pc = "idle" => v = NoCall)
            /\ (v.call = "exit" => ctl[t].call = "exit") /\ (v.pc = "devs" => v.call = "exit")
        BY Zenon, <2>0, <3>2 DEF NoCall, Calls
      <3>5. /\ srv' \in Servers /\ srv'.pc = "none" /\ srv'.con = None /\ ~srv'.sock /\ srv.con = None /\ ~srv.sock
        BY Zenon, <2>0, <3>1 DEF Servers, NoSrv, ServerOK
      <3>6. Aside(t, v)
        <4>1. v.pc \notin SlotPCs /\ ctl' = [ctl EXCEPT ![t] = v]
          BY <2>2, <3>2, <3>4 DEF Join, SlotPCs, WorkPCs, Adding
        <4>2. v.call = "exit" => \A u \in Ctls \ {t} : ctl[u] = NoCall
          BY Zenon, <2>0, <3>4 DEF CtlOK
        <4> QED
          BY Zenon, <3>1, <3>3, <3>4, <3>5, <4>1, <4>2 DEF Aside
      <3>7. DevInv' /\ ctl' \in [Ctls -> Calls]
        BY Zenon, <3>6, <1>AsideDev
      <3>8. Types' /\ NetInv'
        BY Zenon, <2>0, <3>1, <3>5, <3>7, SrvMoves
      <3> QED
        BY Zenon, <3>1, <3>7, <3>8
    <2> QED
      BY Zenon, <2>1, <2>2

  \* nkfs_exit begins: no other call is in progress.
<1>ExitStep.
    ASSUME Types, NetInv, DevInv, NEW t \in Ctls, Exit(t)
    PROVE  Types' /\ NetInv' /\ DevInv' /\ UNCHANGED << mnt, con, mode >>
    <2> USE <1>ExitStep
    <2>1. /\ \A u \in Ctls : ctl[u] = NoCall
          /\ UNCHANGED << plan, disk, mnt, srv, con, cli, up, down, mode >> /\ host' = FALSE
      BY Zenon DEF Exit, DevInv, CtlOK, net
    <2>2. PICK l \in {"devs", "abort"} : l = IF srv.pc = "none" THEN "devs" ELSE "abort"
      BY Zenon
    <2>3. PICK v : v = [NoCall EXCEPT !.pc = l, !.call = "exit"]
      BY Zenon
    <2>4. v \in Calls /\ v.pc = l /\ v.slot = None /\ v.call = "exit"
      BY Zenon, <2>3 DEF NoCall, Calls
    <2>5. Aside(t, v)
      <3>1. v.pc \notin SlotPCs /\ ctl' = [ctl EXCEPT ![t] = v] /\ ctl[t].slot = None
        BY Zenon, <2>1, <2>2, <2>3, <2>4 DEF Exit, SlotPCs, WorkPCs, Adding, NoCall
      <3>2. \A u \in Ctls : ctl[u].call # "exit"
        BY <2>1 DEF NoCall
      <3>3. v.pc \notin {"abort", "kill", "join"} => srv'.pc = "none"
        BY Zenon, <2>1, <2>2, <2>4
      <3> QED
        BY Zenon, <2>1, <2>2, <2>4, <3>1, <3>2, <3>3 DEF Aside
    <2>6. DevInv' /\ ctl' \in [Ctls -> Calls]
      BY Zenon, <2>5, <1>AsideDev
    <2>7. Types'
      BY Zenon, <2>1, <2>6 DEF Types
    <2>8. NetInv'
      BY Zenon, <2>1, NetKept DEF net
    <2> QED
      BY Zenon, <2>1, <2>6, <2>7, <2>8

  \* nkfs_dev_release_all: the next device, or the end, which leaves none.
<1>ExitDevsStep.
    ASSUME Types, NetInv, DevInv, GoneOK, NEW t \in Ctls, ExitDevs(t)
    PROVE  Types' /\ NetInv' /\ DevInv' /\ GoneOK' /\ mode' # "oops" /\ UNCHANGED << mnt, con, host >>
    <2> USE <1>ExitDevsStep
    <2>0. /\ ctl[t].pc = "devs" /\ mode = "up" /\ UNCHANGED << plan, disk, mnt, net, host >> /\ ctl[t] \in Calls
          /\ CtlOK(t) /\ ServerOK /\ srv \in Servers /\ mnt \in [Slots -> Mounts]
      BY Zenon DEF ExitDevs, At, Types, DevInv, NetInv
    <2>1. /\ ctl[t].call = "exit" /\ ctl[t].slot = None /\ ctl[t] # NoCall
          /\ \A u \in Ctls \ {t} : ctl[u] = NoCall /\ ctl[u].slot = None
      BY <2>0 DEF CtlOK, SlotPCs, WorkPCs, Adding, NoCall
    <2>2. /\ \A c \in Clients : con[c].held = {} /\ con[c].pc \in {"none", "closing"}
          /\ \A s \in Slots : Holds(s) = {}
      BY Zenon, <2>0, <2>1, ExitHolds
    <2>3. \A s \in Slots : Works(s) = {} /\ Asks(s) = {} /\ s # None
      BY <2>1, PlanAssumption DEF Works, Asks
    <2>4. ASSUME NEW s \in Slots, mnt[s].linked, ctl' = [ctl EXCEPT ![t].pc = "stop", ![t].slot = s], UNCHANGED mode
          PROVE  Types' /\ NetInv' /\ DevInv' /\ GoneOK'
      <3>1. PICK v : v = [ctl[t] EXCEPT !.pc = "stop", !.slot = s]
        BY Zenon
      <3>2. v \in Calls /\ v.pc = "stop" /\ v.slot = s /\ v.call = "exit" /\ v.pc \in SlotPCs
        BY Zenon, <2>0, <2>1, <3>1 DEF Calls, SlotPCs, WorkPCs
      <3>3. PICK r : r = mnt[s]
        BY ZenonT(60)
      <3>4. r \in Mounts /\ SlotOK(s) /\ CountOK(s)
        BY ZenonT(60), <2>0, <3>3 DEF DevInv, SlotOK
      <3>5. Turns(t, s, v, r)
        <4>1. ctl' = [ctl EXCEPT ![t] = v]
          BY Zenon, <2>4, <3>1
        <4>2. Set(s, r)
          BY Zenon, <2>0, <3>3 DEF Set
        <4>3. UNCHANGED << disk, net, world >>
          BY ZenonT(60), <2>0, <2>4 DEF world
        <4> QED
          BY Zenon, <2>0, <2>1, <2>3, <3>2, <3>3, <3>4, <4>1, <4>2, <4>3 DEF Turns
      <3>6. /\ Types' /\ ListOK' /\ (\A u \in Ctls : CtlOK(u)') /\ (\A q \in Slots \ {s} : SlotOK(q)')
            /\ mnt'[s] = r /\ ctl'[t] = v /\ (\A u \in Ctls \ {t} : ctl'[u] = ctl[u]) /\ Holds(s)' = Holds(s)
        BY Zenon, <3>5, CallFrame
      <3>7. Works(s)' = {t} /\ Asks(s)' = Asks(s)
        BY <2>1, <2>3, <3>2, <3>6 DEF Works, Asks
      <3>8. mnt[s].set
        BY Zenon, <2>3, <2>4, <3>4 DEF SlotOK
      <3>9. CountOK(s)'
        <4>1. mnt'[s].ref = Cardinality(Asks(s)') + IF mnt'[s].linked \/ Works(s)' # {} THEN 1 ELSE 0
          BY Zenon, <2>4, <3>3, <3>4, <3>6, <3>7 DEF CountOK
        <4>2. mnt'[s].sbref = Cardinality(Holds(s)')
                + IF mnt'[s].set \/ \E w \in Works(s)' : ctl'[w].pc \in {"publish", "set"} THEN 1 ELSE 0
          BY Zenon, <3>3, <3>4, <3>6, <3>8 DEF CountOK
        <4> QED
          BY Zenon, <4>1, <4>2 DEF CountOK
      <3>10. WorkOK(t, s)'
        BY ZenonT(60), <2>4, <3>2, <3>3, <3>6, <3>8 DEF WorkOK, Adding
      <3>11. SlotOK(s)'
        <4>1. mnt'[s] = mnt[s]
          BY Zenon, <3>3, <3>6
        <4>2. /\ mnt'[s].ref = 0 /\ mnt'[s].sbref = 0 => mnt'[s] = NoMnt
              /\ mnt'[s].set => mnt'[s].ref > 0
              /\ mnt'[s].listed => mnt'[s].open
              /\ Holds(s)' # {} => mnt'[s].open \/ mnt'[s].removed
          BY Zenon, <3>4, <3>6, <4>1 DEF SlotOK
        <4>3. mnt'[s].set /\ ctl'[t].call = "exit"
          BY Zenon, <3>2, <3>6, <3>8, <4>1
        <4> QED
          BY Zenon, <3>7, <3>9, <3>10, <4>2, <4>3 DEF SlotOK
      <3>12. NetInv'
        BY Zenon, <2>0, NetKept DEF net
      <3>13. GoneOK'
        BY Zenon, <2>0, <2>4 DEF GoneOK
      <3> QED
        BY Zenon, <3>6, <3>11, <3>12, <3>13 DEF DevInv
    <2>5. ASSUME \A s \in Slots : ~mnt[s].linked, mode' = "gone", ctl' = [ctl EXCEPT ![t] = NoCall]
          PROVE  Types' /\ NetInv' /\ DevInv' /\ GoneOK'
      <3>1. PICK v : v = NoCall
        BY Zenon
      <3>2. v \in Calls /\ v.pc = "idle" /\ v.slot = None /\ v.call = "none"
        BY Zenon, <3>1 DEF NoCall, Calls
      <3>3. Aside(t, v)
        <4>1. ctl' = [ctl EXCEPT ![t] = v] /\ mnt' = mnt /\ con' = con /\ v.pc \notin SlotPCs
          BY Zenon, <2>0, <2>5, <3>1, <3>2 DEF net, SlotPCs, WorkPCs, Adding
        <4> QED
          BY Zenon, <2>1, <3>1, <3>2, <4>1 DEF Aside
      <3>4. DevInv' /\ ctl' \in [Ctls -> Calls]
        BY Zenon, <3>3, <1>AsideDev
      <3>5. Types' /\ NetInv'
        BY Zenon, <2>0, <2>5, <3>4, SrvMoves DEF ServerOK, net
      <3>6. ASSUME NEW s \in Slots PROVE mnt[s] = NoMnt
        <4>1. SlotOK(s) /\ CountOK(s) /\ Cardinality(Holds(s)) = 0 /\ Cardinality(Asks(s)) = 0
          BY ZenonT(60), <2>2, <2>3, FS_EmptySet DEF DevInv, SlotOK
        <4>2. mnt[s].ref = 0
          BY <2>3, <2>5, <4>1 DEF CountOK
        <4>3. ~mnt[s].set
          BY <4>1, <4>2 DEF SlotOK
        <4>4. mnt[s].sbref = 0
          BY <2>3, <4>1, <4>3 DEF CountOK
        <4> QED
          BY Zenon, <4>1, <4>2, <4>4 DEF SlotOK
      <3>7. GoneOK'
        BY Zenon, <2>0, <2>2, <3>6 DEF GoneOK, net
      <3> QED
        BY Zenon, <3>4, <3>5, <3>7
    <2> QED
      BY <2>0, <2>4, <2>5 DEF ExitDevs, net

<1> QED
  BY <1>SrvCalls, <1>SrvStops, <1>ExitStep, <1>ExitDevsStep, Zenon

\* A request takes and drops superblocks.
LEMMA HoldingSteps ==
  \A c \in Clients : Types /\ NetInv /\ DevInv /\ (Find(c) \/ Release(c)) =>
    Types' /\ NetInv' /\ DevInv' /\ UNCHANGED << ctl, srv, host, mode >>

  \* A superblock that one more or one less request holds.
<1>HoldsStep.
    ASSUME NEW s \in Slots, NEW c \in Clients, \A d \in Clients \ {c} : con'[d].held = con[d].held
    PROVE  /\ s \in con'[c].held /\ s \notin con[c].held => /\ Holds(s)' # {}
                                                            /\ Cardinality(Holds(s)') = Cardinality(Holds(s)) + 1
           /\ s \notin con'[c].held /\ s \in con[c].held => /\ Holds(s) # {} /\ Holds(s)' \subseteq Holds(s)
                                                            /\ Cardinality(Holds(s)') = Cardinality(Holds(s)) - 1
           /\ (s \in con'[c].held <=> s \in con[c].held) => Holds(s)' = Holds(s)
    <2> USE <1>HoldsStep
    <2>1. IsFiniteSet(Holds(s)) /\ Cardinality(Holds(s)) \in Nat
      BY Zenon, HoldsCount
    <2>2. ASSUME s \in con'[c].held, s \notin con[c].held
          PROVE  Holds(s)' # {} /\ Cardinality(Holds(s)') = Cardinality(Holds(s)) + 1
      <3>1. c \notin Holds(s) /\ Holds(s)' = Holds(s) \cup {c}
        BY <2>2 DEF Holds
      <3>2. Cardinality(Holds(s) \cup {c}) = Cardinality(Holds(s)) + 1
        BY Zenon, <2>1, <3>1, FS_AddElement
      <3> QED
        BY Zenon, <3>1, <3>2
    <2>3. ASSUME s \notin con'[c].held, s \in con[c].held
          PROVE  /\ Holds(s) # {} /\ Holds(s)' \subseteq Holds(s)
                 /\ Cardinality(Holds(s)') = Cardinality(Holds(s)) - 1
      <3>1. c \in Holds(s) /\ Holds(s)' = Holds(s) \ {c}
        BY <2>3 DEF Holds
      <3>2. Cardinality(Holds(s) \ {c}) = Cardinality(Holds(s)) - 1
        BY Zenon, <2>1, <3>1, FS_RemoveElement
      <3> QED
        BY Zenon, <3>1, <3>2
    <2>4. ASSUME s \in con'[c].held <=> s \in con[c].held PROVE Holds(s)' = Holds(s)
      BY <2>4 DEF Holds
    <2> QED
      BY Zenon, <2>2, <2>3, <2>4
<1>RecountedSlot.
    ASSUME Types, DevInv, NEW s \in Slots, Recounted(s)
    PROVE  SlotOK(s)'
    <2> USE <1>RecountedSlot
    <2>0. SlotOK(s) /\ CountOK(s) /\ mnt[s] \in Mounts /\ mnt'[s] \in Mounts
      BY Zenon DEF DevInv, SlotOK, Types, Recounted
    <2>1. Asks(s)' = Asks(s) /\ Works(s)' = Works(s) /\ ctl' = ctl
      BY Zenon DEF Asks, Works, Recounted
    <2>2. Cardinality(Holds(s)) \in Nat /\ Cardinality(Holds(s)') \in Nat /\ mnt[s].sbref \in Int /\ mnt'[s].sbref \in Int
      <3>1. IsFiniteSet(Holds(s)') /\ IsFiniteSet(Holds(s))
        BY Zenon, PlanAssumption, FS_Subset DEF Holds
      <3> QED
        BY Zenon, <2>0, <3>1, FS_CardinalityType DEF Mounts
    <2>3. CountOK(s)'
      <3>1. mnt'[s].ref = Cardinality(Asks(s)') + IF mnt'[s].linked \/ Works(s)' # {} THEN 1 ELSE 0
        BY Zenon, <2>0, <2>1 DEF CountOK, Recounted
      <3>2. mnt'[s].sbref = Cardinality(Holds(s)')
              + IF mnt'[s].set \/ \E w \in Works(s)' : ctl'[w].pc \in {"publish", "set"} THEN 1 ELSE 0
        <4>1. PICK b \in {0, 1} :
                b = IF mnt[s].set \/ \E w \in Works(s) : ctl[w].pc \in {"publish", "set"} THEN 1 ELSE 0
          BY Zenon
        <4>2. mnt[s].sbref = Cardinality(Holds(s)) + b
          BY Zenon, <2>0, <4>1 DEF CountOK
        <4>3. b = IF mnt'[s].set \/ \E w \in Works(s)' : ctl'[w].pc \in {"publish", "set"} THEN 1 ELSE 0
          BY Zenon, <2>1, <4>1 DEF Recounted
        <4>4. mnt'[s].sbref - Cardinality(Holds(s)') = mnt[s].sbref - Cardinality(Holds(s))
          BY Zenon DEF Recounted
        <4>5. mnt'[s].sbref = Cardinality(Holds(s)') + b
          BY <2>2, <4>2, <4>4
        <4> QED
          BY Zenon, <4>3, <4>5
      <3> QED
        BY <3>1, <3>2 DEF CountOK
    <2>4. CASE mnt'[s] = NoMnt /\ mnt[s].ref = 0
      <3>1. Works(s) = {} /\ ~mnt[s].linked /\ Cardinality(Asks(s)) \in Nat
        BY <2>0, <2>4, AsksCount DEF CountOK
      <3>2. ~NoMnt.listed /\ ~NoMnt.linked /\ ~NoMnt.set /\ NoMnt.sbref = 0
        BY Zenon DEF NoMnt
      <3>3. Cardinality(Holds(s)') = 0
        BY <2>1, <2>2, <2>3, <2>4, <3>1, <3>2 DEF CountOK
      <3>4. Holds(s)' = {}
        BY Zenon, <3>3, PlanAssumption, FS_Subset, FS_EmptySet DEF Holds
      <3> QED
        BY Zenon, <2>1, <2>3, <2>4, <3>1, <3>2, <3>4 DEF SlotOK
    <2>5. CASE ~(mnt'[s] = NoMnt /\ mnt[s].ref = 0)
      <3>1. /\ mnt'[s].open = mnt[s].open /\ mnt'[s].listed = mnt[s].listed /\ mnt'[s].removed = mnt[s].removed
            /\ mnt'[s].ref # 0 \/ mnt'[s].sbref # 0
            /\ Holds(s)' # {} => mnt[s].open \/ mnt[s].removed
            /\ mnt'[s].ref = mnt[s].ref /\ mnt'[s].linked = mnt[s].linked /\ (mnt'[s].set <=> mnt[s].set)
        BY Zenon, <2>5 DEF Recounted
      <3>2. ASSUME NEW t \in Works(s) PROVE WorkOK(t, s)'
        <4>1. WorkOK(t, s)
          BY Zenon, <2>0 DEF SlotOK
        <4>2. /\ ctl[t].pc \in {"insert", "start", "unlink", "publish"} => ctl[t].call \in {"add", "format"}
              /\ ~(ctl[t].pc \in {"insert", "start", "unlink", "publish", "close", "put"}
                     /\ ctl[t].call \notin {"remove", "exit"})
          BY Zenon, <4>1 DEF WorkOK, Adding, Recounted
        <4> QED
          BY Zenon, <2>1, <3>1, <4>1, <4>2 DEF WorkOK
      <3> QED
        BY Zenon, <2>0, <2>1, <2>3, <3>1, <3>2 DEF SlotOK
    <2> QED
      BY Zenon, <2>4, <2>5

  \* The thread of connection c goes on from where it found or drops superblocks.
<1>HeldNet.
    ASSUME Types, NetInv, NEW c \in Clients, con[c].pc \in {"find", "release"},
           NEW l \in {"reply", "tree"}, NEW S \in SUBSET Slots, l = "reply" => S = {},
           con' = [con EXCEPT ![c].held = S, ![c].pc = l],
           UNCHANGED << disk, ctl, srv, cli, up, down, world >>
    PROVE  /\ NetInv' /\ con' \in [Clients -> Cons] /\ con'[c].held = S
           /\ \A d \in Clients \ {c} : con'[d].held = con[d].held
    <2> USE <1>HeldNet
    <2>1. con \in [Clients -> Cons] /\ con[c] \in Cons
      BY Zenon DEF Types
    <2>2. PICK r : r = [con[c] EXCEPT !.held = S, !.pc = l]
      BY Zenon
    <2>3. r.pc = l /\ r.held = S /\ r.listed = con[c].listed /\ r.n = con[c].n
      BY Zenon, <2>1, <2>2 DEF Cons
    <2>4. r \in Cons
      BY Zenon, <2>1, <2>2 DEF Cons, ConPCs
    <2>5. con' = [con EXCEPT ![c] = r]
      BY Zenon, <2>1, <2>2
    <2>6. con' \in [Clients -> Cons] /\ con'[c] = r /\ \A d \in Clients \ {c} : con'[d] = con[d]
      BY Zenon, <2>1, <2>4, <2>5
    <2>7. /\ con[c].pc \notin FreePCs /\ con'[c].pc \notin FreePCs /\ con[c].pc \in BusyPCs
          /\ con'[c].pc \notin HeldPCs => con'[c].held = {}
      BY Zenon, <2>3, <2>6 DEF FreePCs, HeldPCs, BusyPCs
    <2>8. StreamOK(c)'
      BY Zenon, <2>3, <2>6, <2>7, Quiet
    <2>9. OnlyAt(c) /\ SrvSame
      BY Zenon, <2>6 DEF OnlyAt, SrvSame
    <2>10. NetInv'
      BY <2>3, <2>6, <2>7, <2>8, <2>9, RunsOn
    <2> QED
      BY Zenon, <2>3, <2>6, <2>10

  \* A request finds one superblock at most: no two of the list have one id.
<1>FindsOne.
    ASSUME DevInv, NEW op, NEW S \in Listed(op)
    PROVE  S = {} \/ \E s \in Slots : S = {s} /\ mnt[s].listed
    <2> USE <1>FindsOne
    <2>1. CASE op = "create"
      BY Zenon, <2>1 DEF Listed
    <2>2. CASE op # "create"
      <3>1. S = { s \in { q \in Slots : mnt[q].listed } : mnt[s].id = Object /\ ~mnt[s].stopped }
        BY Zenon, <2>2 DEF Listed
      <3>2. \A s, q \in S : s = q /\ s \in Slots /\ mnt[s].listed
        BY Zenon, <3>1 DEF DevInv, ListOK
      <3> QED
        BY <3>2
    <2> QED
      BY Zenon, <2>1, <2>2

  \* What is left of DevInv when requests take and drop superblocks.
<1>RecountedDev.
    ASSUME Types, DevInv, ctl' = ctl, srv' = srv,
           \A s \in Slots : /\ SlotOK(s)'
                            /\ mnt'[s].listed => mnt[s].listed /\ mnt'[s].id = mnt[s].id
    PROVE  DevInv'
    <2> USE <1>RecountedDev
    <2>1. ListOK'
      BY Zenon DEF DevInv, ListOK
    <2>2. \A t \in Ctls : CtlOK(t)'
      BY Zenon DEF DevInv, CtlOK
    <2> QED
      BY Zenon, <2>1, <2>2 DEF DevInv

  \* nkfs_sb_list_by_obj and nkfs_sb_select_most_free
<1>FindStep.
    ASSUME Types, NetInv, DevInv, NEW c \in Clients, Find(c)
    PROVE  Types' /\ NetInv' /\ DevInv' /\ UNCHANGED << ctl, srv, host, mode >>
    <2> USE <1>FindStep
    <2>1. PICK S \in Listed(con[c].op) :
            \/ Cardinality(S) > 1 /\ Oops
            \/ /\ Cardinality(S) <= 1
               /\ con' = [con EXCEPT ![c].held = S, ![c].pc = IF S = {} THEN "reply" ELSE "tree"]
               /\ mnt' = [s \in Slots |-> IF s \in S THEN [mnt[s] EXCEPT !.sbref = @ + 1] ELSE mnt[s]]
               /\ UNCHANGED << disk, ctl, srv, cli, up, down, world >>
      BY Zenon DEF Find
    <2>2. S = {} \/ \E s \in Slots : S = {s} /\ mnt[s].listed
      BY Zenon, <1>FindsOne
    <2>3. Cardinality(S) \in {0, 1} /\ S \in SUBSET Slots
      BY Zenon, <2>2, FS_EmptySet, FS_Singleton
    <2>4. /\ con' = [con EXCEPT ![c].held = S, ![c].pc = IF S = {} THEN "reply" ELSE "tree"]
          /\ mnt' = [s \in Slots |-> IF s \in S THEN [mnt[s] EXCEPT !.sbref = @ + 1] ELSE mnt[s]]
          /\ UNCHANGED << disk, ctl, srv, cli, up, down, world >>
      BY <2>1, <2>3
    <2>5. PICK l \in {"reply", "tree"} : l = IF S = {} THEN "reply" ELSE "tree"
      BY Zenon
    <2>6. con[c].pc = "find" /\ con[c].held = {} /\ mnt \in [Slots -> Mounts]
      BY Zenon DEF Find, In, NetInv, ConOK, HeldPCs, Types
    <2>7. /\ NetInv' /\ con' \in [Clients -> Cons] /\ con'[c].held = S
          /\ \A d \in Clients \ {c} : con'[d].held = con[d].held
      <3>1. con' = [con EXCEPT ![c].held = S, ![c].pc = l]
        BY Zenon, <2>4, <2>5
      <3> QED
        BY Zenon, <2>3, <2>4, <2>5, <2>6, <3>1, <1>HeldNet
    <2>8. ASSUME NEW s \in Slots
          PROVE  /\ SlotOK(s)' /\ mnt'[s] \in Mounts
                 /\ mnt'[s].listed => mnt[s].listed /\ mnt'[s].id = mnt[s].id
      <3>1. CASE s \notin S
        <4>1. mnt'[s] = mnt[s] /\ mnt[s] \in Mounts /\ SlotOK(s)
          BY <2>4, <2>6, <3>1 DEF DevInv
        <4>2. \A d \in Clients : s \in con'[d].held <=> s \in con[d].held
          BY Zenon, <2>6, <2>7, <3>1
        <4>3. \A t \in Ctls : ctl'[t] = ctl[t]
          BY ZenonT(60), <2>4
        <4>4. SlotOK(s)'
          BY Zenon, <4>1, <4>2, <4>3, SlotKept
        <4> QED
          BY Zenon, <4>1, <4>4
      <3>2. CASE s \in S
        <4>1. mnt[s].listed /\ mnt[s] \in Mounts /\ SlotOK(s) /\ CountOK(s)
          BY Zenon, <2>2, <2>6, <3>2 DEF DevInv, SlotOK
        <4>2. PICK r : r = [mnt[s] EXCEPT !.sbref = @ + 1]
          BY Zenon
        <4>3. /\ r.sbref = mnt[s].sbref + 1 /\ r.ref = mnt[s].ref /\ r.linked = mnt[s].linked
              /\ r.set = mnt[s].set /\ r.open = mnt[s].open /\ r.listed = mnt[s].listed
              /\ r.removed = mnt[s].removed /\ r.id = mnt[s].id /\ mnt[s].sbref \in Int
          BY Zenon, <4>1, <4>2 DEF Mounts
        <4>4. r \in Mounts
          BY <4>1, <4>2 DEF Mounts
        <4>5. mnt'[s] = r
          BY Zenon, <2>4, <3>2, <4>2
        <4>6. /\ Cardinality(Holds(s)') = Cardinality(Holds(s)) + 1 /\ Cardinality(Holds(s)) \in Nat
          <5>1. s \in con'[c].held /\ s \notin con[c].held
            BY Zenon, <2>6, <2>7, <3>2
          <5> QED
            BY Zenon, <2>7, <5>1, <1>HoldsStep, HoldsCount
        <4>7. mnt[s].sbref >= 0 /\ mnt[s].open
          <5>1. PICK b \in {0, 1} : mnt[s].sbref = Cardinality(Holds(s)) + b
            BY Zenon, <4>1 DEF CountOK
          <5>2. mnt[s].open
            BY Zenon, <4>1 DEF SlotOK
          <5> QED
            BY <4>6, <5>1, <5>2
        <4>8. ~\E t \in Works(s) : ctl[t].pc \in {"insert", "start", "unlink", "publish", "close", "put"}
                                     /\ ctl[t].call \notin {"remove", "exit"}
          BY Zenon, <4>1 DEF SlotOK, WorkOK
        <4>9. mnt'[s].sbref - Cardinality(Holds(s)') = mnt[s].sbref - Cardinality(Holds(s)) /\ mnt'[s].sbref # 0
          BY <4>3, <4>5, <4>6, <4>7
        <4>10. Recounted(s)
          BY Zenon, <2>4, <4>3, <4>4, <4>5, <4>7, <4>8, <4>9 DEF Recounted
        <4>11. SlotOK(s)'
          BY Zenon, <4>10, <1>RecountedSlot
        <4> QED
          BY <4>3, <4>4, <4>5, <4>11
      <3> QED
        BY Zenon, <3>1, <3>2
    <2>9. DevInv'
      BY Zenon, <2>4, <2>8, <1>RecountedDev
    <2>10. mnt' \in [Slots -> Mounts]
      BY Zenon, <2>4, <2>8
    <2>11. Types'
      BY Zenon, <2>4, <2>7, <2>10 DEF Types, world
    <2> QED
      BY <2>4, <2>7, <2>9, <2>11 DEF world

  \* nkfs_sb_list_release
<1>ReleaseStep.
    ASSUME Types, NetInv, DevInv, NEW c \in Clients, Release(c)
    PROVE  Types' /\ NetInv' /\ DevInv' /\ UNCHANGED << ctl, srv, host, mode >>
    <2> USE <1>ReleaseStep
    <2>1. /\ con[c].pc = "release" /\ mnt \in [Slots -> Mounts]
          /\ mnt' = [s \in Slots |-> IF s \in con[c].held THEN SbDeref(mnt[s]) ELSE mnt[s]]
          /\ con' = [con EXCEPT ![c].held = {}, ![c].pc = "reply"]
          /\ UNCHANGED << disk, ctl, srv, cli, up, down, world >>
      BY Zenon DEF Release, In, Types
    <2>2. /\ NetInv' /\ con' \in [Clients -> Cons] /\ con'[c].held = {}
          /\ \A d \in Clients \ {c} : con'[d].held = con[d].held
      <3>1. PICK l \in {"reply", "tree"} : l = "reply"
        BY Zenon
      <3>2. PICK S \in SUBSET Slots : S = {}
        BY Zenon
      <3>3. con' = [con EXCEPT ![c].held = S, ![c].pc = l]
        BY Zenon, <2>1, <3>1, <3>2
      <3> QED
        BY Zenon, <2>1, <3>2, <3>3, <1>HeldNet
    <2>3. ASSUME NEW s \in Slots
          PROVE  /\ SlotOK(s)' /\ mnt'[s] \in Mounts
                 /\ mnt'[s].listed => mnt[s].listed /\ mnt'[s].id = mnt[s].id
      <3>1. CASE s \notin con[c].held
        <4>1. mnt'[s] = mnt[s] /\ mnt[s] \in Mounts /\ SlotOK(s)
          BY Zenon, <2>1, <3>1 DEF DevInv
        <4>2. \A d \in Clients : s \in con'[d].held <=> s \in con[d].held
          BY Zenon, <2>2, <3>1
        <4>3. \A t \in Ctls : ctl'[t] = ctl[t]
          BY Zenon, <2>1
        <4>4. SlotOK(s)'
          BY Zenon, <4>1, <4>2, <4>3, SlotKept
        <4> QED
          BY Zenon, <4>1, <4>4
      <3>2. CASE s \in con[c].held
        <4>1. mnt[s] \in Mounts /\ SlotOK(s) /\ CountOK(s) /\ mnt'[s] = SbDeref(mnt[s])
          BY <2>1, <3>2 DEF DevInv, SlotOK
        <4>2. PICK r : r = [mnt[s] EXCEPT !.sbref = @ - 1]
          BY Zenon
        <4>3. /\ r.sbref = mnt[s].sbref - 1 /\ r.ref = mnt[s].ref /\ r.linked = mnt[s].linked
              /\ r.set = mnt[s].set /\ r.open = mnt[s].open /\ r.listed = mnt[s].listed
              /\ r.removed = mnt[s].removed /\ r.id = mnt[s].id /\ mnt[s].sbref \in Int
              /\ mnt[s].linked \in BOOLEAN /\ mnt[s].set \in BOOLEAN
          BY Zenon, <4>1, <4>2 DEF Mounts
        <4>4. r \in Mounts
          BY <4>1, <4>2 DEF Mounts
        <4>5. mnt'[s] = IF r.ref = 0 /\ r.sbref = 0 THEN NoMnt ELSE r
          BY Zenon, <4>1, <4>2 DEF SbDeref, Freed
        <4>6. /\ Cardinality(Holds(s)') = Cardinality(Holds(s)) - 1 /\ Cardinality(Holds(s)) \in Nat
              /\ Holds(s) # {} /\ Holds(s)' \subseteq Holds(s)
          BY <2>2, <3>2, <1>HoldsStep, HoldsCount
        <4>7. Cardinality(Holds(s)) # 0
          BY Zenon, <4>6, HoldsCount
        <4>8. ~\E t \in Works(s) : ctl[t].pc \in {"insert", "start", "unlink", "publish", "close", "put"}
                                     /\ ctl[t].call \notin {"remove", "exit"}
          <5> SUFFICES ASSUME NEW t \in Works(s), ctl[t].call \notin {"remove", "exit"},
                              ctl[t].pc \in {"insert", "start", "unlink", "publish", "close", "put"}
                       PROVE  FALSE
            BY Zenon
          <5>1. WorkOK(t, s)
            BY Zenon, <4>1 DEF SlotOK
          <5>2. CASE ctl[t].pc = "publish"
            <6>1. mnt[s].sbref = 1
              BY Zenon, <5>1, <5>2 DEF WorkOK
            <6>2. mnt[s].sbref = Cardinality(Holds(s)) + 1
              BY ZenonT(60), <4>1, <5>2 DEF CountOK
            <6> QED
              BY <4>6, <4>7, <6>1, <6>2
          <5>3. CASE ctl[t].pc # "publish"
            BY <4>1, <4>6, <4>7, <5>1, <5>3 DEF WorkOK, CountOK
          <5> QED
            BY Zenon, <5>2, <5>3
        <4>9. CASE r.ref = 0 /\ r.sbref = 0
          <5>1. ~mnt[s].set /\ ~mnt[s].linked /\ Cardinality(Asks(s)) \in Nat
            <6>1. Cardinality(Asks(s)) \in Nat
              BY Zenon, AsksCount
            <6>2. mnt[s].ref = 0
              BY Zenon, <4>3, <4>9
            <6>3. ~mnt[s].linked
              BY <4>1, <6>1, <6>2 DEF CountOK
            <6> QED
              <7>1. mnt[s].set => mnt[s].ref > 0
                BY Zenon, <4>1 DEF SlotOK
              <7> QED
                BY <6>1, <6>2, <6>3, <7>1
          <5>2. /\ ~NoMnt.linked /\ ~NoMnt.set /\ ~NoMnt.listed /\ NoMnt.ref = 0 /\ NoMnt.sbref = 0
                /\ NoMnt \in Mounts /\ NoMnt.linked \in BOOLEAN
            BY DEF NoMnt, Mounts
          <5>3. mnt'[s].sbref - Cardinality(Holds(s)') = mnt[s].sbref - Cardinality(Holds(s))
            BY <4>3, <4>5, <4>6, <4>9, <5>2
          <5>4. Recounted(s)
            BY Zenon, <2>1, <4>3, <4>5, <4>8, <4>9, <5>1, <5>2, <5>3 DEF Recounted
          <5>5. SlotOK(s)'
            BY Zenon, <5>4, <1>RecountedSlot
          <5>6. mnt'[s] = NoMnt
            BY Zenon, <4>5, <4>9
          <5> QED
            BY ZenonT(60), <5>2, <5>5, <5>6
        <4>10. CASE ~(r.ref = 0 /\ r.sbref = 0)
          <5>1. mnt'[s].sbref - Cardinality(Holds(s)') = mnt[s].sbref - Cardinality(Holds(s)) /\ mnt'[s] = r
            BY <4>3, <4>5, <4>6, <4>10
          <5>2. Holds(s)' # {} => mnt[s].open \/ mnt[s].removed
            BY Zenon, <4>1, <4>6 DEF SlotOK
          <5>3. Recounted(s)
            BY Zenon, <2>1, <4>3, <4>4, <4>8, <4>10, <5>1, <5>2 DEF Recounted
          <5>4. SlotOK(s)'
            BY Zenon, <5>3, <1>RecountedSlot
          <5> QED
            BY Zenon, <4>3, <4>4, <5>1, <5>4
        <4> QED
          BY Zenon, <4>9, <4>10
      <3> QED
        BY Zenon, <3>1, <3>2
    <2>4. DevInv'
      BY Zenon, <2>1, <2>3, <1>RecountedDev
    <2>5. mnt' \in [Slots -> Mounts]
      BY Zenon, <2>1, <2>3
    <2>6. Types'
      BY Zenon, <2>1, <2>2, <2>5 DEF Types, world
    <2> QED
      BY Zenon, <2>1, <2>2, <2>4, <2>6 DEF world

<1> QED
  BY <1>FindStep, <1>ReleaseStep, Zenon

\* A step that does no harm.
LEMMA UpKeeps ==
  ASSUME Types', NetInv', DevInv', mode' = "up"
  PROVE  IInv'
PROOF
  BY Zenon DEF IInv, GoneOK, HostSafe

\* A step that ends the model in an oops keeps the invariant: what HostSafe
\* says of an oops is what the harm was.
LEMMA OopsIInv ==
  ASSUME IInv, Oops, Harm
  PROVE  IInv'
PROOF
  <1>1. Types' /\ NetInv' /\ DevInv' /\ GoneOK' /\ UNCHANGED << mnt, ctl, con, host >>
    BY Zenon, OopsKeeps DEF IInv
  <1>2. \A s \in Slots : Works(s)' = Works(s) /\ Asks(s)' = Asks(s)
    BY Zenon, <1>1 DEF Works, Asks
  <1>3. HostSafe'
    BY Zenon, <1>1, <1>2 DEF HostSafe, Harm
  <1> QED
    BY Zenon, <1>1, <1>3 DEF IInv

\* The calls on devices that cannot do harm.
LEMMA DevCalls ==
  ASSUME IInv, NEW t \in Ctls,
         Add(t) \/ Remove(t) \/ Query(t) \/ Insert(t) \/ Start(t) \/ Publish(t) \/ SetSb(t) \/ Close(t) \/ Deref(t)
  PROVE  IInv'
PROOF
  <1>0. Types /\ NetInv /\ DevInv
    BY Zenon DEF IInv
  <1>1. CASE Add(t)
    <2>1. UNCHANGED net /\ mode' = "up"
      BY Zenon, <1>1 DEF Add, MayCall, At, world
    <2>2. Types' /\ DevInv'
      BY <1>0, <1>1, AskingCalls
    <2> QED
      BY <1>0, <2>1, <2>2, NetKept, UpKeeps
  <1>2. CASE Remove(t)
    <2>1. UNCHANGED net /\ mode' = "up"
      BY Zenon, <1>2 DEF Remove, MayCall, At, world
    <2>2. Types' /\ DevInv'
      BY Zenon, <1>0, <1>2, AskingCalls
    <2> QED
      BY Zenon, <1>0, <2>1, <2>2, NetKept, UpKeeps
  <1>3. CASE Query(t)
    <2>1. UNCHANGED net /\ mode' = "up"
      BY Zenon, <1>3 DEF Query, MayCall, At, world
    <2>2. Types' /\ DevInv'
      BY Zenon, <1>0, <1>3, AskingCalls
    <2> QED
      BY Zenon, <1>0, <2>1, <2>2, NetKept, UpKeeps
  <1>4. CASE Insert(t)
    <2>1. UNCHANGED net /\ mode' = "up"
      BY Zenon, <1>4 DEF Insert, At, world
    <2>2. Types' /\ DevInv'
      BY Zenon, <1>0, <1>4, WorkerCalls
    <2> QED
      BY Zenon, <1>0, <2>1, <2>2, NetKept, UpKeeps
  <1>5. CASE Start(t)
    <2>1. UNCHANGED net /\ mode' = "up"
      BY Zenon, <1>5 DEF Start, At, world
    <2>2. Types' /\ DevInv'
      BY Zenon, <1>0, <1>5, WorkerCalls
    <2> QED
      BY Zenon, <1>0, <2>1, <2>2, NetKept, UpKeeps
  <1>6. CASE Publish(t)
    <2>1. UNCHANGED net /\ mode' = "up"
      BY Zenon, <1>6 DEF Publish, At, world
    <2>2. Types' /\ DevInv'
      BY Zenon, <1>0, <1>6, WorkerCalls
    <2> QED
      BY Zenon, <1>0, <2>1, <2>2, NetKept, UpKeeps
  <1>7. CASE SetSb(t)
    <2>1. UNCHANGED net /\ mode' = "up"
      BY Zenon, <1>7 DEF SetSb, At, world
    <2>2. Types' /\ DevInv'
      BY Zenon, <1>0, <1>7, AskingCalls
    <2> QED
      BY Zenon, <1>0, <2>1, <2>2, NetKept, UpKeeps
  <1>8. CASE Close(t)
    <2>1. UNCHANGED net /\ mode' = "up"
      BY Zenon, <1>8 DEF Close, At, world
    <2>2. Types' /\ DevInv'
      BY Zenon, <1>0, <1>8, WorkerCalls
    <2> QED
      BY Zenon, <1>0, <2>1, <2>2, NetKept, UpKeeps
  <1>9. CASE Deref(t)
    <2>1. UNCHANGED net /\ mode' = "up"
      BY Zenon, <1>9 DEF Deref, At, world
    <2>2. Types' /\ DevInv'
      BY Zenon, <1>0, <1>9, AskingCalls
    <2> QED
      BY Zenon, <1>0, <2>1, <2>2, NetKept, UpKeeps
  <1> QED
    BY Zenon, <1>1, <1>2, <1>3, <1>4, <1>5, <1>6, <1>7, <1>8, <1>9

\* The calls on devices that may: see HostSafe.
LEMMA RiskyCalls ==
  ASSUME IInv, NEW t \in Ctls, Unlink(t) \/ Stop(t) \/ NoInodes(t) \/ Look(t)
  PROVE  IInv'
PROOF
  <1>0. Types /\ NetInv /\ DevInv /\ ctl[t] \in Calls /\ CtlOK(t)
    BY Zenon DEF IInv, Types, DevInv
  <1>1. CASE Unlink(t) /\ ~Oops
    <2>1. UNCHANGED net /\ mode' = "up"
      BY Zenon, <1>1 DEF Unlink, At, world
    <2>2. Types' /\ DevInv'
      BY <1>0, <1>1, WorkerCalls
    <2> QED
      BY <1>0, <2>1, <2>2, NetKept, UpKeeps
  <1>2. CASE Stop(t) /\ ~Oops
    <2>1. UNCHANGED net /\ mode' = "up"
      BY Zenon, <1>2 DEF Stop, At, world
    <2>2. Types' /\ DevInv'
      BY Zenon, <1>0, <1>2, WorkerCalls
    <2> QED
      BY Zenon, <1>0, <2>1, <2>2, NetKept, UpKeeps
  <1>3. CASE NoInodes(t) /\ ~Oops
    <2>1. UNCHANGED net /\ mode' = "up"
      BY Zenon, <1>3 DEF NoInodes, At, world
    <2>2. Types' /\ DevInv'
      BY Zenon, <1>0, <1>3, WorkerCalls
    <2> QED
      BY Zenon, <1>0, <2>1, <2>2, NetKept, UpKeeps
  <1>4. CASE Look(t) /\ ~Oops
    <2>1. UNCHANGED net /\ mode' = "up"
      BY Zenon, <1>4 DEF Look, At, world
    <2>2. Types' /\ DevInv'
      BY Zenon, <1>0, <1>4, AskingCalls
    <2> QED
      BY Zenon, <1>0, <2>1, <2>2, NetKept, UpKeeps
  <1>5. CASE Unlink(t) /\ Oops
    <2>1. ctl[t].pc = "unlink" /\ ctl[t].pc \in WorkPCs /\ ctl[t].pc \in Adding /\ ~mnt[ctl[t].slot].linked
      BY Zenon, <1>5 DEF Unlink, At, Oops, world, WorkPCs, Adding
    <2>2. PICK s \in Slots : s = ctl[t].slot /\ t \in Works(s) /\ WorkOK(t, s) /\ SlotOK(s)
      BY Zenon, <1>0, <2>1, AtWork
    <2>3. PICK u \in Works(s) : ctl[u].call = "remove"
      BY Zenon, <2>1, <2>2 DEF WorkOK
    <2>4. mnt[s].removed /\ ctl[t].call \in {"add", "format"}
      BY Zenon, <2>1, <2>2, <2>3 DEF WorkOK, SlotOK
    <2>5. Harm
      BY Zenon, <2>2, <2>4 DEF Harm
    <2> QED
      BY Zenon, <1>5, <2>5, OopsIInv
  <1>6. CASE Stop(t) /\ Oops
    <2>1. ctl[t].pc = "stop" /\ ctl[t].pc \in WorkPCs /\ ctl[t].pc \notin Adding /\ ~mnt[ctl[t].slot].set
      BY Zenon, <1>6 DEF Stop, At, Oops, world, WorkPCs, Adding
    <2>2. PICK s \in Slots : s = ctl[t].slot /\ t \in Works(s) /\ WorkOK(t, s) /\ SlotOK(s)
      BY Zenon, <1>0, <2>1, AtWork
    <2>3. PICK u \in Works(s) : ctl[u].pc \in Adding
      BY ZenonT(60), <2>1, <2>2 DEF WorkOK
    <2>4. u \in Ctls /\ u # t /\ ctl[u] # NoCall /\ ctl[u].call \in {"add", "format"}
      <3>1. u \in Ctls /\ WorkOK(u, s) /\ "idle" \notin Adding
        BY ZenonT(60), <2>2, <2>3 DEF SlotOK, Works, Adding
      <3> QED
        BY SMTT(60), <2>1, <2>3, <3>1 DEF WorkOK, NoCall
    <2>5. ctl[t].call = "remove"
      BY <1>0, <2>1, <2>2, <2>4 DEF WorkOK, CtlOK
    <2>6. mnt[s].removed
      BY Zenon, <2>2, <2>5 DEF WorkOK
    <2>7. Harm
      BY Zenon, <2>3, <2>4, <2>6 DEF Harm
    <2> QED
      BY <1>6, <2>7, OopsIInv
  <1>7. CASE NoInodes(t) /\ Oops
    <2>1. ctl[t].pc = "assert" /\ ctl[t].pc \in WorkPCs /\ Inside(ctl[t].slot) # {}
      BY Zenon, <1>7 DEF NoInodes, At, Oops, world, WorkPCs
    <2>2. PICK s \in Slots : s = ctl[t].slot /\ t \in Works(s) /\ WorkOK(t, s)
      BY Zenon, <1>0, <2>1, AtWork
    <2>3. PICK c \in Clients : s \in con[c].held
      BY Zenon, <2>1, <2>2 DEF Inside
    <2>4. ctl[t].call # "exit"
      BY ZenonT(60), <1>0, <2>1, <2>3, ExitHolds
    <2>5. mnt[s].removed
      BY Zenon, <2>1, <2>2, <2>4 DEF WorkOK
    <2>6. Harm
      BY Zenon, <2>3, <2>5 DEF Harm
    <2> QED
      BY <1>7, <2>6, OopsIInv
  <1>8. CASE Look(t) /\ Oops
    <2>1. ctl[t].pc = "query" /\ ctl[t].pc \in SlotPCs /\ ~mnt[ctl[t].slot].open
      BY Zenon, <1>8 DEF Look, At, Oops, world, SlotPCs
    <2>2. PICK s \in Slots : s = ctl[t].slot
      BY Zenon, <1>0, <2>1 DEF CtlOK, Calls
    <2>3. t \in Asks(s)
      BY Zenon, <2>1, <2>2 DEF Asks
    <2>4. Harm
      BY Zenon, <2>1, <2>2, <2>3 DEF Harm
    <2> QED
      BY Zenon, <1>8, <2>4, OopsIInv
  <1> QED
    BY Zenon, <1>1, <1>2, <1>3, <1>4, <1>5, <1>6, <1>7, <1>8

\* The calls on the server and the exit of the module.
LEMMA OtherCalls ==
  ASSUME IInv, NEW t \in Ctls,
         \/ SrvStart(t) \/ SrvStop(t) \/ Await(t) \/ Abort(t) \/ Kill(t) \/ Join(t) \/ Exit(t) \/ ExitDevs(t)
  PROVE  IInv'
PROOF
  <1>0. Types /\ NetInv /\ DevInv /\ GoneOK
    BY Zenon DEF IInv
  <1>1. CASE SrvStart(t) \/ SrvStop(t) \/ Await(t)
    <2>1. mode' = "up"
      BY Zenon, <1>1 DEF SrvStart, SrvStop, Await, MayCall, At, world
    <2> QED
      BY <1>0, <1>1, <2>1, ServerCalls, UpKeeps
  <1>2. CASE Abort(t) \/ Kill(t) \/ Join(t)
    <2>1. mode' = "up"
      BY Zenon, <1>2 DEF Abort, Kill, Join, At, world
    <2> QED
      BY Zenon, <1>0, <1>2, <2>1, ServerCalls, UpKeeps
  <1>3. CASE Exit(t)
    <2>1. mode' = "up"
      BY Zenon, <1>3 DEF Exit, MayCall, At
    <2> QED
      BY <1>0, <1>3, <2>1, ServerCalls, UpKeeps
  <1>4. CASE ExitDevs(t)
    <2>1. Types' /\ NetInv' /\ DevInv' /\ GoneOK' /\ mode' # "oops"
      BY Zenon, <1>0, <1>4, ServerCalls
    <2> QED
      BY Zenon, <2>1 DEF IInv, HostSafe
  <1> QED
    BY <1>1, <1>2, <1>3, <1>4

\* The server's thread.
LEMMA ServerKeeps ==
  ASSUME IInv, Server
  PROVE  IInv'
PROOF
  <1>0. Types /\ NetInv /\ DevInv
    BY Zenon DEF IInv
  <1>1. CASE Listen
    <2>1. mnt' = mnt /\ ctl' = ctl /\ mode' = "up" /\ srv.pc # "none"
      BY Zenon, <1>1 DEF Listen, world
    <2>2. Types' /\ NetInv' /\ \A d \in Clients : con'[d].held = con[d].held
      BY Zenon, <1>0, <1>1, ServerNet DEF SameHeld
    <2>3. DevInv'
      BY <1>0, <2>1, <2>2, DevKept
    <2> QED
      BY Zenon, <2>1, <2>2, <2>3, UpKeeps
  <1>2. CASE SrvHead
    <2>1. mnt' = mnt /\ ctl' = ctl /\ mode' = "up" /\ srv.pc # "none"
      BY <1>2 DEF SrvHead, world
    <2>2. Types' /\ NetInv' /\ \A d \in Clients : con'[d].held = con[d].held
      BY Zenon, <1>0, <1>2, ServerNet DEF SameHeld
    <2>3. DevInv'
      BY Zenon, <1>0, <2>1, <2>2, DevKept
    <2> QED
      BY Zenon, <2>1, <2>2, <2>3, UpKeeps
  <1>3. CASE Accept
    <2>1. mnt' = mnt /\ ctl' = ctl /\ mode' = "up" /\ srv.pc # "none"
      BY <1>3 DEF Accept, world
    <2>2. Types' /\ NetInv' /\ \A d \in Clients : con'[d].held = con[d].held
      BY Zenon, <1>0, <1>3, ServerNet DEF SameHeld
    <2>3. DevInv'
      BY Zenon, <1>0, <2>1, <2>2, DevKept
    <2> QED
      BY Zenon, <2>1, <2>2, <2>3, UpKeeps
  <1>4. CASE Drain
    <2>1. mnt' = mnt /\ ctl' = ctl /\ mode' = "up" /\ srv.pc # "none"
      BY Zenon, <1>4 DEF Drain, world
    <2>2. Types' /\ NetInv' /\ \A d \in Clients : con'[d].held = con[d].held
      BY Zenon, <1>0, <1>4, ServerNet DEF SameHeld
    <2>3. DevInv'
      BY Zenon, <1>0, <2>1, <2>2, DevKept
    <2> QED
      BY Zenon, <2>1, <2>2, <2>3, UpKeeps
  <1>5. CASE ConWait
    <2>1. mnt' = mnt /\ ctl' = ctl /\ mode' = "up" /\ srv.pc # "none"
      BY <1>5 DEF ConWait, world
    <2>2. Types' /\ NetInv' /\ \A d \in Clients : con'[d].held = con[d].held
      BY Zenon, <1>0, <1>5, ServerNet DEF SameHeld
    <2>3. DevInv'
      BY Zenon, <1>0, <2>1, <2>2, DevKept
    <2> QED
      BY Zenon, <2>1, <2>2, <2>3, UpKeeps
  <1> QED
    BY <1>1, <1>2, <1>3, <1>4, <1>5 DEF Server

\* The thread of a connection where it can do no harm.
LEMMA ThreadKeeps ==
  ASSUME IInv, NEW c \in Clients,
         \/ Run(c) \/ ConHead(c) \/ Leave(c) \/ Recv(c) \/ Pages(c) \/ Reply(c) \/ ConUnlink(c) \/ ConClose(c)
         \/ Find(c) \/ Release(c)
  PROVE  IInv'
PROOF
  <1>0. Types /\ NetInv /\ DevInv
    BY ZenonT(60) DEF IInv
  <1>1. CASE Run(c) \/ ConHead(c) \/ Leave(c)
    <2>1. mnt' = mnt /\ ctl' = ctl /\ mode' = "up" /\ srv' = srv
      BY Zenon, <1>1 DEF Run, ConHead, Leave, ConOnly, In, world
    <2>2. Types' /\ NetInv' /\ \A d \in Clients : con'[d].held = con[d].held
      BY Zenon, <1>0, <1>1, ThreadNet DEF SameHeld
    <2>3. DevInv'
      BY Zenon, <1>0, <2>1, <2>2, DevKept
    <2> QED
      BY <2>1, <2>2, <2>3, UpKeeps
  <1>2. CASE Recv(c)
    <2>1. mnt' = mnt /\ ctl' = ctl /\ mode' = "up" /\ srv' = srv
      BY Zenon, <1>2 DEF Recv, In, world
    <2>2. Types' /\ NetInv' /\ \A d \in Clients : con'[d].held = con[d].held
      BY Zenon, <1>0, <1>2, ThreadNet DEF SameHeld
    <2>3. DevInv'
      BY Zenon, <1>0, <2>1, <2>2, DevKept
    <2> QED
      BY Zenon, <2>1, <2>2, <2>3, UpKeeps
  <1>3. CASE Pages(c)
    <2>1. mnt' = mnt /\ ctl' = ctl /\ mode' = "up" /\ srv' = srv
      BY Zenon, <1>3 DEF Pages, In, world
    <2>2. Types' /\ NetInv' /\ \A d \in Clients : con'[d].held = con[d].held
      BY Zenon, <1>0, <1>3, ThreadNet DEF SameHeld
    <2>3. DevInv'
      BY Zenon, <1>0, <2>1, <2>2, DevKept
    <2> QED
      BY Zenon, <2>1, <2>2, <2>3, UpKeeps
  <1>4. CASE Reply(c)
    <2>1. mnt' = mnt /\ ctl' = ctl /\ mode' = "up" /\ srv' = srv
      BY Zenon, <1>4 DEF Reply, In, world
    <2>2. Types' /\ NetInv' /\ \A d \in Clients : con'[d].held = con[d].held
      BY Zenon, <1>0, <1>4, ThreadNet DEF SameHeld
    <2>3. DevInv'
      BY Zenon, <1>0, <2>1, <2>2, DevKept
    <2> QED
      BY Zenon, <2>1, <2>2, <2>3, UpKeeps
  <1>5. CASE ConUnlink(c)
    <2>1. mnt' = mnt /\ ctl' = ctl /\ mode' = "up" /\ srv' = srv
      BY Zenon, <1>5 DEF ConUnlink, ConOnly, In, world
    <2>2. Types' /\ NetInv' /\ \A d \in Clients : con'[d].held = con[d].held
      BY Zenon, <1>0, <1>5, ThreadNet DEF SameHeld
    <2>3. DevInv'
      BY Zenon, <1>0, <2>1, <2>2, DevKept
    <2> QED
      BY Zenon, <2>1, <2>2, <2>3, UpKeeps
  <1>6. CASE ConClose(c)
    <2>1. mnt' = mnt /\ ctl' = ctl /\ mode' = "up" /\ srv' = srv
      BY Zenon, <1>6 DEF ConClose, In, world
    <2>2. Types' /\ NetInv' /\ \A d \in Clients : con'[d].held = con[d].held
      BY Zenon, <1>0, <1>6, ThreadNet DEF SameHeld
    <2>3. DevInv'
      BY Zenon, <1>0, <2>1, <2>2, DevKept
    <2> QED
      BY Zenon, <2>1, <2>2, <2>3, UpKeeps
  <1>7. CASE Find(c)
    <2>1. Types' /\ NetInv' /\ DevInv' /\ mode' = mode
      BY Zenon, <1>0, <1>7, HoldingSteps
    <2>2. mode = "up"
      BY <1>7 DEF Find, In
    <2> QED
      BY Zenon, <2>1, <2>2, UpKeeps
  <1>8. CASE Release(c)
    <2>1. Types' /\ NetInv' /\ DevInv' /\ mode' = mode
      BY Zenon, <1>0, <1>8, HoldingSteps
    <2>2. mode = "up"
      BY Zenon, <1>8 DEF Release, In
    <2> QED
      BY Zenon, <2>1, <2>2, UpKeeps
  <1> QED
    BY Zenon, <1>1, <1>2, <1>3, <1>4, <1>5, <1>6, <1>7, <1>8

\* And where it may.
LEMMA RiskyThread ==
  ASSUME IInv, NEW c \in Clients, Serve(c) \/ Tree(c) \/ Read(c) \/ Use(c)
  PROVE  IInv'
PROOF
  <1>0. Types /\ NetInv /\ DevInv /\ con[c] \in Cons
    BY ZenonT(60) DEF IInv, Types
  <1>1. CASE Serve(c) /\ ~Oops
    <2>1. mode = "up"
      BY Zenon, <1>1 DEF Serve, In
    <2>2. Types' /\ NetInv' /\ UNCHANGED << mnt, ctl, srv, mode >> /\ \A d \in Clients : con'[d].held = con[d].held
      BY Zenon, <1>0, <1>1, ThreadNet DEF SameHeld
    <2>3. DevInv'
      BY <1>0, <2>2, DevKept
    <2> QED
      BY <2>1, <2>2, <2>3, UpKeeps
  <1>2. CASE (Tree(c) \/ Read(c) \/ Use(c)) /\ ~Oops
    <2>1. mode = "up"
      BY Zenon, <1>2 DEF Tree, Read, Use, In
    <2>2. Types' /\ NetInv' /\ UNCHANGED << mnt, ctl, srv, mode >> /\ \A d \in Clients : con'[d].held = con[d].held
      BY Zenon, <1>0, <1>2, ThreadNet DEF SameHeld
    <2>3. DevInv'
      BY Zenon, <1>0, <2>2, DevKept
    <2> QED
      BY Zenon, <2>1, <2>2, <2>3, UpKeeps
  <1>3. CASE Serve(c) /\ Oops
    <2>1. con[c].pc = "serve" /\ con[c].op = "neigh" /\ ~host
      BY Zenon, <1>3 DEF Serve, In, Oops, ConOnly, world
    <2>2. Harm
      BY Zenon, <2>1 DEF Harm
    <2> QED
      BY Zenon, <1>3, <2>2, OopsIInv
  <1>4. CASE Tree(c) /\ Oops
    BY Zenon, <1>4 DEF Tree, In, Oops, ConOnly, world
  <1>5. CASE (Read(c) \/ Use(c)) /\ Oops
    <2>1. PICK s \in con[c].held : ~mnt[s].open
      BY Zenon, <1>5 DEF Read, Use, In, Oops, ConOnly, world
    <2>2. s \in Slots
      BY Zenon, <1>0 DEF Cons
    <2>3. c \in Holds(s) /\ SlotOK(s)
      BY Zenon, <1>0, <2>2 DEF Holds, DevInv
    <2>4. mnt[s].removed
      BY Zenon, <2>1, <2>3 DEF SlotOK
    <2>5. Harm
      BY Zenon, <2>2, <2>4 DEF Harm
    <2> QED
      BY Zenon, <1>5, <2>5, OopsIInv
  <1> QED
    BY <1>1, <1>2, <1>3, <1>4, <1>5

\* The clients.
LEMMA ClientKeeps ==
  ASSUME IInv, NEW c \in Clients, Client(c) \/ Connect(c) \/ CliKilled(c)
  PROVE  IInv'
PROOF
  <1>0. Types /\ NetInv /\ DevInv
    BY Zenon DEF IInv
  <1>1. CASE Connect(c)
    <2>1. mnt' = mnt /\ ctl' = ctl /\ mode' = "up" /\ srv.sock
      BY Zenon, <1>1 DEF Connect, Is, world
    <2>2. Types' /\ NetInv' /\ \A d \in Clients : con'[d].held = con[d].held
      BY Zenon, <1>0, <1>1, ClientNet DEF SameHeld
    <2>3. srv.pc # "none"
      BY Zenon, <1>0, <2>1 DEF NetInv, ServerOK
    <2>4. DevInv'
      BY Zenon, <1>0, <2>1, <2>2, <2>3, DevKept
    <2> QED
      BY <2>1, <2>2, <2>4, UpKeeps
  <1>2. CASE Send(c) \/ SendData(c) \/ Receive(c) \/ CliClose(c) \/ CliKilled(c)
    <2>1. UNCHANGED << mnt, ctl, srv, con >> /\ mode' = "up"
      BY Zenon, <1>2 DEF Send, SendData, Receive, CliClose, CliKilled, Quit, Is, world
    <2>2. CASE Quit(c)
      <3>1. Types' /\ NetInv'
        BY Zenon, <1>0, <2>2, ClientNet
      <3>2. DevInv'
        BY <1>0, <2>1, DevKept
      <3> QED
        BY <2>1, <3>1, <3>2, UpKeeps
    <2>3. CASE Send(c) \/ SendData(c) \/ Receive(c)
      <3>1. Types' /\ NetInv'
        BY <1>0, <2>3, ClientNet
      <3>2. DevInv'
        BY Zenon, <1>0, <2>1, DevKept
      <3> QED
        BY Zenon, <2>1, <3>1, <3>2, UpKeeps
    <2> QED
      BY <1>2, <2>2, <2>3 DEF CliClose, CliKilled
  <1> QED
    BY Zenon, <1>1, <1>2 DEF Client

\* The invariant is inductive.
LEMMA Inductive == IInv /\ [Next]_vars => IInv'
PROOF
  <1> SUFFICES ASSUME IInv, [Next]_vars PROVE IInv'
    BY Zenon
  <1>1. ASSUME NEW t \in Ctls, Call(t) \/ Ctl(t) PROVE IInv'
    BY Zenon, <1>1, DevCalls, RiskyCalls, OtherCalls DEF Call, Ctl
  <1>2. CASE Server
    BY Zenon, <1>2, ServerKeeps
  <1>3. ASSUME NEW c \in Clients, Thread(c) PROVE IInv'
    BY Zenon, <1>3, ThreadKeeps, RiskyThread DEF Thread
  <1>4. ASSUME NEW c \in Clients, Client(c) \/ Connect(c) \/ CliKilled(c) PROVE IInv'
    BY Zenon, <1>4, ClientKeeps
  <1>5. CASE UNCHANGED vars
    <2>1. UNCHANGED << plan, disk, mnt, ctl, srv, con, cli, up, down, host, mode >>
      BY Zenon, <1>5 DEF vars
    <2>2. Types'
      BY Zenon, <2>1 DEF IInv, Types
    <2>3. NetInv'
      BY Zenon, <2>1, NetKept DEF IInv, net
    <2>4. DevInv'
      BY Zenon, <2>1, DevKept DEF IInv
    <2>5. \A s \in Slots : Works(s)' = Works(s) /\ Asks(s)' = Asks(s)
      BY Zenon, <2>1 DEF Works, Asks
    <2>6. GoneOK' /\ HostSafe'
      BY Zenon, <2>1, <2>5 DEF IInv, GoneOK, HostSafe
    <2> QED
      BY <2>2, <2>3, <2>4, <2>6 DEF IInv
  <1> QED
    BY <1>1, <1>2, <1>3, <1>4, <1>5 DEF Next

\* The invariant holds at the start.
LEMMA InitIInv ==
  Init => IInv

  \* What the devices are at the start.
<1>InitMounts.
    ASSUME Init
    PROVE  /\ mnt = [s \in Slots |-> mnt[s]] /\ ListOK
           /\ \A s \in Slots : mnt[s] = NoMnt \/ \E n \in plan.added : mnt[s] = Added(n)
    <2> USE <1>InitMounts
    <2>1. PICK at : at = CHOOSE f \in [plan.added -> Slots] : \A m, n \in plan.added : f[m] = f[n] => m = n
      BY Zenon
    <2>2. mnt = [s \in Slots |->
            IF { n \in plan.added : at[n] = s } = {} THEN NoMnt
            ELSE [ NoMnt EXCEPT !.name = CHOOSE n \in { n \in plan.added : at[n] = s } : TRUE, !.ref = 1, !.linked = TRUE,
                   !.open = TRUE, !.set = TRUE, !.sbref = 1, !.listed = TRUE,
                   !.id = plan.disk[CHOOSE n \in { n \in plan.added : at[n] = s } : TRUE] ]]
      BY Zenon, <2>1 DEF Init
    <2>3. ASSUME NEW s \in Slots
          PROVE  mnt[s] = NoMnt \/ \E n \in plan.added : at[n] = s /\ mnt[s] = Added(n)
      <3>1. CASE { n \in plan.added : at[n] = s } = {}
        BY Zenon, <2>2, <3>1
      <3>2. CASE { n \in plan.added : at[n] = s } # {}
        <4>1. PICK n : n = CHOOSE m \in { m \in plan.added : at[m] = s } : TRUE
          BY Zenon
        <4>2. n \in plan.added /\ at[n] = s
          BY Zenon, <3>2, <4>1
        <4>3. mnt[s] = [ NoMnt EXCEPT !.name = n, !.ref = 1, !.linked = TRUE, !.open = TRUE, !.set = TRUE,
                         !.sbref = 1, !.listed = TRUE, !.id = plan.disk[n] ]
          BY Zenon, <2>2, <3>2, <4>1
        <4>4. mnt[s] = Added(n)
          BY ZenonT(60), <4>3 DEF NoMnt, Added
        <4> QED
          BY Zenon, <4>2, <4>4
      <3> QED
        BY Zenon, <3>1, <3>2
    <2>4. ListOK
      <3> SUFFICES ASSUME NEW r \in Slots, NEW s \in Slots, mnt[r].listed, mnt[s].listed, mnt[r].id = mnt[s].id
                   PROVE  r = s
        BY Zenon DEF ListOK
      <3>1. ~NoMnt.listed
        BY Zenon DEF NoMnt
      <3>2. PICK m \in plan.added : at[m] = r /\ mnt[r] = Added(m)
        BY Zenon, <2>3, <3>1
      <3>3. PICK n \in plan.added : at[n] = s /\ mnt[s] = Added(n)
        BY Zenon, <2>3, <3>1
      <3>4. plan.disk[m] = plan.disk[n]
        BY <3>2, <3>3 DEF Added
      <3>5. plan \in Plans
        BY Zenon DEF Init
      <3>6. m = n
        BY Zenon, <3>4, <3>5, PlanAssumption
      <3> QED
        BY Zenon, <3>2, <3>3, <3>6
    <2> QED
      BY Zenon, <2>2, <2>3, <2>4
<1>InitIInv. Init => IInv
    <2> SUFFICES ASSUME Init PROVE IInv
      BY Zenon
    <2>0. plan \in Plans /\ plan \in Plan /\ \A n \in plan.added : n \in Names /\ plan.disk[n] \in Ids
      <3>1. plan \in Plans /\ plan \in Plan
        BY Zenon, PlanAssumption DEF Init
      <3>2. plan.added \subseteq Names /\ \A n \in Names : plan.disk[n] \in Ids \cup {None}
        BY Zenon, <3>1 DEF Plan
      <3>3. \A n \in plan.added : plan.disk[n] # None
        BY Zenon, <3>1, PlanAssumption
      <3> QED
        BY Zenon, <3>1, <3>2, <3>3
    <2>1. /\ NoMnt \in Mounts /\ NoMnt.ref = 0 /\ NoMnt.sbref = 0 /\ ~NoMnt.linked /\ ~NoMnt.set /\ ~NoMnt.listed
          /\ ~NoMnt.open
      BY DEF NoMnt, Mounts
    <2>2. ASSUME NEW n \in plan.added
          PROVE  /\ Added(n) \in Mounts /\ Added(n).ref = 1 /\ Added(n).sbref = 1 /\ Added(n).linked
                 /\ Added(n).set /\ Added(n).open
      BY <2>0 DEF Added, Mounts
    <2>3. \A s \in Slots : /\ mnt[s] \in Mounts
                           /\ \/ mnt[s] = NoMnt
                              \/ /\ mnt[s].ref = 1 /\ mnt[s].sbref = 1 /\ mnt[s].linked
                                 /\ mnt[s].set /\ mnt[s].open
      BY <2>1, <2>2, <1>InitMounts
    <2>4. NoCall \in Calls /\ NoCall.pc = "idle" /\ NoCall.slot = None /\ NoCall.call = "none"
      BY Zenon DEF NoCall, Calls
    <2>5. /\ NoCon \in Cons /\ NoCon.pc = "none" /\ NoCon.held = {} /\ ~NoCon.listed
      BY Zenon DEF NoCon, Cons, ConPCs, Ops
    <2>6. srv \in Servers /\ srv.pc = "head" /\ srv.sock /\ srv.con = None
      BY Zenon DEF Init, NoSrv, Servers
    <2>7. \A t \in Ctls : ctl[t] = NoCall
      BY Zenon DEF Init
    <2>8. \A c \in Clients : con[c] = NoCon /\ up[c] = << >> /\ down[c] = << >> /\ cli[c].pc = "out"
      BY Zenon DEF Init
    <2>9. Types
      <3>1. disk \in [Names -> Ids \cup {None}]
        BY Zenon, <2>0 DEF Init, Plan
      <3>2. mnt \in [Slots -> Mounts]
        BY Zenon, <2>3, <1>InitMounts
      <3>3. ctl \in [Ctls -> Calls] /\ con \in [Clients -> Cons]
        BY Zenon, <2>4, <2>5 DEF Init
      <3>4. /\ << >> \in Seq([op : Ops, n : {0, 1}]) /\ << >> \in Seq({0, 1})
        OBVIOUS
      <3>5. /\ up \in [Clients -> Seq([op : Ops, n : {0, 1}])] /\ down \in [Clients -> Seq({0, 1})]
        BY Zenon, <3>4 DEF Init
      <3>6. cli \in [Clients -> [pc : {"out", "idle", "data", "wait"}, n : {0, 1}]]
        BY Zenon DEF Init
      <3>7. host \in BOOLEAN /\ mode \in {"up", "gone", "oops"}
        BY Zenon DEF Init
      <3> QED
        BY Zenon, <2>0, <2>6, <3>1, <3>2, <3>3, <3>5, <3>6, <3>7 DEF Types
    <2>10. NetInv
      <3>1. ServerOK
        BY Zenon, <2>5, <2>6, <2>8 DEF ServerOK
      <3>2. ASSUME NEW c \in Clients PROVE ConOK(c)
        BY <2>5, <2>6, <2>8, PlanAssumption DEF ConOK, FreePCs, HeldPCs
      <3>3. ASSUME NEW c \in Clients PROVE StreamOK(c)
        <4>1. DOMAIN up[c] = {}
          BY <2>8
        <4>2. con[c].pc \notin BusyPCs /\ con[c].pc = "none" /\ down[c] = << >> /\ cli[c].pc = "out"
          BY Zenon, <2>5, <2>8 DEF BusyPCs, HeldPCs
        <4> QED
          BY Zenon, <4>1, <4>2 DEF StreamOK
      <3> QED
        BY Zenon, <3>1, <3>2, <3>3 DEF NetInv
    <2>11. \A t \in Ctls : CtlOK(t)
      BY Zenon, <2>4, <2>7 DEF CtlOK, SlotPCs, WorkPCs, Adding
    <2>12. ASSUME NEW s \in Slots PROVE SlotOK(s)
      <3>1. Asks(s) = {} /\ Works(s) = {} /\ Holds(s) = {}
        BY Zenon, <2>4, <2>5, <2>7, <2>8, PlanAssumption DEF Asks, Works, Holds
      <3>2. Cardinality(Asks(s)) = 0 /\ Cardinality(Holds(s)) = 0
        BY Zenon, <3>1, FS_EmptySet
      <3>3. CountOK(s)
        BY <2>1, <2>3, <3>1, <3>2 DEF CountOK
      <3> QED
        <4>1. /\ mnt[s].ref = 0 /\ mnt[s].sbref = 0 => mnt[s] = NoMnt
              /\ mnt[s].set => mnt[s].ref > 0
              /\ mnt[s].listed => mnt[s].open
              /\ mnt[s].linked => mnt[s].set
          BY <2>1, <2>3
        <4> QED
          BY Zenon, <3>1, <3>3, <4>1 DEF SlotOK
    <2>13. GoneOK /\ HostSafe
      BY Zenon DEF Init, GoneOK, HostSafe
    <2> QED
      BY Zenon, <2>9, <2>10, <2>11, <2>12, <2>13, <1>InitMounts DEF IInv, DevInv

<1> QED
  BY <1>InitIInv

\* The invariant holds in every state of every scenario.
THEOREM HostInvariance == Spec => []IInv
PROOF
  BY InitIInv, Inductive, PTL DEF Spec

\* nkfs_dev_deref and nkfs_sb_deref: the two counts of a device are those of
\* the list, the calls and the requests that hold it, whoever adds, removes,
\* queries and uses it at the same time, and a module that has exited leaves no
\* device.
THEOREM RefsCounted == Spec => []RefsExact
PROOF
  <1>1. IInv => RefsExact
    BY Zenon DEF IInv, DevInv, SlotOK, CountOK, Holds, GoneOK, RefsExact
  <1> QED
    BY <1>1, HostInvariance, PTL

\* nkfs_con_thread_routine against nkfs_server_thread_routine: a connection is
\* freed once.
THEOREM OneOwner == Spec => []ConOwned
PROOF
  <1>1. IInv => ConOwned
    <2> SUFFICES ASSUME IInv PROVE ConOwned
      BY Zenon
    <2>1. ASSUME NEW c \in Clients
          PROVE  Cardinality({ o \in {"list", "server", "self"} :
                     \/ o = "list" /\ con[c].listed
                     \/ o = "server" /\ srv.con = c
                     \/ o = "self" /\ con[c].pc = "closing" })
                   = IF con[c].pc \in {"none", "queued"} THEN 0 ELSE 1
      <3> DEFINE O == { o \in {"list", "server", "self"} :
                     \/ o = "list" /\ con[c].listed
                     \/ o = "server" /\ srv.con = c
                     \/ o = "self" /\ con[c].pc = "closing" }
      <3>1. ConOK(c)
        BY Zenon DEF IInv, NetInv
      <3>2. CASE con[c].pc \in {"none", "queued"}
        <4>1. O = {}
          BY Zenon, <3>1, <3>2 DEF ConOK, FreePCs
        <4> QED
          BY Zenon, <3>2, <4>1, FS_EmptySet
      <3>3. CASE con[c].pc \notin {"none", "queued"}
        <4>1. O = {"list"} \/ O = {"server"} \/ O = {"self"}
          BY Zenon, <3>1, <3>3 DEF ConOK, FreePCs
        <4>2. Cardinality(O) = 1
          BY Zenon, <4>1, FS_Singleton
        <4> QED
          BY Zenon, <3>3, <4>2
      <3> QED
        BY Zenon, <3>2, <3>3
    <2>2. mode = "gone" => \A c \in Clients : con[c].pc \in {"none", "closing"}
      BY Zenon DEF IInv, GoneOK
    <2> QED
      BY Zenon, <2>1, <2>2 DEF ConOwned
  <1> QED
    BY <1>1, HostInvariance, PTL

\* net_pkt_check: a client never takes an answer for that to another call.
THEOREM AnswersMatched == Spec => []Matched
PROOF
  <1>1. IInv => Matched
    BY DEF IInv, NetInv, StreamOK, Matched
  <1> QED
    BY <1>1, HostInvariance, PTL

\* nkfs_exit and nkfs_sb_insert: the host comes to harm in the three ways of
\* HostSafe only.
THEOREM HarmBounded == Spec => []HostSafe
PROOF
  <1>1. IInv => HostSafe
    BY Zenon DEF IInv
  <1> QED
    BY <1>1, HostInvariance, PTL

=============================================================================
