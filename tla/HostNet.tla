------------------------------ MODULE HostNet ------------------------------
(***************************************************************************)
(* Every step of the server, of the threads of its connections and of the  *)
(* clients keeps the part of the invariant that is about them (NetInv).    *)
(***************************************************************************)
EXTENDS HostInv, TLAPS

\* A step of one client or of its connection.
LEMMA OneCon ==
  ASSUME NetInv, NEW c \in Clients, OnlyAt(c), SrvSame,
         con'[c].listed => con[c].listed, ConOK(c)', StreamOK(c)'
  PROVE  NetInv'
PROOF
  <1>1. ServerOK'
    BY DEF NetInv, ServerOK, SrvSame, OnlyAt
  <1>2. ASSUME NEW d \in Clients \ {c} PROVE ConOK(d)' /\ StreamOK(d)'
    <2>1. /\ con'[d] = con[d] /\ cli'[d] = cli[d] /\ up'[d] = up[d] /\ down'[d] = down[d]
          /\ srv'.con = srv.con /\ srv'.sock = srv.sock
      BY Zenon DEF OnlyAt, SrvSame
    <2>2. ConOK(d) /\ StreamOK(d)
      BY Zenon DEF NetInv
    <2>3. ConOK(d)'
      BY Zenon, <2>1, <2>2 DEF ConOK
    <2>4. StreamOK(d)'
      BY <2>1, <2>2 DEF StreamOK
    <2> QED
      BY Zenon, <2>3, <2>4
  <1> QED
    BY Zenon, <1>1, <1>2 DEF NetInv

\* A connection whose thread runs on: it stays whose it is.
LEMMA RunsOn ==
  ASSUME NetInv, NEW c \in Clients, OnlyAt(c), SrvSame,
         con[c].pc \notin FreePCs, con'[c].pc \notin FreePCs, con'[c].listed = con[c].listed,
         con'[c].pc \notin HeldPCs => con'[c].held = {}, StreamOK(c)'
  PROVE  NetInv'
PROOF
  <1>1. ConOK(c)
    BY Zenon DEF NetInv
  <1>2. srv'.con = srv.con
    BY Zenon DEF SrvSame
  <1>3. con'[c].pc # "none" /\ con'[c].pc # "queued"
    BY Zenon DEF FreePCs
  <1>4. ConOK(c)'
    BY Zenon, <1>1, <1>2, <1>3 DEF ConOK
  <1> QED
    BY Zenon, <1>4, OneCon

\* A step that brings no request keeps the streams.
LEMMA Quiet ==
  ASSUME NetInv, NEW c \in Clients, UNCHANGED << cli, up, down >>,
         con'[c].pc \in BusyPCs => con[c].pc \in BusyPCs /\ con'[c].n = con[c].n
  PROVE  StreamOK(c)'
PROOF
  <1>1. StreamOK(c)
    BY Zenon DEF NetInv
  <1> QED
    BY Zenon, <1>1 DEF StreamOK

\* What Append does to a sequence, element by element.
LEMMA AppendFacts ==
  ASSUME NEW S, NEW s \in Seq(S), NEW e \in S
  PROVE  /\ Append(s, e) \in Seq(S)
         /\ \A i \in DOMAIN Append(s, e) : \/ i \in DOMAIN s /\ Append(s, e)[i] = s[i]
                                           \/ i \notin DOMAIN s /\ i = Len(s) + 1 /\ Append(s, e)[i] = e
         /\ s = << >> => Append(s, e) = << e >>
PROOF
  <1>1. Append(s, e) \in Seq(S) /\ Len(Append(s, e)) = Len(s) + 1
    OBVIOUS
  <1>2. \A i \in DOMAIN Append(s, e) : \/ i \in DOMAIN s /\ Append(s, e)[i] = s[i]
                                       \/ i \notin DOMAIN s /\ i = Len(s) + 1 /\ Append(s, e)[i] = e
    OBVIOUS
  <1>3. s = << >> => Append(s, e) = << e >>
    OBVIOUS
  <1> QED
    BY Zenon, <1>1, <1>2, <1>3

\* Connections that are freed or reset, together with what was on its way up.
LEMMA FreedCons ==
  ASSUME Types, NetInv, NEW C \in SUBSET Clients,
         con' = [c \in Clients |-> IF c \in C THEN NoCon ELSE con[c]],
         up' = [c \in Clients |-> IF c \in C THEN << >> ELSE up[c]],
         \A c \in C : srv'.con # c, \A c \in Clients \ C : srv'.con = c <=> srv.con = c,
         \A c \in Clients : con'[c].pc = "queued" => srv'.sock,
         UNCHANGED << cli, down, plan, disk, mnt, ctl, host, mode >>, srv' \in Servers
  PROVE  Types' /\ \A c \in Clients : ConOK(c)' /\ StreamOK(c)'
PROOF
  <1>1. NoCon \in Cons /\ NoCon.pc = "none" /\ NoCon.held = {} /\ NoCon.listed = FALSE
    BY Zenon DEF NoCon, Cons, ConPCs, Ops
  <1>2. con' \in [Clients -> Cons] /\ up' \in [Clients -> Seq([op : Ops, n : {0, 1}])]
    <2>1. << >> \in Seq([op : Ops, n : {0, 1}])
      OBVIOUS
    <2>2. up \in [Clients -> Seq([op : Ops, n : {0, 1}])] /\ con \in [Clients -> Cons]
      BY Zenon DEF Types
    <2>3. con' \in [Clients -> Cons]
      BY Zenon, <1>1, <2>2
    <2> QED
      BY Zenon, <2>1, <2>2, <2>3
  <1>3. Types'
    BY Zenon, <1>2 DEF Types
  <1>4. ASSUME NEW c \in C PROVE ConOK(c)' /\ StreamOK(c)'
    <2>1. con'[c] = NoCon /\ up'[c] = << >> /\ srv'.con # c /\ StreamOK(c) /\ DOMAIN up'[c] = {}
      BY <1>4 DEF NetInv
    <2>2. ConOK(c)'
      BY Zenon, <1>1, <2>1 DEF ConOK, FreePCs, HeldPCs
    <2>3. StreamOK(c)'
      BY Zenon, <1>1, <2>1 DEF StreamOK, BusyPCs, HeldPCs
    <2> QED
      BY Zenon, <2>2, <2>3
  <1>5. ASSUME NEW c \in Clients \ C PROVE ConOK(c)' /\ StreamOK(c)'
    <2>1. con'[c] = con[c] /\ up'[c] = up[c] /\ ConOK(c) /\ StreamOK(c)
      BY Zenon, <1>5 DEF NetInv
    <2>2. ConOK(c)'
      BY Zenon, <2>1 DEF ConOK
    <2>3. StreamOK(c)'
      BY Zenon, <2>1 DEF StreamOK
    <2> QED
      BY Zenon, <2>2, <2>3
  <1> QED
    BY Zenon, <1>3, <1>4, <1>5

\* The thread of a connection: what it does that cannot do harm, and what may.
LEMMA ThreadNet ==
  \A c \in Clients : Types /\ NetInv =>
    /\ Run(c) \/ ConHead(c) \/ Leave(c) \/ Recv(c) \/ Pages(c) \/ Reply(c) \/ ConUnlink(c) \/ ConClose(c) =>
         Types' /\ NetInv' /\ SameHeld
    /\ ~Oops /\ (Serve(c) \/ Tree(c) \/ Read(c) \/ Use(c)) =>
         Types' /\ NetInv' /\ SameHeld /\ UNCHANGED << mnt, ctl, srv, mode >>

  \* The thread of a connection goes from one place to another.
<1>MoveFields.
    ASSUME Types, NEW c \in Clients, NEW l \in ConPCs, Move(c, l)
    PROVE  /\ con' \in [Clients -> Cons]
           /\ con'[c].pc = l /\ con'[c].listed = con[c].listed /\ con'[c].op = con[c].op
           /\ con'[c].n = con[c].n /\ con'[c].held = con[c].held
           /\ \A d \in Clients \ {c} : con'[d] = con[d]
    <2> USE <1>MoveFields
    <2>1. con \in [Clients -> Cons] /\ con' = [con EXCEPT ![c].pc = l]
      BY Zenon DEF Types, Move
    <2> QED
      BY Zenon, <2>1 DEF Cons

  \* The end of a request.
<1>DoneFields.
    ASSUME Types, NEW c \in Clients, Done(c) \/ Fail(c)
    PROVE  /\ con' \in [Clients -> Cons]
           /\ con'[c].pc = "head" /\ con'[c].listed = con[c].listed
           /\ con'[c].held = con[c].held
           /\ \A d \in Clients \ {c} : con'[d] = con[d]
    <2> USE <1>DoneFields
    <2>1. con \in [Clients -> Cons] /\ con[c] \in Cons
      BY Zenon DEF Types
    <2>2. PICK e \in BOOLEAN : con' = [con EXCEPT ![c] =
                 [con[c] EXCEPT !.pc = "head", !.op = "none", !.n = 0, !.err = e]]
      <3>1. con[c].err \in BOOLEAN
        BY Zenon, <2>1 DEF Cons
      <3>2. CASE Done(c)
        <4>1. con' = [con EXCEPT ![c] = [con[c] EXCEPT !.pc = "head", !.op = "none", !.n = 0,
                                           !.err = con[c].err]]
          BY Zenon, <2>1, <3>2 DEF Done, Cons
        <4> QED
          BY Zenon, <3>1, <4>1
      <3>3. CASE Fail(c)
        BY Zenon, <2>1, <3>3 DEF Fail, Cons
      <3> QED
        BY Zenon, <3>2, <3>3
    <2> DEFINE new == [con[c] EXCEPT !.pc = "head", !.op = "none", !.n = 0, !.err = e]
    <2>3. /\ new \in Cons /\ new.pc = "head" /\ new.listed = con[c].listed
          /\ new.held = con[c].held
      BY Zenon, <2>1, <2>2 DEF Cons, ConPCs, Ops
    <2>4. con' = [con EXCEPT ![c] = new]
      BY Zenon, <2>2
    <2> HIDE DEF new
    <2> QED
      BY Zenon, <2>1, <2>3, <2>4

  \* What is behind the head of a sequence, and what an Append makes of one.
<1>TailFacts.
    ASSUME NEW S, NEW s \in Seq(S), s # << >>
    PROVE  /\ Tail(s) \in Seq(S) /\ 1 \in DOMAIN s /\ Head(s) = s[1] /\ s[1] \in S
           /\ \A i \in DOMAIN Tail(s) : i \in Nat /\ i + 1 \in DOMAIN s /\ Tail(s)[i] = s[i + 1] /\ i + 1 # 1
    BY <1>TailFacts

  \* What a thread does on its own, as nkfs_con_thread_routine goes on.
<1>MovesOn.
    ASSUME Types, NetInv, NEW c \in Clients, NEW l \in ConPCs \ FreePCs, Move(c, l), ConOnly,
           con[c].pc \notin FreePCs, l \notin HeldPCs => con[c].pc \notin HeldPCs,
           l \in BusyPCs => con[c].pc \in BusyPCs
    PROVE  Types' /\ NetInv' /\ \A d \in Clients : con'[d].held = con[d].held
    <2> USE <1>MovesOn
    <2>1. /\ con' \in [Clients -> Cons]
          /\ con'[c].pc = l /\ con'[c].listed = con[c].listed /\ con'[c].op = con[c].op
          /\ con'[c].n = con[c].n /\ con'[c].held = con[c].held
          /\ \A d \in Clients \ {c} : con'[d] = con[d]
      BY Zenon, <1>MoveFields
    <2>2. Types'
      BY Zenon, <2>1 DEF Types, ConOnly, world
    <2>3. OnlyAt(c) /\ SrvSame
      BY Zenon, <2>1 DEF OnlyAt, SrvSame, ConOnly
    <2>4. UNCHANGED << cli, up, down >>
      BY Zenon DEF ConOnly
    <2>5. StreamOK(c)'
      BY Zenon, <2>1, <2>4, Quiet
    <2>6. con'[c].pc \notin HeldPCs => con'[c].held = {}
      BY Zenon, <2>1 DEF NetInv, ConOK
    <2>7. NetInv'
      BY Zenon, <2>1, <2>3, <2>5, <2>6, RunsOn
    <2> QED
      BY Zenon, <2>1, <2>2, <2>7
<1>Steps1.
    ASSUME Types, NetInv, NEW c \in Clients, Run(c) \/ ConHead(c) \/ Leave(c)
    PROVE  Types' /\ NetInv' /\ \A d \in Clients : con'[d].held = con[d].held
    <2> USE <1>Steps1
    <2>1. CASE Run(c)
      BY Zenon, <2>1, <1>MovesOn DEF Run, In, ConPCs, FreePCs, HeldPCs, BusyPCs
    <2>2. CASE ConHead(c)
      BY Zenon, <2>2, <1>MovesOn DEF ConHead, In, ConPCs, FreePCs, HeldPCs, BusyPCs
    <2>3. CASE Leave(c)
      BY Zenon, <2>3, <1>MovesOn DEF Leave, In, ConPCs, FreePCs, HeldPCs, BusyPCs
    <2> QED
      BY Zenon, <2>1, <2>2, <2>3

  \* The superblock of a request is looked at and used.
<1>Steps2.
    ASSUME Types, NetInv, NEW c \in Clients, Tree(c) \/ Read(c) \/ Use(c), ~Oops
    PROVE  Types' /\ NetInv' /\ UNCHANGED << mnt, ctl, srv, mode >>
           /\ \A d \in Clients : con'[d].held = con[d].held
    <2> USE <1>Steps2
    <2>1. PICK l \in {"read", "use", "release"} : Move(c, l) /\ ConOnly
      BY Zenon DEF Tree, Read, Use
    <2>2. con[c].pc \in {"tree", "read", "use"}
      BY Zenon DEF Tree, Read, Use, In
    <2> QED
      BY Zenon, <2>1, <2>2, <1>MovesOn DEF ConOnly, world, ConPCs, FreePCs, HeldPCs, BusyPCs

  \* A request ends, and its answer or nothing goes down.
<1>EndsOn.
    ASSUME Types, NetInv, NEW c \in Clients, Done(c) \/ Fail(c),
           con[c].pc \notin FreePCs, con[c].pc \notin HeldPCs,
           UNCHANGED << cli, srv, plan, disk, mnt, ctl, host, mode >>,
           up' \in [Clients -> Seq([op : Ops, n : {0, 1}])], down' \in [Clients -> Seq({0, 1})],
           \A d \in Clients \ {c} : up'[d] = up[d] /\ down'[d] = down[d],
           con'[c].pc = "head" => StreamOK(c)'
    PROVE  Types' /\ NetInv' /\ \A d \in Clients : con'[d].held = con[d].held
    <2> USE <1>EndsOn
    <2>1. /\ con' \in [Clients -> Cons]
          /\ con'[c].pc = "head" /\ con'[c].listed = con[c].listed
          /\ con'[c].held = con[c].held
          /\ \A d \in Clients \ {c} : con'[d] = con[d]
      BY Zenon, <1>DoneFields
    <2>2. Types'
      BY Zenon, <2>1 DEF Types
    <2>3. OnlyAt(c) /\ SrvSame
      BY Zenon, <2>1 DEF OnlyAt, SrvSame
    <2>4. con'[c].held = {}
      BY Zenon, <2>1 DEF NetInv, ConOK
    <2>5. con'[c].pc \notin FreePCs
      BY Zenon, <2>1 DEF FreePCs
    <2>6. NetInv'
      BY Zenon, <2>1, <2>3, <2>4, <2>5, RunsOn
    <2> QED
      BY Zenon, <2>1, <2>2, <2>6

  \* A packet that is none ends the connection (net_pkt_check); one that is
  \* is the only one in the stream.
<1>RecvStep.
    ASSUME Types, NetInv, NEW c \in Clients, Recv(c)
    PROVE  Types' /\ NetInv' /\ \A d \in Clients : con'[d].held = con[d].held
    <2> USE <1>RecvStep
    <2>0. /\ con[c].pc = "recv" /\ UNCHANGED << cli, srv, plan, disk, mnt, ctl, host, mode, down >>
          /\ con[c].pc \notin FreePCs /\ con[c].pc \notin HeldPCs /\ con[c].pc \notin BusyPCs
      BY Zenon DEF Recv, In, world, FreePCs, HeldPCs, BusyPCs
    <2>1. /\ up \in [Clients -> Seq([op : Ops, n : {0, 1}])] /\ down \in [Clients -> Seq({0, 1})]
          /\ up[c] \in Seq([op : Ops, n : {0, 1}])
      BY Zenon DEF Types
    <2>2. StreamOK(c)
      BY Zenon DEF NetInv
    <2>3. CASE up[c] # << >> /\ up' = [up EXCEPT ![c] = Tail(@)]
      <3>1. /\ Tail(up[c]) \in Seq([op : Ops, n : {0, 1}]) /\ 1 \in DOMAIN up[c]
            /\ Head(up[c]) = up[c][1] /\ up[c][1] \in [op : Ops, n : {0, 1}]
            /\ \A i \in DOMAIN Tail(up[c]) :
                 i \in Nat /\ i + 1 \in DOMAIN up[c] /\ Tail(up[c])[i] = up[c][i + 1] /\ i + 1 # 1
        BY Zenon, <2>1, <2>3, <1>TailFacts
      <3>2. up'[c] = Tail(up[c]) /\ \A d \in Clients \ {c} : up'[d] = up[d]
        BY Zenon, <2>1, <2>3
      <3>3. up' \in [Clients -> Seq([op : Ops, n : {0, 1}])]
        BY Zenon, <2>1, <2>3, <3>1
      <3>4. \A i, j \in DOMAIN up'[c] : up'[c][i].op # "data" /\ up'[c][j].op # "data" => i = j
        BY <2>2, <3>1, <3>2 DEF StreamOK
      <3>5. CASE up[c][1].op = "data"
        <4>1. Fail(c)
          BY Zenon, <2>3, <3>1, <3>5 DEF Recv, PktSound
        <4>2. con'[c].pc = "head" => StreamOK(c)'
          <5>1. "head" \notin BusyPCs
            BY Zenon DEF BusyPCs, HeldPCs
          <5>2. (\A i \in DOMAIN up[c] : up[c][i].op = "data") => \A i \in DOMAIN up'[c] : up'[c][i].op = "data"
            BY <3>1, <3>2
          <5>3. cli[c].pc # "out" => \A i \in DOMAIN up'[c] : up'[c][i].op # "data" =>
                  cli[c].pc \in {"data", "wait"} /\ up'[c][i].n = cli[c].n
            BY <2>2, <3>1, <3>2 DEF StreamOK
          <5> QED
            BY Zenon, <2>0, <2>2, <3>4, <5>1, <5>2, <5>3 DEF StreamOK
        <4> QED
          BY Zenon, <2>0, <2>1, <3>2, <3>3, <4>1, <4>2, <1>EndsOn
      <3>6. CASE up[c][1].op # "data"
        <4>1. con' = [con EXCEPT ![c].pc = "serve", ![c].op = up[c][1].op, ![c].n = up[c][1].n]
          BY Zenon, <2>3, <3>1, <3>6 DEF Recv, PktSound
        <4> DEFINE new == [con[c] EXCEPT !.pc = "serve", !.op = up[c][1].op, !.n = up[c][1].n]
        <4>2. con \in [Clients -> Cons] /\ con[c] \in Cons
          BY Zenon DEF Types
        <4>3. /\ new \in Cons /\ new.pc = "serve" /\ new.listed = con[c].listed
              /\ new.held = con[c].held /\ new.n = up[c][1].n
          BY Zenon, <3>1, <4>2 DEF Cons, ConPCs
        <4>4. con' = [con EXCEPT ![c] = new]
          BY Zenon, <4>1, <4>2 DEF Cons
        <4> HIDE DEF new
        <4>5. /\ con' \in [Clients -> Cons] /\ con'[c].pc = "serve" /\ con'[c].listed = con[c].listed
              /\ con'[c].held = con[c].held /\ con'[c].n = up[c][1].n
              /\ \A d \in Clients \ {c} : con'[d] = con[d]
          BY Zenon, <4>2, <4>3, <4>4
        <4>6. Types'
          BY Zenon, <2>0, <3>3, <4>5 DEF Types
        <4>7. OnlyAt(c) /\ SrvSame
          BY Zenon, <2>0, <3>2, <4>5 DEF OnlyAt, SrvSame
        <4>8. \A i \in DOMAIN up'[c] : up'[c][i].op = "data"
          BY <2>2, <3>1, <3>2, <3>6 DEF StreamOK
        <4>9. down[c] = << >>
          BY Zenon, <2>2, <3>1, <3>6 DEF StreamOK
        <4>10. cli[c].pc # "out" => cli[c].pc \in {"data", "wait"} /\ con'[c].n = cli[c].n
          BY Zenon, <2>2, <3>1, <3>6, <4>5 DEF StreamOK
        <4>11. StreamOK(c)'
          BY Zenon, <2>0, <3>4, <4>8, <4>9, <4>10 DEF StreamOK
        <4>12. con'[c].held = {} /\ con'[c].pc \notin FreePCs
          BY Zenon, <2>0, <4>5 DEF NetInv, ConOK, FreePCs
        <4>13. NetInv'
          BY Zenon, <2>0, <4>5, <4>7, <4>11, <4>12, RunsOn
        <4> QED
          BY Zenon, <4>5, <4>6, <4>13
      <3> QED
        BY Zenon, <3>5, <3>6
    <2>4. CASE Fail(c) /\ UNCHANGED up
      <3>1. con'[c].pc = "head" => StreamOK(c)'
        <4>1. "head" \notin BusyPCs
          BY Zenon DEF BusyPCs, HeldPCs
        <4> QED
          BY Zenon, <2>0, <2>4, <4>1, Quiet
      <3> QED
        BY Zenon, <2>0, <2>1, <2>4, <3>1, <1>EndsOn
    <2> QED
      BY Zenon, <2>3, <2>4 DEF Recv

  \* Where a request goes (nkfs_con_process_pkt).
<1>ServeStep.
    ASSUME Types, NetInv, NEW c \in Clients, Serve(c), ~Oops
    PROVE  Types' /\ NetInv' /\ UNCHANGED << mnt, ctl, srv, mode >>
           /\ \A d \in Clients : con'[d].held = con[d].held
    <2> USE <1>ServeStep
    <2>0. /\ con[c].pc = "serve" /\ ConOnly
          /\ con[c].pc \notin FreePCs /\ con[c].pc \notin HeldPCs /\ con[c].pc \in BusyPCs
      BY Zenon DEF Serve, In, FreePCs, HeldPCs, BusyPCs
    <2>1. UNCHANGED << cli, up, down, srv, plan, disk, mnt, ctl, host, mode >>
      BY Zenon, <2>0 DEF ConOnly, world
    <2>2. CASE Fail(c)
      <3>1. con'[c].pc = "head" => StreamOK(c)'
        <4>1. "head" \notin BusyPCs
          BY Zenon DEF BusyPCs, HeldPCs
        <4> QED
          BY Zenon, <2>1, <4>1, Quiet
      <3>2. up' \in [Clients -> Seq([op : Ops, n : {0, 1}])] /\ down' \in [Clients -> Seq({0, 1})]
        BY Zenon, <2>1 DEF Types
      <3> QED
        BY Zenon, <2>0, <2>1, <2>2, <3>1, <3>2, <1>EndsOn
    <2>3. CASE ~Fail(c)
      <3>1. PICK l \in {"pages", "head", "reply", "find"} : Move(c, l)
        BY Zenon, <2>3 DEF Serve
      <3> QED
        BY Zenon, <2>0, <2>1, <3>1, <1>MovesOn DEF ConPCs, FreePCs, HeldPCs, BusyPCs
    <2> QED
      BY Zenon, <2>2, <2>3

  \* The data behind a put (nkfs_con_recv_pages).
<1>PagesStep.
    ASSUME Types, NetInv, NEW c \in Clients, Pages(c)
    PROVE  Types' /\ NetInv' /\ \A d \in Clients : con'[d].held = con[d].held
    <2> USE <1>PagesStep
    <2>0. /\ con[c].pc = "pages" /\ UNCHANGED << cli, srv, plan, disk, mnt, ctl, host, mode, down >>
          /\ con[c].pc \notin FreePCs /\ con[c].pc \notin HeldPCs /\ con[c].pc \in BusyPCs
      BY Zenon DEF Pages, In, world, FreePCs, HeldPCs, BusyPCs
    <2>1. /\ up \in [Clients -> Seq([op : Ops, n : {0, 1}])] /\ down \in [Clients -> Seq({0, 1})]
          /\ up[c] \in Seq([op : Ops, n : {0, 1}])
      BY Zenon DEF Types
    <2>2. StreamOK(c)
      BY Zenon DEF NetInv
    <2>3. CASE Fail(c) /\ UNCHANGED up
      <3>1. con'[c].pc = "head" => StreamOK(c)'
        <4>1. "head" \notin BusyPCs
          BY Zenon DEF BusyPCs, HeldPCs
        <4> QED
          BY Zenon, <2>0, <2>3, <4>1, Quiet
      <3> QED
        BY Zenon, <2>0, <2>1, <2>3, <3>1, <1>EndsOn
    <2>4. CASE Move(c, "reply") /\ UNCHANGED up
      <3>1. ConOnly
        BY Zenon, <2>0, <2>4 DEF ConOnly, world
      <3> QED
        BY Zenon, <2>0, <2>4, <3>1, <1>MovesOn DEF ConPCs, FreePCs, HeldPCs, BusyPCs
    <2>5. CASE up[c] # << >> /\ Move(c, "find") /\ up' = [up EXCEPT ![c] = Tail(@)]
      <3>1. /\ Tail(up[c]) \in Seq([op : Ops, n : {0, 1}])
            /\ \A i \in DOMAIN Tail(up[c]) : i + 1 \in DOMAIN up[c] /\ Tail(up[c])[i] = up[c][i + 1]
        BY Zenon, <2>1, <2>5, <1>TailFacts
      <3>2. up'[c] = Tail(up[c]) /\ \A d \in Clients \ {c} : up'[d] = up[d]
        BY Zenon, <2>1, <2>5
      <3>3. up' \in [Clients -> Seq([op : Ops, n : {0, 1}])]
        BY Zenon, <2>1, <2>5, <3>1
      <3>4. \A i \in DOMAIN up'[c] : up'[c][i].op = "data"
        BY <2>0, <2>2, <3>1, <3>2 DEF StreamOK
      <3>5. /\ con' \in [Clients -> Cons]
            /\ con'[c].pc = "find" /\ con'[c].listed = con[c].listed /\ con'[c].n = con[c].n
            /\ con'[c].held = con[c].held /\ \A d \in Clients \ {c} : con'[d] = con[d]
        BY Zenon, <2>5, <1>MoveFields DEF ConPCs
      <3>6. Types'
        BY Zenon, <2>0, <3>3, <3>5 DEF Types
      <3>7. OnlyAt(c) /\ SrvSame
        BY Zenon, <2>0, <3>2, <3>5 DEF OnlyAt, SrvSame
      <3>8. down[c] = << >> /\ (cli[c].pc # "out" => cli[c].pc \in {"data", "wait"} /\ con'[c].n = cli[c].n)
        BY Zenon, <2>0, <2>2, <3>5 DEF StreamOK
      <3>9. StreamOK(c)'
        BY Zenon, <2>0, <3>4, <3>8 DEF StreamOK
      <3>10. con'[c].held = {} /\ con'[c].pc \notin FreePCs
        BY Zenon, <2>0, <3>5 DEF NetInv, ConOK, FreePCs
      <3>11. NetInv'
        BY Zenon, <2>0, <3>5, <3>7, <3>9, <3>10, RunsOn
      <3> QED
        BY Zenon, <3>5, <3>6, <3>11
    <2> QED
      BY Zenon, <2>3, <2>4, <2>5 DEF Pages

  \* The answer (nkfs_con_send_reply).
<1>ReplyStep.
    ASSUME Types, NetInv, NEW c \in Clients, Reply(c)
    PROVE  Types' /\ NetInv' /\ \A d \in Clients : con'[d].held = con[d].held
    <2> USE <1>ReplyStep
    <2>0. /\ con[c].pc = "reply" /\ UNCHANGED << cli, srv, plan, disk, mnt, ctl, host, mode, up >>
          /\ con[c].pc \notin FreePCs /\ con[c].pc \notin HeldPCs /\ con[c].pc \in BusyPCs
      BY Zenon DEF Reply, In, world, FreePCs, HeldPCs, BusyPCs
    <2>1. /\ up \in [Clients -> Seq([op : Ops, n : {0, 1}])] /\ down \in [Clients -> Seq({0, 1})]
          /\ down[c] \in Seq({0, 1}) /\ con[c].n \in {0, 1}
      BY Zenon DEF Types, Cons
    <2>2. StreamOK(c)
      BY Zenon DEF NetInv
    <2>3. "head" \notin BusyPCs
      BY Zenon DEF BusyPCs, HeldPCs
    <2>4. CASE UNCHANGED down /\ (Done(c) \/ Fail(c))
      <3>1. con'[c].pc = "head" => StreamOK(c)'
        BY Zenon, <2>0, <2>3, <2>4, Quiet
      <3> QED
        BY Zenon, <2>0, <2>1, <2>4, <3>1, <1>EndsOn
    <2>5. CASE cli[c].pc # "out" /\ down' = [down EXCEPT ![c] = Append(@, con[c].n)] /\ Done(c)
      <3>1. down[c] = << >>
        BY Zenon, <2>0, <2>2 DEF StreamOK
      <3>2. Append(down[c], con[c].n) \in Seq({0, 1}) /\ Append(down[c], con[c].n) = << con[c].n >>
        BY <2>1, <3>1, AppendFacts
      <3>3. /\ down' \in [Clients -> Seq({0, 1})] /\ down'[c] = << con[c].n >>
            /\ \A d \in Clients \ {c} : down'[d] = down[d]
        BY Zenon, <2>1, <2>5, <3>2
      <3>4. con'[c].pc = "head" => StreamOK(c)'
        BY Zenon, <2>0, <2>2, <2>3, <2>5, <3>3 DEF StreamOK
      <3> QED
        BY Zenon, <2>0, <2>1, <2>5, <3>3, <3>4, <1>EndsOn
    <2> QED
      BY Zenon, <2>4, <2>5 DEF Reply

  \* The thread of a connection takes it off the list, if it is still there.
<1>ConUnlinkStep.
    ASSUME Types, NetInv, NEW c \in Clients, ConUnlink(c)
    PROVE  Types' /\ NetInv' /\ \A d \in Clients : con'[d].held = con[d].held
    <2> USE <1>ConUnlinkStep
    <2>0. /\ con[c].pc = "unlink" /\ ConOnly /\ con[c] \in Cons /\ con \in [Clients -> Cons]
          /\ con[c].listed \in BOOLEAN
      BY Zenon DEF ConUnlink, In, Types, Cons
    <2>1. UNCHANGED << cli, up, down, srv, plan, disk, mnt, ctl, host, mode >>
      BY Zenon, <2>0 DEF ConOnly, world
    <2> DEFINE l == IF con[c].listed THEN "closing" ELSE "exit"
               new == [con[c] EXCEPT !.listed = FALSE, !.pc = l]
    <2>2. /\ new \in Cons /\ new.listed = FALSE /\ new.pc = l /\ new.held = con[c].held
      BY Zenon, <2>0 DEF Cons, ConPCs
    <2>3. con' = [con EXCEPT ![c] = new]
      BY Zenon, <2>0 DEF ConUnlink, Cons
    <2> HIDE DEF new
    <2>4. /\ con' \in [Clients -> Cons] /\ con'[c].pc = l /\ con'[c].listed = FALSE
          /\ con'[c].held = con[c].held /\ \A d \in Clients \ {c} : con'[d] = con[d]
      BY Zenon, <2>0, <2>2, <2>3
    <2>5. Types'
      BY Zenon, <2>1, <2>4 DEF Types
    <2>6. StreamOK(c)'
      BY Zenon, <2>1, <2>4, Quiet DEF BusyPCs, HeldPCs
    <2>7. ConOK(c)'
      BY Zenon, <2>0, <2>1, <2>4 DEF NetInv, ConOK, FreePCs, HeldPCs
    <2>8. OnlyAt(c) /\ SrvSame
      BY Zenon, <2>1, <2>4 DEF OnlyAt, SrvSame
    <2>9. NetInv'
      BY Zenon, <2>4, <2>6, <2>7, <2>8, OneCon
    <2> QED
      BY Zenon, <2>4, <2>5, <2>9

  \* The thread frees its connection (nkfs_con_close).
<1>ConCloseStep.
    ASSUME Types, NetInv, NEW c \in Clients, ConClose(c)
    PROVE  Types' /\ NetInv' /\ \A d \in Clients : con'[d].held = con[d].held
    <2> USE <1>ConCloseStep
    <2>0. /\ con[c].pc = "closing" /\ con \in [Clients -> Cons] /\ srv \in Servers
          /\ UNCHANGED << cli, down, srv, plan, disk, mnt, ctl, host, mode >>
      BY Zenon DEF ConClose, In, Types, world
    <2>1. ServerOK /\ ConOK(c) /\ (\A d \in Clients : ConOK(d))
      BY Zenon DEF NetInv
    <2>2. srv.con # c /\ con[c].held = {} /\ ~con[c].listed
      BY Zenon, <2>0, <2>1 DEF ConOK, FreePCs, HeldPCs
    <2>3. /\ con' = [d \in Clients |-> IF d \in {c} THEN NoCon ELSE con[d]]
          /\ up' = [d \in Clients |-> IF d \in {c} THEN << >> ELSE up[d]]
      BY Zenon DEF ConClose, Types
    <2>4. NoCon.pc = "none" /\ NoCon.held = {} /\ NoCon.listed = FALSE
      BY Zenon DEF NoCon
    <2>5. \A d \in Clients : con'[d].held = con[d].held /\ (con'[d].listed => con[d].listed)
                             /\ (con'[d].pc = "queued" => srv'.sock)
      BY Zenon, <2>0, <2>1, <2>2, <2>3, <2>4 DEF ConOK
    <2>6. Types' /\ \A d \in Clients : ConOK(d)' /\ StreamOK(d)'
      <3>1. /\ {c} \in SUBSET Clients /\ srv' \in Servers /\ (\A d \in {c} : srv'.con # d)
            /\ \A d \in Clients \ {c} : srv'.con = d <=> srv.con = d
        BY Zenon, <2>0, <2>2
      <3> QED
        BY Zenon, <2>0, <2>3, <2>5, <3>1, FreedCons
    <2>7. ServerOK'
      BY Zenon, <2>0, <2>1, <2>5 DEF ServerOK
    <2> QED
      BY Zenon, <2>5, <2>6, <2>7 DEF NetInv

<1> QED
  <2>1. \A c \in Clients : Types /\ NetInv /\ (Run(c) \/ ConHead(c) \/ Leave(c)) => Types' /\ NetInv' /\ SameHeld
    BY <1>Steps1, Zenon DEF SameHeld
  <2>2. \A c \in Clients : Types /\ NetInv /\ Recv(c) => Types' /\ NetInv' /\ SameHeld
    BY <1>RecvStep, Zenon DEF SameHeld
  <2>3. \A c \in Clients : Types /\ NetInv /\ Pages(c) => Types' /\ NetInv' /\ SameHeld
    BY <1>PagesStep, Zenon DEF SameHeld
  <2>4. \A c \in Clients : Types /\ NetInv /\ (Reply(c) \/ ConUnlink(c) \/ ConClose(c)) => Types' /\ NetInv' /\ SameHeld
    BY <1>ReplyStep, <1>ConUnlinkStep, <1>ConCloseStep, Zenon DEF SameHeld
  <2>5. \A c \in Clients : Types /\ NetInv /\ ~Oops /\ (Tree(c) \/ Read(c) \/ Use(c)) =>
          Types' /\ NetInv' /\ SameHeld /\ UNCHANGED << mnt, ctl, srv, mode >>
    BY <1>Steps2, Zenon DEF SameHeld
  <2>6. \A c \in Clients : Types /\ NetInv /\ ~Oops /\ Serve(c) =>
          Types' /\ NetInv' /\ SameHeld /\ UNCHANGED << mnt, ctl, srv, mode >>
    BY <1>ServeStep, Zenon DEF SameHeld
  <2> QED
    BY <2>1, <2>2, <2>3, <2>4, <2>5, <2>6, Zenon

\* A step of the server's thread that touches no connection.
LEMMA SrvMoves ==
  ASSUME Types, NetInv, srv' \in Servers, UNCHANGED << con, cli, up, down, plan, disk, mnt, host >>,
         srv'.con = srv.con, srv'.con # None <=> srv'.pc = "wait",
         srv'.sock <=> srv'.pc \in {"head", "accept", "again", "asleep"},
         srv.sock => srv'.sock, ctl' \in [Ctls -> Calls], mode' \in {"up", "gone", "oops"},
         srv'.pc \in {"none", "listen", "exit"} =>
           srv.pc \in {"none", "listen", "exit"} \/ \A c \in Clients : ~con[c].listed
  PROVE  Types' /\ NetInv' /\ \A d \in Clients : con'[d].held = con[d].held
PROOF
  <1>1. Types'
    BY Zenon DEF Types
  <1>2. ServerOK'
    BY Zenon DEF NetInv, ServerOK
  <1>3. ASSUME NEW c \in Clients PROVE ConOK(c)' /\ StreamOK(c)'
    <2>1. ConOK(c) /\ StreamOK(c)
      BY Zenon DEF NetInv
    <2>2. ConOK(c)'
      BY Zenon, <2>1 DEF ConOK
    <2>3. StreamOK(c)'
      BY Zenon, <2>1 DEF StreamOK
    <2> QED
      BY Zenon, <2>2, <2>3
  <1> QED
    BY Zenon, <1>1, <1>2, <1>3 DEF NetInv

\* The server's thread (nkfs_server_thread_routine).
LEMMA ServerNet ==
  Types /\ NetInv /\ (Listen \/ SrvHead \/ Accept \/ Drain \/ ConWait) =>
    Types' /\ NetInv' /\ SameHeld
<1>ListenStep.
    ASSUME Types, NetInv, Listen
    PROVE  Types' /\ NetInv' /\ \A d \in Clients : con'[d].held = con[d].held
    <2> USE <1>ListenStep
    <2>0. /\ srv.pc = "listen" /\ srv \in Servers /\ ServerOK
          /\ UNCHANGED << con, cli, up, down, plan, disk, mnt, ctl, host, mode >>
      BY Zenon DEF Listen, Types, world, NetInv
    <2>1. PICK ok \in BOOLEAN : srv' = [srv EXCEPT !.sock = ok, !.pc = IF ok THEN "head" ELSE "drain"]
      BY Zenon DEF Listen
    <2>2. /\ srv' \in Servers /\ srv'.con = srv.con /\ srv'.sock = ok
          /\ srv'.pc = (IF ok THEN "head" ELSE "drain")
      BY Zenon, <2>0, <2>1 DEF Servers
    <2>3. srv.con = None /\ ~srv.sock
      BY Zenon, <2>0 DEF ServerOK, Servers
    <2>4. ctl' \in [Ctls -> Calls] /\ mode' \in {"up", "gone", "oops"}
      BY Zenon, <2>0 DEF Types
    <2> QED
      BY Zenon, <2>0, <2>2, <2>3, <2>4, SrvMoves
<1>SrvHeadStep.
    ASSUME Types, NetInv, SrvHead
    PROVE  Types' /\ NetInv' /\ \A d \in Clients : con'[d].held = con[d].held
    <2> USE <1>SrvHeadStep
    <2>0. /\ srv.pc = "head" /\ srv \in Servers /\ ServerOK /\ con \in [Clients -> Cons]
          /\ UNCHANGED << cli, down, plan, disk, mnt, ctl, host, mode >>
      BY Zenon DEF SrvHead, Types, world, NetInv
    <2>1. srv.con = None /\ srv.sock
      BY Zenon, <2>0 DEF ServerOK, Servers
    <2>2. CASE srv' = [srv EXCEPT !.pc = "accept"] /\ UNCHANGED << con, up >>
      <3>1. srv' \in Servers /\ srv'.con = srv.con /\ srv'.sock = srv.sock /\ srv'.pc = "accept"
        BY Zenon, <2>0, <2>2 DEF Servers
      <3>2. ctl' \in [Ctls -> Calls] /\ mode' \in {"up", "gone", "oops"}
        BY Zenon, <2>0 DEF Types
      <3> QED
        BY Zenon, <2>0, <2>1, <2>2, <3>1, <3>2, SrvMoves
    <2>3. CASE /\ srv' = [srv EXCEPT !.sock = FALSE, !.pc = "drain"]
               /\ con' = [c \in Clients |-> IF con[c].pc = "queued" THEN NoCon ELSE con[c]]
               /\ up' = [c \in Clients |-> IF con[c].pc = "queued" THEN << >> ELSE up[c]]
      <3> DEFINE C == { c \in Clients : con[c].pc = "queued" }
      <3>1. srv' \in Servers /\ srv'.con = None /\ srv'.sock = FALSE /\ srv'.pc = "drain"
        BY Zenon, <2>0, <2>1, <2>3 DEF Servers
      <3>2. NoCon.pc = "none" /\ NoCon.held = {} /\ NoCon.listed = FALSE
        BY Zenon DEF NoCon
      <3>3. /\ con' = [c \in Clients |-> IF c \in C THEN NoCon ELSE con[c]]
            /\ up' = [c \in Clients |-> IF c \in C THEN << >> ELSE up[c]]
        BY Zenon, <2>3
      <3>4. \A c \in Clients : con'[c].pc # "queued"
        BY Zenon, <3>2, <3>3
      <3>5. \A c \in Clients : con'[c].held = con[c].held
        BY Zenon, <3>2, <3>3 DEF NetInv, ConOK, HeldPCs
      <3>6. \A c \in Clients : c # None
        BY Zenon, PlanAssumption
      <3>7. C \in SUBSET Clients
        BY Zenon
      <3> HIDE DEF C
      <3>8. Types' /\ \A d \in Clients : ConOK(d)' /\ StreamOK(d)'
        BY Zenon, <2>0, <2>1, <3>1, <3>3, <3>4, <3>6, <3>7, FreedCons
      <3>9. ServerOK'
        BY Zenon, <3>1 DEF ServerOK
      <3> QED
        BY Zenon, <3>5, <3>8, <3>9 DEF NetInv
    <2> QED
      BY Zenon, <2>2, <2>3 DEF SrvHead
<1>AcceptStep.
    ASSUME Types, NetInv, Accept
    PROVE  Types' /\ NetInv' /\ \A d \in Clients : con'[d].held = con[d].held
    <2> USE <1>AcceptStep
    <2>0. /\ srv.pc \in {"accept", "again"} /\ srv \in Servers /\ ServerOK /\ con \in [Clients -> Cons]
          /\ UNCHANGED << cli, down, plan, disk, mnt, ctl, host, mode >>
          /\ ctl' \in [Ctls -> Calls] /\ mode' \in {"up", "gone", "oops"}
      BY Zenon DEF Accept, Types, world, NetInv
    <2>1. srv.con = None /\ srv.sock
      BY Zenon, <2>0 DEF ServerOK, Servers
    <2>2. \A c \in Clients : c # None
      BY Zenon, PlanAssumption
    <2>3. CASE UNCHANGED << con, up >>
               /\ \E l \in {"asleep", "head"} : srv' = [srv EXCEPT !.pc = l]
      <3>1. srv' \in Servers /\ srv'.con = srv.con /\ srv'.sock = srv.sock /\ srv'.pc \in {"asleep", "head"}
        BY Zenon, <2>0, <2>3 DEF Servers
      <3> QED
        BY Zenon, <2>0, <2>1, <2>3, <3>1, SrvMoves
    <2>4. ASSUME NEW c \in Clients, con[c].pc = "queued", srv' = [srv EXCEPT !.pc = "head"],
                 con' = [con EXCEPT ![c].pc = "new", ![c].listed = TRUE], UNCHANGED up
          PROVE  Types' /\ NetInv' /\ \A d \in Clients : con'[d].held = con[d].held
      <3>1. srv' \in Servers /\ srv'.con = None /\ srv'.sock = srv.sock /\ srv'.pc = "head"
        BY Zenon, <2>0, <2>1, <2>4 DEF Servers
      <3> DEFINE new == [con[c] EXCEPT !.pc = "new", !.listed = TRUE]
      <3>2. con[c] \in Cons
        BY Zenon, <2>0
      <3>3. new \in Cons /\ new.pc = "new" /\ new.listed = TRUE /\ new.held = con[c].held
        BY Zenon, <3>2 DEF Cons, ConPCs
      <3>4. con' = [con EXCEPT ![c] = new]
        BY Zenon, <2>0, <2>4 DEF Cons
      <3> HIDE DEF new
      <3>5. /\ con' \in [Clients -> Cons] /\ con'[c].pc = "new" /\ con'[c].listed = TRUE
            /\ con'[c].held = con[c].held /\ \A d \in Clients \ {c} : con'[d] = con[d]
        BY Zenon, <2>0, <3>3, <3>4
      <3>6. Types'
        BY Zenon, <2>0, <2>4, <3>1, <3>5 DEF Types
      <3>7. ServerOK'
        BY Zenon, <2>1, <3>1 DEF ServerOK
      <3>8. ConOK(c)'
        BY Zenon, <2>2, <2>4, <3>1, <3>5 DEF NetInv, ConOK, FreePCs, HeldPCs
      <3>9. StreamOK(c)'
        BY Zenon, <2>0, <2>4, <3>5, Quiet DEF BusyPCs, HeldPCs
      <3>10. ASSUME NEW d \in Clients \ {c} PROVE ConOK(d)' /\ StreamOK(d)'
        <4>1. con'[d] = con[d] /\ ConOK(d) /\ StreamOK(d)
          BY Zenon, <3>5 DEF NetInv
        <4>2. ConOK(d)'
          BY Zenon, <2>1, <2>4, <3>1, <4>1 DEF ConOK
        <4>3. StreamOK(d)'
          BY Zenon, <2>0, <2>4, <4>1 DEF StreamOK
        <4> QED
          BY Zenon, <4>2, <4>3
      <3> QED
        BY Zenon, <3>5, <3>6, <3>7, <3>8, <3>9, <3>10 DEF NetInv
    <2>5. ASSUME NEW c \in Clients, con[c].pc = "queued", srv' = [srv EXCEPT !.pc = "head"],
                 con' = [con EXCEPT ![c] = NoCon], up' = [up EXCEPT ![c] = << >>]
          PROVE  Types' /\ NetInv' /\ \A d \in Clients : con'[d].held = con[d].held
      <3>1. srv' \in Servers /\ srv'.con = None /\ srv'.sock = srv.sock /\ srv'.pc = "head"
        BY Zenon, <2>0, <2>1, <2>5 DEF Servers
      <3>2. NoCon.held = {}
        BY Zenon DEF NoCon
      <3>3. /\ con' = [d \in Clients |-> IF d \in {c} THEN NoCon ELSE con[d]]
            /\ up' = [d \in Clients |-> IF d \in {c} THEN << >> ELSE up[d]]
        BY Zenon, <2>5 DEF Types
      <3>4. \A d \in Clients : con'[d].held = con[d].held
        <4>1. con[c].held = {}
          BY Zenon, <2>5 DEF NetInv, ConOK, HeldPCs
        <4> QED
          BY Zenon, <3>2, <3>3, <4>1
      <3>5. {c} \in SUBSET Clients
        BY Zenon
      <3>6. Types' /\ \A d \in Clients : ConOK(d)' /\ StreamOK(d)'
        BY Zenon, <2>0, <2>1, <2>2, <3>1, <3>3, <3>5, FreedCons
      <3>7. ServerOK'
        BY Zenon, <2>1, <3>1 DEF ServerOK
      <3> QED
        BY Zenon, <3>4, <3>6, <3>7 DEF NetInv
    <2> QED
      BY Zenon, <2>3, <2>4, <2>5 DEF Accept
<1>DrainStep.
    ASSUME Types, NetInv, Drain
    PROVE  Types' /\ NetInv' /\ \A d \in Clients : con'[d].held = con[d].held
    <2> USE <1>DrainStep
    <2>0. /\ srv.pc = "drain" /\ srv \in Servers /\ ServerOK /\ con \in [Clients -> Cons]
          /\ UNCHANGED << cli, up, down, plan, disk, mnt, ctl, host, mode >>
          /\ ctl' \in [Ctls -> Calls] /\ mode' \in {"up", "gone", "oops"}
      BY Zenon DEF Drain, Types, world, NetInv
    <2>1. srv.con = None /\ ~srv.sock
      BY Zenon, <2>0 DEF ServerOK, Servers
    <2>2. \A c \in Clients : c # None
      BY Zenon, PlanAssumption
    <2>3. CASE /\ \A c \in Clients : ~con[c].listed
               /\ srv' = [srv EXCEPT !.pc = "exit"] /\ UNCHANGED con
      <3>1. srv' \in Servers /\ srv'.con = srv.con /\ srv'.sock = srv.sock /\ srv'.pc = "exit"
        BY Zenon, <2>0, <2>3 DEF Servers
      <3> QED
        BY Zenon, <2>0, <2>1, <2>3, <3>1, SrvMoves
    <2>4. ASSUME NEW c \in Clients, con[c].listed, srv' = [srv EXCEPT !.pc = "wait", !.con = c],
                 con' = [con EXCEPT ![c].listed = FALSE, ![c].stop = TRUE]
          PROVE  Types' /\ NetInv' /\ \A d \in Clients : con'[d].held = con[d].held
      <3>1. srv' \in Servers /\ srv'.con = c /\ srv'.sock = srv.sock /\ srv'.pc = "wait"
        BY Zenon, <2>0, <2>1, <2>4 DEF Servers
      <3> DEFINE new == [con[c] EXCEPT !.listed = FALSE, !.stop = TRUE]
      <3>2. con[c] \in Cons
        BY Zenon, <2>0
      <3>3. /\ new \in Cons /\ new.pc = con[c].pc /\ new.listed = FALSE /\ new.held = con[c].held
            /\ new.n = con[c].n
        BY Zenon, <3>2 DEF Cons
      <3>4. con' = [con EXCEPT ![c] = new]
        BY Zenon, <2>0, <2>4 DEF Cons
      <3> HIDE DEF new
      <3>5. /\ con' \in [Clients -> Cons] /\ con'[c].pc = con[c].pc /\ con'[c].listed = FALSE
            /\ con'[c].held = con[c].held /\ con'[c].n = con[c].n
            /\ \A d \in Clients \ {c} : con'[d] = con[d]
        BY Zenon, <2>0, <3>3, <3>4
      <3>6. Types'
        BY Zenon, <2>0, <2>4, <3>1, <3>5 DEF Types
      <3>7. ServerOK'
        BY Zenon, <2>1, <2>2, <3>1 DEF ServerOK
      <3>8. con[c].pc \notin FreePCs /\ ConOK(c)
        BY Zenon, <2>4 DEF NetInv, ConOK
      <3>9. ConOK(c)'
        BY Zenon, <2>1, <3>1, <3>5, <3>8 DEF ConOK, FreePCs
      <3>10. StreamOK(c)'
        BY Zenon, <2>0, <2>4, <3>5, Quiet
      <3>11. ASSUME NEW d \in Clients \ {c} PROVE ConOK(d)' /\ StreamOK(d)'
        <4>1. con'[d] = con[d] /\ ConOK(d) /\ StreamOK(d)
          BY Zenon, <3>5 DEF NetInv
        <4>2. ConOK(d)'
          BY Zenon, <2>0, <2>1, <2>2, <3>1, <4>1 DEF ConOK
        <4>3. StreamOK(d)'
          BY Zenon, <2>0, <4>1 DEF StreamOK
        <4> QED
          BY Zenon, <4>2, <4>3
      <3> QED
        BY Zenon, <3>5, <3>6, <3>7, <3>9, <3>10, <3>11 DEF NetInv
    <2> QED
      BY Zenon, <2>3, <2>4 DEF Drain
<1>ConWaitStep.
    ASSUME Types, NetInv, ConWait
    PROVE  Types' /\ NetInv' /\ \A d \in Clients : con'[d].held = con[d].held
    <2> USE <1>ConWaitStep
    <2> DEFINE c == srv.con
    <2>0. /\ srv.pc = "wait" /\ srv \in Servers /\ ServerOK /\ con \in [Clients -> Cons]
          /\ UNCHANGED << cli, down, plan, disk, mnt, ctl, host, mode >>
          /\ con[c].pc \in {"new", "exit"}
          /\ srv' = [srv EXCEPT !.pc = "drain", !.con = None]
      BY Zenon DEF ConWait, Types, world, NetInv
    <2>1. c \in Clients /\ ~srv.sock
      BY Zenon, <2>0 DEF ServerOK, Servers
    <2>2. \A d \in Clients : d # None
      BY Zenon, PlanAssumption
    <2>3. srv' \in Servers /\ srv'.con = None /\ srv'.sock = srv.sock /\ srv'.pc = "drain"
      BY Zenon, <2>0, <2>1 DEF Servers
    <2>4. NoCon.pc = "none" /\ NoCon.held = {}
      BY Zenon DEF NoCon
    <2>5. /\ con' = [d \in Clients |-> IF d \in {c} THEN NoCon ELSE con[d]]
          /\ up' = [d \in Clients |-> IF d \in {c} THEN << >> ELSE up[d]]
      BY Zenon DEF ConWait, Types
    <2>6. \A d \in Clients : con'[d].held = con[d].held
      BY Zenon, <2>0, <2>1, <2>4, <2>5 DEF NetInv, ConOK, HeldPCs
    <2>7. \A d \in Clients : con'[d].pc = "queued" => srv'.sock
      BY Zenon, <2>3, <2>4, <2>5 DEF NetInv, ConOK
    <2>8. /\ {c} \in SUBSET Clients /\ (\A d \in {c} : srv'.con # d)
          /\ \A d \in Clients \ {c} : srv'.con = d <=> srv.con = d
      BY Zenon, <2>1, <2>2, <2>3
    <2>9. Types' /\ \A d \in Clients : ConOK(d)' /\ StreamOK(d)'
      BY Zenon, <2>0, <2>3, <2>5, <2>7, <2>8, FreedCons
    <2>10. ServerOK'
      BY Zenon, <2>1, <2>3 DEF ServerOK
    <2> QED
      BY Zenon, <2>6, <2>9, <2>10 DEF NetInv

<1> QED
  BY <1>ListenStep, <1>SrvHeadStep, <1>AcceptStep, <1>DrainStep, <1>ConWaitStep, Zenon DEF SameHeld

\* The clients (client/net.c).
LEMMA ClientNet ==
  \A c \in Clients : Types /\ NetInv =>
    /\ Quit(c) \/ Receive(c) \/ Send(c) \/ SendData(c) => Types' /\ NetInv'
    /\ Connect(c) => Types' /\ NetInv' /\ SameHeld

  (* The clients.                                                            *)
  \* The client goes from one place to another.
<1>CliFields.
    ASSUME Types, NEW c \in Clients, NEW r \in [pc : {"out", "idle", "data", "wait"}, n : {0, 1}],
           cli' = [cli EXCEPT ![c] = r]
    PROVE  /\ cli' \in [Clients -> [pc : {"out", "idle", "data", "wait"}, n : {0, 1}]]
           /\ cli'[c] = r /\ \A d \in Clients \ {c} : cli'[d] = cli[d]
    BY <1>CliFields, Zenon DEF Types

  \* A step of a client leaves its connection as it is.
<1>CliMoves.
    ASSUME Types, NetInv, NEW c \in Clients, UNCHANGED << con, srv, plan, disk, mnt, ctl, host, mode >>,
           cli' \in [Clients -> [pc : {"out", "idle", "data", "wait"}, n : {0, 1}]],
           up' \in [Clients -> Seq([op : Ops, n : {0, 1}])], down' \in [Clients -> Seq({0, 1})],
           \A d \in Clients \ {c} : cli'[d] = cli[d] /\ up'[d] = up[d] /\ down'[d] = down[d],
           con[c].pc = "none" => up'[c] = up[c], StreamOK(c)'
    PROVE  Types' /\ NetInv'
    <2> USE <1>CliMoves
    <2>1. Types'
      BY Zenon DEF Types
    <2>2. OnlyAt(c) /\ SrvSame
      BY Zenon DEF OnlyAt, SrvSame
    <2>3. ConOK(c)'
      BY Zenon DEF NetInv, ConOK
    <2>4. con'[c].listed => con[c].listed
      BY Zenon
    <2>5. NetInv'
      BY Zenon, <2>2, <2>3, <2>4, OneCon
    <2> QED
      BY Zenon, <2>1, <2>5
<1>QuitStep.
    ASSUME Types, NetInv, NEW c \in Clients, Quit(c)
    PROVE  Types' /\ NetInv'
    <2> USE <1>QuitStep
    <2>0. /\ UNCHANGED << con, srv, plan, disk, mnt, ctl, host, mode, up >>
          /\ cli' = [cli EXCEPT ![c] = [pc |-> "out", n |-> 0]] /\ down' = [down EXCEPT ![c] = << >>]
      BY Zenon DEF Quit, world
    <2>1. /\ cli' \in [Clients -> [pc : {"out", "idle", "data", "wait"}, n : {0, 1}]]
          /\ cli'[c].pc = "out" /\ \A d \in Clients \ {c} : cli'[d] = cli[d]
      BY Zenon, <2>0, <1>CliFields
    <2>2. up' \in [Clients -> Seq([op : Ops, n : {0, 1}])] /\ down \in [Clients -> Seq({0, 1})]
      BY Zenon, <2>0 DEF Types
    <2>3. << >> \in Seq({0, 1})
      OBVIOUS
    <2>4. down' \in [Clients -> Seq({0, 1})] /\ down'[c] = << >> /\ \A d \in Clients \ {c} : down'[d] = down[d]
      BY Zenon, <2>0, <2>2, <2>3
    <2>5. StreamOK(c)'
      BY <2>0, <2>1, <2>4 DEF NetInv, StreamOK
    <2> QED
      BY Zenon, <2>0, <2>1, <2>2, <2>4, <2>5, <1>CliMoves
<1>ReceiveStep.
    ASSUME Types, NetInv, NEW c \in Clients, Receive(c)
    PROVE  Types' /\ NetInv'
    <2> USE <1>ReceiveStep
    <2>0. /\ UNCHANGED << con, srv, plan, disk, mnt, ctl, host, mode, up >> /\ cli[c].pc = "wait"
          /\ cli' = [cli EXCEPT ![c].pc = "idle"] /\ down[c] # << >> /\ down' = [down EXCEPT ![c] = Tail(@)]
      BY Zenon DEF Receive, Is, world
    <2>1. /\ cli' \in [Clients -> [pc : {"out", "idle", "data", "wait"}, n : {0, 1}]]
          /\ cli'[c].pc = "idle" /\ \A d \in Clients \ {c} : cli'[d] = cli[d]
      BY <2>0 DEF Types
    <2>2. /\ up' \in [Clients -> Seq([op : Ops, n : {0, 1}])] /\ down \in [Clients -> Seq({0, 1})]
          /\ down[c] \in Seq({0, 1}) /\ StreamOK(c)
      BY Zenon, <2>0 DEF Types, NetInv
    <2>3. /\ down[c] = << cli[c].n >> /\ con[c].pc \notin BusyPCs
          /\ \A i \in DOMAIN up[c] : up[c][i].op = "data"
      BY Zenon, <2>0, <2>2 DEF StreamOK
    <2>4. Tail(down[c]) \in Seq({0, 1}) /\ Tail(down[c]) = << >>
      BY <2>2, <2>3
    <2>5. /\ down' \in [Clients -> Seq({0, 1})] /\ down'[c] = << >>
          /\ \A d \in Clients \ {c} : down'[d] = down[d]
      BY Zenon, <2>0, <2>2, <2>4
    <2>6. StreamOK(c)'
      BY Zenon, <2>0, <2>1, <2>3, <2>5 DEF StreamOK
    <2> QED
      BY Zenon, <2>0, <2>1, <2>2, <2>5, <2>6, <1>CliMoves

  \* A packet or the data behind it go up.
<1>SendSteps.
    ASSUME Types, NetInv, NEW c \in Clients, Send(c) \/ SendData(c)
    PROVE  Types' /\ NetInv'
    <2> USE <1>SendSteps
    <2>0. UNCHANGED << con, srv, plan, disk, mnt, ctl, host, mode, down >>
      BY Zenon DEF Send, SendData, world
    <2>1. /\ up \in [Clients -> Seq([op : Ops, n : {0, 1}])] /\ down' \in [Clients -> Seq({0, 1})]
          /\ up[c] \in Seq([op : Ops, n : {0, 1}]) /\ StreamOK(c)
          /\ cli[c] \in [pc : {"out", "idle", "data", "wait"}, n : {0, 1}]
      BY Zenon, <2>0 DEF Types, NetInv
    <2>2. ASSUME NEW e \in [op : Ops, n : {0, 1}], NEW r \in [pc : {"out", "idle", "data", "wait"}, n : {0, 1}],
                 cli' = [cli EXCEPT ![c] = r],
                 up' = IF con[c].pc = "none" THEN up ELSE [up EXCEPT ![c] = Append(@, e)],
                 r.pc \in {"data", "wait"}, cli[c].pc \in {"idle", "data"}, e.n = r.n,
                 cli[c].pc = "data" => e.op = "data" /\ r.n = cli[c].n
          PROVE  Types' /\ NetInv'
      <3>1. /\ Append(up[c], e) \in Seq([op : Ops, n : {0, 1}])
            /\ \A i \in DOMAIN Append(up[c], e) :
                 \/ i \in DOMAIN up[c] /\ Append(up[c], e)[i] = up[c][i]
                 \/ i \notin DOMAIN up[c] /\ i = Len(up[c]) + 1 /\ Append(up[c], e)[i] = e
        BY <2>1, <2>2, AppendFacts
      <3>2. /\ up' \in [Clients -> Seq([op : Ops, n : {0, 1}])] /\ (con[c].pc = "none" => up'[c] = up[c])
            /\ \A d \in Clients \ {c} : up'[d] = up[d]
            /\ up'[c] = up[c] \/ up'[c] = Append(up[c], e)
        BY Zenon, <2>1, <2>2, <3>1
      <3>3. \A i \in DOMAIN up'[c] : \/ i \in DOMAIN up[c] /\ up'[c][i] = up[c][i]
                                     \/ i = Len(up[c]) + 1 /\ up'[c][i] = e
        BY Zenon, <3>1, <3>2
      <3>4. /\ cli' \in [Clients -> [pc : {"out", "idle", "data", "wait"}, n : {0, 1}]]
            /\ cli'[c] = r /\ \A d \in Clients \ {c} : cli'[d] = cli[d]
        BY Zenon, <2>2, <1>CliFields
      <3>5. CASE cli[c].pc = "idle"
        <4>1. /\ \A i \in DOMAIN up[c] : up[c][i].op = "data"
              /\ con[c].pc \notin BusyPCs /\ down[c] = << >>
          BY Zenon, <2>1, <3>5 DEF StreamOK
        <4>2. \A i \in DOMAIN up'[c] : up'[c][i].op # "data" => i = Len(up[c]) + 1 /\ up'[c][i] = e
          BY <3>3, <4>1
        <4> QED
          <5>1. StreamOK(c)'
            BY <2>0, <2>2, <3>4, <4>1, <4>2 DEF StreamOK
          <5> QED
            BY <2>0, <2>1, <3>2, <3>4, <5>1, <1>CliMoves
      <3>6. CASE cli[c].pc = "data"
        <4>1. \A i \in DOMAIN up'[c] : up'[c][i].op # "data" => i \in DOMAIN up[c] /\ up'[c][i] = up[c][i]
          BY Zenon, <2>2, <3>3, <3>6
        <4>2. (\A i \in DOMAIN up[c] : up[c][i].op = "data") => \A i \in DOMAIN up'[c] : up'[c][i].op = "data"
          BY Zenon, <4>1
        <4>3. \A i, j \in DOMAIN up'[c] : up'[c][i].op # "data" /\ up'[c][j].op # "data" => i = j
          BY <2>1, <4>1 DEF StreamOK
        <4>4. \A i \in DOMAIN up'[c] : up'[c][i].op # "data" => up'[c][i].n = r.n
          BY <2>1, <2>2, <3>6, <4>1 DEF StreamOK
        <4>5. StreamOK(c)'
          BY <2>0, <2>1, <2>2, <3>4, <3>6, <4>2, <4>3, <4>4 DEF StreamOK
        <4> QED
          BY Zenon, <2>0, <2>1, <3>2, <3>4, <4>5, <1>CliMoves
      <3> QED
        BY Zenon, <2>2, <3>5, <3>6
    <2>3. CASE Send(c)
      <3>1. PICK op \in plan.ops :
              /\ cli' = [cli EXCEPT ![c].pc = IF op = "put" THEN "data" ELSE "wait", ![c].n = 1 - @]
              /\ up' = IF con[c].pc = "none" THEN up
                       ELSE [up EXCEPT ![c] = Append(@, [op |-> op, n |-> 1 - cli[c].n])]
              /\ cli[c].pc = "idle"
        BY Zenon, <2>3 DEF Send, Is
      <3> DEFINE e == [op |-> op, n |-> 1 - cli[c].n]
                 r == [pc |-> IF op = "put" THEN "data" ELSE "wait", n |-> 1 - cli[c].n]
      <3>2. op \in Ops /\ 1 - cli[c].n \in {0, 1}
        BY <2>1, <3>1 DEF Types, Plan, Ops
      <3>3. /\ e \in [op : Ops, n : {0, 1}] /\ r \in [pc : {"out", "idle", "data", "wait"}, n : {0, 1}]
            /\ r.pc \in {"data", "wait"} /\ e.n = r.n
        BY Zenon, <3>2
      <3>4. cli' = [cli EXCEPT ![c] = r]
        BY <2>1, <3>1 DEF Types
      <3> QED
        <4>1. up' = IF con[c].pc = "none" THEN up ELSE [up EXCEPT ![c] = Append(@, e)]
          BY Zenon, <3>1
        <4> HIDE DEF e, r
        <4> QED
          BY Zenon, <2>2, <3>1, <3>3, <3>4, <4>1
    <2>4. CASE SendData(c)
      <3> DEFINE e == [op |-> "data", n |-> cli[c].n]
                 r == [cli[c] EXCEPT !.pc = "wait"]
      <3>1. /\ e \in [op : Ops, n : {0, 1}] /\ r \in [pc : {"out", "idle", "data", "wait"}, n : {0, 1}]
            /\ r.pc \in {"data", "wait"} /\ e.n = r.n /\ e.op = "data" /\ r.n = cli[c].n
        BY Zenon, <2>1 DEF Ops
      <3>2. cli' = [cli EXCEPT ![c] = r] /\ cli[c].pc = "data"
        BY Zenon, <2>4 DEF SendData, Is
      <3>3. up' = IF con[c].pc = "none" THEN up ELSE [up EXCEPT ![c] = Append(@, e)]
        BY Zenon, <2>4 DEF SendData
      <3> HIDE DEF e, r
      <3> QED
        BY Zenon, <2>2, <3>1, <3>2, <3>3
    <2> QED
      BY Zenon, <2>3, <2>4
<1>ConnectStep.
    ASSUME Types, NetInv, NEW c \in Clients, Connect(c)
    PROVE  Types' /\ NetInv' /\ \A d \in Clients : con'[d].held = con[d].held
    <2> USE <1>ConnectStep
    <2>0. /\ UNCHANGED << plan, disk, mnt, ctl, host, mode, up, down >> /\ cli[c].pc = "out"
          /\ con[c].pc = "none" /\ srv.sock /\ srv \in Servers /\ con \in [Clients -> Cons]
          /\ con[c] \in Cons /\ ConOK(c) /\ StreamOK(c)
          /\ con' = [con EXCEPT ![c].pc = "queued"] /\ cli' = [cli EXCEPT ![c].pc = "idle"]
      BY Zenon DEF Connect, Is, world, Types, NetInv
    <2>1. srv' \in Servers /\ SrvSame
      BY Zenon, <2>0 DEF Connect, Woken, Servers, SrvSame
    <2>2. /\ con' \in [Clients -> Cons] /\ con'[c].pc = "queued" /\ con'[c].held = con[c].held
          /\ con'[c].listed = con[c].listed /\ \A d \in Clients \ {c} : con'[d] = con[d]
      BY Zenon, <2>0 DEF Cons, ConPCs
    <2>3. /\ cli' \in [Clients -> [pc : {"out", "idle", "data", "wait"}, n : {0, 1}]]
          /\ cli'[c].pc = "idle" /\ \A d \in Clients \ {c} : cli'[d] = cli[d]
      BY Zenon, <2>0 DEF Types
    <2>4. Types'
      BY Zenon, <2>0, <2>1, <2>2, <2>3 DEF Types
    <2>5. up[c] = << >> /\ down[c] = << >>
      BY Zenon, <2>0 DEF ConOK, StreamOK
    <2>6. StreamOK(c)'
      <3>1. DOMAIN up'[c] = {} /\ con'[c].pc \notin BusyPCs
        BY <2>0, <2>2, <2>5 DEF BusyPCs, HeldPCs
      <3> QED
        BY Zenon, <2>0, <2>5, <3>1 DEF StreamOK
    <2>7. ConOK(c)'
      BY Zenon, <2>0, <2>1, <2>2 DEF ConOK, SrvSame, FreePCs, HeldPCs
    <2>8. OnlyAt(c)
      BY Zenon, <2>0, <2>2, <2>3 DEF OnlyAt
    <2>9. con'[c].listed => con[c].listed
      BY Zenon, <2>2
    <2>10. NetInv'
      BY Zenon, <2>1, <2>6, <2>7, <2>8, <2>9, OneCon
    <2> QED
      BY Zenon, <2>2, <2>4, <2>10

<1> QED
  BY <1>QuitStep, <1>ReceiveStep, <1>SendSteps, <1>ConnectStep, Zenon DEF SameHeld

\* A device that nobody touches, and whose calls do not move, is as it was.
LEMMA SlotKept ==
  ASSUME NEW s \in Slots, SlotOK(s), mnt'[s] = mnt[s], \A t \in Ctls : ctl[t].slot = s \/ ctl'[t].slot = s => ctl'[t] = ctl[t],
         \A c \in Clients : s \in con'[c].held <=> s \in con[c].held
  PROVE  SlotOK(s)'
PROOF
  <1>1. Holds(s)' = Holds(s)
    BY Zenon DEF Holds
  <1>2. Asks(s)' = Asks(s)
    BY Zenon DEF Asks
  <1>3. Works(s)' = Works(s) /\ \A t \in Works(s) : ctl'[t] = ctl[t]
    BY Zenon, <1>2 DEF Works, Asks
  <1>4. CountOK(s)'
    BY <1>1, <1>2, <1>3 DEF SlotOK, CountOK
  <1>5. ASSUME NEW t \in Works(s) PROVE WorkOK(t, s)'
    <2>1. WorkOK(t, s) /\ ctl'[t] = ctl[t]
      BY Zenon, <1>3 DEF SlotOK
    <2>2. /\ (\E u \in Works(s) : ctl[u].pc \in Adding) => \E u \in Works(s)' : ctl'[u].pc \in Adding
          /\ (\E u \in Works(s) : ctl[u].call = "remove") => \E u \in Works(s)' : ctl'[u].call = "remove"
      BY Zenon, <1>3
    <2> QED
      BY <2>1, <2>2 DEF WorkOK
  <1> QED
    BY <1>1, <1>3, <1>4, <1>5 DEF SlotOK

\* What the server, the clients and most steps of a connection leave alone.
LEMMA DevKept ==
  ASSUME DevInv, mnt' = mnt, ctl' = ctl, srv.pc = "none" => srv'.pc = "none",
         \A c \in Clients : con'[c].held = con[c].held
  PROVE  DevInv'
PROOF
  <1>1. \A s \in Slots : SlotOK(s)'
    BY Zenon, SlotKept DEF DevInv
  <1>2. ListOK' /\ \A t \in Ctls : CtlOK(t)'
    BY Zenon DEF DevInv, ListOK, CtlOK
  <1> QED
    BY Zenon, <1>1, <1>2 DEF DevInv

\* The network takes no notice of a step that leaves it alone.
LEMMA NetKept ==
  ASSUME NetInv, UNCHANGED net
  PROVE  NetInv'
PROOF
  <1>0. UNCHANGED << srv, con, cli, up, down >>
    BY Zenon DEF net
  <1>1. ServerOK'
    BY Zenon, <1>0 DEF NetInv, ServerOK
  <1>2. \A c \in Clients : ConOK(c)'
    BY <1>0 DEF NetInv, ConOK
  <1>3. \A c \in Clients : StreamOK(c)'
    BY <1>0 DEF NetInv, StreamOK
  <1> QED
    BY Zenon, <1>1, <1>2, <1>3 DEF NetInv

\* A bad access stops the host as it is.
LEMMA OopsKeeps ==
  ASSUME Types, NetInv, DevInv, Oops
  PROVE  Types' /\ NetInv' /\ DevInv' /\ GoneOK' /\ UNCHANGED << mnt, ctl, con, host >>
PROOF
  <1>1. /\ mode' = "oops"
        /\ UNCHANGED << plan, disk, mnt, ctl, srv, con, cli, up, down, host >>
    BY Zenon DEF Oops, net
  <1>2. Types'
    BY Zenon, <1>1 DEF Types
  <1>3. NetInv'
    BY Zenon, <1>1, NetKept DEF net
  <1>4. DevInv'
    BY Zenon, <1>1, DevKept
  <1> QED
    BY Zenon, <1>1, <1>2, <1>3, <1>4 DEF GoneOK

=============================================================================
