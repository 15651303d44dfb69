------------------------------- MODULE MCHost -------------------------------
(* Small instances of module Host. *)
EXTENDS Host, TLC

CONSTANTS c1, c2, t1, t2, d1, d2, A, B, s1, s2

MCClients == {c1, c2}
MCCtls == {t1, t2}
MCNames == {d1, d2}
MCIds == {A, B}
MCSlots == {s1, s2}

Blank == (d1 :> None @@ d2 :> None)
Copies == (d1 :> A @@ d2 :> A)

\* Two control processes on the same device, and a client.
Devices == [ disk |-> Copies, names |-> {d1}, added |-> {d1}, clients |-> {c1}, ctls |-> {t1, t2},
             calls |-> {"add", "remove"}, ops |-> {"get"}, fails |-> FALSE ]

\* The same on two devices with copies of one image and no client.
Copied == [ disk |-> Copies, names |-> {d1, d2}, added |-> {}, clients |-> {}, ctls |-> {t1, t2},
            calls |-> {"add", "remove", "query"}, ops |-> {}, fails |-> TRUE ]

\* One control process on two devices with copies of one image, and a client.
Asked == [ disk |-> Copies, names |-> {d1, d2}, added |-> {d1}, clients |-> {c1}, ctls |-> {t1},
           calls |-> {"add", "format"}, ops |-> {"create", "get"}, fails |-> FALSE ]

\* Two clients, no device, and the server is stopped.
Serving == [ disk |-> Blank, names |-> {}, added |-> {}, clients |-> {c1, c2}, ctls |-> {t1},
             calls |-> {"stop"}, ops |-> {"neigh"}, fails |-> FALSE ]

\* One client, memory and reads fail, and the module exits.
Exiting == [ disk |-> (d1 :> A @@ d2 :> None), names |-> {d1}, added |-> {d1}, clients |-> {c1},
             ctls |-> {t1}, calls |-> {"start", "stop", "exit"},
             ops |-> {"get", "put", "empty", "neigh"}, fails |-> TRUE ]

MCPlans == {Devices, Copied, Asked, Serving, Exiting}
=============================================================================
