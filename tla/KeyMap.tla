------------------------------- MODULE KeyMap -------------------------------
(***************************************************************************)
(* What a btree promises to the code above it (super.c, inode.c): a map    *)
(* from keys to values on which insert, find and delete act at one moment  *)
(* between their call and their return, and which survives a restart.      *)
(* Calls that returned success are not lost; of a call that a power loss   *)
(* cuts off, the effect may be there or not.  Any call may also fail       *)
(* without an effect.  Only once the device has lost something that it     *)
(* was given (lossy) may keys disappear, come back or change.              *)
(***************************************************************************)
CONSTANTS
  Keys,
  Vals,
  Callers,
  None

VARIABLES
  map,    \* [Keys -> Vals or None]
  call,   \* [Callers -> the call under way, NoCall if there is none]
  res,    \* [Callers -> its result, None before it is known]
  lossy   \* a device write was lost

vars == << call, res, lossy, map >>

NoCall == [ op |-> None, key |-> None, val |-> None ]

Calls ==
  { NoCall }
    \cup [ op : {"insert", "replace"}, key : Keys, val : Vals ]
    \cup [ op : {"find", "delete"}, key : Keys, val : {None} ]
    \cup [ op : {"erase"}, key : {None}, val : {None} ]

Init ==
  /\ map = [k \in Keys |-> None]
  /\ call = [c \in Callers |-> NoCall]
  /\ res = [c \in Callers |-> None]
  /\ lossy = FALSE

Invoke(c) ==
  /\ call[c] = NoCall
  /\ call'[c] \in Calls \ {NoCall}
  /\ call' = [call EXCEPT ![c] = call'[c]]
  /\ UNCHANGED << res, lossy, map >>

\* What the call does to map m.
After(x, m) ==
  CASE x.op = "insert" /\ m[x.key] = None -> [m EXCEPT ![x.key] = x.val]
    [] x.op = "replace" -> [m EXCEPT ![x.key] = x.val]
    [] x.op = "delete" -> [m EXCEPT ![x.key] = None]
    [] x.op = "erase" -> [k \in Keys |-> None]
    [] OTHER -> m

\* What it returns.
Result(x, m) ==
  CASE x.op = "insert" -> IF m[x.key] = None THEN "ok" ELSE "exists"
    [] x.op = "find" -> IF m[x.key] = None THEN "noent" ELSE m[x.key]
    [] x.op = "delete" -> IF m[x.key] = None THEN "noent" ELSE "ok"
    [] OTHER -> "ok"

Take(c) ==
  /\ call[c] # NoCall
  /\ res[c] = None
  /\ UNCHANGED << call, lossy >>
  /\ res' = [res EXCEPT ![c] = Result(call[c], map)]
  /\ map' = After(call[c], map)

Fail(c) ==
  /\ call[c] # NoCall
  /\ res[c] = None
  /\ res' = [res EXCEPT ![c] = "error"]
  /\ UNCHANGED << call, lossy, map >>

Return(c) ==
  /\ res[c] # None
  /\ call' = [call EXCEPT ![c] = NoCall]
  /\ res' = [res EXCEPT ![c] = None]
  /\ UNCHANGED << lossy, map >>

\* A restart ends every call; the keys of those under way may be as they were
\* before or after it.
Restart ==
  /\ call' = [c \in Callers |-> NoCall]
  /\ res' = [c \in Callers |-> None]
  /\ UNCHANGED lossy
  /\ \A k \in Keys : map'[k] # map[k] => \E c \in Callers : call[c].key = k

\* A lost write.  From here on the map may change without a call.
Lose == lossy' = TRUE

Next ==
  \/ \E c \in Callers : Invoke(c) \/ Take(c) \/ Fail(c) \/ Return(c)
  \/ Restart
  \/ Lose
  \/ lossy /\ UNCHANGED lossy

Spec == Init /\ [][Next]_vars
=============================================================================
