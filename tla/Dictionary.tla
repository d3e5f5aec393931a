----------------------------- MODULE Dictionary -----------------------------
(***************************************************************************)
(* What the Dhara map promises its user: a dictionary from sectors to page *)
(* contents, of which some earlier value survives a power failure.  A call *)
(* takes effect in one indivisible step, the step in which it succeeds; a  *)
(* call that fails, or that a power failure cuts short, has no effect; and *)
(* when a sync succeeds all that was written before it is durable.         *)
(***************************************************************************)
CONSTANTS
  Sectors,   \* logical sector numbers
  Data,      \* contents of a sector
  MISSING    \* the sector is not mapped: it reads as 0xff bytes

VARIABLES
  dict,      \* what each sector holds now
  durable,   \* what each sector would hold after a power failure
  req,       \* the call that is running
  ok         \* the last call has succeeded

dvars == <<dict, durable, req, ok>>

NoRequest == [op |-> "none"]
Requests ==
  [op : {"write"}, dst : Sectors, data : Data] \cup
  [op : {"trim"}, dst : Sectors] \cup
  [op : {"copy"}, src : Sectors, dst : Sectors] \cup
  [op : {"sync", "gc", "clear"}]

\* What a call makes of the dictionary.
Effect(r) ==
  CASE r.op = "write" -> [dict EXCEPT ![r.dst] = r.data]
    [] r.op = "trim" -> [dict EXCEPT ![r.dst] = MISSING]
    [] r.op = "copy" -> [dict EXCEPT ![r.dst] = dict[r.src]]
    [] r.op = "clear" -> [s \in Sectors |-> MISSING]
    [] OTHER -> dict

DInit ==
  /\ dict = [s \in Sectors |-> MISSING]
  /\ durable = dict
  /\ req = NoRequest
  /\ ok = TRUE

Call(r) ==
  /\ req = NoRequest
  /\ req' = r
  /\ ok' = TRUE
  /\ UNCHANGED <<dict, durable>>

\* The running call succeeds.  Its effect may be durable at once.
Succeed ==
  /\ req # NoRequest
  /\ dict' = Effect(req)
  /\ durable' \in {durable, dict'}
  /\ req.op = "sync" => durable' = dict'
  /\ req' = NoRequest
  /\ ok' = TRUE

\* The running call fails.
Fail ==
  /\ req # NoRequest
  /\ req' = NoRequest
  /\ ok' = FALSE
  /\ UNCHANGED <<dict, durable>>

\* Everything written so far becomes durable.
Persist ==
  /\ durable' = dict
  /\ UNCHANGED <<dict, req, ok>>

\* Power fails, and the map is resumed.
Restart ==
  /\ dict' = durable
  /\ req' = NoRequest
  /\ ok' = TRUE
  /\ UNCHANGED durable

DNext ==
  \/ \E r \in Requests : Call(r)
  \/ Succeed \/ Fail \/ Persist \/ Restart

DSpec == DInit /\ [][DNext]_dvars

=============================================================================
