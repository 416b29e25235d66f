------------------------- MODULE PyCoroutineProofs -------------------------
(***************************************************************************)
(* Machine-checked facts about module PyCoroutine: for any number of       *)
(* Coroutines and objects, and for both kinds of caller, a callback uses   *)
(* the bridge of its own Coroutine, each Coroutine is a future, and the    *)
(* counts follow the holders of the objects.                               *)
(***************************************************************************)
EXTENDS PyCoroutine, FiniteSetTheorems, TLAPS

-----------------------------------------------------------------------------
(* The inductive invariant                                                 *)

Flows == Selves \cup {Main}

\* The flows that wait are active or the main one; the one that runs waits
\* for nobody.
ChainOK ==
    /\ top \in Flows
    /\ waiting \in [Flows -> Selves \cup {NULL}]
    /\ status \in [Selves -> {"none", "fresh", "suspended", "active", "ended"}]
    /\ mail \in [Selves -> Codes \cup {NULL}]
    /\ got \in [Flows -> Codes \cup {NULL}]
    /\ top # Main => status[top] = "active"
    /\ waiting[top] = NULL
    /\ \A f \in Selves : waiting[f] # NULL => status[f] = "active"

BridgeType ==
    /\ bridge \in [Selves -> Bridges \cup {NULL}]
    /\ data \in [Selves -> Bridges \cup {NULL}]
    /\ cell \in [Bridges -> Cells \cup {NULL}]
    /\ made \in 0 .. MaxBridges
    /\ frame \in [Selves -> Frames \cup {NULL}]

\* A Coroutine that is alive has a bridge of its own among those made so far.
BridgeOwned(s) ==
    /\ status[s] = "none" <=> bridge[s] = NULL
    /\ bridge[s] # NULL => bridge[s] <= made /\ cell[bridge[s]] # NULL
    /\ \A t \in Selves \ {s} : bridge[s] # NULL => bridge[s] # bridge[t]

\* Its callback is to start with this bridge, runs on it, or is over; it has
\* not returned before it is over.
BridgeUsed(s) ==
    /\ status[s] = "fresh" => data[s] = bridge[s]
    /\ status[s] \in {"active", "suspended"} <=> frame[s] # NULL
    /\ frame[s] # NULL =>
          frame[s].bridge = bridge[s] /\ frame[s].call = cell[bridge[s]].call
    /\ status[s] \in {"fresh", "active", "suspended"} => ~cell[bridge[s]].returned

BridgeOK == BridgeType /\ \A s \in Selves : BridgeOwned(s) /\ BridgeUsed(s)

RestType ==
    /\ switcher \in [Selves -> Selves]
    /\ refs \in [Objects -> Int]
    /\ told \in [Selves -> Codes \cup {NULL}]
    /\ broken \in {"no", "assert", "wild"}

IInv == ChainOK /\ BridgeOK /\ RestType

-----------------------------------------------------------------------------
(* The coroutines                                                          *)

LEMMA EnterChain ==
    ASSUME ChainOK, NEW f, NEW s \in Selves, NEW v \in Codes \cup {NULL}, Chain!Enter(f, s, v)
    PROVE  ChainOK' /\ status[s] \in {"fresh", "suspended"} /\ status' = [status EXCEPT ![s] = "active"]
<1>1. top = f /\ f \in Flows /\ status[s] \in {"fresh", "suspended"} /\ f # s
  BY PyAssumption DEF ChainOK, Chain!Enter, Flows
<1>2. waiting[s] = NULL
  BY <1>1 DEF ChainOK
<1>3. /\ top' = s
      /\ waiting' = [waiting EXCEPT ![f] = s]
      /\ status' = [status EXCEPT ![s] = "active"]
      /\ mail' = [mail EXCEPT ![s] = v]
      /\ got' = got \/ got' = [got EXCEPT ![s] = v]
  BY DEF Chain!Enter
<1> QED BY <1>1, <1>2, <1>3, PyAssumption DEF ChainOK, Flows

LEMMA LeaveChain ==
    ASSUME ChainOK, NEW s \in Selves, NEW v \in Codes,
           NEW left \in {"suspended", "ended"}, Chain!Leave(s, v, left)
    PROVE  ChainOK' /\ status[s] = "active" /\ status' = [status EXCEPT ![s] = left]
<1>1. PICK f \in Flows :
        /\ top = s /\ waiting[f] = s /\ top' = f
        /\ waiting' = [waiting EXCEPT ![f] = NULL]
        /\ status' = [status EXCEPT ![s] = left]
        /\ mail' = [mail EXCEPT ![s] = v]
        /\ got' = [got EXCEPT ![f] = v]
  BY DEF Chain!Leave, Chain!Flows, Flows
<1>2. status[s] = "active" /\ waiting[s] = NULL /\ f # s
  BY <1>1, PyAssumption DEF ChainOK
<1> QED BY <1>1, <1>2, PyAssumption DEF ChainOK, Flows

LEMMA SetUpChain ==
    ASSUME ChainOK, NEW s \in Selves,
           Chain!Create(s) \/ Chain!Restart(s) \/ Chain!Destroy(s)
    PROVE  ChainOK'
<1>1. /\ status[s] # "active"
      /\ \E x \in {"none", "fresh"} : status' = [status EXCEPT ![s] = x]
      /\ top' = top /\ waiting' = waiting /\ got' = got
      /\ mail' = mail \/ mail' = [mail EXCEPT ![s] = NULL]
  BY DEF Chain!Create, Chain!Restart, Chain!Destroy
<1> QED BY <1>1, PyAssumption DEF ChainOK, Flows

LEMMA SameChain == ChainOK /\ UNCHANGED chain => ChainOK'
BY DEF ChainOK, chain

-----------------------------------------------------------------------------
(* The bridges                                                             *)

LEMMA CellFacts ==
    ASSUME BridgeOK, NEW s \in Selves, bridge[s] # NULL
    PROVE  bridge[s] \in Bridges /\ cell[bridge[s]] \in Cells
BY DEF BridgeOK, BridgeType, BridgeOwned

\* A bridge that has just been made is nobody's yet.
LEMMA NewBridgeOK ==
    ASSUME ChainOK, BridgeOK, NEW s \in Selves, NEW o \in Objects, NEW cells,
           NewBridge(s, o, cells),
           \/ cells = cell
           \/ bridge[s] # NULL /\ cells = [cell EXCEPT ![bridge[s]] = NULL],
           status' = [status EXCEPT ![s] = "fresh"],
           data' = [data EXCEPT ![s] = made + 1],
           (frame[s] = NULL /\ frame' = frame) \/ frame' = [frame EXCEPT ![s] = NULL]
    PROVE  BridgeOK'
<1>0. PICK left \in Left :
        cell' = [cells EXCEPT ![made + 1] = [call |-> o, response |-> left, returned |-> FALSE]]
  BY DEF NewBridge
<1> DEFINE b == made + 1
           fresh == [call |-> o, response |-> left, returned |-> FALSE]
<1>1. b \in Bridges /\ fresh \in Cells /\ made \in Nat
  BY PyAssumption DEF NewBridge, Bridges, BridgeOK, BridgeType, Cells
<1>2. cells \in [Bridges -> Cells \cup {NULL}]
  BY DEF BridgeOK, BridgeType
<1>3. /\ made' = b
      /\ cell' = [cells EXCEPT ![b] = fresh]
      /\ bridge' = [bridge EXCEPT ![s] = b]
  BY <1>0 DEF NewBridge
<1>4. BridgeType'
  <2>1. made' \in 0 .. MaxBridges
    BY <1>1, <1>3, PyAssumption DEF Bridges
  <2>2. bridge' \in [Selves -> Bridges \cup {NULL}] /\ data' \in [Selves -> Bridges \cup {NULL}]
    BY <1>1, <1>3 DEF BridgeOK, BridgeType
  <2>3. cell' \in [Bridges -> Cells \cup {NULL}]
    BY <1>1, <1>2, <1>3
  <2>4. frame' \in [Selves -> Frames \cup {NULL}]
    BY DEF BridgeOK, BridgeType
  <2> QED BY <2>1, <2>2, <2>3, <2>4 DEF BridgeType
<1>5. ASSUME NEW t \in Selves, bridge[t] # NULL
      PROVE  bridge[t] \in Bridges /\ bridge[t] <= made /\ bridge[t] # b
  <2>1. bridge[t] \in Bridges /\ bridge[t] <= made
    BY <1>5 DEF BridgeOK, BridgeType, BridgeOwned
  <2> QED BY <2>1, <1>1 DEF Bridges
<1>6. b # NULL /\ fresh # NULL
  BY <1>1, PyAssumption
<1>7. /\ bridge'[s] = b /\ data'[s] = b /\ frame'[s] = NULL /\ status'[s] = "fresh"
      /\ cell'[b] = fresh
  BY <1>1, <1>2, <1>3 DEF BridgeOK, BridgeType, ChainOK
<1>8. ASSUME NEW t \in Selves \ {s}
      PROVE  /\ bridge'[t] = bridge[t] /\ data'[t] = data[t] /\ frame'[t] = frame[t]
             /\ status'[t] = status[t]
             /\ bridge[t] # NULL => cell'[bridge[t]] = cell[bridge[t]]
  <2>1. bridge[t] # NULL => bridge[t] # bridge[s]
    BY DEF BridgeOK, BridgeOwned
  <2>2. bridge[t] # NULL => cell'[bridge[t]] = cell[bridge[t]]
    BY <2>1, <1>1, <1>2, <1>3, <1>5 DEF BridgeOK, BridgeType
  <2> QED BY <2>2, <1>3 DEF BridgeOK, BridgeType, ChainOK
<1>9. ASSUME NEW t \in Selves PROVE (BridgeOwned(t) /\ BridgeUsed(t))'
  <2>1. CASE t = s
    <3>1. BridgeOwned(s)'
      <4>1. \A u \in Selves \ {s} : bridge'[u] # b
        BY <1>5, <1>6, <1>8
      <4> QED BY <4>1, <1>1, <1>3, <1>6, <1>7 DEF BridgeOwned
    <3>2. BridgeUsed(s)'
      BY <1>7 DEF BridgeUsed
    <3> QED BY <2>1, <3>1, <3>2
  <2>2. CASE t # s
    <3>1. BridgeOwned(t) /\ BridgeUsed(t)
      BY DEF BridgeOK
    <3>2. BridgeOwned(t)'
      <4>1. status'[t] = "none" <=> bridge'[t] = NULL
        BY <2>2, <3>1, <1>8 DEF BridgeOwned
      <4>2. bridge'[t] # NULL => bridge'[t] <= made' /\ cell'[bridge'[t]] # NULL
        <5> SUFFICES ASSUME bridge'[t] # NULL
                     PROVE  bridge'[t] <= made' /\ cell'[bridge'[t]] # NULL
          OBVIOUS
        <5>1. bridge'[t] = bridge[t] /\ bridge[t] # NULL
          BY <2>2, <1>8
        <5>2. bridge[t] \in Nat /\ bridge[t] <= made
          BY <5>1, <1>5 DEF Bridges
        <5> QED BY <5>1, <5>2, <1>1, <1>3, <1>8, <2>2, <3>1 DEF BridgeOwned
      <4>3. \A u \in Selves \ {t} : bridge'[t] # NULL => bridge'[t] # bridge'[u]
        BY <2>2, <1>5, <1>7, <1>8, <3>1 DEF BridgeOwned
      <4> QED BY <4>1, <4>2, <4>3 DEF BridgeOwned
    <3>3. BridgeUsed(t)'
      <4>1. status[t] \in {"fresh", "active", "suspended"} => bridge[t] # NULL
        BY <3>1 DEF BridgeOwned
      <4>2. frame[t] # NULL => bridge[t] # NULL
        BY <4>1, <3>1 DEF BridgeUsed
      <4> QED BY <4>1, <4>2, <2>2, <3>1, <1>8 DEF BridgeUsed
    <3> QED BY <3>2, <3>3
  <2> QED BY <2>1, <2>2
<1> QED BY <1>4, <1>9 DEF BridgeOK

LEMMA SetUpOK ==
    ASSUME ChainOK, BridgeOK, NEW s \in Selves, NEW o \in Objects,
           Cinit(s, o) \/ CoroReset(s, o)
    PROVE  ChainOK' /\ BridgeOK'
<1>1. CASE Cinit(s, o)
  <2>1. status[s] = "none" /\ status' = [status EXCEPT ![s] = "fresh"]
    BY <1>1 DEF Cinit, Chain!Create
  <2>2. frame[s] = NULL
    BY <2>1 DEF BridgeOK, BridgeUsed
  <2>3. /\ NewBridge(s, o, cell) /\ data' = [data EXCEPT ![s] = made + 1]
        /\ frame' = frame /\ ChainOK'
    BY <1>1, SetUpChain DEF Cinit
  <2> QED BY <2>1, <2>2, <2>3, NewBridgeOK
<1>2. CASE CoroReset(s, o)
  <2>1. /\ status[s] \in {"fresh", "suspended", "ended"}
        /\ status' = [status EXCEPT ![s] = "fresh"]
        /\ frame' = [frame EXCEPT ![s] = NULL]
        /\ data' = [data EXCEPT ![s] = made + 1]
        /\ ChainOK'
    BY <1>2, SetUpChain DEF CoroReset, Refit, Chain!Restart
  <2>2. bridge[s] # NULL
    BY <2>1 DEF BridgeOK, BridgeOwned
  <2>3. NewBridge(s, o, [cell EXCEPT ![bridge[s]] = NULL])
    BY <1>2 DEF CoroReset
  <2> QED BY <2>1, <2>2, <2>3, NewBridgeOK
<1> QED BY <1>1, <1>2

LEMMA DisposeOK ==
    ASSUME ChainOK, BridgeOK, NEW s \in Selves, Dispose(s)
    PROVE  ChainOK' /\ BridgeOK'
<1>1. /\ status[s] \in {"fresh", "suspended", "ended"}
      /\ status' = [status EXCEPT ![s] = "none"]
      /\ bridge' = [bridge EXCEPT ![s] = NULL]
      /\ data' = [data EXCEPT ![s] = NULL]
      /\ cell' = [cell EXCEPT ![bridge[s]] = NULL]
      /\ frame' = [frame EXCEPT ![s] = NULL]
      /\ made' = made /\ ChainOK'
  BY SetUpChain DEF Dispose, Chain!Destroy
<1>2. BridgeType'
  BY <1>1 DEF BridgeOK, BridgeType
<1>3. ASSUME NEW t \in Selves \ {s}
      PROVE  /\ bridge'[t] = bridge[t] /\ data'[t] = data[t] /\ frame'[t] = frame[t]
             /\ status'[t] = status[t]
             /\ bridge[t] # NULL => cell'[bridge[t]] = cell[bridge[t]]
  <2>1. bridge[t] # NULL => bridge[t] # bridge[s] /\ bridge[t] \in Bridges
    BY DEF BridgeOK, BridgeType, BridgeOwned
  <2> QED BY <2>1, <1>1 DEF BridgeOK, BridgeType, ChainOK
<1>4. bridge'[s] = NULL /\ frame'[s] = NULL /\ status'[s] = "none"
  BY <1>1 DEF BridgeOK, BridgeType, ChainOK
<1>5. ASSUME NEW t \in Selves PROVE (BridgeOwned(t) /\ BridgeUsed(t))'
  <2>1. CASE t = s
    BY <2>1, <1>4 DEF BridgeOwned, BridgeUsed
  <2>2. CASE t # s
    <3>1. BridgeOwned(t) /\ BridgeUsed(t)
      BY DEF BridgeOK
    <3>2. BridgeOwned(t)'
      BY <2>2, <3>1, <1>1, <1>3, <1>4 DEF BridgeOwned
    <3>3. status[t] \in {"fresh", "active", "suspended"} => bridge[t] # NULL
      BY <3>1 DEF BridgeOwned
    <3>4. BridgeUsed(t)'
      BY <3>3, <2>2, <3>1, <1>3 DEF BridgeUsed
    <3> QED BY <3>2, <3>4
  <2> QED BY <2>1, <2>2
<1> QED BY <1>1, <1>2, <1>5 DEF BridgeOK

\* A step that leaves the bridges and touches the status and the frame of one
\* Coroutine only.
LEMMA RunOK ==
    ASSUME ChainOK, BridgeOK, NEW s \in Selves, NEW x,
           UNCHANGED <<bridge, data, cell, made>>,
           status' = [status EXCEPT ![s] = x],
           \A t \in Selves \ {s} : frame'[t] = frame[t],
           frame' \in [Selves -> Frames \cup {NULL}],
           x # "none", status[s] # "none",
           BridgeUsed(s)'
    PROVE  BridgeOK'
<1>1. BridgeType'
  BY DEF BridgeOK, BridgeType
<1>2. ASSUME NEW t \in Selves PROVE BridgeOwned(t)'
  BY DEF BridgeOK, BridgeOwned, ChainOK
<1>3. ASSUME NEW t \in Selves PROVE BridgeUsed(t)'
  <2>1. CASE t # s
    BY <2>1 DEF BridgeOK, BridgeUsed, ChainOK
  <2> QED BY <2>1
<1> QED BY <1>1, <1>2, <1>3 DEF BridgeOK

LEMMA ResumeOK ==
    ASSUME ChainOK, BridgeOK, NEW f, NEW s \in Selves,
           CoroResume(f, s) \/ CoroResumeValue(f, s)
    PROVE  ChainOK' /\ BridgeOK'
<1>1. PICK v \in Codes \cup {NULL} : Chain!Enter(f, s, v)
  BY DEF CoroResume, CoroResumeValue, Chain!Resume, Chain!ResumeValue, ChainOK
<1>2. /\ ChainOK' /\ status[s] \in {"fresh", "suspended"}
      /\ status' = [status EXCEPT ![s] = "active"]
  BY <1>1, EnterChain
<1>3. Begin(s) /\ UNCHANGED <<bridge, data, cell, made>>
  BY DEF CoroResume, CoroResumeValue
<1>4. status'[s] = "active"
  BY <1>2 DEF ChainOK
<1>5. bridge[s] # NULL /\ cell[bridge[s]] \in Cells /\ bridge[s] \in Bridges
  BY <1>2, CellFacts DEF BridgeOK, BridgeOwned
<1>6. CASE status[s] = "fresh"
  <2>1. frame' = [frame EXCEPT ![s] = [bridge |-> bridge[s], call |-> cell[bridge[s]].call]]
    BY <1>3, <1>6 DEF Begin, BridgeOK, BridgeUsed
  <2>2. [bridge |-> bridge[s], call |-> cell[bridge[s]].call] \in Frames
    BY <1>5 DEF Frames, Cells
  <2>3. /\ frame' \in [Selves -> Frames \cup {NULL}]
        /\ frame'[s] = [bridge |-> bridge[s], call |-> cell[bridge[s]].call]
        /\ \A t \in Selves \ {s} : frame'[t] = frame[t]
    BY <2>1, <2>2 DEF BridgeOK, BridgeType
  <2>4. frame'[s] # NULL
    BY <2>2, <2>3, PyAssumption
  <2>5. BridgeUsed(s)'
    BY <2>3, <2>4, <1>3, <1>4, <1>6 DEF BridgeUsed, BridgeOK
  <2> QED BY <2>3, <2>5, <1>2, <1>3, RunOK
<1>7. CASE status[s] = "suspended"
  <2>1. frame' = frame
    BY <1>3, <1>7 DEF Begin
  <2>2. BridgeUsed(s)'
    BY <2>1, <1>3, <1>4, <1>7 DEF BridgeUsed, BridgeOK
  <2>3. frame' \in [Selves -> Frames \cup {NULL}] /\ \A t \in Selves \ {s} : frame'[t] = frame[t]
    BY <2>1 DEF BridgeOK, BridgeType
  <2> QED BY <2>2, <2>3, <1>2, <1>3, RunOK
<1> QED BY <1>2, <1>6, <1>7

LEMMA YieldOK ==
    ASSUME ChainOK, BridgeOK, NEW s \in Selves, NEW v \in Codes, CoroYieldValue(s, v)
    PROVE  ChainOK' /\ BridgeOK'
<1>1. ChainOK' /\ status[s] = "active" /\ status' = [status EXCEPT ![s] = "suspended"]
  BY LeaveChain DEF CoroYieldValue, LeaveWith
<1>2. UNCHANGED <<bridge, data, cell, made>> /\ frame' = frame
  BY DEF CoroYieldValue
<1>3. status'[s] = "suspended"
  BY <1>1 DEF ChainOK
<1>4. BridgeUsed(s)'
  BY <1>1, <1>2, <1>3 DEF BridgeUsed, BridgeOK
<1>5. frame' \in [Selves -> Frames \cup {NULL}] /\ \A t \in Selves \ {s} : frame'[t] = frame[t]
  BY <1>2 DEF BridgeOK, BridgeType
<1> QED BY <1>1, <1>2, <1>4, <1>5, RunOK

LEMMA EndsFacts ==
    ASSUME ChainOK, BridgeOK, NEW s \in Selves, Ends(s)
    PROVE  /\ ChainOK' /\ status[s] = "active" /\ status' = [status EXCEPT ![s] = "ended"]
           /\ frame' = [frame EXCEPT ![s] = NULL]
           /\ UNCHANGED <<bridge, data, made>>
           /\ frame[s] # NULL /\ frame[s] \in Frames /\ frame[s].bridge = bridge[s]
           /\ bridge[s] \in Bridges /\ bridge[s] # NULL /\ cell[bridge[s]] \in Cells
           /\ ~cell[bridge[s]].returned
<1>1. ChainOK' /\ status[s] = "active" /\ status' = [status EXCEPT ![s] = "ended"]
  <2>1. Chain!Leave(s, 0, "ended") /\ 0 \in Codes
    BY DEF Ends, LeaveWith, Codes, MAY_RESUME
  <2> QED BY <2>1, LeaveChain
<1>2. frame[s] # NULL /\ bridge[s] # NULL /\ frame[s].bridge = bridge[s]
  BY <1>1 DEF BridgeOK, BridgeUsed, BridgeOwned
<1>3. bridge[s] \in Bridges /\ cell[bridge[s]] \in Cells /\ frame[s] \in Frames
  BY <1>2, CellFacts DEF BridgeOK, BridgeType
<1>4. ~cell[bridge[s]].returned
  BY <1>1 DEF BridgeOK, BridgeUsed
<1> QED BY <1>1, <1>2, <1>3, <1>4 DEF Ends

LEMMA RaisesOK ==
    ASSUME ChainOK, BridgeOK, NEW s \in Selves, CallbackRaises(s)
    PROVE  ChainOK' /\ BridgeOK'
<1>1. Ends(s) /\ cell' = cell
  BY DEF CallbackRaises
<1>2. /\ ChainOK' /\ status[s] = "active" /\ status' = [status EXCEPT ![s] = "ended"]
      /\ frame' = [frame EXCEPT ![s] = NULL]
      /\ UNCHANGED <<bridge, data, cell, made>>
  BY <1>1, EndsFacts
<1>3. status'[s] = "ended" /\ frame'[s] = NULL
  BY <1>2 DEF ChainOK, BridgeOK, BridgeType
<1>4. BridgeUsed(s)'
  BY <1>3 DEF BridgeUsed
<1>5. frame' \in [Selves -> Frames \cup {NULL}] /\ \A t \in Selves \ {s} : frame'[t] = frame[t]
  BY <1>2 DEF BridgeOK, BridgeType
<1> QED BY <1>2, <1>4, <1>5, RunOK

LEMMA WrittenCell ==
    ASSUME NEW c \in Cells, NEW r \in Objects
    PROVE  LET new == [c EXCEPT !.response = r, !.returned = TRUE]
           IN  new \in Cells /\ new.call = c.call /\ new.response = r /\ new.returned
<1>1. ASSUME NEW x \in Left, NEW t \in BOOLEAN
      PROVE  LET new == [c EXCEPT !.response = x, !.returned = t]
             IN  new \in Cells /\ new.call = c.call /\ new.response = x /\ new.returned = t
  BY DEF Cells
<1> QED BY <1>1 DEF Left

\* The response goes to the bridge that the Coroutine still holds.
LEMMA ReturnsFacts ==
    ASSUME ChainOK, BridgeOK, NEW s \in Selves, NEW r \in Objects, CallbackReturns(s, r)
    PROVE  /\ bridge[s] \in Bridges
           /\ cell'[bridge[s]] \in Cells /\ cell'[bridge[s]].response = r
           /\ cell'[bridge[s]].returned
           /\ cell'[bridge[s]].call = cell[bridge[s]].call
           /\ \A b \in Bridges : b # bridge[s] => cell'[b] = cell[b]
           /\ cell' \in [Bridges -> Cells \cup {NULL}]
<1> DEFINE new == [cell[bridge[s]] EXCEPT !.response = r, !.returned = TRUE]
<1>1. /\ bridge[s] \in Bridges /\ bridge[s] # NULL /\ cell[bridge[s]] \in Cells
      /\ frame[s].bridge = bridge[s]
  BY EndsFacts DEF CallbackReturns
<1>2. cell \in [Bridges -> Cells \cup {NULL}]
  BY DEF BridgeOK, BridgeType
<1>3. cell' = [cell EXCEPT ![bridge[s]] = new]
  BY <1>1 DEF CallbackReturns, Answered
<1>4. new \in Cells /\ new.call = cell[bridge[s]].call /\ new.response = r /\ new.returned
  BY <1>1, WrittenCell
<1> HIDE DEF new
<1> QED BY <1>1, <1>2, <1>3, <1>4

LEMMA ReturnsOK ==
    ASSUME ChainOK, BridgeOK, NEW s \in Selves, NEW r \in Objects, CallbackReturns(s, r)
    PROVE  ChainOK' /\ BridgeOK'
<1>1. /\ ChainOK' /\ status[s] = "active" /\ status' = [status EXCEPT ![s] = "ended"]
      /\ frame' = [frame EXCEPT ![s] = NULL]
      /\ UNCHANGED <<bridge, data, made>>
      /\ bridge[s] # NULL
  BY EndsFacts DEF CallbackReturns
<1>2. /\ cell'[bridge[s]] \in Cells
      /\ \A b \in Bridges : b # bridge[s] => cell'[b] = cell[b]
      /\ cell' \in [Bridges -> Cells \cup {NULL}]
  BY ReturnsFacts
<1>3. BridgeType'
  BY <1>1, <1>2 DEF BridgeOK, BridgeType
<1>4. status'[s] = "ended" /\ frame'[s] = NULL
  BY <1>1 DEF ChainOK, BridgeOK, BridgeType
<1>5. ASSUME NEW t \in Selves \ {s}
      PROVE  /\ bridge'[t] = bridge[t] /\ data'[t] = data[t] /\ frame'[t] = frame[t]
             /\ status'[t] = status[t]
             /\ bridge[t] # NULL => cell'[bridge[t]] = cell[bridge[t]]
  <2>1. bridge[t] # NULL => bridge[t] # bridge[s] /\ bridge[t] \in Bridges
    BY DEF BridgeOK, BridgeType, BridgeOwned
  <2> QED BY <2>1, <1>1, <1>2 DEF BridgeOK, BridgeType, ChainOK
<1>6. cell'[bridge[s]] # NULL
  BY <1>2, PyAssumption
<1>7. ASSUME NEW t \in Selves PROVE (BridgeOwned(t) /\ BridgeUsed(t))'
  <2>1. BridgeOwned(t) /\ BridgeUsed(t)
    BY DEF BridgeOK
  <2>2. CASE t = s
    <3>1. BridgeOwned(s)'
      BY <2>1, <2>2, <1>1, <1>4, <1>6 DEF BridgeOwned
    <3>2. BridgeUsed(s)'
      BY <1>4 DEF BridgeUsed
    <3> QED BY <2>2, <3>1, <3>2
  <2>3. CASE t # s
    <3>1. BridgeOwned(t)'
      BY <2>1, <2>3, <1>1, <1>5 DEF BridgeOwned
    <3>2. status[t] \in {"fresh", "active", "suspended"} => bridge[t] # NULL
      BY <2>1 DEF BridgeOwned
    <3>3. BridgeUsed(t)'
      BY <3>2, <2>1, <2>3, <1>5 DEF BridgeUsed
    <3> QED BY <3>1, <3>3
  <2> QED BY <2>2, <2>3
<1> QED BY <1>1, <1>3, <1>7 DEF BridgeOK

LEMMA SameBridges ==
    ChainOK /\ BridgeOK /\ UNCHANGED <<chain, bridge, data, cell, made, frame>>
        => ChainOK' /\ BridgeOK'
<1> SUFFICES ASSUME ChainOK, BridgeOK, UNCHANGED <<chain, bridge, data, cell, made, frame>>
             PROVE  ChainOK' /\ BridgeOK'
  OBVIOUS
<1>1. ChainOK'
  BY SameChain
<1>2. status' = status
  BY DEF chain
<1>3. BridgeOK'
  BY <1>2 DEF BridgeOK, BridgeType, BridgeOwned, BridgeUsed
<1> QED BY <1>1, <1>3

-----------------------------------------------------------------------------
(* The invariant                                                           *)

LEMMA InitIInv == Init => IInv
<1> SUFFICES ASSUME Init PROVE IInv
  OBVIOUS
<1>1. ChainOK
  BY PyAssumption DEF Init, Chain!Init, Chain!Flows, ChainOK, Flows
<1>2. BridgeOK
  BY PyAssumption DEF Init, Chain!Init, BridgeOK, BridgeType, BridgeOwned, BridgeUsed
<1>3. RestType
  BY DEF Init, RestType
<1> QED BY <1>1, <1>2, <1>3 DEF IInv

LEMMA ManageIInv ==
    ASSUME IInv, NEW s \in Selves, Manage(s)
    PROVE  IInv'
<1> USE DEF IInv
<1>1. ASSUME NEW o \in Objects, Cinit(s, o) \/ CoroReset(s, o)
      PROVE  IInv'
  <2>1. ChainOK' /\ BridgeOK'
    BY <1>1, SetUpOK
  <2>2. RestType'
    <3>1. refs' = [refs EXCEPT ![o] = @ + 1]
      BY <1>1 DEF Cinit, CoroReset, NewBridge
    <3>2. /\ switcher' = switcher \/ switcher' = [switcher EXCEPT ![s] = s]
          /\ told' = [told EXCEPT ![s] = NULL]
          /\ broken' = broken
      BY <1>1 DEF Cinit, CoroReset, Refit
    <3> QED BY <3>1, <3>2 DEF RestType
  <2> QED BY <2>1, <2>2
<1>2. ASSUME NEW t \in Selves, CoroUpdate(s, t)
      PROVE  IInv'
  <2>1. ChainOK' /\ BridgeOK'
    BY <1>2, SameBridges DEF CoroUpdate
  <2> QED BY <2>1, <1>2 DEF CoroUpdate, RestType
<1>3. CASE Dealloc(s)
  <2>1. ChainOK' /\ BridgeOK'
    BY <1>3, DisposeOK DEF Dealloc
  <2>2. bridge[s] # NULL
    BY <1>3 DEF Dealloc, Dispose, Disposable, BridgeOK, BridgeOwned
  <2>3. refs' \in [Objects -> Int]
    BY <1>3, <2>2 DEF Dealloc, RestType, Release, One
  <2>4. UNCHANGED <<switcher, told>> /\ broken' \in {broken, "wild"}
    BY <1>3 DEF Dealloc, Dispose
  <2> QED BY <2>1, <2>3, <2>4 DEF RestType
<1>4. CASE Response(s)
  <2>1. ChainOK' /\ BridgeOK'
    BY <1>4, SameBridges DEF Response
  <2> QED BY <2>1, <1>4 DEF Response, RestType
<1> QED BY <1>1, <1>2, <1>3, <1>4 DEF Manage

LEMMA CallbackIInv ==
    ASSUME IInv, NEW s \in Selves, Callback(s)
    PROVE  IInv'
<1> USE DEF IInv
<1>1. ASSUME NEW v \in Codes, CoroYieldValue(s, v)
      PROVE  IInv'
  <2>1. ChainOK' /\ BridgeOK'
    BY <1>1, YieldOK
  <2>2. UNCHANGED <<switcher, refs, broken>> /\ told' = [told EXCEPT ![s] = v]
    BY <1>1 DEF CoroYieldValue, LeaveWith
  <2> QED BY <2>1, <2>2 DEF RestType
<1>2. CASE CoroYield(s)
  <2>1. CoroYieldValue(s, FINISHED) /\ FINISHED \in Codes
    BY <1>2 DEF CoroYield, CoroYieldValue, Codes
  <2> QED BY <2>1, <1>1
<1>3. ASSUME Ends(s), ChainOK', BridgeOK', refs' \in [Objects -> Int]
      PROVE  IInv'
  <2>1. UNCHANGED <<switcher, broken>> /\ told' = [told EXCEPT ![s] = 0] /\ 0 \in Codes
    BY <1>3 DEF Ends, LeaveWith, Codes, MAY_RESUME
  <2> QED BY <2>1, <1>3 DEF RestType
<1>4. ASSUME NEW r \in Objects, CallbackReturns(s, r)
      PROVE  IInv'
  <2>1. refs' \in [Objects -> Int]
    BY <1>4 DEF CallbackReturns, RestType, One
  <2> QED BY <2>1, <1>3, <1>4, ReturnsOK DEF CallbackReturns
<1>5. CASE CallbackRaises(s)
  <2>1. frame[s] \in Frames
    BY <1>5, EndsFacts DEF CallbackRaises
  <2>2. refs' \in [Objects -> Int]
    BY <1>5, <2>1 DEF CallbackRaises, RestType, Frames
  <2> QED BY <2>2, <1>3, <1>5, RaisesOK DEF CallbackRaises
<1> QED BY <1>1, <1>2, <1>4, <1>5 DEF Callback

LEMMA ResumeIInv ==
    ASSUME IInv, NEW f \in Flows, NEW s \in Selves,
           CoroResume(f, s) \/ CoroResumeValue(f, s) \/ CoroResumeEnded(f, s)
    PROVE  IInv'
<1> USE DEF IInv
<1>1. CASE CoroResume(f, s) \/ CoroResumeValue(f, s)
  <2>1. ChainOK' /\ BridgeOK'
    BY <1>1, ResumeOK
  <2>2. UNCHANGED <<switcher, told, broken>> /\ Begin(s)
    BY <1>1 DEF CoroResume, CoroResumeValue
  <2>3. refs' \in [Objects -> Int]
    <3>1. CASE status[s] = "fresh"
      <4>1. refs' = [refs EXCEPT ![cell[data[s]].call] = @ + 1]
        BY <2>2, <3>1 DEF Begin
      <4>2. data[s] = bridge[s] /\ cell[bridge[s]] \in Cells
        BY <3>1, CellFacts DEF BridgeOK, BridgeOwned, BridgeUsed
      <4> QED BY <4>1, <4>2 DEF RestType, Cells
    <3>2. CASE status[s] # "fresh"
      BY <2>2, <3>2 DEF Begin, RestType
    <3> QED BY <3>1, <3>2
  <2> QED BY <2>1, <2>2, <2>3 DEF RestType
<1>2. CASE CoroResumeEnded(f, s)
  <2>1. ChainOK' /\ BridgeOK'
    BY <1>2, SameBridges DEF CoroResumeEnded
  <2> QED BY <2>1, <1>2 DEF CoroResumeEnded, RestType
<1> QED BY <1>1, <1>2

LEMMA StutterIInv == IInv /\ UNCHANGED vars => IInv'
BY SameBridges DEF IInv, RestType, vars

LEMMA NextIInv == IInv /\ [Next]_vars => IInv'
BY ManageIInv, CallbackIInv, ResumeIInv, StutterIInv DEF Next, Chain!Flows, Flows

THEOREM Invariance == Spec => []IInv
BY InitIInv, NextIInv, PTL DEF Spec

\* The type invariant.
THEOREM TypeCorrect == Spec => []TypeOK
<1>1. IInv => TypeOK
  BY DEF IInv, ChainOK, BridgeOK, BridgeType, RestType, TypeOK, Flows, Chain!Flows, Chain!Status
<1> QED BY <1>1, Invariance, PTL

\* For any Coroutines, callback_wrap() reads and writes the bridge that its
\* Coroutine holds, and never one that is freed or somebody else's.
THEOREM BridgesAreOwn == Spec => []CallbackUsesItsBridge
<1>1. IInv => CallbackUsesItsBridge
  <2> SUFFICES ASSUME IInv, NEW s \in Selves
      PROVE  /\ status[s] = "fresh" => data[s] = bridge[s] /\ cell[bridge[s]] # NULL
             /\ frame[s] # NULL =>
                   /\ frame[s].bridge = bridge[s]
                   /\ cell[bridge[s]] # NULL
                   /\ frame[s].call = cell[bridge[s]].call
             /\ status[s] \in {"active", "suspended"} <=> frame[s] # NULL
             /\ \A t \in Selves \ {s} : bridge[s] # NULL => bridge[s] # bridge[t]
    BY DEF CallbackUsesItsBridge
  <2>1. BridgeOwned(s) /\ BridgeUsed(s)
    BY DEF IInv, BridgeOK
  <2> QED BY <2>1 DEF BridgeOwned, BridgeUsed
<1> QED BY <1>1, Invariance, PTL

-----------------------------------------------------------------------------
(* The refinement                                                          *)

calls == [s \in Selves |-> CallOf(s)]
answers == [s \in Selves |-> AnswerOf(s)]
settleds == [s \in Selves |-> Settled(s)]
view == <<calls, answers, settleds>>

LEMMA MapsInit == Init => Future!Init
<1> SUFFICES ASSUME Init PROVE Future!Init
  OBVIOUS
<1>1. \A s \in Selves : bridge[s] = NULL
  BY DEF Init
<1>2. calls = [s \in Selves |-> NULL] /\ answers = [s \in Selves |-> NULL]
  BY <1>1 DEF calls, answers, CallOf, AnswerOf
<1>3. settleds = [s \in Selves |-> FALSE]
  BY <1>1 DEF settleds, Settled
<1> QED BY <1>2, <1>3 DEF Future!Init, calls, answers, settleds

\* The view of a Coroutine depends on its own bridge alone.
LEMMA SameView ==
    ASSUME NEW t \in Selves, bridge'[t] = bridge[t],
           bridge[t] # NULL => cell'[bridge[t]] = cell[bridge[t]]
    PROVE  CallOf(t)' = CallOf(t) /\ AnswerOf(t)' = AnswerOf(t) /\ Settled(t)' = Settled(t)
BY DEF CallOf, AnswerOf, Settled

LEMMA OneChanges ==
    ASSUME NEW f, NEW g, NEW s \in Selves, NEW v,
           f = [t \in Selves |-> f[t]], g = [t \in Selves |-> g[t]],
           g[s] = v, \A t \in Selves \ {s} : g[t] = f[t]
    PROVE  g = [f EXCEPT ![s] = v]
OBVIOUS

\* A step that changes what is seen of one Coroutine.
LEMMA ViewOfOne ==
    ASSUME NEW s \in Selves, NEW c, NEW a, NEW z,
           CallOf(s)' = c, AnswerOf(s)' = a, Settled(s)' = z,
           \A t \in Selves \ {s} : /\ CallOf(t)' = CallOf(t) /\ AnswerOf(t)' = AnswerOf(t)
                                   /\ Settled(t)' = Settled(t)
    PROVE  /\ calls' = [calls EXCEPT ![s] = c]
           /\ answers' = [answers EXCEPT ![s] = a]
           /\ settleds' = [settleds EXCEPT ![s] = z]
<1>1. calls' = [calls EXCEPT ![s] = c] /\ answers' = [answers EXCEPT ![s] = a]
  BY DEF calls, answers
<1>2. settleds' = [settleds EXCEPT ![s] = z]
  BY OneChanges DEF settleds
<1> QED BY <1>1, <1>2

LEMMA MapsSetUp ==
    ASSUME IInv, NEW s \in Selves, NEW o \in Objects, Cinit(s, o) \/ CoroReset(s, o)
    PROVE  Future!Start(s)
<1>1. ChainOK /\ BridgeOK
  BY DEF IInv
<1>2. PICK cells :
        /\ NewBridge(s, o, cells)
        /\ \/ cells = cell
           \/ bridge[s] # NULL /\ cells = [cell EXCEPT ![bridge[s]] = NULL]
  <2>1. CASE Cinit(s, o)
    BY <2>1 DEF Cinit
  <2>2. CASE CoroReset(s, o)
    <3>1. bridge[s] # NULL
      BY <1>1, <2>2 DEF CoroReset, Refit, Chain!Restart, BridgeOK, BridgeOwned
    <3> QED BY <2>2, <3>1 DEF CoroReset
  <2> QED BY <2>1, <2>2
<1>3. PICK left \in Left :
        cell' = [cells EXCEPT ![made + 1] = [call |-> o, response |-> left, returned |-> FALSE]]
  BY <1>2 DEF NewBridge
<1> DEFINE b == made + 1
           fresh == [call |-> o, response |-> left, returned |-> FALSE]
<1>4. b \in Bridges /\ fresh \in Cells
  BY <1>1, <1>2, PyAssumption DEF NewBridge, Bridges, BridgeOK, BridgeType, Cells
<1>5. cells \in [Bridges -> Cells \cup {NULL}]
  BY <1>1, <1>2 DEF BridgeOK, BridgeType
<1>6. bridge' = [bridge EXCEPT ![s] = b] /\ cell' = [cells EXCEPT ![b] = fresh]
  BY <1>2, <1>3 DEF NewBridge
<1>7. bridge'[s] = b /\ cell'[b] = fresh /\ b # NULL
  BY <1>1, <1>4, <1>5, <1>6, PyAssumption DEF BridgeOK, BridgeType
<1>8. fresh.call = o /\ fresh.response = left /\ ~fresh.returned
  OBVIOUS
<1>9. ASSUME NEW t \in Selves \ {s}
      PROVE  CallOf(t)' = CallOf(t) /\ AnswerOf(t)' = AnswerOf(t) /\ Settled(t)' = Settled(t)
  <2>1. bridge[t] # NULL => bridge[t] \in Bridges /\ bridge[t] <= made /\ bridge[t] # bridge[s]
    BY <1>1 DEF BridgeOK, BridgeType, BridgeOwned
  <2>2. bridge[t] # NULL => bridge[t] # b
    BY <2>1, <1>1 DEF BridgeOK, BridgeType, Bridges
  <2>3. bridge[t] # NULL => cell'[bridge[t]] = cell[bridge[t]]
    BY <2>1, <2>2, <1>1, <1>2, <1>4, <1>5, <1>6 DEF BridgeOK, BridgeType
  <2>4. bridge'[t] = bridge[t]
    BY <1>1, <1>6 DEF BridgeOK, BridgeType
  <2> QED BY <2>3, <2>4, SameView
<1> HIDE DEF b, fresh
<1>10. CallOf(s)' = o /\ AnswerOf(s)' = left
  BY <1>7, <1>8 DEF CallOf, AnswerOf
<1>11. Settled(s)' = FALSE
  BY <1>7, <1>8 DEF Settled
<1>12. /\ calls' = [calls EXCEPT ![s] = o] /\ answers' = [answers EXCEPT ![s] = left]
       /\ settleds' = [settleds EXCEPT ![s] = FALSE]
  BY <1>9, <1>10, <1>11, ViewOfOne
<1> QED BY <1>12 DEF Future!Start, calls, answers, settleds

LEMMA MapsDealloc ==
    ASSUME IInv, NEW s \in Selves, Dealloc(s)
    PROVE  Future!Drop(s)
<1>1. ChainOK /\ BridgeOK
  BY DEF IInv
<1>2. /\ status[s] # "none"
      /\ bridge' = [bridge EXCEPT ![s] = NULL]
      /\ cell' = [cell EXCEPT ![bridge[s]] = NULL]
  BY DEF Dealloc, Dispose, Disposable
<1>3. bridge[s] # NULL /\ cell[bridge[s]] \in Cells
  BY <1>1, <1>2, CellFacts DEF BridgeOK, BridgeOwned
<1>4. CallOf(s) # NULL
  BY <1>3, PyAssumption DEF CallOf, Cells
<1>5. bridge'[s] = NULL
  BY <1>1, <1>2 DEF BridgeOK, BridgeType
<1>6. CallOf(s)' = NULL /\ AnswerOf(s)' = NULL
  BY <1>5 DEF CallOf, AnswerOf
<1>7. Settled(s)' = FALSE
  BY <1>5 DEF Settled
<1>8. ASSUME NEW t \in Selves \ {s}
      PROVE  CallOf(t)' = CallOf(t) /\ AnswerOf(t)' = AnswerOf(t) /\ Settled(t)' = Settled(t)
  <2>1. bridge[t] # NULL => bridge[t] \in Bridges /\ bridge[t] # bridge[s]
    BY <1>1 DEF BridgeOK, BridgeType, BridgeOwned
  <2>2. bridge'[t] = bridge[t] /\ (bridge[t] # NULL => cell'[bridge[t]] = cell[bridge[t]])
    BY <2>1, <1>1, <1>2 DEF BridgeOK, BridgeType
  <2> QED BY <2>2, SameView
<1>9. /\ calls' = [calls EXCEPT ![s] = NULL] /\ answers' = [answers EXCEPT ![s] = NULL]
      /\ settleds' = [settleds EXCEPT ![s] = FALSE]
  BY <1>6, <1>7, <1>8, ViewOfOne
<1>10. calls[s] # NULL
  BY <1>4 DEF calls
<1> QED BY <1>9, <1>10 DEF Future!Drop, calls, answers, settleds

LEMMA MapsReturn ==
    ASSUME IInv, NEW s \in Selves, NEW r \in Objects, CallbackReturns(s, r)
    PROVE  Future!Answer(s)
<1>1. ChainOK /\ BridgeOK
  BY DEF IInv
<1>2. /\ bridge[s] # NULL /\ cell[bridge[s]] \in Cells
      /\ ~cell[bridge[s]].returned /\ bridge' = bridge
  BY <1>1, EndsFacts DEF CallbackReturns
<1>3. /\ cell'[bridge[s]].response = r /\ cell'[bridge[s]].returned
      /\ cell'[bridge[s]].call = cell[bridge[s]].call
      /\ \A b \in Bridges : b # bridge[s] => cell'[b] = cell[b]
  BY <1>1, ReturnsFacts
<1>4. CallOf(s) # NULL
  BY <1>2, PyAssumption DEF CallOf, Cells
<1>5. CallOf(s)' = CallOf(s) /\ AnswerOf(s)' = r
  BY <1>2, <1>3 DEF CallOf, AnswerOf
<1>6. ~Settled(s)
  BY <1>2 DEF Settled
<1>7. Settled(s)' = TRUE
  BY <1>2, <1>3 DEF Settled
<1>8. ASSUME NEW t \in Selves \ {s}
      PROVE  CallOf(t)' = CallOf(t) /\ AnswerOf(t)' = AnswerOf(t) /\ Settled(t)' = Settled(t)
  <2>1. bridge[t] # NULL => bridge[t] \in Bridges /\ bridge[t] # bridge[s]
    BY <1>1 DEF BridgeOK, BridgeType, BridgeOwned
  <2> QED BY <2>1, <1>2, <1>3, SameView
<1>9. /\ answers' = [answers EXCEPT ![s] = r]
      /\ settleds' = [settleds EXCEPT ![s] = TRUE]
  BY <1>5, <1>7, <1>8, ViewOfOne
<1>10. calls' = calls
  BY <1>5, <1>8 DEF calls
<1>11. calls[s] # NULL
  BY <1>4 DEF calls
<1>12. ~settleds[s]
  BY <1>6 DEF settleds
<1> QED BY <1>9, <1>10, <1>11, <1>12 DEF Future!Answer, calls, answers, settleds

LEMMA MapsStutter == UNCHANGED <<bridge, cell>> => UNCHANGED view
BY DEF view, calls, answers, settleds, CallOf, AnswerOf, Settled

LEMMA MapsNext == IInv /\ [Next]_vars => [Future!Next]_view
<1> SUFFICES ASSUME IInv, [Next]_vars PROVE [Future!Next]_view
  OBVIOUS
<1>1. CASE UNCHANGED vars
  BY <1>1, MapsStutter DEF vars
<1>2. ASSUME NEW s \in Selves, Manage(s)
      PROVE  [Future!Next]_view
  <2>1. ASSUME NEW t \in Selves, CoroUpdate(s, t)
        PROVE  UNCHANGED <<bridge, cell>>
    BY <2>1 DEF CoroUpdate
  <2>2. CASE Response(s)
    BY <2>2, MapsStutter DEF Response
  <2> QED BY <1>2, <2>1, <2>2, MapsStutter, MapsSetUp, MapsDealloc DEF Manage, Future!Next
<1>3. ASSUME NEW s \in Selves, Callback(s)
      PROVE  [Future!Next]_view
  <2>1. CASE CoroYield(s) \/ (\E v \in Codes : CoroYieldValue(s, v)) \/ CallbackRaises(s)
    <3>1. UNCHANGED <<bridge, cell>>
      BY <2>1 DEF CoroYield, CoroYieldValue, CallbackRaises, Ends
    <3> QED BY <3>1, MapsStutter
  <2> QED BY <1>3, <2>1, MapsReturn DEF Callback, Future!Next
<1>4. ASSUME NEW s \in Selves, NEW f,
             CoroResume(f, s) \/ CoroResumeValue(f, s) \/ CoroResumeEnded(f, s)
      PROVE  [Future!Next]_view
  <2>1. UNCHANGED <<bridge, cell>>
    BY <1>4 DEF CoroResume, CoroResumeValue, CoroResumeEnded
  <2> QED BY <2>1, MapsStutter
<1> QED BY <1>1, <1>2, <1>3, <1>4 DEF Next

\* coro.pyx implements futures: for any Coroutines, and whatever malloc()
\* leaves where the answer will be, answers are written once, in the
\* Coroutine whose callback returned, and nowhere else.
THEOREM ImplementsFutures == Spec => RefinesFutures
BY Invariance, MapsInit, MapsNext, PTL
   DEF Spec, RefinesFutures, Future!Spec, Future!fvars, view, calls, answers, settleds

-----------------------------------------------------------------------------
(* The reference counts                                                    *)

CallHolders(o) == {b \in Bridges : cell[b] # NULL /\ cell[b].call = o}
ResponseHolders(o) ==
    {b \in Bridges : cell[b] # NULL /\ cell[b].returned /\ cell[b].response = o}
FrameHolders(o) == {s \in Selves : frame[s] # NULL /\ frame[s].call = o}

LEMMA CountGrows ==
    ASSUME NEW S, IsFiniteSet(S), NEW e, NEW T \in SUBSET (S \cup {e})
    PROVE  Cardinality(T) <= Cardinality(S) + 1
<1>1. /\ IsFiniteSet(S \cup {e})
      /\ Cardinality(S \cup {e}) = Cardinality(S) \/ Cardinality(S \cup {e}) = Cardinality(S) + 1
  BY FS_AddElement
<1>2. Cardinality(T) <= Cardinality(S \cup {e}) /\ IsFiniteSet(T)
  BY <1>1, FS_Subset
<1>3. Cardinality(T) \in Nat /\ Cardinality(S) \in Nat
  BY <1>2, FS_CardinalityType
<1> QED BY <1>1, <1>2, <1>3

LEMMA CountShrinks ==
    ASSUME NEW S, IsFiniteSet(S), NEW e \in S
    PROVE  Cardinality(S \ {e}) = Cardinality(S) - 1
BY FS_RemoveElement

LEMMA Countable ==
    /\ \A S \in SUBSET Bridges : IsFiniteSet(S) /\ Cardinality(S) \in Nat
    /\ \A S \in SUBSET Selves : IsFiniteSet(S) /\ Cardinality(S) \in Nat
<1>1. IsFiniteSet(Bridges) /\ IsFiniteSet(Selves)
  BY FS_Interval, PyAssumption DEF Bridges
<1> QED BY <1>1, FS_Subset, FS_CardinalityType

LEMMA HoldersFinite ==
    ASSUME NEW o
    PROVE  /\ IsFiniteSet(CallHolders(o)) /\ Cardinality(CallHolders(o)) \in Nat
           /\ IsFiniteSet(ResponseHolders(o)) /\ Cardinality(ResponseHolders(o)) \in Nat
           /\ IsFiniteSet(FrameHolders(o)) /\ Cardinality(FrameHolders(o)) \in Nat
           /\ Cardinality(CallHolders(o))' \in Nat
           /\ Cardinality(ResponseHolders(o))' \in Nat
           /\ Cardinality(FrameHolders(o))' \in Nat
<1>1. /\ CallHolders(o) \subseteq Bridges /\ ResponseHolders(o) \subseteq Bridges
      /\ FrameHolders(o) \subseteq Selves
  BY DEF CallHolders, ResponseHolders, FrameHolders
<1>2. /\ CallHolders(o)' \subseteq Bridges /\ ResponseHolders(o)' \subseteq Bridges
      /\ FrameHolders(o)' \subseteq Selves
  BY DEF CallHolders, ResponseHolders, FrameHolders
<1> QED BY <1>1, <1>2, Countable

LEMMA HeldSum ==
    ASSUME NEW o
    PROVE  HeldBy(o) = Cardinality(CallHolders(o)) + Cardinality(ResponseHolders(o))
                       + Cardinality(FrameHolders(o))
BY DEF HeldBy, CallHolders, ResponseHolders, FrameHolders

\* By how much the count of o is too high.
Slack(o) == refs[o] - HeldBy(o)

LEMMA SlackSum ==
    ASSUME NEW o
    PROVE  /\ Slack(o) = refs[o] - (Cardinality(CallHolders(o)) + Cardinality(ResponseHolders(o))
                                    + Cardinality(FrameHolders(o)))
           /\ Slack(o)' = refs'[o] - (Cardinality(CallHolders(o))' + Cardinality(ResponseHolders(o))'
                                      + Cardinality(FrameHolders(o))')
BY DEF Slack, HeldBy, CallHolders, ResponseHolders, FrameHolders

LEMMA SlackType ==
    ASSUME IInv, IInv', NEW x \in Objects
    PROVE  Slack(x) \in Int /\ Slack(x)' \in Int
<1>1. refs[x] \in Int /\ refs'[x] \in Int
  BY DEF IInv, RestType
<1> QED BY <1>1, SlackSum, HoldersFinite

\* What the steps below use: how far each kind of holder may have grown.
LEMMA HeldStep ==
    ASSUME NEW o, NEW i \in Int, NEW j \in Int, NEW k \in Int, refs[o] \in Int,
           Cardinality(CallHolders(o))' <= Cardinality(CallHolders(o)) + i,
           Cardinality(ResponseHolders(o))' <= Cardinality(ResponseHolders(o)) + j,
           Cardinality(FrameHolders(o))' <= Cardinality(FrameHolders(o)) + k,
           refs'[o] = refs[o] + i + j + k
    PROVE  Slack(o)' >= Slack(o)
BY SlackSum, HoldersFinite

\* No kind of holder has grown.
LEMMA HeldShrinks ==
    ASSUME NEW o, refs[o] \in Int,
           CallHolders(o)' \subseteq CallHolders(o),
           ResponseHolders(o)' \subseteq ResponseHolders(o),
           FrameHolders(o)' \subseteq FrameHolders(o),
           refs'[o] = refs[o]
    PROVE  Slack(o)' >= Slack(o)
<1>1. /\ Cardinality(CallHolders(o))' <= Cardinality(CallHolders(o))
      /\ Cardinality(ResponseHolders(o))' <= Cardinality(ResponseHolders(o))
      /\ Cardinality(FrameHolders(o))' <= Cardinality(FrameHolders(o))
  BY HoldersFinite, FS_Subset
<1> QED BY <1>1, SlackSum, HoldersFinite

\* The count follows its holders exactly.
LEMMA SlackStep ==
    ASSUME NEW o, NEW i \in Int, NEW j \in Int, NEW k \in Int, refs[o] \in Int,
           Cardinality(CallHolders(o))' = Cardinality(CallHolders(o)) + i,
           Cardinality(ResponseHolders(o))' = Cardinality(ResponseHolders(o)) + j,
           Cardinality(FrameHolders(o))' = Cardinality(FrameHolders(o)) + k,
           refs'[o] = refs[o] + i + j + k
    PROVE  Slack(o)' = Slack(o)
BY SlackSum, HoldersFinite

LEMMA SameSlack ==
    ASSUME UNCHANGED <<cell, frame, refs>>, NEW x
    PROVE  Slack(x)' = Slack(x)
BY DEF Slack, HeldBy

\* Setting up may only add to the slack, as a reset gives nothing back.
LEMMA SetUpSlack ==
    ASSUME IInv, NEW s \in Selves, NEW o \in Objects, Cinit(s, o) \/ CoroReset(s, o),
           NEW x \in Objects
    PROVE  Slack(x)' >= Slack(x)
<1>1. PICK cells :
        /\ NewBridge(s, o, cells)
        /\ \A b \in Bridges : cells[b] = cell[b] \/ cells[b] = NULL
        /\ cells \in [Bridges -> Cells \cup {NULL}]
  <2>1. cell \in [Bridges -> Cells \cup {NULL}]
    BY DEF IInv, BridgeOK, BridgeType
  <2>2. CASE Cinit(s, o)
    BY <2>1, <2>2 DEF Cinit
  <2>3. CASE CoroReset(s, o)
    <3> DEFINE cells == [cell EXCEPT ![bridge[s]] = NULL]
    <3>1. NewBridge(s, o, cells)
      BY <2>3 DEF CoroReset
    <3>2. \A b \in Bridges : cells[b] = cell[b] \/ cells[b] = NULL
      BY <2>1
    <3>3. cells \in [Bridges -> Cells \cup {NULL}]
      BY <2>1
    <3> QED BY <3>1, <3>2, <3>3
  <2> QED BY <2>2, <2>3
<1>2. \A b \in Bridges :
        cell'[b] \in {cell[b], NULL}
          \/ (b = made + 1 /\ cell'[b].call = o /\ ~cell'[b].returned)
  <2>1. PICK left \in Left :
          cell' = [cells EXCEPT ![made + 1] =
                      [call |-> o, response |-> left, returned |-> FALSE]]
    BY <1>1 DEF NewBridge
  <2> QED BY <1>1, <2>1
<1>3. frame' = frame \/ frame' = [frame EXCEPT ![s] = NULL]
  BY DEF Cinit, CoroReset, Refit
<1>4. refs' = [refs EXCEPT ![o] = @ + 1] /\ refs \in [Objects -> Int]
  BY <1>1 DEF NewBridge, IInv, RestType
<1>5. ResponseHolders(x)' \subseteq ResponseHolders(x)
  BY <1>2, PyAssumption DEF ResponseHolders
<1>6. FrameHolders(x)' \subseteq FrameHolders(x)
  BY <1>3 DEF FrameHolders, IInv, BridgeOK, BridgeType
<1>7. CASE x = o
  <2>1. CallHolders(x)' \subseteq CallHolders(x) \cup {made + 1}
    BY <1>2 DEF CallHolders
  <2>2. Cardinality(CallHolders(x))' <= Cardinality(CallHolders(x)) + 1
    BY <2>1, HoldersFinite, CountGrows
  <2>3. /\ Cardinality(ResponseHolders(x))' <= Cardinality(ResponseHolders(x)) + 0
        /\ Cardinality(FrameHolders(x))' <= Cardinality(FrameHolders(x)) + 0
    BY <1>5, <1>6, HoldersFinite, FS_Subset
  <2>4. refs[x] \in Int /\ refs'[x] = refs[x] + 1
    BY <1>4, <1>7
  <2>5. refs'[x] = refs[x] + 1 + 0 + 0
    BY <2>4
  <2> QED BY <2>2, <2>3, <2>4, <2>5, HeldStep
<1>8. CASE x # o
  <2>1. CallHolders(x)' \subseteq CallHolders(x)
    BY <1>2, <1>8 DEF CallHolders
  <2>2. refs[x] \in Int /\ refs'[x] = refs[x]
    BY <1>4, <1>8
  <2> QED BY <2>1, <2>2, <1>5, <1>6, HeldShrinks
<1> QED BY <1>7, <1>8


\* Bridges that were not made yet hold nothing.
UnmadeInv == \A b \in Bridges : b > made => cell[b] = NULL

LEMMA UnmadeNext == IInv /\ UnmadeInv /\ [Next]_vars => UnmadeInv'
<1> SUFFICES ASSUME IInv, UnmadeInv, [Next]_vars PROVE UnmadeInv'
  OBVIOUS
<1>1. made \in Nat /\ cell \in [Bridges -> Cells \cup {NULL}]
  BY PyAssumption DEF IInv, BridgeOK, BridgeType
<1>2. CASE UNCHANGED <<cell, made>>
  BY <1>2 DEF UnmadeInv
<1>3. ASSUME NEW s \in Selves, Manage(s)
      PROVE  UnmadeInv'
  <2>1. CASE (\E t \in Selves : CoroUpdate(s, t)) \/ Response(s)
    BY <2>1, <1>2 DEF CoroUpdate, Response
  <2>2. CASE Dealloc(s)
    BY <2>2, <1>1 DEF Dealloc, Dispose, UnmadeInv
  <2>3. ASSUME NEW o \in Objects, Cinit(s, o) \/ CoroReset(s, o)
        PROVE  UnmadeInv'
    <3>1. PICK cells : /\ NewBridge(s, o, cells)
                       /\ \A b \in Bridges : cells[b] \in {cell[b], NULL}
                       /\ cells \in [Bridges -> Cells \cup {NULL}]
      <4>1. CASE Cinit(s, o)
        BY <4>1, <1>1 DEF Cinit
      <4>2. CASE CoroReset(s, o)
        <5> DEFINE cells == [cell EXCEPT ![bridge[s]] = NULL]
        <5>1. NewBridge(s, o, cells)
          BY <4>2 DEF CoroReset
        <5>2. /\ \A b \in Bridges : cells[b] \in {cell[b], NULL}
              /\ cells \in [Bridges -> Cells \cup {NULL}]
          BY <1>1
        <5> QED BY <5>1, <5>2
      <4> QED BY <2>3, <4>1, <4>2
    <3>2. \A b \in Bridges : b # made + 1 => cell'[b] \in {cell[b], NULL}
      BY <3>1 DEF NewBridge
    <3>3. made' = made + 1
      BY <3>1 DEF NewBridge
    <3> QED BY <3>2, <3>3, <1>1 DEF UnmadeInv, Bridges
  <2> QED BY <1>3, <2>1, <2>2, <2>3 DEF Manage
<1>4. ASSUME NEW s \in Selves, Callback(s)
      PROVE  UnmadeInv'
  <2>1. ASSUME NEW r \in Objects, CallbackReturns(s, r)
        PROVE  UnmadeInv'
    <3>1. ChainOK /\ BridgeOK /\ Ends(s)
      BY <2>1 DEF IInv, CallbackReturns
    <3>2. /\ bridge[s] \in Bridges /\ made' = made
          /\ \A b \in Bridges : b # bridge[s] => cell'[b] = cell[b]
      BY <2>1, <3>1, EndsFacts, ReturnsFacts
    <3>3. bridge[s] <= made
      BY <3>1, EndsFacts DEF BridgeOK, BridgeOwned
    <3> QED BY <3>2, <3>3, <1>1 DEF UnmadeInv, Bridges
  <2>2. CASE CoroYield(s) \/ (\E v \in Codes : CoroYieldValue(s, v)) \/ CallbackRaises(s)
    BY <2>2, <1>2 DEF CoroYield, CoroYieldValue, CallbackRaises, Ends
  <2> QED BY <1>4, <2>1, <2>2 DEF Callback
<1>5. ASSUME NEW s \in Selves, NEW f,
             CoroResume(f, s) \/ CoroResumeValue(f, s) \/ CoroResumeEnded(f, s)
      PROVE  UnmadeInv'
  BY <1>5, <1>2 DEF CoroResume, CoroResumeValue, CoroResumeEnded
<1> QED BY <1>2, <1>3, <1>4, <1>5 DEF Next, vars

LEMMA CinitSlack ==
    ASSUME IInv, UnmadeInv, NEW s \in Selves, NEW o \in Objects, Cinit(s, o), NEW x \in Objects
    PROVE  Slack(x)' = Slack(x)
<1> DEFINE b == made + 1
           i == IF x = o THEN 1 ELSE 0
<1>0. PICK left \in Left :
        cell' = [cell EXCEPT ![made + 1] = [call |-> o, response |-> left, returned |-> FALSE]]
  BY DEF Cinit, NewBridge
<1> DEFINE fresh == [call |-> o, response |-> left, returned |-> FALSE]
<1>1. /\ b \in Bridges /\ cell[b] = NULL
      /\ cell' = [cell EXCEPT ![b] = fresh]
      /\ cell \in [Bridges -> Cells \cup {NULL}]
      /\ refs' = [refs EXCEPT ![o] = @ + 1] /\ refs \in [Objects -> Int]
      /\ frame' = frame
  <2>1. made \in Nat /\ b \in Bridges
    BY PyAssumption DEF Cinit, NewBridge, Bridges, IInv, BridgeOK, BridgeType
  <2>2. b > made
    BY <2>1
  <2> QED BY <2>1, <2>2, <1>0 DEF Cinit, NewBridge, UnmadeInv, IInv, BridgeOK, BridgeType, RestType
<1>2. fresh \in Cells /\ fresh.call = o /\ ~fresh.returned
  BY DEF Cells
<1> HIDE DEF fresh
<1>3. fresh # NULL
  BY <1>2, PyAssumption
<1>4. /\ cell'[b] = fresh
      /\ \A c \in Bridges : c # b => cell'[c] = cell[c]
  BY <1>1
<1>5. Cardinality(CallHolders(x))' = Cardinality(CallHolders(x)) + i
  <2>1. CASE x = o
    <3>1. b \notin CallHolders(x) /\ CallHolders(x)' = CallHolders(x) \cup {b}
      BY <1>1, <1>2, <1>3, <1>4, <2>1 DEF CallHolders
    <3> QED BY <3>1, <2>1, HoldersFinite, FS_AddElement
  <2>2. CASE x # o
    <3>1. CallHolders(x)' = CallHolders(x)
      BY <1>1, <1>2, <1>4, <2>2 DEF CallHolders
    <3> QED BY <3>1, <2>2, HoldersFinite
  <2> QED BY <2>1, <2>2
<1>6. ResponseHolders(x)' = ResponseHolders(x)
  BY <1>1, <1>2, <1>4 DEF ResponseHolders
<1>7. FrameHolders(x)' = FrameHolders(x)
  BY <1>1 DEF FrameHolders
<1>8. refs[x] \in Int /\ refs'[x] = refs[x] + i + 0 + 0
  BY <1>1
<1>9. i \in Int
  OBVIOUS
<1>10. /\ Cardinality(ResponseHolders(x))' = Cardinality(ResponseHolders(x)) + 0
       /\ Cardinality(FrameHolders(x))' = Cardinality(FrameHolders(x)) + 0
  BY <1>6, <1>7, HoldersFinite
<1> HIDE DEF i, b
<1> QED BY <1>5, <1>8, <1>9, <1>10, SlackStep

\* A callback cut short keeps the reference of its locals; what malloc() left
\* in a bridge is given back though nobody held it.
LEMMA DeallocSlack ==
    ASSUME IInv, IInv', NEW s \in Selves, Dealloc(s), NEW x \in Objects
    PROVE  /\ cell[bridge[s]].returned \/ x # cell[bridge[s]].response => Slack(x)' >= Slack(x)
           /\ status[s] # "suspended" => Slack(x)' <= Slack(x)
<1> DEFINE b == bridge[s]
           i == IF x = cell[b].call THEN -1 ELSE 0
           j == IF cell[b].returned /\ x = cell[b].response THEN -1 ELSE 0
           d == IF ~cell[b].returned /\ x = cell[b].response THEN -1 ELSE 0
<1>1. /\ b \in Bridges /\ cell[b] \in Cells
      /\ cell' = [cell EXCEPT ![b] = NULL]
      /\ frame' = [frame EXCEPT ![s] = NULL]
  <2>1. bridge[s] # NULL
    BY DEF Dealloc, Dispose, Disposable, IInv, BridgeOK, BridgeOwned
  <2> QED BY <2>1, CellFacts DEF Dealloc, Dispose, IInv
<1>2. cell[b] # NULL
  BY <1>1, PyAssumption
<1>3. \A c \in Bridges : cell'[c] = IF c = b THEN NULL ELSE cell[c]
  BY <1>1 DEF IInv, BridgeOK, BridgeType
<1>4. Cardinality(CallHolders(x))' = Cardinality(CallHolders(x)) + i
  <2>1. CASE x = cell[b].call
    <3>1. b \in CallHolders(x) /\ CallHolders(x)' = CallHolders(x) \ {b}
      BY <1>1, <1>2, <1>3, <2>1 DEF CallHolders
    <3>2. Cardinality(CallHolders(x) \ {b}) = Cardinality(CallHolders(x)) - 1
      BY <3>1, HoldersFinite, CountShrinks
    <3> QED BY <3>1, <3>2, <2>1
  <2>2. CASE x # cell[b].call
    <3>1. CallHolders(x)' = CallHolders(x)
      BY <1>1, <1>3, <2>2 DEF CallHolders
    <3> QED BY <3>1, <2>2, HoldersFinite
  <2> QED BY <2>1, <2>2
<1>5. Cardinality(ResponseHolders(x))' = Cardinality(ResponseHolders(x)) + j
  <2>1. CASE cell[b].returned /\ x = cell[b].response
    <3>1. b \in ResponseHolders(x) /\ ResponseHolders(x)' = ResponseHolders(x) \ {b}
      BY <1>1, <1>2, <1>3, <2>1 DEF ResponseHolders
    <3>2. Cardinality(ResponseHolders(x) \ {b}) = Cardinality(ResponseHolders(x)) - 1
      BY <3>1, HoldersFinite, CountShrinks
    <3> QED BY <3>1, <3>2, <2>1
  <2>2. CASE ~(cell[b].returned /\ x = cell[b].response)
    <3>1. ResponseHolders(x)' = ResponseHolders(x)
      BY <1>1, <1>3, <2>2 DEF ResponseHolders
    <3> QED BY <3>1, <2>2, HoldersFinite
  <2> QED BY <2>1, <2>2
<1>6. Cardinality(FrameHolders(x))' <= Cardinality(FrameHolders(x))
  <2>1. FrameHolders(x)' \subseteq FrameHolders(x)
    BY <1>1 DEF FrameHolders, IInv, BridgeOK, BridgeType
  <2> QED BY <2>1, HoldersFinite, FS_Subset
<1>7. refs[x] \in Int /\ refs'[x] = refs[x] + i + j + d
  <2>1. refs[x] \in Int
    BY DEF IInv, RestType
  <2>2. refs'[x] = refs[x] - One(x = cell[b].call) - One(x = cell[b].response)
    BY DEF Dealloc, Release
  <2>3. One(x = cell[b].call) = 0 - i
    BY DEF One
  <2>4. One(x = cell[b].response) = 0 - (j + d)
    <3>1. CASE cell[b].returned
      BY <3>1 DEF One
    <3>2. CASE ~cell[b].returned
      BY <3>2 DEF One
    <3> QED BY <3>1, <3>2
  <2>5. i \in Int /\ j \in Int /\ d \in Int
    OBVIOUS
  <2> HIDE DEF i, j, d
  <2> QED BY <2>1, <2>2, <2>3, <2>4, <2>5
<1>8. i \in Int /\ j \in Int /\ d \in {-1, 0}
  OBVIOUS
<1>9. ASSUME status[s] # "suspended"
      PROVE  Cardinality(FrameHolders(x))' = Cardinality(FrameHolders(x))
  <2>1. frame[s] = NULL
    BY <1>9 DEF Dealloc, Dispose, Disposable, IInv, BridgeOK, BridgeUsed
  <2>2. frame' = frame
    BY <2>1, <1>1 DEF IInv, BridgeOK, BridgeType
  <2>3. FrameHolders(x)' = FrameHolders(x)
    BY <2>2 DEF FrameHolders
  <2> QED BY <2>3
<1>10. cell[b].returned \/ x # cell[b].response => d = 0
  OBVIOUS
<1> HIDE DEF i, j, d
<1>11. d = 0 => Slack(x)' >= Slack(x)
  BY <1>4, <1>5, <1>6, <1>7, <1>8, SlackSum, HoldersFinite
<1>12. ASSUME status[s] # "suspended" PROVE Slack(x)' <= Slack(x)
  BY <1>4, <1>5, <1>7, <1>8, <1>9, <1>12, SlackSum, HoldersFinite
<1> QED BY <1>10, <1>11, <1>12

LEMMA BeginSlack ==
    ASSUME IInv, NEW f, NEW s \in Selves, CoroResume(f, s) \/ CoroResumeValue(f, s),
           NEW x \in Objects
    PROVE  Slack(x)' = Slack(x)
<1>1. cell' = cell /\ Begin(s)
  BY DEF CoroResume, CoroResumeValue
<1>2. refs \in [Objects -> Int] /\ frame \in [Selves -> Frames \cup {NULL}]
  BY DEF IInv, RestType, BridgeOK, BridgeType
<1>3. CASE status[s] # "fresh"
  <2>1. refs' = refs /\ frame' = frame
    BY <1>1, <1>3 DEF Begin
  <2> QED BY <2>1, <1>1, SameSlack
<1>4. CASE status[s] = "fresh"
  <2> DEFINE o == cell[data[s]].call
             k == IF x = o THEN 1 ELSE 0
             new == [bridge |-> data[s], call |-> o]
  <2>1. /\ frame' = [frame EXCEPT ![s] = new]
        /\ refs' = [refs EXCEPT ![o] = @ + 1]
    BY <1>1, <1>4 DEF Begin
  <2>2. frame[s] = NULL /\ o \in Objects /\ new # NULL
    <3>1. data[s] = bridge[s] /\ bridge[s] # NULL /\ frame[s] = NULL
      BY <1>4 DEF IInv, BridgeOK, BridgeUsed, BridgeOwned
    <3>2. data[s] \in Bridges /\ cell[data[s]] \in Cells
      BY <3>1, CellFacts DEF IInv
    <3>3. new \in Frames /\ o \in Objects
      BY <3>2 DEF Frames, Cells
    <3> QED BY <3>1, <3>3, PyAssumption
  <2>3. Cardinality(FrameHolders(x))' = Cardinality(FrameHolders(x)) + k
    <3>1. CASE x = o
      <4>1. s \notin FrameHolders(x) /\ FrameHolders(x)' = FrameHolders(x) \cup {s}
        BY <2>1, <2>2, <1>2, <3>1 DEF FrameHolders
      <4> QED BY <4>1, <3>1, HoldersFinite, FS_AddElement
    <3>2. CASE x # o
      <4>1. FrameHolders(x)' = FrameHolders(x)
        BY <2>1, <2>2, <1>2, <3>2 DEF FrameHolders
      <4> QED BY <4>1, <3>2, HoldersFinite
    <3> QED BY <3>1, <3>2
  <2>4. /\ Cardinality(CallHolders(x))' = Cardinality(CallHolders(x)) + 0
        /\ Cardinality(ResponseHolders(x))' = Cardinality(ResponseHolders(x)) + 0
    <3>1. CallHolders(x)' = CallHolders(x) /\ ResponseHolders(x)' = ResponseHolders(x)
      BY <1>1 DEF CallHolders, ResponseHolders
    <3> QED BY <3>1, HoldersFinite
  <2>5. refs[x] \in Int /\ refs'[x] = refs[x] + 0 + 0 + k
    BY <2>1, <2>2, <1>2
  <2>6. k \in Int
    OBVIOUS
  <2> HIDE DEF k
  <2> QED BY <2>3, <2>4, <2>5, <2>6, SlackStep
<1> QED BY <1>3, <1>4

\* The locals of callback_wrap() go.
LEMMA FrameCounted ==
    ASSUME IInv, NEW s \in Selves, Ends(s), NEW x \in Objects
    PROVE  Cardinality(FrameHolders(x))'
              = Cardinality(FrameHolders(x)) + (IF x = frame[s].call THEN -1 ELSE 0)
<1>1. /\ frame' = [frame EXCEPT ![s] = NULL]
      /\ frame[s] # NULL
  BY EndsFacts DEF IInv
<1>2. \A t \in Selves : frame'[t] = IF t = s THEN NULL ELSE frame[t]
  BY <1>1 DEF IInv, BridgeOK, BridgeType
<1>3. CASE x = frame[s].call
  <2>1. s \in FrameHolders(x) /\ FrameHolders(x)' = FrameHolders(x) \ {s}
    BY <1>1, <1>2, <1>3 DEF FrameHolders
  <2> QED BY <2>1, <1>3, HoldersFinite, CountShrinks
<1>4. CASE x # frame[s].call
  <2>1. FrameHolders(x)' = FrameHolders(x)
    BY <1>1, <1>2, <1>4 DEF FrameHolders
  <2> QED BY <2>1, <1>4, HoldersFinite
<1> QED BY <1>3, <1>4

LEMMA RaisesSlack ==
    ASSUME IInv, NEW s \in Selves, CallbackRaises(s), NEW x \in Objects
    PROVE  Slack(x)' = Slack(x)
<1> DEFINE k == IF x = frame[s].call THEN -1 ELSE 0
<1>1. Cardinality(FrameHolders(x))' = Cardinality(FrameHolders(x)) + k
  BY FrameCounted DEF CallbackRaises
<1>2. /\ Cardinality(CallHolders(x))' = Cardinality(CallHolders(x)) + 0
      /\ Cardinality(ResponseHolders(x))' = Cardinality(ResponseHolders(x)) + 0
  <2>1. CallHolders(x)' = CallHolders(x) /\ ResponseHolders(x)' = ResponseHolders(x)
    BY DEF CallbackRaises, CallHolders, ResponseHolders
  <2> QED BY <2>1, HoldersFinite
<1>3. refs[x] \in Int /\ refs'[x] = refs[x] + 0 + 0 + k
  BY DEF CallbackRaises, IInv, RestType
<1>4. k \in Int
  OBVIOUS
<1> HIDE DEF k
<1> QED BY <1>1, <1>2, <1>3, <1>4, SlackStep

LEMMA ReturnsSlack ==
    ASSUME IInv, NEW s \in Selves, NEW r \in Objects, CallbackReturns(s, r), NEW x \in Objects
    PROVE  Slack(x)' = Slack(x)
<1> DEFINE j == IF x = r THEN 1 ELSE 0
           k == IF x = frame[s].call THEN -1 ELSE 0
           b == bridge[s]
<1>1. Cardinality(FrameHolders(x))' = Cardinality(FrameHolders(x)) + k
  BY FrameCounted DEF CallbackReturns
<1>2. /\ b \in Bridges /\ cell[b] # NULL /\ ~cell[b].returned
      /\ cell'[b] # NULL /\ cell'[b].response = r /\ cell'[b].call = cell[b].call
      /\ cell'[b].returned
      /\ \A c \in Bridges : c # b => cell'[c] = cell[c]
  <2>1. ChainOK /\ BridgeOK /\ Ends(s)
    BY DEF IInv, CallbackReturns
  <2>2. cell[b] \in Cells /\ ~cell[b].returned
    BY <2>1, EndsFacts
  <2>3. cell[b] # NULL /\ ~cell[b].returned
    BY <2>2, PyAssumption
  <2>4. cell'[b] \in Cells
    BY <2>1, ReturnsFacts
  <2>5. cell'[b] # NULL
    BY <2>4, PyAssumption
  <2> QED BY <2>1, <2>3, <2>5, ReturnsFacts
<1>3. Cardinality(CallHolders(x))' = Cardinality(CallHolders(x)) + 0
  <2>1. CallHolders(x)' = CallHolders(x)
    BY <1>2 DEF CallHolders
  <2> QED BY <2>1, HoldersFinite
<1>4. Cardinality(ResponseHolders(x))' = Cardinality(ResponseHolders(x)) + j
  <2>1. CASE x = r
    <3>1. b \notin ResponseHolders(x) /\ ResponseHolders(x)' = ResponseHolders(x) \cup {b}
      BY <1>2, <2>1 DEF ResponseHolders
    <3> QED BY <3>1, <2>1, HoldersFinite, FS_AddElement
  <2>2. CASE x # r
    <3>1. ResponseHolders(x)' = ResponseHolders(x)
      BY <1>2, <2>2 DEF ResponseHolders
    <3> QED BY <3>1, <2>2, HoldersFinite
  <2> QED BY <2>1, <2>2
<1>5. refs[x] \in Int /\ refs'[x] = refs[x] + 0 + j + k
  BY DEF CallbackReturns, One, IInv, RestType
<1>6. j \in Int /\ k \in Int
  OBVIOUS
<1> HIDE DEF j, k, b
<1> QED BY <1>1, <1>3, <1>4, <1>5, <1>6, SlackStep

\* Whatever a running callback does, and whatever resumes it, each count goes
\* with its holders.
LEMMA RunSlack ==
    ASSUME IInv, NEW s \in Selves, NEW f, NEW x \in Objects,
           \/ Callback(s)
           \/ CoroResume(f, s) \/ CoroResumeValue(f, s) \/ CoroResumeEnded(f, s)
    PROVE  Slack(x)' = Slack(x)
<1>1. CASE Callback(s)
  <2>1. CASE CoroYield(s) \/ (\E v \in Codes : CoroYieldValue(s, v))
    BY <2>1, SameSlack DEF CoroYield, CoroYieldValue
  <2> QED BY <1>1, <2>1, ReturnsSlack, RaisesSlack DEF Callback
<1>2. CASE CoroResumeEnded(f, s)
  BY <1>2, SameSlack DEF CoroResumeEnded
<1> QED BY <1>1, <1>2, BeginSlack

LEMMA NextShort ==
    ASSUME IInv, IInv', [Next]_vars, NEW x \in Objects, Slack(x)' < Slack(x)
    PROVE  \E s \in Selves :
              /\ bridge[s] # NULL /\ bridge'[s] = NULL
              /\ ~cell[bridge[s]].returned
              /\ cell[bridge[s]].response = x
<1>1. Slack(x)' # Slack(x) /\ ~(Slack(x)' >= Slack(x))
  BY SlackType
<1>2. ~UNCHANGED <<cell, frame, refs>>
  BY <1>1, SameSlack
<1>3. PICK s \in Selves : Manage(s)
  <2>1. ~UNCHANGED vars
    BY <1>2 DEF vars
  <2> QED BY <1>1, <2>1, RunSlack DEF Next
<1>4. ~((\E t \in Selves : CoroUpdate(s, t)) \/ Response(s))
  BY <1>2 DEF CoroUpdate, Response
<1>5. Dealloc(s)
  BY <1>1, <1>3, <1>4, SetUpSlack DEF Manage
<1>6. ~cell[bridge[s]].returned /\ cell[bridge[s]].response = x
  BY <1>1, <1>5, DeallocSlack
<1>7. bridge[s] # NULL /\ bridge'[s] = NULL
  BY <1>5 DEF Dealloc, Dispose, Disposable, IInv, BridgeOK, BridgeOwned, BridgeType
<1> QED BY <1>6, <1>7

\* For any finite number of Coroutines, and whatever is reset, cut short or
\* freed, no count gets further below what holds the object, but when a
\* Coroutine is freed in whose bridge malloc() had left a pointer to it.
THEOREM CountsFallShortOnlyByLeftovers == Spec => ShortOnlyByLeftovers
<1>1. IInv /\ IInv' /\ [Next]_vars
        => [\A o \in Objects : (refs[o] - HeldBy(o))' < refs[o] - HeldBy(o) =>
              \E s \in Selves :
                  /\ bridge[s] # NULL /\ bridge'[s] = NULL
                  /\ ~cell[bridge[s]].returned
                  /\ cell[bridge[s]].response = o]_vars
  BY NextShort DEF Slack
<1> QED BY <1>1, Invariance, PTL DEF Spec, ShortOnlyByLeftovers

\* A step that adds to the slack of a count is a reset, or frees a Coroutine
\* in the middle of its callback.
LEMMA SlackNext ==
    ASSUME IInv, IInv', UnmadeInv, [Next]_vars,
           NEW x \in Objects, Slack(x)' > Slack(x)
    PROVE  \E s \in Selves :
              \/ bridge[s] # NULL /\ bridge'[s] \notin {NULL, bridge[s]}
              \/ status[s] = "suspended" /\ status'[s] = "none"
<1>0. Slack(x)' # Slack(x) /\ ~(Slack(x)' <= Slack(x))
  BY SlackType
<1>1. ~UNCHANGED <<cell, frame, refs>>
  BY <1>0, SameSlack
<1>2. PICK s \in Selves : Manage(s)
  <2>1. ~UNCHANGED vars
    BY <1>1 DEF vars
  <2> QED BY <1>0, <2>1, RunSlack DEF Next
<1>3. CASE \E o \in Objects : CoroReset(s, o)
  <2>1. PICK o \in Objects : CoroReset(s, o)
    BY <1>3
  <2>2. bridge' = [bridge EXCEPT ![s] = made + 1] /\ made + 1 \in Bridges
    BY <2>1, PyAssumption DEF CoroReset, NewBridge, Bridges, IInv, BridgeOK, BridgeType
  <2>3. status[s] # "none"
    BY <2>1 DEF CoroReset, Refit, Chain!Restart, ChainOK
  <2>4. bridge[s] # NULL /\ bridge[s] \in Bridges /\ bridge[s] <= made /\ made \in Nat
    BY <2>3, PyAssumption, CellFacts DEF IInv, BridgeOK, BridgeOwned, BridgeType
  <2>5. bridge'[s] = made + 1
    BY <2>2 DEF IInv, BridgeOK, BridgeType
  <2> QED BY <2>2, <2>4, <2>5, PyAssumption DEF Bridges
<1>4. CASE Dealloc(s)
  <2>1. status[s] = "suspended"
    BY <1>0, <1>4, DeallocSlack
  <2>2. status'[s] = "none"
    BY <1>4 DEF Dealloc, Dispose, Chain!Destroy, IInv, ChainOK
  <2> QED BY <2>1, <2>2
<1>5. ~\E o \in Objects : Cinit(s, o)
  BY <1>0, CinitSlack
<1>6. ~((\E t \in Selves : CoroUpdate(s, t)) \/ Response(s))
  BY <1>1 DEF CoroUpdate, Response
<1> QED BY <1>2, <1>3, <1>4, <1>5, <1>6 DEF Manage

\* For any finite number of Coroutines, no count gets too high but by a reset
\* or by freeing a Coroutine in the middle of its callback.
THEOREM LeaksAreKnown == Spec => LeaksOnlyWhenCutShort
<1>1. Init => UnmadeInv
  BY DEF Init, UnmadeInv
<1>2. Spec => []UnmadeInv
  BY <1>1, UnmadeNext, Invariance, PTL DEF Spec
<1>3. IInv /\ IInv' /\ UnmadeInv /\ [Next]_vars
        => [(\E o \in Objects : (refs[o] - HeldBy(o))' > refs[o] - HeldBy(o)) =>
              \E s \in Selves :
                  \/ bridge[s] # NULL /\ bridge'[s] \notin {NULL, bridge[s]}
                  \/ status[s] = "suspended" /\ status'[s] = "none"]_vars
  BY SlackNext DEF Slack
<1> QED BY <1>2, <1>3, Invariance, PTL DEF Spec, LeaksOnlyWhenCutShort

=============================================================================
