------------------------------- MODULE MCDcp ---------------------------------
(* Decode-context parallelism, in one run: the selection of the tokens to   *)
(* attend, by two ranks that hold two tokens in turn (MCSparse has three    *)
(* that hold one, where drafts are possible), and the pool of collectives.  *)
(* A behaviour picks one of them, and the variables of the other stay as    *)
(* they are.                                                                *)
(*                                                                          *)
(* Selection goes two rounds over the same buffers: any scores, with ties,  *)
(* for a short sequence, then another path with scores that rank the other  *)
(* way.                                                                     *)
(*                                                                          *)
(* The pool goes through the life of a worker: a dummy run, the profiling   *)
(* captures, discarding them, the production captures, serving.             *)
(* capture_model names a channel for the target's graphs only; the draft's  *)
(* captures use one of their own in profiling too.  The other programs      *)
(* capture without a channel and nest a foreign one.                        *)
EXTENDS DcpPool, DcpIndex

CONSTANTS
  K, BlockN, Exact, Garbage, MaxScore                               \* DcpSelection

VARIABLES
  part,                                                             \* what is looked at
  input, round, step, causal, row, scores, posted, pages, count,    \* DcpSelection
  tiles, base, read

selectVars == <<input, round, step, causal, row, scores, posted, pages, count, tiles,
                base, read>>
mcvars     == <<part, vars, selectVars>>

-----------------------------------------------------------------------------
\* Physical blocks in no order, another on each rank.
MCTable == [r \in Ranks |-> <<(2 + r) % 3, r % 3, (1 + r) % 3>>]

Row(p, n, more, b, f) ==
  [path |-> p, len |-> n, bound |-> n + more, full |-> n + more, before |-> b, score |-> f]

First(lens, paths) ==
  UNION {{Row(p, n, n % 2, n, f) :
            p \in paths, f \in [0 .. n - 1 -> 0 .. MaxScore]} : n \in lens}

\* The other path if there is one, and a length between.
Second(x, paths) ==
  {Row(p, 5, 0, 1, [t \in 0 .. 4 |-> (5 - t) \div 2]) :
     p \in IF paths = {x.path} THEN paths ELSE paths \ {x.path}}

Rounds(lens, paths) == UNION {{<<x, y>> : y \in Second(x, paths)} : x \in First(lens, paths)}

MCInputs == Rounds({0, 5}, {"local", "gather"})

Selection == INSTANCE DcpSelection WITH at <- step, Table <- MCTable, Inputs <- MCInputs

ASSUME Selection!WidthAssumption

-----------------------------------------------------------------------------
Do(name, arg) == [op |-> name, arg |-> arg]

Serve == <<
  Do("call", "q"),
  Do("capture", "target:profile"), Do("capture", "target:profile"),
  Do("call", "q"), Do("call", "o"), Do("record", "q"), Do("record", "o"), Do("record", "late"),
  Do("exit", None), Do("exit", None),
  Do("capture", "draft"), Do("call", "late"), Do("record", "q"), Do("record", "late"),
  Do("exit", None),
  Do("discard", None),
  Do("capture", "target"), Do("record", "q"), Do("record", "o"), Do("exit", None),
  Do("capture", "draft"), Do("record", "late"), Do("exit", None),
  Do("call", "q"), Do("call", "late") >>

Unnamed == <<
  Do("capture", None), Do("exit", None),
  Do("call", "o"),
  Do("capture", "target"), Do("record", "o"), Do("capture", "draft") >>

UnnamedLater == << Do("call", "q"), Do("capture", None) >>

\* A worker that does nothing, beside a selection.
Idle == <<>>

MCPrograms == {Serve, Unnamed, UnnamedLater, Idle}

-----------------------------------------------------------------------------
NoSelection ==
  /\ input = None /\ round = None /\ step = None /\ causal = None /\ row = None /\ scores = None
  /\ posted = None /\ pages = None /\ count = None /\ tiles = None /\ base = None /\ read = None

NoPool == Init /\ program = Idle /\ broken = {}

MCInit ==
  \/ part = "selection" /\ Selection!Init /\ NoPool
  \/ part = "pool"      /\ Init /\ NoSelection

SelectionNext == part = "selection" /\ Selection!Next /\ UNCHANGED <<part, vars>>
PoolStep(r)   == part = "pool" /\ Step(r) /\ UNCHANGED <<part, selectVars>>

\* Every rank has run its program, or one died of an error in a capture.
PoolStopped ==
  /\ part = "pool"
  /\ (\A r \in Members : AtEnd(r)) \/ (\E r \in Members : label[r] = "dead")
  /\ UNCHANGED mcvars

MCNext == SelectionNext \/ (\E r \in Members : PoolStep(r)) \/ PoolStopped

\* Programs end, so it is enough that some rank that can go on does.
MCSpec == MCInit /\ [][MCNext]_mcvars /\ WF_mcvars(\E r \in Members : PoolStep(r))

-----------------------------------------------------------------------------
\* RanksAligned, ChannelsSound and AllFinish are DcpPool's own, and hold of the
\* idle pool beside a selection too.

\* Every rank attends to its part of one and the same selection (DcpSelection).
RanksAttendRight == part = "selection" => Selection!AttendsRight
=============================================================================
