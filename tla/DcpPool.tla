------------------------------ MODULE DcpPool --------------------------------
(***************************************************************************)
(* The B12X PCIe collectives of decode-context parallelism                 *)
(* (ops/b12x_dcp.py): when a rank creates a pool, when it falls back for   *)
(* good, and which logical channel a call uses.  The ranks run the same    *)
(* program, each at its own pace and each with its own copy of the module  *)
(* state; the one place where they hear of each other is the all-reduce    *)
(* of _init_failed.  A rank that takes the B12X path for a call another    *)
(* rank makes through the fallback leaves both waiting.                    *)
(*                                                                         *)
(* A pool is external: here it is the set of channels in its catalogue and *)
(* the set whose capture is open.  Any call on it may fail on any rank.    *)
(***************************************************************************)
EXTENDS Naturals, Sequences, FiniteSets

CONSTANTS
  Members,        \* the ranks of the group
  Keys,           \* pool keys of the group: head counts and dimensions
  Programs,       \* what the ranks may run: sequences of operations
  ImportFailures, \* the sets of ranks on which b12x may be missing
  Eager,          \* _EAGER_CHANNEL_ID
  Profile,        \* the channels of disposable graphs (named ":profile")
  MaxFaults,      \* bound: calls on a pool that fail
  None

\* The channels of a worker: the eager one and those its captures name.
Captures(p) == {i \in 1 .. Len(p) : p[i].op = "capture"}

Channels == ({Eager} \cup UNION {{p[i].arg : i \in Captures(p)} : p \in Programs}) \ {None}

Pool == [chans : SUBSET Channels, open : SUBSET Channels]

Operations ==
  [op : {"call", "record"}, arg : Keys] \cup [op : {"capture"}, arg : Channels \cup {None}]
    \cup [op : {"exit", "discard"}, arg : {None}]

\* How often a program has done an operation when it comes to its i-th one.
Done(p, i, name) == Cardinality({j \in 1 .. i - 1 : p[j].op = name})

\* A capture is a with block, and profiling ends outside all of them.
Nested(p) ==
  \A i \in 1 .. Len(p) :
    /\ p[i].op = "exit" => Done(p, i, "exit") < Done(p, i, "capture")
    /\ p[i].op = "discard" => Done(p, i, "exit") = Done(p, i, "capture")

ASSUME MembersAssumption == IsFiniteSet(Members) /\ Members # {}
ASSUME ImportAssumption == ImportFailures \subseteq SUBSET Members
ASSUME ProgramsAssumption == \A p \in Programs : p \in Seq(Operations) /\ Nested(p)
ASSUME ChannelsAssumption == Eager # None /\ Eager \notin Profile
ASSUME NoneAssumption == None \notin BOOLEAN /\ None \notin Pool /\ \A C \in SUBSET Channels : C # None

VARIABLES
  program,    \* the ranks' common program
  broken,     \* ranks on which importing the pool class fails
  at, label,  \* each rank: its operation, and where in it
  pools,      \* _POOLS: per rank and key, a pool or None
  disabled,   \* _DISABLED
  active,     \* _ACTIVE_CAPTURE: the channel being captured, or None
  contexts,   \* the capture contexts a rank is inside, outermost first
  checkpoint, \* _PROFILE_CHANNEL_CHECKPOINTS
  building,   \* the pool a rank is creating
  votes,      \* the all-reduce at each operation
  outcome,    \* history: the channel each call used, or "fallback"
  graphs,     \* the calls recorded in live CUDA graphs
  faults

local == <<at, label, pools, disabled, active, contexts, checkpoint, building, outcome, graphs>>
vars  == <<program, broken, local, votes, faults>>

Nothing == [k \in Keys |-> None]

Init ==
  /\ program \in Programs
  /\ broken \in ImportFailures
  /\ at = [r \in Members |-> 1]
  /\ label = [r \in Members |-> "run"]
  /\ pools = [r \in Members |-> Nothing]
  /\ disabled = [r \in Members |-> {}]
  /\ active = [r \in Members |-> None]
  /\ contexts = [r \in Members |-> <<>>]
  /\ checkpoint = [r \in Members |-> Nothing]
  /\ building = [r \in Members |-> None]
  /\ votes = [r \in Members |-> [i \in 1 .. Len(program) |-> None]]
  /\ outcome = [r \in Members |-> [i \in 1 .. Len(program) |-> None]]
  /\ graphs = [r \in Members |-> {}]
  /\ faults = 0

-----------------------------------------------------------------------------
AtEnd(r) == at[r] > Len(program)
Op(r)    == program[at[r]]
Key(r)   == Op(r).arg

Running(r, op) == label[r] = "run" /\ ~AtEnd(r) /\ Op(r).op = op

\* A call of try_lse_reduce or try_all_gather_heads, eager or while the
\* stream is being captured.
Calls(r) == Running(r, "call") \/ Running(r, "record")

NextOp(r) == at' = [at EXCEPT ![r] = @ + 1] /\ label' = [label EXCEPT ![r] = "run"]

Stay(r, l) == label' = [label EXCEPT ![r] = l] /\ UNCHANGED at

Channel(r) == IF active[r] = None THEN Eager ELSE active[r]

FallBack(r) ==
  /\ outcome' = [outcome EXCEPT ![r][at[r]] = "fallback"]
  /\ NextOp(r)

\* _get_pool, the calls that need no pool created.
GetKnown(r) ==
  /\ Calls(r)
  /\ \/ Key(r) \in disabled[r] /\ FallBack(r)
     \/ /\ Key(r) \notin disabled[r] /\ pools[r][Key(r)] # None
        /\ Stay(r, "issue")
        /\ UNCHANGED outcome
     \/ /\ Key(r) \notin disabled[r] /\ pools[r][Key(r)] = None
        /\ Op(r).op = "record" /\ FallBack(r)
  /\ UNCHANGED <<program, broken, pools, disabled, active, contexts, checkpoint, building,
                 votes, graphs, faults>>

NeedsPool(r) ==
  Running(r, "call") /\ Key(r) \notin disabled[r] /\ pools[r][Key(r)] = None

\* No pool class: this rank alone decides, without the all-reduce.
NoPoolClass(r) ==
  /\ NeedsPool(r) /\ r \in broken
  /\ disabled' = [disabled EXCEPT ![r] = @ \cup {Key(r)}]
  /\ FallBack(r)
  /\ UNCHANGED <<program, broken, pools, active, contexts, checkpoint, building, votes,
                 graphs, faults>>

\* A mutant: the checkpoint is taken with the capture's channel in it.
Checkpointed_Late(chans, ch) == chans \cup {ch}

\* What a checkpoint remembers of a catalogue that is about to get ch.
Checkpointed(chans, ch) == chans

\* A mutant: the capture's channel is prepared without asking whether there
\* is a capture.
Joined_Always(ch) == {ch}

\* The capture a new pool joins, if one is under way.
Joined(ch) == {ch} \ {None}

\* The pool is created, its eager channel prepared, and it joins the capture
\* under way.
CreatePool(r) ==
  LET ch == active[r]
  IN  /\ NeedsPool(r) /\ r \notin broken
      /\ building' = [building EXCEPT ![r] =
           [chans |-> {Eager} \cup Joined(ch), open |-> Joined(ch)]]
      /\ checkpoint' = [checkpoint EXCEPT ![r][Key(r)] =
           IF ch \in Profile THEN Checkpointed({Eager}, ch) ELSE @]
      /\ votes' = [votes EXCEPT ![r][at[r]] = FALSE]
      /\ Stay(r, "reduce")
      /\ UNCHANGED <<program, broken, pools, disabled, active, contexts, outcome, graphs, faults>>

\* A mutant: the rank whose pool failed returns before the all-reduce.
CreateFails_SkipsReduce(r) ==
  /\ NeedsPool(r) /\ r \notin broken /\ faults < MaxFaults
  /\ faults' = faults + 1
  /\ disabled' = [disabled EXCEPT ![r] = @ \cup {Key(r)}]
  /\ FallBack(r)
  /\ UNCHANGED <<program, broken, pools, active, contexts, checkpoint, building, votes, graphs>>

\* Some step of that raises: before there is a pool, or after.
CreateFails(r) ==
  /\ NeedsPool(r) /\ r \notin broken /\ faults < MaxFaults
  /\ faults' = faults + 1
  /\ \/ UNCHANGED <<building, checkpoint>>
     \/ /\ building' = [building EXCEPT ![r] = [chans |-> {Eager}, open |-> {}]]
        /\ checkpoint' = [checkpoint EXCEPT ![r][Key(r)] =
             IF active[r] \in Profile THEN Checkpointed({Eager}, active[r]) ELSE @]
  /\ votes' = [votes EXCEPT ![r][at[r]] = TRUE]
  /\ Stay(r, "reduce")
  /\ UNCHANGED <<program, broken, pools, disabled, active, contexts, outcome, graphs>>

Reduced(r) == \A q \in Members : votes[q][at[r]] # None

\* A mutant: each rank goes by its own result.
InitFailed_Local(r) == votes[r][at[r]]

\* The all-reduce takes the maximum.
InitFailed(r) == \E q \in Members : votes[q][at[r]] = TRUE

\* All ranks keep their pools, or all close them and never try again.
Agree(r) ==
  /\ label[r] = "reduce" /\ Reduced(r)
  /\ \/ /\ InitFailed(r)
        /\ disabled' = [disabled EXCEPT ![r] = @ \cup {Key(r)}]
        /\ FallBack(r)
        /\ UNCHANGED pools
     \/ /\ ~InitFailed(r)
        /\ pools' = [pools EXCEPT ![r][Key(r)] = building[r]]
        /\ Stay(r, "issue")
        /\ UNCHANGED <<disabled, outcome>>
  /\ building' = [building EXCEPT ![r] = None]
  /\ UNCHANGED <<program, broken, active, contexts, checkpoint, votes, graphs, faults>>

\* The collective itself, launched or recorded on the current channel.
Issue(r) ==
  /\ label[r] = "issue"
  /\ outcome' = [outcome EXCEPT ![r][at[r]] = Channel(r)]
  /\ graphs' = [graphs EXCEPT ![r] =
       IF Op(r).op = "record" THEN @ \cup {[key |-> Key(r), channel |-> Channel(r)]} ELSE @]
  /\ NextOp(r)
  /\ UNCHANGED <<program, broken, pools, disabled, active, contexts, checkpoint, building,
                 votes, faults>>

-----------------------------------------------------------------------------
Live(r) == {k \in Keys : pools[r][k] # None}

Push(r, kind) == contexts' = [contexts EXCEPT ![r] = Append(@, kind)]

\* capture_b12x_dcp when there is nothing to bind: no channel and no pool
\* yet, or a capture on the same channel inside another.
EnterPlain(r) ==
  /\ Running(r, "capture")
  /\ \/ Op(r).arg = None /\ Live(r) = {}
     \/ Op(r).arg # None /\ Op(r).arg = active[r]
  /\ Push(r, "plain") /\ NextOp(r)
  /\ UNCHANGED <<program, broken, pools, disabled, active, checkpoint, building, votes,
                 outcome, graphs, faults>>

Bind(pool, ch) == [chans |-> pool.chans \cup {ch}, open |-> pool.open \cup {ch}]

\* The first profiling capture of a pool decides what a rollback restores.
Keeps(old, chans, ch) ==
  IF ch \in Profile /\ old = None THEN Checkpointed(chans, ch) ELSE old

\* Every pool of the group gets the channel and opens its capture.
EnterBound(r) ==
  LET ch == Op(r).arg
  IN  /\ Running(r, "capture")
      /\ ch # None /\ active[r] = None
      /\ active' = [active EXCEPT ![r] = ch]
      /\ checkpoint' = [checkpoint EXCEPT ![r] = [k \in Keys |->
           IF k \in Live(r) THEN Keeps(@[k], pools[r][k].chans, ch) ELSE @[k]]]
      /\ pools' = [pools EXCEPT ![r] = [k \in Keys |->
           IF k \in Live(r) THEN Bind(@[k], ch) ELSE None]]
      /\ Push(r, "bound") /\ NextOp(r)
      /\ UNCHANGED <<program, broken, disabled, building, votes, outcome, graphs, faults>>

\* The ways a capture raises: pools but no channel, another channel inside a
\* capture, or a failing call on a pool.  Nothing coordinates this error.
EnterRaises(r) ==
  LET ch == Op(r).arg
  IN  /\ Running(r, "capture")
      /\ \/ ch = None /\ Live(r) # {} /\ UNCHANGED faults
         \/ ch # None /\ active[r] \notin {None, ch} /\ UNCHANGED faults
         \/ /\ ch # None /\ active[r] = None /\ Live(r) # {}
            /\ faults < MaxFaults /\ faults' = faults + 1
      /\ label' = [label EXCEPT ![r] = "dead"]
      /\ UNCHANGED <<program, broken, at, pools, disabled, active, contexts, checkpoint,
                     building, votes, outcome, graphs>>

\* Leaving a context: the one that bound the channel closes every capture.
Exit(r) ==
  LET inner == contexts[r][Len(contexts[r])]
  IN  /\ Running(r, "exit")
      /\ contexts' = [contexts EXCEPT ![r] = SubSeq(@, 1, Len(@) - 1)]
      /\ IF inner = "plain" THEN UNCHANGED <<active, pools>>
         ELSE /\ active' = [active EXCEPT ![r] = None]
              /\ pools' = [pools EXCEPT ![r] = [k \in Keys |->
                   IF k \in Live(r) THEN [pools[r][k] EXCEPT !.open = @ \ {active[r]}] ELSE None]]
      /\ NextOp(r)
      /\ UNCHANGED <<program, broken, disabled, checkpoint, building, votes, outcome, graphs,
                     faults>>

\* A mutant: the channels go before the graphs that were recorded on them.
ResetGraphs_Forgotten(r) ==
  /\ Running(r, "discard")
  /\ Stay(r, "rollback")
  /\ UNCHANGED <<program, broken, pools, disabled, active, contexts, checkpoint, building,
                 votes, outcome, graphs, faults>>

\* The end of profile_cudagraph_memory: first every graph is reset ...
ResetGraphs(r) ==
  /\ Running(r, "discard")
  /\ graphs' = [graphs EXCEPT ![r] = {}]
  /\ Stay(r, "rollback")
  /\ UNCHANGED <<program, broken, pools, disabled, active, contexts, checkpoint, building,
                 votes, outcome, faults>>

\* ... then rollback_profile_b12x_dcp_channels.
Rollback(r) ==
  /\ label[r] = "rollback"
  /\ pools' = [pools EXCEPT ![r] = [k \in Keys |->
       IF k \in Live(r) /\ checkpoint[r][k] # None
       THEN [pools[r][k] EXCEPT !.chans = checkpoint[r][k]] ELSE pools[r][k]]]
  /\ checkpoint' = [checkpoint EXCEPT ![r] = Nothing]
  /\ NextOp(r)
  /\ UNCHANGED <<program, broken, disabled, active, contexts, building, votes, outcome,
                 graphs, faults>>

Step(r) ==
  \/ GetKnown(r)
  \/ NoPoolClass(r)
  \/ CreatePool(r)
  \/ CreateFails(r)
  \/ Agree(r)
  \/ Issue(r)
  \/ EnterPlain(r)
  \/ EnterBound(r)
  \/ EnterRaises(r)
  \/ Exit(r)
  \/ ResetGraphs(r)
  \/ Rollback(r)

Next == \E r \in Members : Step(r)

SafeSpec == Init /\ [][Next]_vars

\* Each rank is a process that keeps running.
Spec == SafeSpec /\ \A r \in Members : WF_vars(Step(r))

-----------------------------------------------------------------------------
TypeOK ==
  /\ program \in Programs /\ broken \subseteq Members
  /\ label \in [Members -> {"run", "reduce", "issue", "rollback", "dead"}]
  /\ \A r \in Members :
       /\ at[r] \in 1 .. Len(program) + 1
       /\ disabled[r] \subseteq Keys
       /\ active[r] \in Channels \cup {None}
       /\ building[r] \in Pool \cup {None}
       /\ \A k \in Keys : /\ pools[r][k] \in Pool \cup {None}
                          /\ checkpoint[r][k] \in (SUBSET Channels) \cup {None}

\* No call is made through a B12X collective by one rank and through the
\* fallback, or on another channel, by another: whichever rank's pool
\* failed, at whatever stage.
SameDecision ==
  \A r, q \in Members : \A i \in 1 .. Len(program) :
    outcome[r][i] # None /\ outcome[q][i] # None => outcome[r][i] = outcome[q][i]

\* Members at the same point of the program have the same pools with the same
\* catalogues: preparing a channel is checked across ranks, and a catalogue
\* that drifted on one rank would surface much later, in another capture.
CatalogsAgree ==
  \A r, q \in Members :
    at[r] = at[q] /\ label[r] = "run" /\ label[q] = "run" =>
      pools[r] = pools[q] /\ disabled[r] = disabled[q] /\ active[r] = active[q]

\* The ranks decide every call alike and hold the same pools when they do.
RanksAligned == TypeOK /\ SameDecision /\ CatalogsAgree

\* A live graph can be replayed: the channel it was recorded on is still in
\* its pool's catalogue.
GraphsKeepChannels ==
  \A r \in Members : \A g \in graphs[r] :
    pools[r][g.key] # None /\ g.channel \in pools[r][g.key].chans

\* Once profiling is over nothing of it is left in any pool: no channel, no
\* open capture, no checkpoint that a later rollback would apply.
ProfilingLeavesNothing ==
  \A r \in Members :
    label[r] = "run" /\ at[r] > 1 /\ program[at[r] - 1].op = "discard" =>
      /\ \A k \in Keys : checkpoint[r][k] = None
      /\ \A k \in Live(r) : pools[r][k].chans \cap Profile = {} /\ pools[r][k].open = {}

\* Profiling takes back all of its channels and none that a live graph needs.
ChannelsSound == GraphsKeepChannels /\ ProfilingLeavesNothing

\* No rank is left waiting in an all-reduce the others never join, unless a
\* rank died of an error in a capture.
AllFinish == <>(\A r \in Members : AtEnd(r)) \/ <>(\E r \in Members : label[r] = "dead")

=============================================================================
