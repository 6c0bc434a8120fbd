------------------------------ MODULE WorkerProof ------------------------------
(* Three parts of the worker.  Compiled kernels and their caches, for any   *)
(* set of calls and identities: a launch runs a kernel compiled for its own *)
(* arguments, and what has been resolved once is not refused later.  CUDA   *)
(* graphs through a start-up that profiles them, for any configuration of   *)
(* the managers: what is replayed was captured, and the profile gives back  *)
(* what it took.  Running EXL3 layers, for any layers, environments and     *)
(* batch sizes: each row is computed once and within the planned buffers,   *)
(* nothing is planned after the profile pass, and no scratch is shared by   *)
(* target and draft.                                                        *)
EXTENDS MoeKernels, GraphProfiling, DispatchCases, Exl3Runtime,
        WellFoundedInduction, FiniteSetTheorems, TLAPS

Impls == {"micro", "dynamic", "tiny"}

\* A kernel kept under a key was compiled for a call with that key.
Wants(impl, key, spec) ==
  \E c \in Calls : \E p \in DOMAIN Wanted(c) :
    c.impl = impl /\ key = Wanted(c)[p].key /\ spec = Wanted(c)[p].spec
Entry(impl, e) == Wants(impl, e.key, e.kernel.spec)

Cached(key) == \E i \in Impls : \E e \in caches[i] : Entry(i, e) /\ e.key = key

\* A remembered answer is about every kernel with the key it was given for,
\* whoever has that identity now.
AnswerRight(a) ==
  \A spec : Wants("micro", a.key[2], spec) => (a.accepted <=> Fits([spec |-> spec]))

IInv ==
  /\ caches = [i \in Impls |-> caches[i]]
  /\ \A i \in Impls : \A e \in caches[i] : Entry(i, e)
  /\ memo = Nothing \/ (memo.none = FALSE /\ \E i \in {"micro", "dynamic"} : Entry(i, memo))
  /\ \A a \in answers : AnswerRight(a)
  /\ reuse => \A key \in warm : Cached(key)
  /\ reuse /\ ~memo.none => Cached(memo.key)
  /\ RunsOwnKernel /\ WarmServed

-----------------------------------------------------------------------------
(* Keys.                                                                    *)

LEMMA WantedFacts ==
  ASSUME NEW c \in Calls
  PROVE  /\ c.impl \in Impls
         /\ c.impl = "dynamic" =>
              Wanted(c) = <<[key |-> DynamicKey(c), spec |-> DynamicKernel(c)]>>
         /\ c.impl = "micro" =>
              Wanted(c) = <<[key |-> MicroKey(c), spec |-> MicroKernel(c)]>>
         /\ c.impl = "tiny" =>
              Wanted(c) = <<[key |-> TinyKey(c, 1), spec |-> TinyKernel(c, 1)],
                            [key |-> TinyKey(c, 2), spec |-> TinyKernel(c, 2)]>>
  BY CallsAssumption DEF Wanted, Impls

\* The dynamic kernel's key holds everything it is compiled for.
LEMMA DynamicKeyHolds ==
  ASSUME NEW c \in Calls, NEW d \in Calls, DynamicKey(c) = DynamicKey(d)
  PROVE  DynamicKernel(c) = DynamicKernel(d)
<1>1. /\ c.quant = d.quant /\ c.n = d.n /\ c.tile = d.tile /\ c.ids = d.ids
      /\ c.repacked = d.repacked /\ c.direct = d.direct /\ c.external = d.external
      /\ c.bits = d.bits
  BY DEF DynamicKey
<1>2. /\ ShareInput(c) = ShareInput(d) /\ SwapAb(c) = SwapAb(d)
      /\ SeparateHalves(c) = SeparateHalves(d) /\ DownStride32(c) = DownStride32(d)
      /\ Materialize(c) = Materialize(d)
  BY DEF DynamicKey
<1> QED
  BY <1>1, <1>2 DEF DynamicKernel

\* The keys of two kernels are the same only if the kernels are.
LEMMA KeyHolds ==
  ASSUME NEW c \in Calls, NEW d \in Calls, NEW p \in DOMAIN Wanted(c),
         NEW q \in DOMAIN Wanted(d), Wanted(c)[p].key = Wanted(d)[q].key
  PROVE  c.impl = d.impl /\ Wanted(c)[p].spec = Wanted(d)[q].spec
<1> DEFINE Is(b, s) ==
      \/ b.impl = "dynamic" /\ Wanted(b)[s].key = DynamicKey(b)
           /\ Wanted(b)[s].spec = DynamicKernel(b)
      \/ b.impl = "micro" /\ Wanted(b)[s].key = MicroKey(b)
           /\ Wanted(b)[s].spec = MicroKernel(b)
      \/ b.impl = "tiny" /\ (\E t \in {1, 2} : Wanted(b)[s].key = TinyKey(b, t)
                                               /\ Wanted(b)[s].spec = TinyKernel(b, t))
<1>1. ASSUME NEW b \in Calls, NEW s \in DOMAIN Wanted(b) PROVE Is(b, s)
  <2>1. CASE b.impl = "dynamic"
    BY <2>1, WantedFacts
  <2>2. CASE b.impl = "micro"
    BY <2>2, WantedFacts
  <2>3. CASE b.impl = "tiny"
    BY <2>3, WantedFacts
  <2> QED
    BY <2>1, <2>2, <2>3, WantedFacts DEF Impls
<1>2. /\ \A b : DynamicKey(b)[1] = b.quant /\ DynamicKey(b)[2] = "dynamic"
      /\ \A b : MicroKey(b)[1] = b.quant /\ MicroKey(b)[2] = "micro_direct"
      /\ \A b : MicroKey(b)[3] = MicroKernel(b)
      /\ \A b, t : TinyKey(b, t)[1] = "tiny_decode" /\ TinyKey(b, t)[2] = TinyKernel(b, t)
  BY DEF DynamicKey, MicroKey, TinyKey
<1>3. c.quant # "tiny_decode" /\ d.quant # "tiny_decode"
  BY CallsAssumption
<1>4. Is(c, p) /\ Is(d, q)
  BY <1>1
<1>5. CASE c.impl = "dynamic"
  BY <1>2, <1>3, <1>4, <1>5, DynamicKeyHolds, ZenonT(60)
<1>6. CASE c.impl = "micro"
  BY <1>2, <1>3, <1>4, <1>6, ZenonT(60)
<1>7. CASE c.impl = "tiny"
  BY <1>2, <1>3, <1>4, <1>7, ZenonT(60)
<1> QED
  BY <1>5, <1>6, <1>7, WantedFacts DEF Impls

LEMMA WantsOne ==
  ASSUME NEW c \in Calls, NEW p \in DOMAIN Wanted(c), NEW impl, NEW spec,
         Wants(impl, Wanted(c)[p].key, spec)
  PROVE  impl = c.impl /\ spec = Wanted(c)[p].spec
  BY KeyHolds DEF Wants

-----------------------------------------------------------------------------
(* A launch.                                                                *)

LEMMA FitsBySpec ==
  ASSUME NEW kernel
  PROVE  Fits([spec |-> kernel.spec]) <=> Fits(kernel)
  BY DEF Fits

\* A remembered answer is the one this kernel would give.
LEMMA AcceptsRight ==
  ASSUME IInv, NEW c \in Calls, c.impl = "micro", NEW p \in DOMAIN Wanted(c),
         NEW kernel, kernel.spec = Wanted(c)[p].spec
  PROVE  Accepts(kernel, Wanted(c)[p].key) <=> Fits(kernel)
<1> DEFINE key == Wanted(c)[p].key
           k   == AnswerKey(kernel, key)
<1>1. CASE Answered(k) = {}
  BY <1>1 DEF Accepts
<1>2. CASE Answered(k) # {}
  <2> DEFINE a == CHOOSE x \in Answered(k) : TRUE
  <2>1. a \in Answered(k)
    BY <1>2
  <2>2. Accepts(kernel, key) <=> a.accepted
    BY <1>2 DEF Accepts
  <2> HIDE DEF a
  <2>3. a \in answers /\ a.key = <<kernel.id, key>>
    BY <2>1 DEF Answered, AnswerKey
  <2>4. Wants("micro", key, kernel.spec)
    BY DEF Wants
  <2>5. AnswerRight(a) /\ a.key[2] = key
    BY <2>3 DEF IInv
  <2>6. a.accepted <=> Fits([spec |-> kernel.spec])
    BY <2>4, <2>5 DEF AnswerRight
  <2> QED
    BY <2>2, <2>6, FitsBySpec
<1> QED
  BY <1>1, <1>2

\* A kernel that is found was compiled for this call.
LEMMA KeptRight ==
  ASSUME IInv, NEW c \in Calls, NEW p \in DOMAIN Wanted(c), Kept(c, Wanted(c)[p].key)
  PROVE  /\ KernelKept(c, Wanted(c)[p].key).spec = Wanted(c)[p].spec
         /\ reuse => Cached(Wanted(c)[p].key)
<1> DEFINE key == Wanted(c)[p].key
<1>1. CASE MemoHas(c, key)
  <2>1. ~memo.none /\ memo.key = key /\ KernelKept(c, key) = memo.kernel
    BY <1>1 DEF MemoHas, KernelKept
  <2>2. PICK i \in {"micro", "dynamic"} : Entry(i, memo)
    BY <2>1 DEF IInv, Nothing
  <2>3. memo.kernel.spec = Wanted(c)[p].spec
    BY <2>1, <2>2, WantsOne DEF Entry
  <2> QED
    BY <2>1, <2>3 DEF IInv
<1>2. CASE ~MemoHas(c, key)
  <2> DEFINE e == CHOOSE x \in Lookup(c, key) : TRUE
  <2>1. e \in Lookup(c, key) /\ KernelKept(c, key) = e.kernel
    BY <1>2 DEF Kept, KernelKept
  <2> HIDE DEF e
  <2>2. e \in caches[c.impl] /\ e.key = key /\ Entry(c.impl, e) /\ c.impl \in Impls
    BY <2>1, WantedFacts DEF Lookup, IInv
  <2>3. e.kernel.spec = Wanted(c)[p].spec
    BY <2>2, WantsOne DEF Entry
  <2> QED
    BY <2>1, <2>2, <2>3 DEF Cached
<1> QED
  BY <1>1, <1>2

\* What a launch with the right kernel leaves behind; "stays" says that the
\* kernel is still, or now, in a cache if kernels are kept.
LEMMA UsesRight ==
  ASSUME IInv, NEW c \in Calls, NEW p \in DOMAIN Wanted(c), NEW kernel,
         kernel.spec = Wanted(c)[p].spec, Uses(c, Wanted(c)[p], kernel), UNCHANGED reuse,
         caches' = [i \in Impls |-> caches'[i]],
         \A i \in Impls : caches[i] \subseteq caches'[i]
                         /\ \A e \in caches'[i] : Entry(i, e),
         reuse => Cached(Wanted(c)[p].key)'
  PROVE  IInv'
<1> DEFINE want == Wanted(c)[p]
<1>1. (memo' = memo \/ (c.impl # "tiny"
                        /\ memo' = [none |-> FALSE, key |-> want.key, kernel |-> kernel]))
  BY DEF Uses, Remember
<1>2. Wants(c.impl, want.key, kernel.spec)
  BY DEF Wants
<1>3. memo' = Nothing \/ (memo'.none = FALSE /\ \E i \in {"micro", "dynamic"} : Entry(i, memo'))
  <2>1. CASE memo' = memo
    BY <2>1 DEF IInv
  <2>2. CASE c.impl # "tiny" /\ memo' = [none |-> FALSE, key |-> want.key, kernel |-> kernel]
    BY <1>2, <2>2, WantedFacts DEF Entry, Impls
  <2> QED
    BY <1>1, <2>1, <2>2
<1>4. \A a \in answers' : AnswerRight(a)
  <2>1. CASE c.impl # "micro"
    BY <2>1 DEF Uses, Answer, IInv
  <2>2. CASE c.impl = "micro"
    <3> DEFINE new == [key |-> AnswerKey(kernel, want.key),
                       accepted |-> Accepts(kernel, want.key)]
    <3>1. answers' = answers \cup {new}
      BY <2>2 DEF Uses, Answer
    <3>2. AnswerRight(new)
      <4>1. Accepts(kernel, want.key) <=> Fits(kernel)
        BY <2>2, AcceptsRight
      <4>2. new.key[2] = want.key
        BY DEF AnswerKey
      <4>3. new.accepted <=> Fits([spec |-> kernel.spec])
        BY <4>1, FitsBySpec, Zenon
      <4> HIDE DEF new
      <4>4. ASSUME NEW spec, Wants("micro", want.key, spec)
            PROVE  new.accepted <=> Fits([spec |-> spec])
        <5>1. spec = kernel.spec
          BY <4>4, WantsOne
        <5> QED
          BY <4>3, <5>1, Zenon
      <4> QED
        BY <4>2, <4>4 DEF AnswerRight
    <3> QED
      BY <3>1, <3>2 DEF IInv
  <2> QED
    BY <2>1, <2>2
<1>5. ASSUME NEW key, Cached(key) PROVE Cached(key)'
  <2>1. PICK i \in Impls : \E e \in caches[i] : Entry(i, e) /\ e.key = key
    BY <1>5 DEF Cached
  <2>2. \E e \in caches'[i] : Entry(i, e) /\ e.key = key
    BY <2>1
  <2> QED
    BY <2>2 DEF Cached, Entry, Wants
<1>6. reuse' => \A key \in warm' : Cached(key)'
  BY <1>5 DEF Uses, IInv
<1>7. reuse' /\ ~memo'.none => Cached(memo.key)'
  BY <1>1, <1>5 DEF IInv
<1>8. RunsOwnKernel' /\ WarmServed'
  <2>1. last' = Outcome(c, want, kernel)
    BY DEF Uses
  <2>2. CASE c.impl # "micro"
    BY <2>1, <2>2 DEF Outcome, RunsOwnKernel, WarmServed
  <2>3. CASE c.impl = "micro" /\ Fits(kernel)
    BY <2>1, <2>3, AcceptsRight DEF Outcome, RunsOwnKernel, WarmServed
  <2>4. CASE c.impl = "micro" /\ ~Fits(kernel)
    BY <2>1, <2>4, AcceptsRight DEF Outcome, RunsOwnKernel, WarmServed
  <2> QED
    BY <2>2, <2>3, <2>4
<1> QED
  BY <1>3, <1>4, <1>6, <1>7, <1>8 DEF IInv, Entry, Wants, AnswerRight, Fits

-----------------------------------------------------------------------------
(* The steps.                                                               *)

LEMMA InvInit == KernelsInit => IInv
  BY DEF KernelsInit, IInv, Impls, Nothing, RunsOwnKernel, WarmServed

LEMMA FindInv ==
  ASSUME IInv, NEW c \in Calls, NEW p \in DOMAIN Wanted(c), Find(c, Wanted(c)[p])
  PROVE  IInv'
<1>1. Kept(c, Wanted(c)[p].key) /\ Uses(c, Wanted(c)[p], KernelKept(c, Wanted(c)[p].key))
      /\ UNCHANGED <<reuse, caches>>
  BY DEF Find
<1>2. /\ KernelKept(c, Wanted(c)[p].key).spec = Wanted(c)[p].spec
      /\ reuse => Cached(Wanted(c)[p].key)
  BY <1>1, KeptRight
<1>3. reuse => Cached(Wanted(c)[p].key)'
  BY <1>1, <1>2 DEF Cached
<1>4. /\ caches' = [i \in Impls |-> caches'[i]]
      /\ \A i \in Impls : caches[i] \subseteq caches'[i] /\ \A e \in caches'[i] : Entry(i, e)
  BY <1>1 DEF IInv
<1> QED
  BY <1>1, <1>2, <1>3, <1>4, UsesRight

LEMMA CompileInv ==
  ASSUME IInv, NEW c \in Calls, NEW p \in DOMAIN Wanted(c), Compile(c, Wanted(c)[p])
  PROVE  IInv'
<1> DEFINE want == Wanted(c)[p]
<1>1. PICK id \in IdsFor(c) :
        /\ Uses(c, want, [id |-> id, spec |-> want.spec])
        /\ Store(c, want.key, [id |-> id, spec |-> want.spec])
  BY DEF Compile
<1> DEFINE kernel == [id |-> id, spec |-> want.spec]
           new    == [key |-> want.key, kernel |-> kernel]
<1>2. c.impl \in Impls /\ UNCHANGED reuse
  BY WantedFacts DEF Compile
<1>3. Entry(c.impl, new)
  BY DEF Entry, Wants
<1>4. /\ Reuses(c) => caches' = [caches EXCEPT ![c.impl] = @ \cup {new}]
      /\ ~Reuses(c) => caches' = caches
      /\ reuse => Reuses(c)
  BY <1>1 DEF Store, Reuses
<1>5. new.key = want.key /\ kernel.spec = want.spec
  OBVIOUS
<1>6. Uses(c, want, kernel)
  BY <1>1
<1> HIDE DEF new, kernel, want
<1>7. /\ caches' = [i \in Impls |-> caches'[i]]
      /\ \A i \in Impls : caches'[i] \in {caches[i], caches[i] \cup {new}}
                         /\ (i # c.impl => caches'[i] = caches[i])
      /\ reuse => new \in caches'[c.impl]
  BY <1>2, <1>4 DEF IInv
<1>8. \A i \in Impls : caches[i] \subseteq caches'[i] /\ \A e \in caches'[i] : Entry(i, e)
  BY <1>3, <1>7 DEF IInv
<1>9. reuse => Cached(want.key)'
  BY <1>2, <1>3, <1>5, <1>7 DEF Cached
<1> QED
  BY <1>2, <1>5, <1>6, <1>7, <1>8, <1>9, UsesRight DEF want

\* A step that leaves the caches alone.
LEMMA CachesKept ==
  ASSUME IInv, UNCHANGED <<reuse, memo, caches, answers, warm>>, RunsOwnKernel', WarmServed'
  PROVE  IInv'
  BY DEF IInv, Entry, Wants, AnswerRight, Fits, Cached

\* Nothing that was found or compiled before is refused: it is still cached.
LEMMA RefuseInv ==
  ASSUME IInv, NEW c \in Calls, NEW p \in DOMAIN Wanted(c), Refuse(c, Wanted(c)[p])
  PROVE  IInv'
<1> DEFINE key == Wanted(c)[p].key
<1>1. /\ ~Kept(c, key) /\ last' = [none |-> FALSE, call |-> "frozen", key |-> key]
      /\ UNCHANGED <<reuse, memo, caches, answers, frozen, warm>>
  BY DEF Refuse
<1>2. reuse => key \notin warm
  <2> SUFFICES ASSUME reuse, key \in warm PROVE FALSE
    OBVIOUS
  <2>1. PICK i \in Impls : \E e \in caches[i] : Entry(i, e) /\ e.key = key
    BY DEF IInv, Cached
  <2>2. PICK e \in caches[i] : Entry(i, e) /\ e.key = key
    BY <2>1
  <2>3. i = c.impl
    BY <2>2, WantsOne DEF Entry
  <2> QED
    BY <1>1, <2>2, <2>3 DEF Kept, Reuses, Lookup
<1>3. RunsOwnKernel' /\ WarmServed'
  BY <1>1, <1>2 DEF RunsOwnKernel, WarmServed
<1>4. UNCHANGED <<reuse, memo, caches, answers, warm>>
  BY <1>1
<1> QED
  BY <1>3, <1>4, CachesKept

LEMMA ClearInv == IInv /\ Clear => IInv'
<1> SUFFICES ASSUME IInv, Clear PROVE IInv'
  OBVIOUS
<1>1. /\ memo' = Nothing /\ answers' = {} /\ warm' = {} /\ last' = Nothing
      /\ caches' = [caches EXCEPT !["micro"] = {}, !["dynamic"] = {}]
  BY DEF Clear
<1>2. /\ caches' = [i \in Impls |-> caches'[i]]
      /\ \A i \in Impls : \A e \in caches'[i] : Entry(i, e)
  BY <1>1 DEF IInv, Impls
<1>3. RunsOwnKernel' /\ WarmServed' /\ memo'.none
  BY <1>1 DEF RunsOwnKernel, WarmServed, Nothing
<1> QED
  BY <1>1, <1>2, <1>3 DEF IInv, Entry, Wants

\* Freezing, and doing nothing.
LEMMA FreezeInv == IInv /\ (Freeze \/ UNCHANGED kernelVars) => IInv'
<1> SUFFICES ASSUME IInv, Freeze \/ UNCHANGED kernelVars PROVE IInv'
  OBVIOUS
<1>1. UNCHANGED <<reuse, memo, caches, answers, warm>> /\ (last' = Nothing \/ last' = last)
  BY DEF Freeze, kernelVars
<1>2. RunsOwnKernel' /\ WarmServed'
  BY <1>1 DEF IInv, RunsOwnKernel, WarmServed, Nothing
<1> QED
  BY <1>1, <1>2, CachesKept

LEMMA InvNext == IInv /\ [KernelsNext]_kernelVars => IInv'
<1> SUFFICES ASSUME IInv, [KernelsNext]_kernelVars PROVE IInv'
  OBVIOUS
<1>1. ASSUME NEW c \in Calls, NEW p \in DOMAIN Wanted(c), Resolve(c, p) PROVE IInv'
  BY <1>1, FindInv, CompileInv, RefuseInv DEF Resolve
<1>2. CASE Clear
  BY <1>2, ClearInv
<1>3. CASE Freeze \/ UNCHANGED kernelVars
  BY <1>3, FreezeInv
<1> QED
  BY <1>1, <1>2, <1>3 DEF KernelsNext

-----------------------------------------------------------------------------
\* A launch runs a kernel compiled for its own arguments, and a micro launch
\* goes ahead exactly when that kernel takes its threads (the getters of
\* compiled kernels, _compiled_direct_micro_accepts_block_dim).
THEOREM LaunchesOwnKernel == KernelsSpec => []RunsOwnKernel
<1>1. IInv => RunsOwnKernel
  BY DEF IInv
<1> QED
  BY <1>1, InvInit, InvNext, PTL DEF KernelsSpec

\* With compiled kernels kept, a frozen launch of arguments resolved since
\* the caches were cleared is never refused.
THEOREM WarmIsServed == KernelsSpec => []WarmServed
<1>1. IInv => WarmServed
  BY DEF IInv
<1> QED
  BY <1>1, InvInit, InvNext, PTL DEF KernelsSpec
-----------------------------------------------------------------------------
(* CUDA graphs: start-up, profile, captures.                                 *)

Pools == {Global, Throwaway}

WrapperExecs == [owner : Wrappers, desc : {NoValue}, pool : Pools, kv : Nat]
WrapperObjects == [pool : Pools, graphs : SUBSET WrapperExecs]

AllDescs == UNION {CaptureDescs(Cfg[m]) : m \in Managers}
ManagerExecs == [owner : Managers, desc : AllDescs, pool : Pools, kv : Nat]
ManagerObjects ==
  [pool : Pools, graphs : SUBSET ManagerExecs, captured : BOOLEAN, limit : {NoValue, Samples}]

\* The places of the start-up where nothing is captured, where the profile's
\* captures may be about, and where those of the server are.
Clean == {"extremes", "extremesRun", "profile", "swap", "teardown", "teardownDying", "load", "dead"}
Sampling == {"capture", "reset", "resetDying", "clear", "clearDying"}
Serving == {"production", "serve"}
Managing == Sampling \cup Serving \cup {"swap", "teardown", "teardownDying"}

ObjectsTyped ==
  /\ pc \in Clean \cup Sampling \cup Serving
  /\ kvCache \in Nat /\ inits \in Nat
  /\ platform \in Pools
  /\ wrapper \in [Wrappers -> WrapperObjects \cup {NoValue}]
  /\ pc \in Managing => mgr \in [Managers -> ManagerObjects]

\* Every place a capture could take its pool from has this one.
AllPools(p) ==
  /\ platform = p
  /\ \A w \in Built : wrapper[w].pool = p
  /\ \A m \in Managers : mgr[m].pool = p

\* What the managers and the wrappers hold.
Reached(e) ==
  \/ \E w \in Built : e \in wrapper[w].graphs
  \/ \E m \in Managers : e \in mgr[m].graphs

\* A manager's graphs can be replayed, and are all that was to be captured once
\* it says so.
ManagersRight ==
  \A m \in Managers :
    /\ \A e \in mgr[m].graphs : e \in execs /\ e.kv = kvCache
    /\ mgr[m].captured => FullDescs(m) = {e.desc : e \in mgr[m].graphs}

CleanInv ==
  /\ execs = {} /\ held = {}
  /\ platform = Global
  /\ \A w \in Built : wrapper[w].pool = Global /\ wrapper[w].graphs = {}
  /\ pc = "swap" => \A m \in Managers : mgr[m] = NewManager

SamplingInv ==
  /\ execs \subseteq held
  /\ \A e \in held : Reached(e)
  /\ pc = "capture" => AllPools(Throwaway) /\ ManagersRight
  /\ pc \in {"clear", "clearDying"} => execs = {}

ServingInv ==
  /\ execs \subseteq held
  /\ AllPools(Global)
  /\ ManagersRight
  /\ \A e \in held : e.pool = Global
  /\ Global \in used => held # {}
  /\ \A m \in Managers : mgr[m].limit = NoValue

ProfilingInv ==
  /\ ObjectsTyped
  /\ pc \notin Serving => used \subseteq {Throwaway}
  /\ pc \in Clean => CleanInv
  /\ pc \in Sampling => SamplingInv
  /\ pc \in Serving => ServingInv

-----------------------------------------------------------------------------
LEMMA BuiltAre ==
  ASSUME ObjectsTyped
  PROVE  \A w \in Wrappers : w \in Built <=> wrapper[w] \in WrapperObjects
BY NoValueAssumption DEF ObjectsTyped, Built, WrapperObjects, WrapperExecs, Pools

LEMMA ProfilingInits == ProfilingInit => ProfilingInv
<1> SUFFICES ASSUME ProfilingInit PROVE ProfilingInv
  OBVIOUS
<1> USE DEF ProfilingInit
<1>1. ObjectsTyped
  BY DEF ObjectsTyped, Clean, Managing, Sampling, Serving, WrapperObjects, Pools
<1>2. CleanInv
  BY DEF CleanInv, Built
<1> QED
  BY <1>1, <1>2 DEF ProfilingInv, Clean, Sampling, Serving

\* A new KV cache comes with new managers.
LEMMA InitKvFacts ==
  ASSUME ProfilingInv, pc \in {"extremes", "profile", "load"},
         NEW next \in {"extremesRun", "swap", "production"}, InitKv(next)
  PROVE  ProfilingInv'
<1> USE DEF InitKv, NewManager
<1>1. ObjectsTyped /\ CleanInv /\ used \subseteq {Throwaway}
  BY DEF ProfilingInv, Clean, Serving
<1>2. mgr' \in [Managers -> ManagerObjects]
  BY DEF ManagerObjects, Pools
<1>3. ObjectsTyped'
  <2>1. pc' \in {"extremesRun", "swap", "production"} /\ inits' \in Nat /\ kvCache' = inits'
    BY <1>1 DEF ObjectsTyped
  <2> QED BY <1>1, <1>2, <2>1 DEF ObjectsTyped, Clean, Sampling, Serving
<1>4. CleanInv'
  BY <1>1 DEF CleanInv, Built
<1>5. ServingInv'
  BY <1>1 DEF CleanInv, ServingInv, Built, AllPools, ManagersRight, Global, Throwaway
<1> QED
  BY <1>1, <1>3, <1>4, <1>5 DEF ProfilingInv, Clean, Sampling, Serving

\* Between two places where nothing is captured.
LEMMA CleanStep ==
  ASSUME ProfilingInv, pc \in Clean, pc' \in Clean \ (Managing \cup {"swap"}),
         kvCache' \in Nat, inits' \in Nat,
         UNCHANGED <<wrapper, platform, execs, held, used>>
  PROVE  ProfilingInv'
<1>1. ObjectsTyped /\ CleanInv /\ used \subseteq {Throwaway}
  BY DEF ProfilingInv, Clean, Serving
<1>2. ObjectsTyped'
  BY <1>1 DEF ObjectsTyped
<1>3. CleanInv'
  BY <1>1 DEF CleanInv, Built
<1> QED
  BY <1>1, <1>2, <1>3 DEF ProfilingInv, Clean, Sampling, Serving

LEMMA SwapStep ==
  ASSUME ProfilingInv, SwapPools
  PROVE  ProfilingInv'
<1>1. ObjectsTyped /\ CleanInv /\ used \subseteq {Throwaway} /\ mgr \in [Managers -> ManagerObjects]
  BY DEF ProfilingInv, Clean, Serving, Managing, ObjectsTyped, SwapPools
<1>2. \A m \in Managers : mgr[m] = NewManager
  BY <1>1 DEF CleanInv, SwapPools
<1>b. \A w \in Wrappers : w \in Built <=> wrapper[w] \in WrapperObjects
  BY <1>1, BuiltAre
<1>3. CASE CaptureDescs(Cfg[Target]) = {}
  <2>1. ObjectsTyped'
    BY <1>1, <1>3 DEF ObjectsTyped, Clean, Sampling, Serving, SwapPools
  <2>2. SamplingInv'
    BY <1>1, <1>3 DEF CleanInv, SamplingInv, SwapPools
  <2> QED
    BY <1>1, <1>3, <2>1, <2>2 DEF ProfilingInv, Clean, Sampling, Serving, SwapPools
<1>4. CASE CaptureDescs(Cfg[Target]) # {}
  <2>a. /\ mgr' = [m \in Managers |-> [mgr[m] EXCEPT !.pool = Throwaway,
                                          !.limit = IF m = Target THEN Samples ELSE @]]
        /\ wrapper' = [w \in Wrappers |->
                        IF w \in Built THEN [wrapper[w] EXCEPT !.pool = Throwaway] ELSE NoValue]
        /\ platform' = Throwaway /\ pc' = "capture"
        /\ UNCHANGED <<kvCache, inits, execs, held, doomed, used>>
    BY <1>4 DEF SwapPools
  <2>0. \A m \in Managers : /\ mgr'[m] \in ManagerObjects
                             /\ mgr'[m].graphs = {} /\ ~mgr'[m].captured /\ mgr'[m].pool = Throwaway
    <3> TAKE m \in Managers
    <3>1. /\ mgr[m] \in ManagerObjects /\ mgr[m].graphs = {} /\ ~mgr[m].captured
      BY <1>1, <1>2 DEF NewManager
    <3>2. mgr'[m] = [mgr[m] EXCEPT !.pool = Throwaway, !.limit = IF m = Target THEN Samples ELSE @]
      BY <2>a
    <3>3. CASE m = Target
      BY <3>1, <3>2, <3>3 DEF ManagerObjects, Pools
    <3>4. CASE m # Target
      BY <3>1, <3>2, <3>4 DEF ManagerObjects, Pools
    <3> QED BY <3>3, <3>4
  <2>1. mgr' \in [Managers -> ManagerObjects]
    <3>1. mgr' = [m \in Managers |-> mgr'[m]]
      BY <2>a
    <3> QED BY <2>0, <3>1
  <2>2. \A m \in Managers : mgr'[m].graphs = {} /\ ~mgr'[m].captured /\ mgr'[m].pool = Throwaway
    BY <2>0
  <2>3. \A w \in Wrappers :
          /\ w \in Built => wrapper'[w] = [pool |-> Throwaway, graphs |-> {}]
          /\ w \notin Built => wrapper'[w] = NoValue
    BY <1>1, <2>a, <1>b DEF CleanInv, WrapperObjects
  <2>4. wrapper' \in [Wrappers -> WrapperObjects \cup {NoValue}]
    <3>1. wrapper' = [w \in Wrappers |-> wrapper'[w]]
      BY <2>a
    <3>2. [pool |-> Throwaway, graphs |-> {}] \in WrapperObjects
      BY DEF WrapperObjects, Pools
    <3> QED BY <2>3, <3>1, <3>2
  <2>5. ObjectsTyped'
    BY <1>1, <2>a, <2>1, <2>4 DEF ObjectsTyped, Clean, Sampling, Serving, Pools
  <2>6. AllPools(Throwaway)'
    <3>1. \A w \in Built' : w \in Wrappers /\ wrapper'[w] # NoValue
      BY DEF Built
    <3>2. \A w \in Built' : wrapper'[w].pool = Throwaway
      BY <2>3, <3>1
    <3> QED BY <2>a, <2>2, <3>2 DEF AllPools
  <2>7. ManagersRight'
    BY <2>2 DEF ManagersRight
  <2>8. SamplingInv'
    BY <1>1, <2>a, <2>6, <2>7 DEF SamplingInv, CleanInv
  <2> QED
    BY <1>1, <2>a, <2>5, <2>8 DEF ProfilingInv, Clean, Sampling, Serving
<1> QED BY <1>3, <1>4
-----------------------------------------------------------------------------
(* The captures.                                                             *)

\* Both the profile's captures and the server's go to one pool.
LEMMA CapturingFacts ==
  ASSUME ProfilingInv, Capturing
  PROVE  \E p \in Pools :
           /\ p = (IF pc = "capture" THEN Throwaway ELSE Global)
           /\ AllPools(p) /\ ManagersRight /\ execs \subseteq held
           /\ ObjectsTyped /\ mgr \in [Managers -> ManagerObjects]
BY DEF ProfilingInv, Capturing, SamplingInv, ServingInv, Sampling, Serving, Clean,
   Pools, ObjectsTyped, Managing

\* What has to be shown of a step of the captures.
LEMMA CaptureStep ==
  ASSUME ProfilingInv, Capturing, UNCHANGED <<pc, kvCache, inits, platform>>,
         wrapper' \in [Wrappers -> WrapperObjects \cup {NoValue}],
         mgr' \in [Managers -> ManagerObjects],
         NEW p \in Pools, p = (IF pc = "capture" THEN Throwaway ELSE Global),
         AllPools(p)', ManagersRight',
         NEW es, execs' = execs \cup es, held' = held \cup es,
         used' = used \/ (used' = used \cup {p} /\ es # {}),
         \A e \in es : e.pool = p /\ Reached(e)',
         \A e : Reached(e) => Reached(e)',
         \A m \in Managers : mgr'[m].limit = mgr[m].limit
  PROVE  ProfilingInv'
<1>1. ObjectsTyped /\ execs \subseteq held
  BY CapturingFacts
<1>2. ObjectsTyped'
  BY <1>1 DEF ObjectsTyped
<1>3. CASE pc = "capture"
  BY <1>1, <1>2, <1>3 DEF ProfilingInv, SamplingInv, Sampling, Serving, Clean
<1>4. CASE pc = "production"
  BY <1>1, <1>2, <1>4 DEF ProfilingInv, ServingInv, Sampling, Serving, Clean
<1> QED BY <1>3, <1>4 DEF Capturing

LEMMA BuildWrapperStep ==
  ASSUME ProfilingInv, BuildWrapper
  PROVE  ProfilingInv'
<1>1. Capturing /\ UNCHANGED <<pc, kvCache, inits, mgr, platform, execs, held, doomed, used>>
  BY DEF BuildWrapper, Turn
<1>2. PICK w \in Wrappers \ Built : wrapper' = [wrapper EXCEPT ![w] = NewWrapper]
  BY DEF BuildWrapper
<1>s. PICK es : es = {}
  OBVIOUS
<1>3. PICK p \in Pools :
        /\ p = (IF pc = "capture" THEN Throwaway ELSE Global)
        /\ AllPools(p) /\ ManagersRight /\ ObjectsTyped /\ mgr \in [Managers -> ManagerObjects]
  BY <1>1, CapturingFacts
<1>4. NewWrapper = [pool |-> p, graphs |-> {}] /\ NewWrapper \in WrapperObjects /\ NewWrapper # NoValue
  <2>1. NewWrapper = [pool |-> p, graphs |-> {}]
    BY <1>3 DEF NewWrapper, AllPools
  <2>2. NewWrapper \in WrapperObjects
    BY <2>1 DEF WrapperObjects
  <2> QED BY <2>1, <2>2, NoValueAssumption DEF WrapperObjects, WrapperExecs, Pools
<1>5. /\ wrapper' \in [Wrappers -> WrapperObjects \cup {NoValue}]
      /\ wrapper'[w] = NewWrapper
      /\ \A v \in Wrappers \ {w} : wrapper'[v] = wrapper[v]
  BY <1>2, <1>3, <1>4 DEF ObjectsTyped
<1>6. \A v : v \in Built' <=> v \in Built \/ v = w
  BY <1>2, <1>4, <1>5 DEF Built
<1>7. AllPools(p)'
  BY <1>1, <1>2, <1>3, <1>4, <1>5, <1>6 DEF AllPools, Built
<1>8. \A e : Reached(e) => Reached(e)'
  BY <1>1, <1>2, <1>5, <1>6 DEF Reached, Built
<1>9. ManagersRight'
  BY <1>1, <1>3 DEF ManagersRight, FullDescs
<1>10. execs' = execs \cup es /\ held' = held \cup es /\ used' = used
  BY <1>1, <1>s
<1>11. \A m \in Managers : mgr'[m].limit = mgr[m].limit
  BY <1>1
<1>12. mgr' \in [Managers -> ManagerObjects]
  BY <1>1, <1>3
<1>13. \A x \in es : x.pool = p /\ Reached(x)'
  BY <1>s
<1> QED
  <2>1. UNCHANGED <<pc, kvCache, inits, platform>>
    BY <1>1
  <2> QED
    BY <1>1, <1>3, <1>5, <1>7, <1>8, <1>9, <1>10, <1>11, <1>12, <1>13, <2>1, CaptureStep, Zenon

LEMMA PiecewiseStep ==
  ASSUME ProfilingInv, CapturePiecewise
  PROVE  ProfilingInv'
<1>1. Capturing /\ Wrappers = Built /\ UNCHANGED <<pc, kvCache, inits, mgr, platform, doomed>>
  BY DEF CapturePiecewise, Turn
<1>2. PICK w \in Wrappers :
        LET e == Executable(w, NoValue, wrapper[w].pool)
        IN  wrapper[w].graphs = {} /\ Launched(e) /\ wrapper' = [wrapper EXCEPT ![w].graphs = {e}]
  BY DEF CapturePiecewise
<1>e. PICK e : e = Executable(w, NoValue, wrapper[w].pool)
  OBVIOUS
<1>3. PICK p \in Pools :
        /\ p = (IF pc = "capture" THEN Throwaway ELSE Global)
        /\ AllPools(p) /\ ManagersRight /\ ObjectsTyped /\ mgr \in [Managers -> ManagerObjects]
  BY <1>1, CapturingFacts
<1>b. wrapper[w] \in WrapperObjects
  BY <1>1, <1>3, BuiltAre
<1>4. e \in WrapperExecs /\ e.pool = p
  BY <1>1, <1>3, <1>e DEF Executable, WrapperExecs, AllPools, ObjectsTyped
<1>5. /\ Launched(e) /\ wrapper[w].graphs = {}
      /\ wrapper' \in [Wrappers -> WrapperObjects \cup {NoValue}]
      /\ wrapper'[w] \in WrapperObjects /\ wrapper'[w].pool = wrapper[w].pool /\ wrapper'[w].graphs = {e}
      /\ \A v \in Wrappers \ {w} : wrapper'[v] = wrapper[v]
  <2>1. Launched(e) /\ wrapper[w].graphs = {} /\ wrapper' = [wrapper EXCEPT ![w].graphs = {e}]
    BY <1>2, <1>e
  <2>2. wrapper'[w] = [wrapper[w] EXCEPT !.graphs = {e}] /\ \A v \in Wrappers \ {w} : wrapper'[v] = wrapper[v]
    BY <1>3, <2>1 DEF ObjectsTyped
  <2>3. wrapper'[w] \in WrapperObjects /\ wrapper'[w].pool = wrapper[w].pool /\ wrapper'[w].graphs = {e}
    BY <1>b, <1>4, <2>2 DEF WrapperObjects
  <2> QED BY <1>3, <2>1, <2>2, <2>3 DEF ObjectsTyped
<1>6. \A v : v \in Built' <=> v \in Built
  BY <1>1, <1>5, NoValueAssumption DEF Built, WrapperObjects, WrapperExecs, Pools
<1>7. AllPools(p)'
  BY <1>1, <1>3, <1>5, <1>6 DEF AllPools
<1>8. \A x : Reached(x) => Reached(x)'
  BY <1>1, <1>5, <1>6 DEF Reached
<1>9. Reached(e)'
  BY <1>1, <1>5, <1>6 DEF Reached
<1>10. execs' = execs \cup {e} /\ held' = held \cup {e} /\ used' = used \cup {p}
  BY <1>4, <1>5 DEF Launched
<1>11. ManagersRight'
  BY <1>1, <1>3, <1>10 DEF ManagersRight, FullDescs
<1>12. \A m \in Managers : mgr'[m].limit = mgr[m].limit
  BY <1>1
<1>13. mgr' \in [Managers -> ManagerObjects]
  BY <1>1, <1>3
<1>14. \A x \in {e} : x.pool = p /\ Reached(x)'
  BY <1>4, <1>9
<1> QED
  BY <1>1, <1>3, <1>5, <1>7, <1>8, <1>10, <1>11, <1>12, <1>13, <1>14, CaptureStep, SMTT(30)

\* What a manager captures, and when it has captured it, does not depend on the
\* graphs it has.
LEMMA FullDescsStay ==
  ASSUME NEW m \in Managers, mgr'[m].limit = mgr[m].limit
  PROVE  FullDescs(m)' = FullDescs(m)
BY DEF FullDescs

LEMMA CaptureFullStep ==
  ASSUME ProfilingInv, NEW m \in Managers, CaptureFull(m)
  PROVE  ProfilingInv'
<1>1. Capturing /\ ~mgr[m].captured /\ UNCHANGED <<pc, kvCache, inits, wrapper, platform, doomed>>
  BY DEF CaptureFull, Turn
<1>2. PICK d \in FullDescs(m) :
        LET e == Executable(m, d, mgr[m].pool)
        IN  Launched(e) /\ mgr' = [mgr EXCEPT ![m].graphs = @ \union {e}]
  BY DEF CaptureFull
<1>e. PICK e : e = Executable(m, d, mgr[m].pool)
  OBVIOUS
<1>3. PICK p \in Pools :
        /\ p = (IF pc = "capture" THEN Throwaway ELSE Global)
        /\ AllPools(p) /\ ManagersRight /\ ObjectsTyped /\ mgr \in [Managers -> ManagerObjects]
  BY <1>1, CapturingFacts
<1>4. e \in ManagerExecs /\ e.pool = p /\ e.kv = kvCache
  <2>1. d \in AllDescs
    BY DEF FullDescs, AllDescs
  <2> QED BY <1>1, <1>3, <1>e, <2>1 DEF Executable, ManagerExecs, AllPools, ObjectsTyped
<1>5. /\ Launched(e)
      /\ mgr' \in [Managers -> ManagerObjects]
      /\ mgr'[m].pool = mgr[m].pool /\ mgr'[m].limit = mgr[m].limit
      /\ ~mgr'[m].captured /\ mgr'[m].graphs = mgr[m].graphs \cup {e}
      /\ \A n \in Managers \ {m} : mgr'[n] = mgr[n]
  <2>1. Launched(e) /\ mgr' = [mgr EXCEPT ![m].graphs = @ \cup {e}]
    BY <1>2, <1>e
  <2>2. /\ mgr'[m] = [mgr[m] EXCEPT !.graphs = @ \cup {e}]
        /\ \A n \in Managers \ {m} : mgr'[n] = mgr[n]
    BY <1>3, <2>1
  <2>3. /\ mgr'[m] \in ManagerObjects
        /\ mgr'[m].pool = mgr[m].pool /\ mgr'[m].limit = mgr[m].limit
        /\ ~mgr'[m].captured /\ mgr'[m].graphs = mgr[m].graphs \cup {e}
    BY <1>1, <1>3, <1>4, <2>2 DEF ManagerObjects
  <2> QED BY <1>3, <2>1, <2>2, <2>3
<1>6. Built' = Built
  BY <1>1 DEF Built
<1>7. AllPools(p)'
  BY <1>1, <1>3, <1>5, <1>6 DEF AllPools
<1>8. \A x : Reached(x) => Reached(x)'
  BY <1>1, <1>5, <1>6 DEF Reached
<1>9. \A x \in {e} : x.pool = p /\ Reached(x)'
  BY <1>4, <1>5 DEF Reached
<1>10. execs' = execs \cup {e} /\ held' = held \cup {e} /\ used' = used \cup {p}
  BY <1>4, <1>5 DEF Launched
<1>11. ManagersRight'
  <2>1. \A n \in Managers : \A x \in mgr'[n].graphs : x \in execs' /\ x.kv = kvCache'
    BY <1>1, <1>3, <1>4, <1>5, <1>10 DEF ManagersRight
  <2>2. \A n \in Managers : mgr'[n].captured =>
          n # m /\ FullDescs(n)' = FullDescs(n) /\ FullDescs(n) = {x.desc : x \in mgr'[n].graphs}
    BY <1>3, <1>5, FullDescsStay DEF ManagersRight
  <2> QED BY <2>1, <2>2 DEF ManagersRight
<1>12. \A n \in Managers : mgr'[n].limit = mgr[n].limit
  BY <1>5
<1>13. wrapper' \in [Wrappers -> WrapperObjects \cup {NoValue}]
  BY <1>1, <1>3 DEF ObjectsTyped
<1>14. mgr' \in [Managers -> ManagerObjects]
  BY <1>5
<1> QED
  <2>1. UNCHANGED <<pc, kvCache, inits, platform>>
    BY <1>1
  <2>2. PICK es : es = {e}
    OBVIOUS
  <2>3. /\ execs' = execs \cup es /\ held' = held \cup es
        /\ used' = used \cup {p} /\ es # {}
        /\ \A x \in es : x.pool = p /\ Reached(x)'
    BY <1>9, <1>10, <2>2
  <2>4. used' = used \/ (used' = used \cup {p} /\ es # {})
    BY <2>3
  <2> QED
    BY <1>1, <1>3, <1>7, <1>8, <1>11, <1>12, <1>13, <1>14, <2>1, <2>3, <2>4, CaptureStep, Zenon

LEMMA CaptureDoneStep ==
  ASSUME ProfilingInv, NEW m \in Managers, CaptureDone(m)
  PROVE  ProfilingInv'
<1>1. /\ Capturing /\ FullDescs(m) = {e.desc : e \in mgr[m].graphs}
      /\ mgr' = [mgr EXCEPT ![m].captured = TRUE]
      /\ UNCHANGED <<pc, kvCache, inits, wrapper, platform, execs, held, doomed, used>>
  BY DEF CaptureDone, Turn
<1>s. PICK es : es = {}
  OBVIOUS
<1>3. PICK p \in Pools :
        /\ p = (IF pc = "capture" THEN Throwaway ELSE Global)
        /\ AllPools(p) /\ ManagersRight /\ ObjectsTyped /\ mgr \in [Managers -> ManagerObjects]
  BY <1>1, CapturingFacts
<1>5. /\ mgr' \in [Managers -> ManagerObjects]
      /\ \A n \in Managers : /\ mgr'[n].pool = mgr[n].pool /\ mgr'[n].limit = mgr[n].limit
                             /\ mgr'[n].graphs = mgr[n].graphs
                             /\ n # m => mgr'[n].captured = mgr[n].captured
  <2>1. /\ mgr'[m] = [mgr[m] EXCEPT !.captured = TRUE]
        /\ \A n \in Managers \ {m} : mgr'[n] = mgr[n]
    BY <1>1, <1>3
  <2>2. /\ mgr'[m] \in ManagerObjects
        /\ mgr'[m].pool = mgr[m].pool /\ mgr'[m].limit = mgr[m].limit
        /\ mgr'[m].graphs = mgr[m].graphs
    BY <1>3, <2>1 DEF ManagerObjects
  <2> QED BY <1>1, <1>3, <2>1, <2>2
<1>6. Built' = Built
  BY <1>1 DEF Built
<1>7. AllPools(p)'
  BY <1>1, <1>3, <1>5, <1>6 DEF AllPools
<1>8. \A x : Reached(x) => Reached(x)'
  BY <1>1, <1>5, <1>6 DEF Reached
<1>9. \A x \in es : x.pool = p /\ Reached(x)'
  BY <1>s
<1>10. execs' = execs \cup es /\ held' = held \cup es /\ used' = used
  BY <1>1, <1>s
<1>11. ManagersRight'
  <2>1. \A n \in Managers : \A x \in mgr'[n].graphs : x \in execs' /\ x.kv = kvCache'
    BY <1>1, <1>3, <1>5 DEF ManagersRight
  <2>2. \A n \in Managers : mgr'[n].captured =>
          FullDescs(n)' = FullDescs(n) /\ FullDescs(n) = {x.desc : x \in mgr'[n].graphs}
    BY <1>1, <1>3, <1>5, FullDescsStay DEF ManagersRight
  <2> QED BY <2>1, <2>2 DEF ManagersRight
<1>12. \A n \in Managers : mgr'[n].limit = mgr[n].limit
  BY <1>5
<1>13. wrapper' \in [Wrappers -> WrapperObjects \cup {NoValue}]
  BY <1>1, <1>3 DEF ObjectsTyped
<1> QED
  <2>1. UNCHANGED <<pc, kvCache, inits, platform>>
    BY <1>1
  <2> QED
    BY <1>1, <1>3, <1>5, <1>7, <1>8, <1>9, <1>10, <1>11, <1>12, <1>13, <2>1, CaptureStep, Zenon

\* The captures of the profile are over, or have raised; those of the server are over.
LEMMA CapturedStep ==
  ASSUME ProfilingInv, ProfileCaptured \/ ProfileRaises \/ ProductionCaptured
  PROVE  ProfilingInv'
<1>1. UNCHANGED <<kvCache, inits, mgr, wrapper, platform, execs, held, doomed, used>>
  BY DEF ProfileCaptured, ProfileRaises, ProductionCaptured
<1>2. \/ pc = "capture" /\ pc' \in {"reset", "resetDying"}
      \/ pc = "production" /\ pc' = "serve"
  BY DEF ProfileCaptured, ProfileRaises, ProductionCaptured
<1>3. ObjectsTyped'
  BY <1>1, <1>2 DEF ProfilingInv, ObjectsTyped, Clean, Sampling, Serving, Managing
<1>4. CASE pc = "capture"
  <2>1. execs \subseteq held /\ \A e \in held : Reached(e)
    BY <1>4 DEF ProfilingInv, SamplingInv, Sampling
  <2>2. \A e : Reached(e) <=> Reached(e)'
    BY <1>1 DEF Reached, Built
  <2>3. SamplingInv'
    BY <1>1, <1>2, <1>4, <2>1, <2>2 DEF SamplingInv
  <2> QED BY <1>1, <1>2, <1>3, <1>4, <2>3 DEF ProfilingInv, Clean, Sampling, Serving
<1>5. CASE pc = "production"
  <2>1. ServingInv
    BY <1>5 DEF ProfilingInv, Serving
  <2>2. ServingInv'
    BY <1>1, <2>1 DEF ServingInv, AllPools, ManagersRight, Built, FullDescs
  <2> QED BY <1>2, <1>3, <1>5, <2>2 DEF ProfilingInv, Clean, Sampling, Serving
<1> QED BY <1>2, <1>4, <1>5

-----------------------------------------------------------------------------
(* Cleaning up.                                                              *)

LEMMA ReachedAre ==
  ASSUME NEW e, Reached(e)
  PROVE  e \in (UNION {wrapper[w].graphs : w \in Built}) \cup (UNION {mgr[m].graphs : m \in Managers})
<1>1. CASE \E w \in Built : e \in wrapper[w].graphs
  BY <1>1
<1>2. CASE \E m \in Managers : e \in mgr[m].graphs
  BY <1>2
<1> QED BY <1>1, <1>2 DEF Reached

LEMMA ResetStep ==
  ASSUME ProfilingInv, ResetGraphs
  PROVE  ProfilingInv'
<1>1. /\ pc \in {"reset", "resetDying"} /\ pc' \in {"clear", "clearDying"}
      /\ doomed' = doomed \union (UNION {wrapper[w].graphs : w \in Built})
                     \union (UNION {mgr[m].graphs : m \in Managers})
      /\ execs' = execs \ doomed'
      /\ UNCHANGED <<kvCache, inits, mgr, wrapper, platform, held, used>>
  BY DEF ResetGraphs, Dying
<1>2. execs \subseteq held /\ \A e \in held : Reached(e)
  BY <1>1 DEF ProfilingInv, SamplingInv, Sampling
<1>3. ObjectsTyped'
  BY <1>1 DEF ProfilingInv, ObjectsTyped, Clean, Sampling, Serving, Managing
<1>4. \A e : Reached(e) <=> Reached(e)'
  BY <1>1 DEF Reached, Built
<1>5. \A e : Reached(e) => e \in doomed'
  BY <1>1, ReachedAre
<1>6. execs' = {}
  BY <1>1, <1>2, <1>5
<1>7. SamplingInv'
  BY <1>1, <1>2, <1>4, <1>6 DEF SamplingInv
<1> QED
  BY <1>1, <1>3, <1>7 DEF ProfilingInv, Clean, Sampling, Serving

LEMMA ClearStep ==
  ASSUME ProfilingInv, ClearGraphs
  PROVE  ProfilingInv'
<1>1. /\ pc \in {"clear", "clearDying"} /\ pc' \in {"teardown", "teardownDying"}
      /\ held' = held \ ((UNION {wrapper[w].graphs : w \in Built}) \union (UNION {mgr[m].graphs : m \in Managers}))
      /\ wrapper' = [w \in Wrappers |-> IF w \in Built THEN [pool |-> Global, graphs |-> {}] ELSE NoValue]
      /\ mgr' = [m \in Managers |-> [mgr[m] EXCEPT !.graphs = {}, !.captured = FALSE, !.pool = Global]]
      /\ platform' = Global
      /\ UNCHANGED <<kvCache, inits, execs, doomed, used>>
  BY DEF ClearGraphs, Dying
<1>2. /\ execs = {} /\ \A e \in held : Reached(e)
      /\ ObjectsTyped /\ mgr \in [Managers -> ManagerObjects] /\ used \subseteq {Throwaway}
  BY <1>1 DEF ProfilingInv, SamplingInv, Sampling, Serving, ObjectsTyped, Managing
<1>3. held' = {}
  BY <1>1, <1>2, ReachedAre
<1>4. mgr' \in [Managers -> ManagerObjects]
  <2>1. \A m \in Managers :
          [mgr[m] EXCEPT !.graphs = {}, !.captured = FALSE, !.pool = Global] \in ManagerObjects
    BY <1>2 DEF ManagerObjects, Pools
  <2> QED BY <1>1, <2>1
<1>5. /\ wrapper' \in [Wrappers -> WrapperObjects \cup {NoValue}]
      /\ \A w \in Wrappers : wrapper'[w] \in {[pool |-> Global, graphs |-> {}], NoValue}
  BY <1>1 DEF WrapperObjects, Pools
<1>6. \A w \in Built' : wrapper'[w] = [pool |-> Global, graphs |-> {}]
  BY <1>5 DEF Built
<1>7. ObjectsTyped'
  BY <1>1, <1>2, <1>4, <1>5 DEF ObjectsTyped, Clean, Sampling, Serving, Pools
<1>8. CleanInv'
  <2>1. execs' = {} /\ platform' = Global /\ pc' # "swap"
    BY <1>1, <1>2
  <2> QED BY <1>3, <1>6, <2>1 DEF CleanInv
<1> QED
  BY <1>1, <1>2, <1>7, <1>8 DEF ProfilingInv, Clean, Sampling, Serving

-----------------------------------------------------------------------------
LEMMA ProfilingInvHolds == ProfilingSpec => []ProfilingInv
<1>1. ProfilingInit => ProfilingInv
  BY ProfilingInits
<1>2. ProfilingInv /\ [ProfilingNext]_profilingVars => ProfilingInv'
  <2> SUFFICES ASSUME ProfilingInv, [ProfilingNext]_profilingVars PROVE ProfilingInv'
    OBVIOUS
  <2>t. kvCache \in Nat /\ inits \in Nat
    BY DEF ProfilingInv, ObjectsTyped
  <2>1. CASE ExtremesInit
    BY <2>1, InitKvFacts DEF ExtremesInit
  <2>2. CASE ExtremesDone
    <3>1. pc = "extremesRun" /\ pc' \in {"profile", "dead"} /\ kvCache' = 0
          /\ UNCHANGED <<inits, wrapper, platform, execs, held, used>>
      BY <2>2 DEF ExtremesDone, TornDown
    <3> QED BY <2>t, <3>1, CleanStep DEF Clean, Managing, Sampling, Serving
  <2>3. CASE ProfileInit
    BY <2>3, InitKvFacts DEF ProfileInit
  <2>4. CASE ProfileInitFails
    <3>1. pc = "profile" /\ pc' = "dead" /\ kvCache' = 0 /\ inits' = inits + 1
          /\ UNCHANGED <<wrapper, platform, execs, held, used>>
      BY <2>4 DEF ProfileInitFails, TornDown
    <3> QED BY <2>t, <3>1, CleanStep DEF Clean, Managing, Sampling, Serving
  <2>5. CASE SwapPools
    BY <2>5, SwapStep
  <2>6. CASE BuildWrapper
    BY <2>6, BuildWrapperStep
  <2>7. CASE CapturePiecewise
    BY <2>7, PiecewiseStep
  <2>8. ASSUME NEW m \in Managers, CaptureFull(m) \/ CaptureDone(m) PROVE ProfilingInv'
    BY <2>8, CaptureFullStep, CaptureDoneStep
  <2>9. CASE ProfileCaptured \/ ProfileRaises \/ ProductionCaptured
    BY <2>9, CapturedStep
  <2>10. CASE ResetGraphs
    BY <2>10, ResetStep
  <2>11. CASE ClearGraphs
    BY <2>11, ClearStep
  <2>12. CASE TeardownProfile
    <3>1. pc \in {"teardown", "teardownDying"} /\ pc' \in {"dead", "load"} /\ kvCache' = 0
          /\ UNCHANGED <<inits, wrapper, platform, execs, held, used>>
      BY <2>12 DEF TeardownProfile, TornDown, Dying
    <3> QED BY <2>t, <3>1, CleanStep DEF Clean, Managing, Sampling, Serving
  <2>13. CASE ProductionInit
    BY <2>13, InitKvFacts DEF ProductionInit
  <2>14. CASE UNCHANGED profilingVars
    BY <2>14 DEF profilingVars, ProfilingInv, ObjectsTyped, CleanInv, SamplingInv, ServingInv,
       AllPools, Reached, ManagersRight, FullDescs, Built
  <2> QED
    BY <2>1, <2>2, <2>3, <2>4, <2>5, <2>6, <2>7, <2>8, <2>9, <2>10, <2>11, <2>12, <2>13, <2>14
    DEF ProfilingNext
<1> QED BY <1>1, <1>2, PTL DEF ProfilingSpec

-----------------------------------------------------------------------------
(* Dispatch.                                                                 *)

\* The graphs of a mode that dispatch considers, and which of them it takes.
FittingOf(c, mode, b) ==
  {d \in Candidates(c, mode, b.tokens, EffectiveLoras(c, b.loras)) :
     Compatible(d, b, EffectiveLoras(c, b.loras))}

LEMMA DispatchTakes ==
  ASSUME NEW c, NEW on, NEW b
  PROVE  \/ /\ Dispatch(c, on, b) = Eager(b, EffectiveLoras(c, b.loras))
            /\ ~on \/ b.tokens = 0 \/ FittingOf(c, "FULL", b) = {}
         \/ on /\ Dispatch(c, on, b) \in FittingOf(c, "FULL", b)
         \/ on /\ FittingOf(c, "FULL", b) = {} /\ Dispatch(c, on, b) \in FittingOf(c, "PIECEWISE", b)
<1> DEFINE e == Eager(b, EffectiveLoras(c, b.loras))
           F == FittingOf(c, "FULL", b)
           P == FittingOf(c, "PIECEWISE", b)
<1>1. Dispatch(c, on, b) =
        IF ~on \/ b.tokens = 0 THEN e
        ELSE IF F # {} THEN CHOOSE x \in F : TRUE
        ELSE IF P # {} THEN CHOOSE x \in P : TRUE
        ELSE e
  BY Zenon DEF Dispatch, FittingOf
<1>2. F # {} => (CHOOSE x \in F : TRUE) \in F
  OBVIOUS
<1>3. P # {} => (CHOOSE x \in P : TRUE) \in P
  OBVIOUS
<1> HIDE DEF e, F, P
<1>4. \/ Dispatch(c, on, b) = e /\ (~on \/ b.tokens = 0 \/ F = {})
      \/ on /\ Dispatch(c, on, b) \in F
      \/ on /\ F = {} /\ Dispatch(c, on, b) \in P
  BY <1>1, <1>2, <1>3
<1> QED BY <1>4 DEF e, F, P

\* The full graph that a batch is given was to be captured, for the adapters
\* there are, and no smaller one of them holds the batch.
LEMMA FullIsCandidate ==
  ASSUME NEW c, NEW on, NEW b, Dispatch(c, on, b).mode = "FULL"
  PROVE  /\ on
         /\ \E l : Dispatch(c, on, b) \in Candidates(c, "FULL", b.tokens, l)
<1>1. Eager(b, EffectiveLoras(c, b.loras)).mode = "NONE"
  BY DEF Eager, Desc
<1>2. \A x \in FittingOf(c, "PIECEWISE", b) : x.mode = "PIECEWISE"
  BY DEF FittingOf, Candidates
<1>3. on /\ Dispatch(c, on, b) \in FittingOf(c, "FULL", b)
  BY <1>1, <1>2, DispatchTakes
<1> QED BY <1>3 DEF FittingOf

\* Every size is captured for every number of adapters.
UniformAt(n, q, l) == Desc("FULL", RoundUp(n, q), RoundUp(n, q) \div q, q, NoValue, l)
AdmittedAt(c, n, q) ==
  /\ RoundUp(n, q) <= MaxDecodeTokens(c)
  /\ RoundUp(n, q) <= c.maxSize
  /\ RoundUp(n, q) \div q <= c.maxReqs
  /\ c.only # NoValue => RoundUp(n, q) \div q \in c.only

LEMMA UniformAre ==
  ASSUME NEW c, NEW d
  PROVE  d \in UniformDescs(c) <=>
           /\ SeparateRoutine(c.mode) /\ ~c.varlen
           /\ \E n \in c.sizes, q \in DecodeQueryLens(c), l \in c.loras :
                AdmittedAt(c, n, q) /\ d = UniformAt(n, q, l)
<1> DEFINE S == c.sizes \X DecodeQueryLens(c) \X c.loras
           T == {x \in S : AdmittedAt(c, x[1], x[2])}
<1>1. UniformDescs(c) = IF ~(SeparateRoutine(c.mode) /\ ~c.varlen) THEN {}
                        ELSE {UniformAt(x[1], x[2], x[3]) : x \in T}
  BY Zenon DEF UniformDescs, UniformAt, AdmittedAt
<1>2. \A x \in S : /\ x[1] \in c.sizes /\ x[2] \in DecodeQueryLens(c) /\ x[3] \in c.loras
  OBVIOUS
<1>3. \A n \in c.sizes, q \in DecodeQueryLens(c), l \in c.loras :
        /\ <<n, q, l>> \in S
        /\ <<n, q, l>>[1] = n /\ <<n, q, l>>[2] = q /\ <<n, q, l>>[3] = l
  OBVIOUS
<1>4. CASE ~(SeparateRoutine(c.mode) /\ ~c.varlen)
  BY <1>1, <1>4
<1>5. CASE SeparateRoutine(c.mode) /\ ~c.varlen
  <2> HIDE DEF S
  <2>1. ASSUME d \in UniformDescs(c)
        PROVE  \E n \in c.sizes, q \in DecodeQueryLens(c), l \in c.loras :
                 AdmittedAt(c, n, q) /\ d = UniformAt(n, q, l)
    BY <1>1, <1>2, <1>5, <2>1
  <2>2. ASSUME NEW n \in c.sizes, NEW q \in DecodeQueryLens(c), NEW l \in c.loras,
               AdmittedAt(c, n, q), d = UniformAt(n, q, l)
        PROVE  d \in UniformDescs(c)
    <3>1. <<n, q, l>> \in T
      BY <1>3, <2>2
    <3> QED BY <1>1, <1>3, <1>5, <2>2, <3>1
  <2> QED BY <1>5, <2>1, <2>2
<1> QED BY <1>4, <1>5

VarlenAt(c, n, l) ==
  Desc("FULL", n, Min({n, c.maxReqs}), NoValue, c.qlen, l)
MixedAt(c, n, l) ==
  Desc(MixedMode(c.mode), n, IF MixedMode(c.mode) = "FULL" THEN Min({n, c.maxReqs}) ELSE NoValue,
       NoValue, NoValue, l)

LEMMA VarlenAre ==
  ASSUME NEW c, NEW d
  PROVE  d \in VarlenDescs(c) <=>
           /\ SeparateRoutine(c.mode) /\ c.varlen
           /\ \E n \in c.sizes, l \in c.loras : n <= MaxDecodeTokens(c) /\ d = VarlenAt(c, n, l)
<1> DEFINE S == {n \in c.sizes : n <= MaxDecodeTokens(c)} \X c.loras
<1>1. VarlenDescs(c) = IF ~(SeparateRoutine(c.mode) /\ c.varlen) THEN {}
                       ELSE {VarlenAt(c, x[1], x[2]) : x \in S}
  BY Zenon DEF VarlenDescs, VarlenAt
<1>2. \A x \in S : x[1] \in c.sizes /\ x[1] <= MaxDecodeTokens(c) /\ x[2] \in c.loras
  OBVIOUS
<1>3. \A n \in c.sizes, l \in c.loras :
        n <= MaxDecodeTokens(c) => <<n, l>> \in S /\ <<n, l>>[1] = n /\ <<n, l>>[2] = l
  OBVIOUS
<1> HIDE DEF S
<1>4. CASE ~(SeparateRoutine(c.mode) /\ c.varlen)
  BY <1>1, <1>4
<1>5. CASE SeparateRoutine(c.mode) /\ c.varlen
  <2>1. ASSUME d \in VarlenDescs(c)
        PROVE  \E n \in c.sizes, l \in c.loras : n <= MaxDecodeTokens(c) /\ d = VarlenAt(c, n, l)
    BY <1>1, <1>2, <1>5, <2>1
  <2>2. ASSUME NEW n \in c.sizes, NEW l \in c.loras, n <= MaxDecodeTokens(c), d = VarlenAt(c, n, l)
        PROVE  d \in VarlenDescs(c)
    <3>1. /\ <<n, l>> \in S
          /\ d = VarlenAt(c, <<n, l>>[1], <<n, l>>[2])
      BY <1>3, <2>2
    <3> QED BY <1>1, <1>5, <3>1
  <2> QED BY <1>5, <2>1, <2>2
<1> QED BY <1>4, <1>5

LEMMA MixedAre ==
  ASSUME NEW c, NEW d
  PROVE  d \in MixedDescs(c) <=>
           /\ MixedMode(c.mode) # "NONE"
           /\ \E n \in c.sizes, l \in c.loras : d = MixedAt(c, n, l)
<1> DEFINE S == c.sizes \X c.loras
<1>1. MixedDescs(c) = IF MixedMode(c.mode) = "NONE" THEN {} ELSE {MixedAt(c, x[1], x[2]) : x \in S}
  BY Zenon DEF MixedDescs, MixedAt
<1>2. \A x \in S : x[1] \in c.sizes /\ x[2] \in c.loras
  OBVIOUS
<1>3. \A n \in c.sizes, l \in c.loras : <<n, l>> \in S /\ <<n, l>>[1] = n /\ <<n, l>>[2] = l
  OBVIOUS
<1> HIDE DEF S
<1>4. CASE MixedMode(c.mode) = "NONE"
  BY <1>1, <1>4
<1>5. CASE MixedMode(c.mode) # "NONE"
  <2>1. ASSUME d \in MixedDescs(c)
        PROVE  \E n \in c.sizes, l \in c.loras : d = MixedAt(c, n, l)
    BY <1>1, <1>2, <1>5, <2>1
  <2>2. ASSUME NEW n \in c.sizes, NEW l \in c.loras, d = MixedAt(c, n, l)
        PROVE  d \in MixedDescs(c)
    <3>1. /\ <<n, l>> \in S
          /\ d = MixedAt(c, <<n, l>>[1], <<n, l>>[2])
      BY <1>3, <2>2
    <3> QED BY <1>1, <1>5, <3>1
  <2> QED BY <1>5, <2>1, <2>2
<1> QED BY <1>4, <1>5

\* What is captured, of whichever kind, has one of the configured numbers of
\* adapters and one of the configured sizes, rounded up or not.
LEMMA CaptureDescsAre ==
  ASSUME NEW c, NEW d \in CaptureDescs(c)
  PROVE  /\ d.loras \in c.loras
         /\ \E n \in c.sizes : \/ d.tokens = n
                             \/ \E q \in DecodeQueryLens(c) : d.tokens = RoundUp(n, q)
<1>1. CASE d \in UniformDescs(c)
  <2>1. PICK n \in c.sizes, q \in DecodeQueryLens(c), l \in c.loras :
          AdmittedAt(c, n, q) /\ d = UniformAt(n, q, l)
    BY <1>1, UniformAre
  <2>2. d.loras = l /\ d.tokens = RoundUp(n, q)
    BY <2>1 DEF UniformAt, Desc
  <2> QED BY <2>2
<1>2. CASE d \in VarlenDescs(c)
  <2>1. PICK n \in c.sizes, l \in c.loras : n <= MaxDecodeTokens(c) /\ d = VarlenAt(c, n, l)
    BY <1>2, VarlenAre
  <2>2. d.loras = l /\ d.tokens = n
    BY <2>1 DEF VarlenAt, Desc
  <2> QED BY <2>2
<1>3. CASE d \in MixedDescs(c)
  <2>1. PICK n \in c.sizes, l \in c.loras : d = MixedAt(c, n, l)
    BY <1>3, MixedAre
  <2>2. d.loras = l /\ d.tokens = n
    BY <2>1 DEF MixedAt, Desc
  <2> QED BY <2>2
<1> QED BY <1>1, <1>2, <1>3 DEF CaptureDescs

LEMMA EverySizeForAllLoras ==
  ASSUME NEW c, NEW d \in CaptureDescs(c), NEW e \in CaptureDescs(c)
  PROVE  \E f \in CaptureDescs(c) : f.mode = e.mode /\ f.tokens = e.tokens /\ f.loras = d.loras
<1>1. d.loras \in c.loras
  BY CaptureDescsAre
<1>2. CASE e \in UniformDescs(c)
  <2>1. PICK n \in c.sizes, q \in DecodeQueryLens(c), l \in c.loras :
          AdmittedAt(c, n, q) /\ e = UniformAt(n, q, l)
    BY <1>2, UniformAre
  <2>2. UniformAt(n, q, d.loras) \in UniformDescs(c)
    BY <1>1, <1>2, <2>1, UniformAre
  <2> QED BY <2>1, <2>2 DEF CaptureDescs, UniformAt, Desc
<1>3. CASE e \in VarlenDescs(c)
  <2>1. PICK n \in c.sizes, l \in c.loras : n <= MaxDecodeTokens(c) /\ e = VarlenAt(c, n, l)
    BY <1>3, VarlenAre
  <2>2. VarlenAt(c, n, d.loras) \in VarlenDescs(c)
    BY <1>1, <1>3, <2>1, VarlenAre
  <2> QED BY <2>1, <2>2 DEF CaptureDescs, VarlenAt, Desc
<1>4. CASE e \in MixedDescs(c)
  <2>1. PICK n \in c.sizes, l \in c.loras : e = MixedAt(c, n, l)
    BY <1>4, MixedAre
  <2>2. MixedAt(c, n, d.loras) \in MixedDescs(c)
    BY <1>1, <1>4, <2>1, MixedAre
  <2> QED BY <2>1, <2>2 DEF CaptureDescs, MixedAt, Desc
<1> QED BY <1>2, <1>3, <1>4 DEF CaptureDescs

LEMMA TokensAreNumbers ==
  ASSUME NEW m \in Managers, NEW d \in CaptureDescs(Cfg[m])
  PROVE  d.tokens \in Int
<1>1. Cfg[m].sizes \subseteq Nat /\ DecodeQueryLens(Cfg[m]) \subseteq Nat \ {0}
  BY ConfigAssumption
<1>2. \A n \in Nat, q \in Nat \ {0} : RoundUp(n, q) \in Int
  BY DEF RoundUp
<1>3. PICK n \in Cfg[m].sizes : \/ d.tokens = n
                                \/ \E q \in DecodeQueryLens(Cfg[m]) : d.tokens = RoundUp(n, q)
  BY CaptureDescsAre
<1> QED BY <1>1, <1>2, <1>3

LEMMA ReplaysHold ==
  ASSUME ProfilingInv
  PROVE  ReplaysCaptured
<1> SUFFICES ASSUME NEW m \in Managers, NEW b \in Asked(m),
                    Dispatch(Cfg[m], mgr[m].captured, b).mode = "FULL"
             PROVE  \E e \in mgr[m].graphs : /\ e.desc = Dispatch(Cfg[m], mgr[m].captured, b)
                                            /\ e.kv = kvCache /\ e \in execs
  BY DEF ReplaysCaptured
<1> DEFINE d == Dispatch(Cfg[m], mgr[m].captured, b)
<1>1. PICK l : mgr[m].captured /\ d \in Candidates(Cfg[m], "FULL", b.tokens, l)
  BY FullIsCandidate
<1> HIDE DEF d
<1>2. /\ d \in CaptureDescs(Cfg[m]) /\ d.mode = "FULL" /\ d.loras = l /\ d.tokens >= b.tokens
      /\ \A e \in CaptureDescs(Cfg[m]) :
           e.mode = "FULL" /\ e.loras = l /\ e.tokens >= b.tokens => d.tokens <= e.tokens
  BY <1>1 DEF Candidates
<1>3. ManagersRight
  BY DEF ProfilingInv, Asked, SamplingInv, ServingInv, Capturing, Sampling, Serving
<1>4. FullDescs(m) = {e.desc : e \in mgr[m].graphs}
  BY <1>1, <1>3 DEF ManagersRight
<1>5. d \in FullDescs(m)
  <2>1. CASE pc = "serve"
    BY <1>2, <2>1 DEF ProfilingInv, ServingInv, Serving, FullDescs
  <2>2. CASE pc # "serve"
    <3>1. PICK e \in mgr[m].graphs : b.tokens = e.desc.tokens
      BY <2>2 DEF Asked, CapturedTokenCounts
    <3>2. e.desc \in FullDescs(m)
      BY <1>4
    <3>3. e.desc \in CaptureDescs(Cfg[m]) /\ e.desc.mode = "FULL"
      BY <3>2 DEF FullDescs
    <3>4. PICK f \in CaptureDescs(Cfg[m]) : f.mode = "FULL" /\ f.tokens = e.desc.tokens /\ f.loras = l
      <4>1. PICK g : g = e.desc
        OBVIOUS
      <4>2. \E f \in CaptureDescs(Cfg[m]) : f.mode = g.mode /\ f.tokens = g.tokens /\ f.loras = d.loras
        BY <1>2, <3>3, <4>1, EverySizeForAllLoras
      <4> QED BY <1>2, <3>3, <4>1, <4>2
    <3>5. d.tokens = e.desc.tokens
      BY <1>2, <3>1, <3>3, <3>4, TokensAreNumbers
    <3> QED BY <1>2, <3>2, <3>5 DEF FullDescs
  <2> QED BY <2>1, <2>2
<1>6. PICK e \in mgr[m].graphs : e.desc = d
  BY <1>4, <1>5
<1> QED BY <1>3, <1>6 DEF ManagersRight, d

-----------------------------------------------------------------------------
\* What is replayed was captured on the present KV cache, and the profile gives
\* back what it took: for every configuration of the managers, any wrappers,
\* and wherever the profile's captures fail.
THEOREM ProfilesLeaveNoTrace == ProfilingSpec => []ProfilingSound
<1>1. ProfilingInv => ProfilingSound
  <2> SUFFICES ASSUME ProfilingInv PROVE ReplaysCaptured /\ ReleasedAfterReset /\ GlobalPoolKept
    BY DEF ProfilingSound
  <2>1. ReplaysCaptured
    BY ReplaysHold
  <2>2. pc \in Clean \/ pc \in Sampling \/ pc \in Serving
    BY DEF ProfilingInv, ObjectsTyped
  <2>3. ReleasedAfterReset
    BY <2>2 DEF ProfilingInv, CleanInv, SamplingInv, ServingInv, ReleasedAfterReset
  <2>4. GlobalPoolKept
    <3>1. Global # Throwaway
      BY DEF Global, Throwaway
    <3>2. CASE pc \in Serving
      <4>1. execs \subseteq held /\ (\A e \in held : e.pool = Global) /\ (Global \in used => held # {})
        BY <3>2 DEF ProfilingInv, ServingInv
      <4>2. Global \in used => \E e \in held : e.pool = Global
        BY <4>1
      <4>3. \A e \in execs : e.pool = Global
        BY <4>1
      <4> QED BY <4>2, <4>3 DEF GlobalPoolKept
    <3>3. CASE pc \notin Serving
      <4>1. used \subseteq {Throwaway} /\ pc # "serve"
        BY <3>3 DEF ProfilingInv, Serving
      <4> QED BY <3>1, <4>1 DEF GlobalPoolKept
    <3> QED BY <3>2, <3>3
  <2> QED BY <2>1, <2>3, <2>4
<1> QED BY <1>1, ProfilingInvHolds, PTL

-----------------------------------------------------------------------------
(* Dispatch, for every configuration and batch.                              *)

LEMMA SmallestNumber ==
  ASSUME NEW S, S \subseteq Nat, S # {}
  PROVE  \E x \in S : \A y \in S : x <= y
<1>1. IsWellFoundedOn(OpToRel(<, Nat), Nat)
  BY NatLessThanWellFounded
<1>2. PICK x \in S : \A y \in S : ~(<<y, x>> \in OpToRel(<, Nat))
  BY <1>1, WFMin
<1>3. \A y \in S : ~(y < x)
  BY <1>2 DEF OpToRel
<1> QED BY <1>3

\* As many adapters as a batch has, or more, and captured for.
LEMMA LorasCover ==
  ASSUME NEW c \in Configs, NEW k \in c.loras, NEW n \in 0 .. k
  PROVE  EffectiveLoras(c, n) \in Nat /\ n <= EffectiveLoras(c, n)
<1>0. c.loras \subseteq Nat
  BY ConfigsAssumption
<1> DEFINE covering == {l \in {y \in c.loras : y > 0} : l >= n}
<1>1. CASE n <= 0
  BY <1>0, <1>1 DEF EffectiveLoras
<1>2. CASE ~(n <= 0)
  <2>1. covering \subseteq Nat /\ k \in covering
    BY <1>0, <1>2
  <2>2. PICK x \in covering : \A z \in covering : x <= z
    <3> HIDE DEF covering
    <3> QED BY <2>1, SmallestNumber
  <2>3. Min(covering) \in covering
    <3>1. Min(covering) = CHOOSE u \in covering : \A v \in covering : u <= v
      BY DEF Min
    <3> HIDE DEF covering
    <3> QED BY <2>2, <3>1
  <2>4. EffectiveLoras(c, n) = Min(covering)
    <3>1. {y \in c.loras : y > 0} # {} /\ covering # {}
      BY <2>1
    <3> QED BY <1>2, <3>1 DEF EffectiveLoras
  <2> HIDE DEF covering
  <2>5. \A z \in covering : z \in Nat /\ n <= z
    BY <2>1 DEF covering
  <2> QED BY <2>3, <2>4, <2>5
<1> QED BY <1>1, <1>2

\* A product of two numbers that are not negative is not negative.
LEMMA ProductNat ==
  ASSUME NEW a \in Nat, NEW b \in Nat
  PROVE  a * b \in Nat
OBVIOUS

\* A whole number of rows.
LEMMA RoundedIsWhole ==
  ASSUME NEW n \in Nat, NEW q \in Nat \ {0}
  PROVE  \E k \in Int : RoundUp(n, q) = k * q /\ RoundUp(n, q) \div q = k /\ k * q \in Int
<1>1. PICK k \in Int : k = (n + q - 1) \div q
  OBVIOUS
<1>2. RoundUp(n, q) = k * q
  BY <1>1 DEF RoundUp
<1>3. (k * q) \div q = k
  OBVIOUS
<1> QED BY <1>2, <1>3

DispatchInv ==
  /\ cfg \in Configs
  /\ captured \in BOOLEAN /\ prefill \in BOOLEAN
  /\ batch \in Lengths(cfg)
  /\ \E k \in cfg.loras : loras \in 0 .. k
  /\ picked = Dispatch(cfg, captured, Batch)

LEMMA BatchFacts ==
  ASSUME DispatchInv
  PROVE  /\ batch.reqs \in Nat \ {0} /\ batch.reqs <= cfg.maxReqs
         /\ batch.shortest \in Nat \ {0} /\ batch.longest \in Nat \ {0}
         /\ batch.tokens \in Nat \ {0} /\ batch.reqs <= batch.tokens
         /\ batch.shortest = batch.longest => batch.tokens = batch.reqs * batch.shortest
<1>1. cfg.maxReqs \in Nat \ {0} /\ MaxQuery \in Nat \ {0}
  BY ConfigsAssumption DEF DispatchInv
<1>2. /\ batch.reqs \in 1 .. cfg.maxReqs /\ batch.shortest \in 1 .. MaxQuery
      /\ batch.longest \in 1 .. MaxQuery /\ batch.tokens \in 1 .. cfg.maxReqs * MaxQuery
      /\ batch.shortest <= batch.longest /\ Mixable(batch)
  BY DEF DispatchInv, Lengths
<1>3. PICK n \in Nat, lo \in Nat, hi \in Nat :
        n = batch.reqs - 1 /\ lo = batch.shortest - 1 /\ hi = batch.longest - 1
  BY <1>1, <1>2
<1>4. cfg.maxReqs * MaxQuery \in Nat
  BY <1>1, ProductNat
<1>5. batch.tokens \in Nat \ {0}
  BY <1>2, <1>4
<1>6. n * lo \in Nat /\ n * batch.shortest = n * lo + n
  BY <1>2, <1>3, ProductNat
<1>7. n * batch.longest \in Int
  BY <1>2, <1>3
<1>8. /\ batch.longest + n * batch.shortest <= batch.tokens
      /\ batch.tokens <= batch.shortest + n * batch.longest
  BY <1>1, <1>2, <1>3, <1>5, <1>6, <1>7 DEF Mixable
<1>9. batch.reqs <= batch.tokens
  BY <1>2, <1>3, <1>5, <1>6, <1>8
<1>10. batch.shortest = batch.longest => batch.tokens = batch.reqs * batch.shortest
  <2> SUFFICES ASSUME batch.shortest = batch.longest
               PROVE  batch.tokens = batch.reqs * batch.shortest
    OBVIOUS
  <2>1. (n + 1) * batch.shortest = n * batch.shortest + batch.shortest
    BY <1>2, <1>3
  <2>2. batch.reqs = n + 1
    BY <1>2, <1>3
  <2>3. n * batch.shortest = n * batch.longest
    OBVIOUS
  <2>4. batch.tokens = batch.shortest + n * batch.shortest
    <3>1. PICK p \in Int : p = n * batch.longest /\ p = n * batch.shortest
      BY <1>7, <2>3
    <3>2. batch.longest + p <= batch.tokens /\ batch.tokens <= batch.shortest + p
      BY <1>8, <3>1
    <3>3. batch.tokens = batch.shortest + p
      BY <1>2, <1>5, <3>2
    <3> QED BY <3>1, <3>3
  <2> QED BY <1>2, <1>7, <2>1, <2>2, <2>3, <2>4
<1> QED BY <1>1, <1>2, <1>5, <1>9, <1>10

LEMMA ConfigFacts ==
  ASSUME NEW c \in Configs
  PROVE  /\ c.sizes \subseteq Nat \ {0} /\ c.loras \subseteq Nat
         /\ c.maxReqs \in Nat \ {0} /\ c.qlen \in Nat \ {0}
         /\ DecodeQueryLens(c) \subseteq Nat \ {0}
BY ConfigsAssumption

\* A uniform graph has as many tokens as its rows make.
LEMMA UniformRows ==
  ASSUME NEW c \in Configs, NEW d \in CaptureDescs(c), d.uniform # NoValue
  PROVE  d.tokens = d.reqs * d.uniform
<1>1. CASE d \in UniformDescs(c)
  <2>1. PICK n \in c.sizes, q \in DecodeQueryLens(c), l \in c.loras :
          AdmittedAt(c, n, q) /\ d = UniformAt(n, q, l)
    BY <1>1, UniformAre
  <2>2. n \in Nat /\ q \in Nat \ {0}
    BY <2>1, ConfigFacts
  <2>3. d.tokens = RoundUp(n, q) /\ d.reqs = RoundUp(n, q) \div q /\ d.uniform = q
    BY <2>1 DEF UniformAt, Desc
  <2> QED BY <2>2, <2>3, RoundedIsWhole
<1>2. CASE d \in VarlenDescs(c)
  <2>1. PICK n \in c.sizes, l \in c.loras : n <= MaxDecodeTokens(c) /\ d = VarlenAt(c, n, l)
    BY <1>2, VarlenAre
  <2> QED BY <2>1 DEF VarlenAt, Desc
<1>3. CASE d \in MixedDescs(c)
  <2>1. PICK n \in c.sizes, l \in c.loras : d = MixedAt(c, n, l)
    BY <1>3, MixedAre
  <2> QED BY <2>1 DEF MixedAt, Desc
<1> QED BY <1>1, <1>2, <1>3 DEF CaptureDescs

LEMMA PickedRight ==
  ASSUME DispatchInv
  PROVE  PickedCovers
<1> DEFINE b == Batch
           l == EffectiveLoras(cfg, loras)
<1>0. /\ b.tokens = batch.tokens /\ b.reqs = batch.reqs /\ b.loras = loras
      /\ b.maxQuery = batch.longest
      /\ b.uniform = IF ~prefill /\ batch.shortest = batch.longest THEN batch.shortest ELSE NoValue
  BY DEF Batch
<1>1. batch.tokens \in Nat /\ batch.reqs \in Nat
  BY BatchFacts
<1>2. l \in Nat /\ loras <= l
  BY LorasCover DEF DispatchInv
<1>3. ASSUME picked = Eager(b, l)
      PROVE  PickedCovers
  <2>1. /\ picked.mode = "NONE" /\ picked.tokens = batch.tokens /\ picked.reqs = batch.reqs
        /\ picked.uniform = NoValue /\ picked.maxQuery = NoValue
    BY <1>0, <1>3 DEF Eager, Desc
  <2> QED BY <1>1, <2>1 DEF PickedCovers
<1>4. ASSUME NEW mode, captured, picked \in FittingOf(cfg, mode, b)
      PROVE  PickedCovers
  <2>1. /\ picked \in CaptureDescs(cfg) /\ Compatible(picked, b, l)
    BY <1>0, <1>4 DEF FittingOf, Candidates
  <2>2. picked.uniform # NoValue => picked.tokens = picked.reqs * picked.uniform
    BY <2>1, UniformRows DEF DispatchInv
  <2>3. picked.uniform # NoValue => ~prefill /\ {batch.shortest, batch.longest} = {picked.uniform}
    BY <1>0, <2>1 DEF Compatible
  <2>4. picked.maxQuery # NoValue => batch.longest <= picked.maxQuery
    BY <1>0, <2>1 DEF Compatible
  <2>5. /\ picked.tokens >= batch.tokens
        /\ picked.reqs # NoValue => picked.reqs >= batch.reqs
        /\ picked.loras >= loras
    BY <1>0, <1>2, <2>1 DEF Compatible
  <2> QED BY <1>4, <2>1, <2>2, <2>3, <2>4, <2>5 DEF PickedCovers
<1>5. picked = Dispatch(cfg, captured, b)
  BY DEF DispatchInv
<1>6. EffectiveLoras(cfg, b.loras) = l
  BY <1>0
<1> HIDE DEF b, l
<1> QED BY <1>3, <1>4, <1>5, <1>6, DispatchTakes

\* With room for it a decode batch can use every full graph.
LEMMA FullGraphFits ==
  ASSUME DispatchInv, cfg.spec = "fixed", SeparateRoutine(cfg.mode), ~prefill,
         IF cfg.varlen THEN batch.longest <= cfg.qlen
         ELSE {batch.shortest, batch.longest} = {cfg.qlen},
         NEW d \in CaptureDescs(cfg), d.mode = "FULL", d.tokens >= batch.tokens,
         d.loras = EffectiveLoras(cfg, loras)
  PROVE  /\ d \in UniformDescs(cfg) \cup VarlenDescs(cfg)
         /\ Compatible(d, Batch, EffectiveLoras(cfg, loras))
         /\ d.reqs >= batch.reqs
<1>0. /\ Batch.tokens = batch.tokens /\ Batch.reqs = batch.reqs /\ Batch.loras = loras
      /\ Batch.maxQuery = batch.longest
      /\ Batch.uniform = IF batch.shortest = batch.longest THEN batch.shortest ELSE NoValue
  BY DEF Batch
<1>1. /\ batch.reqs \in Nat \ {0} /\ batch.reqs <= cfg.maxReqs
      /\ batch.longest \in Nat \ {0}
      /\ batch.tokens \in Nat \ {0} /\ batch.reqs <= batch.tokens
      /\ batch.shortest = batch.longest => batch.tokens = batch.reqs * batch.shortest
  BY BatchFacts
<1>2. cfg \in Configs /\ cfg.qlen \in Nat \ {0} /\ cfg.maxReqs \in Nat \ {0} /\ cfg.sizes \subseteq Nat \ {0}
  BY ConfigFacts DEF DispatchInv
<1>3. CASE d \in UniformDescs(cfg)
  <2>0. ~cfg.varlen
    BY <1>3, UniformAre
  <2>1. PICK n \in cfg.sizes, q \in DecodeQueryLens(cfg), l \in cfg.loras :
          AdmittedAt(cfg, n, q) /\ d = UniformAt(n, q, l)
    BY <1>3, UniformAre
  <2>2. q = cfg.qlen
    BY <2>1 DEF DecodeQueryLens
  <2>3. /\ d.tokens = RoundUp(n, q) /\ d.reqs = RoundUp(n, q) \div q /\ d.uniform = q
        /\ d.maxQuery = NoValue
    BY <2>1 DEF UniformAt, Desc
  <2>4. PICK k \in Int : d.tokens = k * q /\ d.reqs = k
    BY <1>2, <2>1, <2>2, <2>3, RoundedIsWhole
  <2>5. batch.shortest = q /\ batch.longest = q /\ batch.tokens = batch.reqs * q
    BY <1>1, <2>0, <2>2
  <2>6. k >= batch.reqs
    <3> SUFFICES ASSUME k < batch.reqs PROVE FALSE
      BY <1>1
    <3>1. (batch.reqs - k) * q \in Nat \ {0} /\ (batch.reqs - k) * q = batch.reqs * q - k * q
      BY <1>1, <1>2, <2>2
    <3>2. k * q \in Int /\ batch.reqs * q \in Int
      BY <1>1, <1>2, <2>2
    <3> QED BY <2>4, <2>5, <3>1, <3>2
  <2> QED BY <1>0, <1>3, <2>3, <2>4, <2>5, <2>6 DEF Compatible
<1>4. CASE d \in VarlenDescs(cfg)
  <2>0. cfg.varlen
    BY <1>4, VarlenAre
  <2>1. PICK n \in cfg.sizes, l \in cfg.loras : n <= MaxDecodeTokens(cfg) /\ d = VarlenAt(cfg, n, l)
    BY <1>4, VarlenAre
  <2>2. d.tokens = n /\ d.reqs = Min({n, cfg.maxReqs}) /\ d.uniform = NoValue /\ d.maxQuery = cfg.qlen
    BY <2>1 DEF VarlenAt, Desc
  <2>3. n \in Nat
    BY <1>2
  <2>4. Min({n, cfg.maxReqs}) = IF n <= cfg.maxReqs THEN n ELSE cfg.maxReqs
    <3>1. Min({n, cfg.maxReqs}) = CHOOSE y \in {n, cfg.maxReqs} : \A z \in {n, cfg.maxReqs} : y <= z
      BY DEF Min
    <3> QED BY <1>2, <2>3, <3>1
  <2>5. d.reqs >= batch.reqs
    BY <1>1, <1>2, <2>2, <2>3, <2>4
  <2>6. d.maxQuery >= batch.longest /\ batch.longest # NoValue
    BY <1>1, <2>0, <2>2, NoNumber
  <2> QED BY <1>0, <1>4, <2>2, <2>5, <2>6 DEF Compatible
<1>5. CASE d \in MixedDescs(cfg)
  <2>1. MixedMode(cfg.mode) # "FULL"
    BY DEF SeparateRoutine, MixedMode
  <2>2. PICK n \in cfg.sizes, l \in cfg.loras : d = MixedAt(cfg, n, l)
    BY <1>5, MixedAre
  <2>3. d.mode = MixedMode(cfg.mode)
    BY <2>2 DEF MixedAt, Desc
  <2> QED BY <2>1, <2>3
<1> QED BY <1>3, <1>4, <1>5 DEF CaptureDescs

LEMMA DecodeServed ==
  ASSUME DispatchInv
  PROVE  DecodeGetsGraph
<1> DEFINE l == EffectiveLoras(cfg, loras)
           full == UniformDescs(cfg) \cup VarlenDescs(cfg)
           room == {d \in full : d.tokens >= batch.tokens /\ d.reqs >= batch.reqs /\ d.loras = l}
           served == /\ cfg.spec = "fixed" /\ SeparateRoutine(cfg.mode) /\ ~prefill
                     /\ IF cfg.varlen THEN batch.longest <= cfg.qlen
                        ELSE {batch.shortest, batch.longest} = {cfg.qlen}
           holding == {d \in CaptureDescs(cfg) : d.mode = "FULL" /\ d.loras = l /\ d.tokens >= batch.tokens}
<1> SUFFICES ASSUME captured, served, room # {}
             PROVE  picked \in room /\ \A d \in room : picked.tokens <= d.tokens
  BY DEF DecodeGetsGraph
<1>1. \A d \in full : d \in CaptureDescs(cfg) /\ d.mode = "FULL"
  <2>1. \A d \in UniformDescs(cfg) : d.mode = "FULL"
    BY UniformAre DEF UniformAt, Desc
  <2>2. ASSUME NEW d \in VarlenDescs(cfg) PROVE d.mode = "FULL"
    <3>1. PICK n \in cfg.sizes, k \in cfg.loras : n <= MaxDecodeTokens(cfg) /\ d = VarlenAt(cfg, n, k)
      BY VarlenAre
    <3> QED BY <3>1 DEF VarlenAt, Desc
  <2> QED BY <2>1, <2>2 DEF CaptureDescs
<1>2. room \subseteq holding
  BY <1>1
<1>3. \A d \in holding : d \in full /\ Compatible(d, Batch, l) /\ d.reqs >= batch.reqs
  BY FullGraphFits
<1>4. \A d \in holding : d.tokens \in Nat
  <2>1. batch.tokens \in Nat
    BY BatchFacts
  <2> SUFFICES ASSUME NEW d \in holding PROVE d.tokens \in Nat
    OBVIOUS
  <2>2. cfg \in Configs
    BY DEF DispatchInv
  <2>3. PICK n \in cfg.sizes : \/ d.tokens = n
                               \/ \E q \in DecodeQueryLens(cfg) : d.tokens = RoundUp(n, q)
    BY CaptureDescsAre
  <2>4. n \in Nat /\ DecodeQueryLens(cfg) \subseteq Nat \ {0}
    BY <2>2, ConfigFacts
  <2>5. d.tokens \in Int
    BY <2>3, <2>4, RoundedIsWhole
  <2>6. d.tokens >= batch.tokens
    OBVIOUS
  <2> QED BY <2>1, <2>5, <2>6
<1>5. PICK d0 \in holding : \A d \in holding : d0.tokens <= d.tokens
  <2> HIDE DEF holding, room, served
  <2>1. PICK T : T = {d.tokens : d \in holding}
    OBVIOUS
  <2>2. T \subseteq Nat /\ T # {}
    BY <1>2, <1>4, <2>1
  <2>3. PICK t \in T : \A u \in T : t <= u
    BY <2>2, SmallestNumber
  <2> QED BY <2>1, <2>3
<1>6. Batch.tokens = batch.tokens /\ Batch.loras = loras
  BY DEF Batch
<1>7. FittingOf(cfg, "FULL", Batch) = {d \in holding : \A e \in holding : d.tokens <= e.tokens}
  <2>1. Candidates(cfg, "FULL", batch.tokens, l) = {d \in holding : \A e \in holding : d.tokens <= e.tokens}
    BY DEF Candidates
  <2> HIDE DEF holding, served, room, full
  <2> QED BY <1>3, <1>6, <2>1 DEF FittingOf, l
<1>8. d0 \in FittingOf(cfg, "FULL", Batch)
  BY <1>5, <1>7
<1>9. picked \in FittingOf(cfg, "FULL", Batch)
  <2>1. Batch.tokens # 0
    BY <1>6, BatchFacts
  <2>2. picked = Dispatch(cfg, captured, Batch)
    BY DEF DispatchInv
  <2> HIDE DEF holding, served, room, full, l
  <2> QED BY <1>8, <2>1, <2>2, DispatchTakes
<1>10. picked \in holding /\ \A d \in holding : picked.tokens <= d.tokens
  BY <1>7, <1>9
<1>11. picked \in room
  BY <1>3, <1>10
<1> QED BY <1>2, <1>10, <1>11

\* Whatever a batch is asked with, and however the manager is configured: it
\* gets a graph that can hold it, and a decode batch for which there is a full
\* graph gets the smallest.
THEOREM BatchesGetTheirGraph == DispatchSpec => []DispatchSound
<1>1. DispatchInit => DispatchInv
  <2> SUFFICES ASSUME DispatchInit PROVE DispatchInv
    OBVIOUS
  <2>1. cfg.maxReqs \in Nat \ {0} /\ MaxQuery \in Nat \ {0} /\ 0 \in cfg.loras
    BY ConfigsAssumption DEF DispatchInit
  <2>2. cfg.maxReqs * MaxQuery \in Nat \ {0}
    BY <2>1
  <2>3. batch \in Lengths(cfg)
    BY <2>1, <2>2 DEF DispatchInit, Lengths, Mixable
  <2>4. \E k \in cfg.loras : loras \in 0 .. k
    <3>1. loras \in 0 .. 0
      BY DEF DispatchInit
    <3> QED BY <2>1, <3>1
  <2> QED BY <2>3, <2>4 DEF DispatchInit, DispatchInv
<1>2. DispatchInv /\ [DispatchNext]_dispatchVars => DispatchInv'
  <2>1. ASSUME DispatchInv, CaptureGraphs PROVE DispatchInv'
    BY <2>1 DEF DispatchInv, CaptureGraphs, Lengths, Mixable
  <2>2. ASSUME DispatchInv, GiveBatch PROVE DispatchInv'
    <3>1. \E k \in cfg'.loras : loras' \in 0 .. k
      BY <2>2 DEF GiveBatch
    <3>2. batch' \in Lengths(cfg')
      BY <2>2 DEF GiveBatch
    <3>3. picked' = Dispatch(cfg', captured', Batch')
      BY <2>2 DEF GiveBatch
    <3> QED BY <2>2, <3>1, <3>2, <3>3 DEF GiveBatch, DispatchInv, Lengths
  <2>3. ASSUME DispatchInv, UNCHANGED dispatchVars PROVE DispatchInv'
    BY <2>3 DEF DispatchInv, dispatchVars, Batch, Lengths, Mixable
  <2> QED BY <2>1, <2>2, <2>3 DEF DispatchNext
<1>3. DispatchInv => DispatchSound
  BY PickedRight, DecodeServed DEF DispatchSound
<1> QED BY <1>1, <1>2, <1>3, PTL DEF DispatchSpec

-----------------------------------------------------------------------------
(* Running EXL3 layers.                                                    *)

\* Each row of a batch of m is in exactly one piece, and no piece is empty or
\* larger than what was planned for it.
EachOnce(ps, m) ==
  \A r \in 0 .. m - 1 : Cardinality({i \in DOMAIN ps : ps[i][2] <= r /\ r < ps[i][3]}) = 1
AllFit(ps, m) ==
  \A i \in DOMAIN ps : ps[i][3] <= m /\ ps[i][3] - ps[i][2] \in 1 .. Rows(ps[i][1])

Types ==
  /\ env \in Envs /\ maxBatched \in BatchLimits
  /\ sharedConfig \in BOOLEAN /\ stamped \in BOOLEAN
  /\ sharedConfig => stamped
  /\ phase \in {"profile", "capture", "serve", "failed"}
  /\ profiled \subseteq Layers

KeyOf(l) == RuntimeKey(l, 0)

\* A layer that has been profiled has its runtime, and what has a runtime
\* could be planned.
Planned ==
  /\ phase # "failed" => \A l \in profiled : KeyOf(l) \in DOMAIN runtimes
  /\ phase \in {"capture", "serve"} => profiled = Layers
  /\ \A l \in Layers : KeyOf(l) \in DOMAIN runtimes => Plannable(l)

\* A runtime's users are the layers whose key it has, all of one model.
Owned ==
  \A key \in DOMAIN users :
    \E l \in Layers : key = KeyOf(l) /\ users[key] = {l.model}

RuntimeInv == Types /\ Planned /\ Owned /\ RowsOnce /\ NothingPlannedLate

-----------------------------------------------------------------------------
(* Slices.                                                                  *)

LEMMA DivMod ==
  ASSUME NEW a \in Nat, NEW b \in Nat \ {0}
  PROVE  /\ a \div b \in Nat /\ a % b \in 0 .. b - 1
         /\ a = (a \div b) * b + (a % b)
<1>1. a \div b \in Int /\ a % b \in 0 .. b - 1 /\ a = (a \div b) * b + (a % b)
  OBVIOUS
<1>2. ASSUME a \div b < 0 PROVE FALSE
  <2> DEFINE q == a \div b
  <2>1. - q - 1 \in Nat
    BY <1>1, <1>2
  <2>2. (- q - 1) * b \in Nat
    BY <2>1, ProductNat
  <2>3. (- q - 1) * b = - (q * b) - b
    BY <1>1
  <2> QED
    BY <1>1, <2>2, <2>3
<1> QED
  BY <1>1, <1>2

\* A smaller multiple is smaller by at least the factor.
LEMMA Multiples ==
  ASSUME NEW a \in Int, NEW b \in Int, NEW d \in Nat, a < b
  PROVE  /\ a * d \in Int /\ b * d \in Int
         /\ a * d + d <= b * d
<1>1. b - a - 1 \in Nat
  OBVIOUS
<1>2. (b - a - 1) * d \in Nat
  BY <1>1, ProductNat
<1>3. (b - a - 1) * d = b * d - a * d - d
  OBVIOUS
<1> QED
  BY <1>2, <1>3

LEMMA SlicesRight ==
  ASSUME NEW plan, NEW m \in Nat \ {0}, NEW size \in Nat \ {0}
  PROVE  LET ps == Slices(plan, m, size) IN
         /\ EachOnce(ps, m)
         /\ \A i \in DOMAIN ps :
              /\ ps[i][1] = plan /\ ps[i][3] <= m
              /\ ps[i][3] - ps[i][2] \in 1 .. Min2(size, m)
<1> DEFINE ps == Slices(plan, m, size)
           K  == (m + size - 1) \div size
<1>1. K \in Nat /\ K * size \in Nat /\ K * size <= m + size - 1 /\ m <= K * size
  <2>1. m + size - 1 \in Nat
    OBVIOUS
  <2>2. K \in Nat /\ (m + size - 1) % size \in 0 .. size - 1
        /\ m + size - 1 = K * size + ((m + size - 1) % size)
    BY <2>1, DivMod
  <2>3. K * size \in Nat
    BY <2>2, ProductNat
  <2> HIDE DEF K
  <2> QED
    BY <2>2, <2>3
<1>2. DOMAIN ps = 1 .. K
  BY DEF Slices
<1>3. \A i \in 1 .. K : ps[i] = <<plan, (i - 1) * size, Min2(i * size, m)>>
  BY DEF Slices
<1> HIDE DEF K, ps
<1>4. ASSUME NEW i \in 1 .. K
      PROVE  /\ ps[i][1] = plan
             /\ ps[i][2] = (i - 1) * size
             /\ ps[i][3] = Min2(i * size, m)
             /\ (i - 1) * size \in Nat /\ i * size = (i - 1) * size + size
             /\ (i - 1) * size < m
  <2>1. ps[i] = <<plan, (i - 1) * size, Min2(i * size, m)>>
    BY <1>3
  <2>2. (i - 1) * size \in Nat
    BY <1>1, ProductNat
  <2>3. i * size = (i - 1) * size + size
    BY <1>1
  <2>4. i * size <= K * size
    <3>1. CASE i = K
      BY <3>1, <1>1
    <3>2. CASE i < K
      BY <3>2, <1>1, Multiples
    <3> QED
      BY <3>1, <3>2, <1>1
  <2>5. (i - 1) * size < m
    BY <1>1, <2>2, <2>3, <2>4
  <2> QED
    BY <2>1, <2>2, <2>3, <2>5
<1>5. ASSUME NEW i \in DOMAIN ps
      PROVE  /\ ps[i][1] = plan /\ ps[i][3] <= m
             /\ ps[i][3] - ps[i][2] \in 1 .. Min2(size, m)
  BY <1>2, <1>4 DEF Min2
<1>6. ASSUME NEW r \in 0 .. m - 1
      PROVE  Cardinality({i \in DOMAIN ps : ps[i][2] <= r /\ r < ps[i][3]}) = 1
  <2> DEFINE q == r \div size
  <2>1. q \in Nat /\ q * size <= r /\ r < q * size + size /\ q * size \in Nat
    <3>1. q \in Nat /\ r % size \in 0 .. size - 1 /\ r = q * size + (r % size)
      BY DivMod
    <3>2. q * size \in Nat
      BY <3>1, ProductNat
    <3> HIDE DEF q
    <3> QED
      BY <3>1, <3>2
  <2> HIDE DEF q
  <2>2. q + 1 \in 1 .. K
    <3>1. CASE q = K
      BY <3>1, <2>1, <1>1
    <3>2. CASE K < q
      BY <3>2, <2>1, <1>1, Multiples
    <3> QED
      BY <3>1, <3>2, <2>1, <1>1
  <2>3. (q + 1) * size = q * size + size
    BY <2>1
  <2>4. ps[q + 1][2] <= r /\ r < ps[q + 1][3]
    BY <2>1, <2>2, <2>3, <1>4 DEF Min2
  <2>5. ASSUME NEW i \in 1 .. K, ps[i][2] <= r, r < ps[i][3]
        PROVE  i = q + 1
    <3>1. (i - 1) * size <= r /\ r < (i - 1) * size + size /\ (i - 1) * size \in Nat
      BY <2>5, <1>4 DEF Min2
    <3>2. CASE i - 1 < q
      BY <3>1, <3>2, <2>1, <1>1, Multiples
    <3>3. CASE q < i - 1
      BY <3>1, <3>3, <2>1, <1>1, Multiples
    <3> QED
      BY <3>2, <3>3, <2>1, <1>1
  <2>6. {i \in DOMAIN ps : ps[i][2] <= r /\ r < ps[i][3]} = {q + 1}
    BY <1>2, <2>2, <2>4, <2>5
  <2> QED
    BY <2>6, FS_Singleton
<1> QED
  BY <1>5, <1>6 DEF EachOnce, ps

LEMMA WholeRight ==
  ASSUME NEW plan, NEW m \in Nat \ {0}
  PROVE  LET ps == Whole(plan, m) IN
         /\ EachOnce(ps, m)
         /\ \A i \in DOMAIN ps : ps[i][1] = plan /\ ps[i][3] = m /\ ps[i][2] = 0
<1> DEFINE ps == Whole(plan, m)
<1>1. DOMAIN ps = {1} /\ ps[1][1] = plan /\ ps[1][2] = 0 /\ ps[1][3] = m
  BY DEF Whole
<1>2. ASSUME NEW r \in 0 .. m - 1
      PROVE  Cardinality({i \in DOMAIN ps : ps[i][2] <= r /\ r < ps[i][3]}) = 1
  <2>1. {i \in DOMAIN ps : ps[i][2] <= r /\ r < ps[i][3]} = {1}
    BY <1>1
  <2> QED
    BY <2>1, FS_Singleton
<1> QED
  BY <1>1, <1>2 DEF EachOnce

-----------------------------------------------------------------------------
(* A batch.                                                                 *)

LEMMA EnvFacts ==
  ASSUME Types
  PROVE  /\ env.minM \in Nat \ {0} /\ env.maxM \in Nat \ {0} /\ env.chunk \in Nat \ {0}
         /\ env.cap \in Nat /\ env.prefill \in BOOLEAN /\ env.fusedExt \in BOOLEAN
         /\ maxBatched \in Nat \ {0} /\ Capacity \in Nat \ {0}
         /\ MixedDecode(env) \in Nat \ {0} /\ ParityRows \in Nat \ {0}
<1>1. /\ env.minM \in Nat \ {0} /\ env.maxM \in Nat \ {0} /\ env.chunk \in Nat \ {0}
      /\ env.cap \in Nat /\ env.prefill \in BOOLEAN /\ env.fusedExt \in BOOLEAN
      /\ maxBatched \in Nat \ {0}
  BY EnvsAssumption, SizesAssumption DEF Types
<1> QED
  BY <1>1 DEF Capacity, MixedDecode, ParityRows, Min2

LEMMA SlicesFit ==
  ASSUME NEW plan, NEW m \in Nat \ {0}, NEW size \in Nat \ {0},
         Rows(plan) \in Nat, Min2(size, m) <= Rows(plan)
  PROVE  EachOnce(Slices(plan, m, size), m) /\ AllFit(Slices(plan, m, size), m)
<1> DEFINE ps == Slices(plan, m, size)
<1>1. /\ EachOnce(ps, m)
      /\ \A i \in DOMAIN ps :
           /\ ps[i][1] = plan /\ ps[i][3] <= m
           /\ ps[i][3] - ps[i][2] \in 1 .. Min2(size, m)
  BY SlicesRight
<1> HIDE DEF ps
<1>2. Min2(size, m) \in Nat
  BY DEF Min2
<1>3. ASSUME NEW i \in DOMAIN ps
      PROVE  ps[i][3] <= m /\ ps[i][3] - ps[i][2] \in 1 .. Rows(ps[i][1])
  BY <1>1, <1>2
<1>4. EachOnce(ps, m) /\ AllFit(ps, m)
  BY <1>1, <1>3 DEF AllFit
<1> QED
  BY <1>4 DEF ps

\* The pieces of a batch that is let through.
LEMMA PiecesRight ==
  ASSUME Types, NEW l \in Layers, NEW m \in Nat \ {0}, NEW capturing \in BOOLEAN,
         Stop(l, m, capturing) = "ok"
  PROVE  EachOnce(Pieces(l, m), m) /\ AllFit(Pieces(l, m), m)
<1>1. m <= maxBatched /\ (l.route = "uniform" /\ Parity(m) => m <= ParityRows)
  BY EnvFacts DEF Stop
<1>2. CASE l.route = "uniform"
  <2>1. Pieces(l, m) = UniformPieces(m)
    BY <1>2 DEF Pieces
  <2>2. CASE InWindow(m)
    <3>1. UniformPieces(m) = Whole("trellis", m)
      BY <2>2, EnvFacts DEF UniformPieces, InWindow, Parity
    <3> QED
      BY <2>1, <2>2, <3>1, WholeRight, EnvFacts DEF AllFit, InWindow, Rows
  <2>3. CASE ~InWindow(m) /\ PrefillPlanned /\ m > env.maxM
    <3>1. UniformPieces(m) = Slices("prefill", m, Capacity)
      BY <2>3, EnvFacts DEF UniformPieces, Parity
    <3> QED
      BY <2>1, <3>1, SlicesFit, EnvFacts DEF Rows, Min2
  <2>4. CASE Parity(m) /\ m > env.chunk /\ env.fusedExt
    <3>1. UniformPieces(m) = Whole("parity", m)
      BY <2>4, EnvFacts DEF UniformPieces, Parity
    <3> QED
      BY <1>1, <1>2, <2>1, <2>4, <3>1, WholeRight, EnvFacts DEF AllFit, Rows
  <2>5. CASE Parity(m) /\ ~(m > env.chunk /\ env.fusedExt)
    <3>1. UniformPieces(m) = Slices("chunk", m, env.chunk)
      BY <2>5, EnvFacts DEF UniformPieces, Parity
    <3> QED
      BY <1>1, <1>2, <2>1, <2>5, <3>1, SlicesFit, EnvFacts DEF Rows, Min2
  <2> QED
    BY <2>2, <2>3, <2>4, <2>5 DEF Parity
<1>3. CASE l.route = "mixed"
  <2>1. Pieces(l, m) = MixedPieces(m)
    BY <1>3 DEF Pieces
  <2>2. CASE m <= MixedDecode(env)
    BY <2>1, <2>2, WholeRight, EnvFacts DEF AllFit, Rows, MixedPieces
  <2>3. CASE ~(m <= MixedDecode(env))
    BY <2>1, <2>3, SlicesFit, EnvFacts DEF Rows, MixedPieces, Min2
  <2> QED
    BY <2>2, <2>3
<1>4. CASE l.route = "r7"
  <2>1. Pieces(l, m) = Slices("graph", m, Capacity)
    BY <1>4 DEF Pieces
  <2> QED
    BY <2>1, SlicesFit, EnvFacts DEF Rows, Min2
<1> QED
  BY <1>2, <1>3, <1>4, LayersAssumption

\* A key names the route and the owner it was made for, and an owner is of one
\* model.
LEMMA KeyFacts ==
  ASSUME Types, NEW l1 \in Layers, NEW l2 \in Layers, KeyOf(l1) = KeyOf(l2)
  PROVE  l1.route = l2.route /\ l1.model = l2.model
<1>1. ASSUME NEW l \in Layers
      PROVE  KeyOf(l)[1] = l.route /\ KeyOf(l)[2] = OwnerToken(l)
  BY LayersAssumption DEF KeyOf, RuntimeKey
<1>2. l1.route = l2.route /\ OwnerToken(l1) = OwnerToken(l2)
  BY <1>1
<1>3. Scope(l1) = Scope(l2) /\ IsDraft(l1) = IsDraft(l2)
  BY <1>2 DEF OwnerToken
<1> QED
  BY <1>2, <1>3, LayersAssumption DEF Scope, IsDraft, Types

LEMMA KeyAnySize ==
  ASSUME NEW l \in Layers, NEW m
  PROVE  RuntimeKey(l, m) = KeyOf(l)
  BY LayersAssumption DEF KeyOf, RuntimeKey

\* A layer that has its runtime is stopped only where the runtime says so: a
\* capture on the eager path.
LEMMA PlannedServes ==
  ASSUME Types, Planned, NEW l \in Layers, NEW m \in 1 .. maxBatched,
         NEW capturing \in BOOLEAN, KeyOf(l) \in DOMAIN runtimes
  PROVE  Stop(l, m, capturing) \in (IF capturing THEN {"ok", "eager"} ELSE {"ok"})
<1>1. RuntimeKey(l, m) \in DOMAIN runtimes
  BY KeyAnySize
<1>2. ASSUME l.route = "uniform", Parity(m) PROVE m <= ParityRows
  <2>1. UniformPlannable
    BY <1>2 DEF Planned, Plannable
  <2>2. CASE PrefillPlanned
    BY <1>2, <2>1, <2>2, EnvFacts DEF UniformPlannable, Parity, InWindow, ParityRows, Min2
  <2>3. CASE ~PrefillPlanned
    BY <2>3, EnvFacts DEF ParityRows
  <2> QED
    BY <2>2, <2>3
<1>3. ~(m > maxBatched)
  BY EnvFacts
<1>4. CASE capturing
  BY <1>1, <1>3, <1>4 DEF Stop
<1>5. CASE ~capturing
  BY <1>1, <1>2, <1>3, <1>5, EnvFacts DEF Stop
<1> QED
  BY <1>4, <1>5

-----------------------------------------------------------------------------
(* The steps.                                                               *)

Settings == <<env, maxBatched, sharedConfig, stamped>>

\* What depends on the settings alone stays.
LEMMA SettingsKept ==
  ASSUME UNCHANGED Settings
  PROVE  /\ \A l \in Layers : KeyOf(l)' = KeyOf(l) /\ Plannable(l)' = Plannable(l)
         /\ \A plan : Rows(plan)' = Rows(plan)
<1>1. Capacity' = Capacity /\ PrefillPlanned' = PrefillPlanned
  BY DEF Settings, Capacity, PrefillPlanned
<1>2. ParityRows' = ParityRows /\ MixedDecode(env)' = MixedDecode(env)
  BY <1>1 DEF Settings, ParityRows, MixedDecode
<1>3. UniformPlannable' = UniformPlannable /\ MixedPlannable' = MixedPlannable
  BY <1>1, <1>2 DEF Settings, UniformPlannable, MixedPlannable
<1>4. ASSUME NEW l \in Layers PROVE OwnerToken(l)' = OwnerToken(l)
  BY DEF Settings, OwnerToken, Scope, IsDraft
<1>5. ASSUME NEW l \in Layers PROVE KeyOf(l)' = KeyOf(l)
  BY <1>1, <1>2, <1>4, LayersAssumption DEF Settings, KeyOf, RuntimeKey
<1>6. ASSUME NEW l \in Layers PROVE Plannable(l)' = Plannable(l)
  BY <1>1, <1>3, LayersAssumption DEF Settings, Plannable
<1>7. ASSUME NEW plan PROVE Rows(plan)' = Rows(plan)
  BY <1>1, <1>2 DEF Settings, Rows
<1> QED
  BY <1>5, <1>6, <1>7

\* A batch: a layer that runs has its runtime, what is planned could be, a
\* runtime is used by one model, and the rows are right.
LEMMA ForwardRight ==
  ASSUME Types, Planned, Owned, NEW l \in Layers, NEW m \in Nat \ {0},
         NEW capturing \in BOOLEAN, Forward(l, m, capturing), UNCHANGED Settings
  PROVE  /\ lastRun'.at = phase /\ lastRun'.outcome = Stop(l, m, capturing)
         /\ DOMAIN runtimes \subseteq DOMAIN runtimes'
         /\ Stop(l, m, capturing) = "ok" => KeyOf(l) \in DOMAIN runtimes'
         /\ \A k \in Layers : KeyOf(k) \in DOMAIN runtimes' => Plannable(k)
         /\ Owned' /\ RowsOnce'
<1> DEFINE stop == Stop(l, m, capturing)
           goes == stop \notin {"unplanned", "refused"}
           key  == KeyOf(l)
<1>1. /\ lastRun' = [at |-> phase, layer |-> l, m |-> m, outcome |-> stop,
                  pieces |-> IF stop = "ok" THEN Pieces(l, m) ELSE <<>>]
      /\ ~goes => UNCHANGED <<runtimes, users>>
      /\ goes => /\ runtimes' = IF key \in DOMAIN runtimes THEN runtimes
                                 ELSE Assign(runtimes, key, l.geometry)
                 /\ users' = Assign(users, key, {l.model} \cup
                                IF key \in DOMAIN users THEN users[key] ELSE {})
  BY KeyAnySize DEF Forward
<1>2. goes /\ key \notin DOMAIN runtimes => Plannable(l)
  <2>1. CASE capturing
    BY <2>1, KeyAnySize DEF Stop
  <2>2. CASE ~capturing
    BY <2>2, KeyAnySize DEF Stop
  <2> QED
    BY <2>1, <2>2
<1>3. lastRun'.at = phase /\ lastRun'.outcome = stop /\ lastRun'.m = m
      /\ (stop = "ok" => lastRun'.pieces = Pieces(l, m))
  BY <1>1
<1> HIDE DEF stop, key
<1>4. DOMAIN runtimes' \in {DOMAIN runtimes, DOMAIN runtimes \cup {key}}
      /\ (goes => key \in DOMAIN runtimes')
      /\ (~goes => runtimes' = runtimes)
  BY <1>1 DEF Assign
<1>5. ASSUME NEW k \in Layers, KeyOf(k) \in DOMAIN runtimes' PROVE Plannable(k)
  <2>1. CASE KeyOf(k) \in DOMAIN runtimes
    BY <2>1 DEF Planned
  <2>2. CASE KeyOf(k) \notin DOMAIN runtimes
    <3>1. goes /\ KeyOf(k) = key /\ key \notin DOMAIN runtimes
      BY <1>4, <1>5, <2>2
    <3>2. Plannable(l) /\ k.route = l.route
      BY <1>2, <3>1, KeyFacts DEF key
    <3> QED
      BY <3>2 DEF Plannable
  <2> QED
    BY <2>1, <2>2
<1>6. Owned'
  <2> SUFFICES ASSUME NEW k \in DOMAIN users'
               PROVE  \E c \in Layers : k = KeyOf(c) /\ users'[k] = {c.model}
    BY SettingsKept DEF Owned
  <2>1. CASE ~goes
    BY <1>1, <2>1 DEF Owned
  <2>2. CASE goes /\ k # key
    <3>1. k \in DOMAIN users /\ users'[k] = users[k]
      BY <1>1, <2>2 DEF Assign
    <3> QED
      BY <3>1 DEF Owned
  <2>3. CASE goes /\ k = key
    <3>1. users'[k] = {l.model} \cup IF key \in DOMAIN users THEN users[key] ELSE {}
      BY <1>1, <2>3 DEF Assign
    <3>2. key \in DOMAIN users => users[key] = {l.model}
      BY KeyFacts DEF Owned, key
    <3>3. users'[k] = {l.model}
      BY <3>1, <3>2
    <3> QED
      BY <2>3, <3>3 DEF key
  <2> QED
    BY <2>1, <2>2, <2>3
<1>7. RowsOnce'
  <2> SUFFICES ASSUME stop = "ok"
               PROVE  EachOnce(lastRun'.pieces, lastRun'.m) /\ AllFit(lastRun'.pieces, lastRun'.m)
    BY <1>3, SettingsKept DEF RowsOnce, EachOnce, AllFit
  <2> QED
    BY <1>3, PiecesRight DEF stop
<1> QED
  BY <1>3, <1>4, <1>5, <1>6, <1>7 DEF stop, key

LEMMA RuntimeStarts == Init => RuntimeInv
<1> SUFFICES ASSUME Init PROVE RuntimeInv
  OBVIOUS
<1>1. Types /\ RowsOnce /\ NothingPlannedLate
  BY DEF Init, Types, RowsOnce, NothingPlannedLate
<1>2. DOMAIN runtimes = {} /\ DOMAIN users = {}
  BY DEF Init
<1> QED
  BY <1>1, <1>2 DEF Init, RuntimeInv, Planned, Owned

LEMMA ProfileInv ==
  ASSUME RuntimeInv, NEW l \in Layers, Profile(l)
  PROVE  RuntimeInv'
<1>1. Types /\ Planned /\ Owned /\ UNCHANGED Settings /\ Forward(l, maxBatched, FALSE)
  BY DEF RuntimeInv, Profile, Settings
<1>2. /\ lastRun'.at = "profile" /\ lastRun'.outcome = Stop(l, maxBatched, FALSE)
      /\ DOMAIN runtimes \subseteq DOMAIN runtimes'
      /\ Stop(l, maxBatched, FALSE) = "ok" => KeyOf(l) \in DOMAIN runtimes'
      /\ \A k \in Layers : KeyOf(k) \in DOMAIN runtimes' => Plannable(k)
      /\ Owned' /\ RowsOnce'
  BY <1>1, ForwardRight, EnvFacts DEF Profile
<1>3. Types'
  BY <1>1 DEF Profile, Types, Settings
<1>4. Planned'
  BY <1>1, <1>2, SettingsKept DEF Profile, Planned, Types
<1>5. NothingPlannedLate'
  BY <1>2 DEF NothingPlannedLate
<1> QED
  BY <1>2, <1>3, <1>4, <1>5 DEF RuntimeInv

LEMMA CaptureInv ==
  ASSUME RuntimeInv, NEW l \in Layers, NEW m \in CaptureSizes, Capture(l, m)
  PROVE  RuntimeInv'
<1>0. Types /\ maxBatched \in Nat
  BY EnvFacts DEF RuntimeInv
<1>1. Types /\ Planned /\ Owned /\ UNCHANGED Settings /\ Forward(l, m, TRUE)
  BY DEF RuntimeInv, Capture, Settings
<1>b. m <= maxBatched
  BY DEF Capture
<1>m. m \in Nat \ {0} /\ m \in 1 .. maxBatched
  BY <1>0, <1>b, SizesAssumption
<1>2. /\ lastRun'.at = "capture" /\ lastRun'.outcome = Stop(l, m, TRUE)
      /\ DOMAIN runtimes \subseteq DOMAIN runtimes'
      /\ \A k \in Layers : KeyOf(k) \in DOMAIN runtimes' => Plannable(k)
      /\ Owned' /\ RowsOnce'
  BY <1>1, <1>m, ForwardRight DEF Capture
<1>3. Stop(l, m, TRUE) \in {"ok", "eager"}
  BY <1>1, <1>m, PlannedServes DEF Capture, Planned
<1>4. Types'
  BY <1>1 DEF Capture, Types, Settings
<1>5. Planned'
  BY <1>1, <1>2, SettingsKept DEF Capture, Planned, Types
<1>6. NothingPlannedLate'
  BY <1>2, <1>3 DEF NothingPlannedLate
<1> QED
  BY <1>2, <1>4, <1>5, <1>6 DEF RuntimeInv

LEMMA ServeInv ==
  ASSUME RuntimeInv, NEW l \in Layers, NEW m \in 1 .. maxBatched, Serve(l, m)
  PROVE  RuntimeInv'
<1>0. Types /\ maxBatched \in Nat
  BY EnvFacts DEF RuntimeInv
<1>1. Types /\ Planned /\ Owned /\ UNCHANGED Settings /\ Forward(l, m, FALSE)
  BY DEF RuntimeInv, Serve, Settings
<1>m. m \in Nat \ {0}
  BY <1>0
<1>2. /\ lastRun'.at = "serve" /\ lastRun'.outcome = Stop(l, m, FALSE)
      /\ DOMAIN runtimes \subseteq DOMAIN runtimes'
      /\ \A k \in Layers : KeyOf(k) \in DOMAIN runtimes' => Plannable(k)
      /\ Owned' /\ RowsOnce'
  BY <1>1, <1>m, ForwardRight DEF Serve
<1>3. Stop(l, m, FALSE) = "ok"
  BY <1>1, <1>m, PlannedServes DEF Serve, Planned
<1>4. Types'
  BY <1>1 DEF Serve, Types, Settings
<1>5. Planned'
  BY <1>1, <1>2, SettingsKept DEF Serve, Planned, Types
<1>6. NothingPlannedLate'
  BY <1>2, <1>3 DEF NothingPlannedLate
<1> QED
  BY <1>2, <1>4, <1>5, <1>6 DEF RuntimeInv

\* The other steps change the phase at most.
LEMMA PhaseInv ==
  ASSUME RuntimeInv, WarmRoutePack \/ StartServing \/ UNCHANGED vars
  PROVE  RuntimeInv'
<1>1. UNCHANGED Settings /\ UNCHANGED <<profiled, runtimes, users, lastRun>>
  BY DEF WarmRoutePack, StartServing, vars, Settings
<1>2. Types' /\ (phase' \in {"capture", "serve"} => profiled' = Layers)
      /\ (phase' # "failed" => phase # "failed")
  BY <1>1 DEF WarmRoutePack, StartServing, vars, Settings, RuntimeInv, Types, Planned
<1>3. Planned' /\ Owned'
  BY <1>1, <1>2, SettingsKept DEF RuntimeInv, Types, Planned, Owned
<1>4. RowsOnce' /\ NothingPlannedLate'
  BY <1>1, SettingsKept DEF RuntimeInv, RowsOnce, NothingPlannedLate
<1> QED
  BY <1>2, <1>3, <1>4 DEF RuntimeInv

LEMMA RuntimeGoesOn == RuntimeInv /\ [Next]_vars => RuntimeInv'
<1> SUFFICES ASSUME RuntimeInv, [Next]_vars PROVE RuntimeInv'
  OBVIOUS
<1>1. ASSUME NEW l \in Layers, Profile(l) PROVE RuntimeInv'
  BY <1>1, ProfileInv
<1>2. ASSUME NEW l \in Layers, NEW m \in CaptureSizes, Capture(l, m) PROVE RuntimeInv'
  BY <1>2, CaptureInv
<1>3. ASSUME NEW l \in Layers, NEW m \in 1 .. maxBatched, Serve(l, m) PROVE RuntimeInv'
  BY <1>3, ServeInv
<1>4. CASE WarmRoutePack \/ StartServing \/ UNCHANGED vars
  BY <1>4, PhaseInv
<1> QED
  BY <1>1, <1>2, <1>3, <1>4 DEF Next, Stopped

-----------------------------------------------------------------------------
\* Each row of a batch is computed exactly once, within what was planned
\* (the _apply_* methods and their slices).
THEOREM EachRowOnce == Spec => []RowsOnce
<1>1. RuntimeInv => RowsOnce
  BY DEF RuntimeInv
<1> QED
  BY <1>1, RuntimeStarts, RuntimeGoesOn, PTL DEF Spec

\* After the profile pass nothing is planned and nothing the scheduler sends
\* is refused; a runtime's scratch belongs to the target or to the draft
\* (the planning guards, _runtime_owner_token).
THEOREM ScratchPlannedAndOwned == Spec => []ScratchSound
<1>1. RuntimeInv => ScratchSound
  <2> SUFFICES ASSUME RuntimeInv PROVE ScratchOfOneModel
    BY DEF RuntimeInv, ScratchSound
  <2> QED
    BY FS_Singleton DEF RuntimeInv, Owned, ScratchOfOneModel
<1> QED
  BY <1>1, RuntimeStarts, RuntimeGoesOn, PTL DEF Spec

===============================================================================
