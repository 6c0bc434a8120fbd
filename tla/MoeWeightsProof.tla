---------------------------- MODULE MoeWeightsProof ----------------------------
(* Whatever is loaded, unloaded, launched, cleared or fails half way, and   *)
(* wherever the allocator puts it: a launch reads its own layer's weights,  *)
(* in the order its kernel expects.  And the conversion of weights to tiles *)
(* in the bytes they occupy puts every row where the kernel reads it.       *)
EXTENDS MoeWeights, RepackRows, FiniteSetTheorems, TLAPS

Forms == {"none", "gateUp", "upGate", "tiles", "plain", "mixed"}
Cells == [load : Int, form : Forms]

Packages ==
  [none : {FALSE}, load : Int, plan : WeightPlans, w1 : Addresses, s1 : Addresses,
   w2 : Addresses]

Types ==
  /\ mem \in [Addresses -> Cells]
  /\ packages \in [Layers -> {Absent} \cup Packages]
  /\ loads \in Int

\* The order of a package's FC1 in memory: the source's until it is swapped.
Order(pkg) ==
  IF pkg.plan.prepared THEN "tiles"
  ELSE IF NeedsSwap(pkg) /\ ~Registered(pkg) THEN "gateUp" ELSE "upGate"

\* A loaded layer has three addresses, with its bytes there in that order.
OwnBytes(pkg) ==
  /\ pkg.w1 # pkg.s1 /\ pkg.w1 # pkg.w2 /\ pkg.s1 # pkg.w2
  /\ mem[pkg.w1].load = pkg.load /\ mem[pkg.s1].load = pkg.load
  /\ mem[pkg.w2].load = pkg.load
  /\ pkg.load \notin broken =>
       mem[pkg.w1].form = Order(pkg) /\ mem[pkg.s1].form = Order(pkg)

Apart == \A k, l \in Layers : k # l => HeldBy(packages[k]) \cap HeldBy(packages[l]) = {}

\* Views of a loaded layer were made after its swap, and what they copied is
\* what is there.  Nobody else can be loaded where they point to.
ViewsRight(key, views) ==
  /\ key = <<views.w1, views.s1, views.w2, views.quant>>
  /\ views = [w1 |-> views.w1, s1 |-> views.s1, w2 |-> views.w2, quant |-> views.quant,
              copies |-> views.copies]
  /\ \A l \in Layers :
       LET pkg == packages[l] IN
       Loaded(l) /\ views.w1 = pkg.w1 /\ views.s1 = pkg.s1 /\ views.w2 = pkg.w2 =>
         /\ NeedsSwap(pkg) => Registered(pkg)
         /\ views.copies # Absent => views.copies = Copies(mem, pkg)

CachesRight ==
  /\ \A k \in DOMAIN cache : ViewsRight(k, cache[k])
  /\ lastWeights = Absent \/ (lastWeights.none = FALSE /\ ViewsRight(lastWeights.key, lastWeights.views))

IInv ==
  /\ Types
  /\ \A l \in Layers : Loaded(l) => OwnBytes(packages[l])
  /\ Apart
  /\ CachesRight
  /\ ReadsOwnWeights

-----------------------------------------------------------------------------
(* Addresses.                                                               *)

LEMMA ThreeDistinct ==
  ASSUME NEW a, NEW b, NEW c, Cardinality({a, b, c}) = 3
  PROVE  a # b /\ a # c /\ b # c
<1>1. \A x, y : Cardinality({x, y}) \in {1, 2}
  <2> TAKE x, y
  <2>1. IsFiniteSet({x}) /\ Cardinality({x}) = 1
    BY FS_Singleton
  <2>2. Cardinality({x} \cup {y}) \in {1, 2}
    BY <2>1, FS_AddElement
  <2>3. {x, y} = {x} \cup {y}
    OBVIOUS
  <2> QED
    BY <2>2, <2>3
<1>2. CASE a = b
  <2>1. {a, b, c} = {a, c}
    BY <1>2
  <2>2. Cardinality({a, c}) \in {1, 2}
    BY <1>1
  <2> QED
    BY <2>1, <2>2
<1>3. CASE a = c
  <2>1. {a, b, c} = {a, b}
    BY <1>3
  <2>2. Cardinality({a, b}) \in {1, 2}
    BY <1>1
  <2> QED
    BY <2>1, <2>2
<1>4. CASE b = c
  <2>1. {a, b, c} = {a, b}
    BY <1>4
  <2>2. Cardinality({a, b}) \in {1, 2}
    BY <1>1
  <2> QED
    BY <2>1, <2>2
<1> QED
  BY <1>2, <1>3, <1>4

LEMMA PackageFacts ==
  ASSUME Types, NEW l \in Layers
  PROVE  /\ packages[l] \in {Absent} \cup Packages
         /\ Loaded(l) <=> packages[l] \in Packages
         /\ Loaded(l) => /\ HeldBy(packages[l])
                             = {packages[l].w1, packages[l].s1, packages[l].w2}
                         /\ HeldBy(packages[l]) \subseteq Addresses
         /\ packages[l] = Absent => HeldBy(packages[l]) = {}
<1>1. packages[l] \in {Absent} \cup Packages
  BY DEF Types
<1>2. Absent.none = TRUE
  BY DEF Absent
<1>3. CASE packages[l] = Absent
  <2>1. packages[l].none = TRUE /\ packages[l] \notin Packages
    BY <1>2, <1>3 DEF Packages
  <2> QED
    BY <1>3, <2>1 DEF Loaded, HeldBy
<1>4. CASE packages[l] \in Packages
  <2>1. /\ packages[l].none = FALSE /\ packages[l] # Absent
        /\ packages[l].w1 \in Addresses /\ packages[l].s1 \in Addresses
        /\ packages[l].w2 \in Addresses
    BY <1>2, <1>4 DEF Packages
  <2> QED
    BY <1>4, <2>1 DEF Loaded, HeldBy, Held
<1> QED
  BY <1>1, <1>3, <1>4

\* What is free is held by no layer, no views and no registered pair.
LEMMA FreeFacts ==
  ASSUME NEW a \in Free
  PROVE  /\ a \in Addresses
         /\ \A l \in Layers : a \notin HeldBy(packages[l])
         /\ \A k \in DOMAIN cache : a \notin Held(cache[k])
         /\ lastWeights.none \/ a \notin Held(lastWeights.views)
         /\ \A key \in registry : a # key[1] /\ a # key[2]
<1>1. /\ a \in Addresses
      /\ a \notin UNION {HeldBy(packages[l]) : l \in Layers}
      /\ a \notin UNION {Held(cache[k]) : k \in DOMAIN cache}
      /\ a \notin HeldByMemo
      /\ a \notin UNION {{key[1], key[2]} : key \in registry}
  <2>1. /\ a \in Addresses /\ a \notin HeldByCaches /\ a \notin HeldByRegistry(registry)
        /\ a \notin UNION {HeldBy(packages[l]) : l \in Layers}
    BY Zenon DEF Free
  <2>2. /\ a \notin UNION {Held(cache[k]) : k \in DOMAIN cache}
        /\ a \notin HeldByMemo
    BY <2>1, Zenon DEF HeldByCaches
  <2> QED
    BY <2>1, <2>2, Zenon DEF HeldByRegistry
<1>2. \A l \in Layers : a \notin HeldBy(packages[l])
  BY <1>1
<1>3. \A k \in DOMAIN cache : a \notin Held(cache[k])
  BY <1>1
<1>4. lastWeights.none \/ a \notin Held(lastWeights.views)
  BY <1>1 DEF HeldByMemo
<1>5. \A key \in registry : a # key[1] /\ a # key[2]
  BY <1>1
<1> QED
  BY <1>1, <1>2, <1>3, <1>4, <1>5

-----------------------------------------------------------------------------
(* Launches.                                                                *)

\* The swap makes the order right once, and touches no other layer's bytes.
LEMMA OrderedFacts ==
  ASSUME IInv, NEW l \in Layers, Loaded(l)
  PROVE  LET pkg == packages[l]
             new == Ordered(pkg) IN
         /\ new.mem \in [Addresses -> Cells]
         /\ \A a \in Addresses \ {pkg.w1, pkg.s1} : new.mem[a] = mem[a]
         /\ \A a \in Addresses : new.mem[a].load = mem[a].load
         /\ pkg.load \notin broken =>
              LET form == IF pkg.plan.prepared THEN "tiles" ELSE "upGate" IN
              new.mem[pkg.w1].form = form /\ new.mem[pkg.s1].form = form
         /\ NeedsSwap(pkg) => <<pkg.w1, pkg.s1>> \in new.registry
         /\ new.registry \in {registry, registry \cup {<<pkg.w1, pkg.s1>>}}
         /\ (NeedsSwap(pkg) => Registered(pkg)) => new.mem = mem
<1> DEFINE pkg == packages[l]
           new == Ordered(pkg)
<1>1. pkg \in Packages /\ OwnBytes(pkg) /\ mem \in [Addresses -> Cells]
  BY PackageFacts DEF IInv, Types
<1>2. pkg.w1 \in Addresses /\ pkg.s1 \in Addresses /\ pkg.w1 # pkg.s1
      /\ mem[pkg.w1] \in Cells /\ mem[pkg.s1] \in Cells
  BY <1>1 DEF Packages, OwnBytes
<1>3. CASE NeedsSwap(pkg) /\ ~Registered(pkg)
  <2>1. /\ new.mem = [mem EXCEPT ![pkg.w1] = Swapped(@), ![pkg.s1] = Swapped(@)]
        /\ new.registry = registry \cup {<<pkg.w1, pkg.s1>>}
    BY <1>3 DEF Ordered
  <2>2. ASSUME NEW cell \in Cells
        PROVE  /\ Swapped(cell) \in Cells /\ Swapped(cell).load = cell.load
               /\ cell.form = "gateUp" => Swapped(cell).form = "upGate"
    BY DEF Cells, Forms, Swapped
  <2>3. /\ \A a \in Addresses \ {pkg.w1, pkg.s1} : new.mem[a] = mem[a]
        /\ new.mem[pkg.w1] = Swapped(mem[pkg.w1]) /\ new.mem[pkg.s1] = Swapped(mem[pkg.s1])
        /\ new.mem \in [Addresses -> Cells]
    BY <1>1, <1>2, <2>1, <2>2
  <2>4. pkg.load \notin broken =>
          mem[pkg.w1].form = "gateUp" /\ mem[pkg.s1].form = "gateUp" /\ ~pkg.plan.prepared
    BY <1>1, <1>3 DEF OwnBytes, Order, NeedsSwap
  <2> QED
    BY <1>2, <1>3, <2>1, <2>2, <2>3, <2>4
<1>4. CASE ~(NeedsSwap(pkg) /\ ~Registered(pkg))
  <2>1. new.mem = mem /\ new.registry = registry
    BY <1>4 DEF Ordered
  <2> QED
    BY <1>1, <1>4, <2>1 DEF OwnBytes, Order, Registered
<1> QED
  BY <1>3, <1>4

-----------------------------------------------------------------------------
(* Views.                                                                   *)

At(views, pkg) == views.w1 = pkg.w1 /\ views.s1 = pkg.s1 /\ views.w2 = pkg.w2

\* Views stay right as long as the layers at their addresses are the ones that
\* were there, with the same bytes.
LEMMA ViewsKept ==
  ASSUME NEW key, NEW views, ViewsRight(key, views),
         \A l \in Layers : Loaded(l)' /\ At(views, packages'[l]) =>
           /\ Loaded(l) /\ packages'[l] = packages[l]
           /\ NeedsSwap(packages[l]) /\ Registered(packages[l]) =>
                <<packages[l].w1, packages[l].s1>> \in registry'
           /\ NeedsSwap(packages[l]) => Registered(packages[l])
           /\ Copies(mem', packages[l]) = Copies(mem, packages[l])
  PROVE  ViewsRight(key, views)'
  BY DEF ViewsRight, At, Registered

\* Nothing but what is in memory, loaded and registered makes views right.
LEMMA CachesKept ==
  ASSUME CachesRight, UNCHANGED <<cache, lastWeights>>,
         \A key, views : ViewsRight(key, views) /\
            ((\E k \in DOMAIN cache : views = cache[k]) \/ (lastWeights.none = FALSE /\ views = lastWeights.views))
            => ViewsRight(key, views)'
  PROVE  CachesRight'
<1>1. \A k \in DOMAIN cache : ViewsRight(k, cache[k])'
  BY DEF CachesRight
<1>2. lastWeights = Absent \/ (lastWeights.none = FALSE /\ ViewsRight(lastWeights.key, lastWeights.views)')
  BY DEF CachesRight
<1> QED
  BY <1>1, <1>2 DEF CachesRight
-----------------------------------------------------------------------------
(* Steps.                                                                   *)

LEMMA InvInit == WeightsInit => IInv
<1> SUFFICES ASSUME WeightsInit PROVE IInv
  OBVIOUS
<1>1. Types
  BY DEF WeightsInit, Types, Cells, Forms
<1>2. \A l \in Layers : ~Loaded(l) /\ HeldBy(packages[l]) = {}
  BY <1>1, PackageFacts DEF WeightsInit, Loaded, HeldBy, Absent
<1>3. CachesRight
  BY DEF WeightsInit, CachesRight
<1> QED
  BY <1>1, <1>2, <1>3 DEF IInv, Apart, ReadsOwnWeights, WeightsInit

LEMMA LoadStep ==
  ASSUME IInv,
         NEW l \in Layers, NEW plan \in WeightPlans,
         NEW w1 \in Addresses, NEW s1 \in Addresses, NEW w2 \in Addresses,
         LoadAt(l, plan, w1, s1, w2)
  PROVE  IInv'
<1> DEFINE pkg == [none |-> FALSE, load |-> loads', plan |-> plan,
                   w1 |-> w1, s1 |-> s1, w2 |-> w2]
<1>1. /\ packages[l] = Absent /\ loads' = loads + 1
      /\ packages' = [packages EXCEPT ![l] = pkg]
      /\ mem' = [mem EXCEPT ![w1] = [load |-> loads', form |-> PreparedForm(plan)],
                            ![s1] = [load |-> loads', form |-> PreparedForm(plan)],
                            ![w2] = [load |-> loads', form |-> "plain"]]
      /\ lastRead' = [call |-> "load"] /\ UNCHANGED <<registry, cache, lastWeights, broken>>
      /\ {w1, s1, w2} \subseteq Free
  BY DEF LoadAt
<1>2. w1 # s1 /\ w1 # w2 /\ s1 # w2
  BY ThreeDistinct DEF LoadAt
<1>3. Types
  BY DEF IInv
<1>4. pkg \in Packages /\ loads' \in Int /\ PreparedForm(plan) \in Forms
  BY <1>1, <1>3 DEF Types, Packages, PreparedForm, SourceForm, Forms
<1>5. /\ mem' \in [Addresses -> Cells]
      /\ mem'[w1] = [load |-> loads', form |-> PreparedForm(plan)]
      /\ mem'[s1] = [load |-> loads', form |-> PreparedForm(plan)]
      /\ mem'[w2] = [load |-> loads', form |-> "plain"]
      /\ \A a \in Addresses \ {w1, s1, w2} : mem'[a] = mem[a]
  BY <1>1, <1>2, <1>3, <1>4 DEF Types, Cells, Forms
<1>6. /\ packages'[l] = pkg
      /\ \A k \in Layers \ {l} : packages'[k] = packages[k]
  BY <1>1, <1>3 DEF Types
<1> HIDE DEF pkg
<1>7. Types'
  BY <1>1, <1>3, <1>4, <1>5 DEF Types
<1>8. /\ pkg.none = FALSE /\ pkg.load = loads' /\ pkg.plan = plan
      /\ pkg.w1 = w1 /\ pkg.s1 = s1 /\ pkg.w2 = w2
  BY DEF pkg
<1>9. \A k \in Layers \ {l} :
         /\ Loaded(k)' <=> Loaded(k)
         /\ HeldBy(packages'[k]) = HeldBy(packages[k])
         /\ HeldBy(packages[k]) \cap {w1, s1, w2} = {}
  BY <1>1, <1>6, FreeFacts DEF Loaded
<1>10. \A k \in Layers : Loaded(k)' => OwnBytes(packages[k])'
  <2> SUFFICES ASSUME NEW k \in Layers, Loaded(k)' PROVE OwnBytes(packages[k])'
    OBVIOUS
  <2>1. CASE k = l
    <3>1. <<w1, s1>> \notin registry'
      BY <1>1, FreeFacts
    <3>2. PreparedForm(plan) = Order(packages[l])'
      BY <1>1, <1>6, <1>8, <3>1 DEF PreparedForm, SourceForm, Order, NeedsSwap, Registered
    <3> QED
      BY <1>2, <1>5, <1>6, <1>8, <2>1, <3>2 DEF OwnBytes
  <2>2. CASE k # l
    <3>1. OwnBytes(packages[k]) /\ packages'[k] = packages[k] /\ Loaded(k)
      BY <1>6, <1>9, <2>2 DEF IInv
    <3>2. /\ packages[k].w1 \in Addresses \ {w1, s1, w2}
          /\ packages[k].s1 \in Addresses \ {w1, s1, w2}
          /\ packages[k].w2 \in Addresses \ {w1, s1, w2}
      BY <1>3, <1>9, <2>2, <3>1, PackageFacts
    <3>3. Order(packages[k])' = Order(packages[k])
      BY <1>1, <3>1 DEF Order, NeedsSwap, Registered
    <3> QED
      BY <1>1, <1>5, <3>1, <3>2, <3>3 DEF OwnBytes
  <2> QED
    BY <2>1, <2>2
<1>11. Apart'
  <2>1. HeldBy(packages'[l]) = {w1, s1, w2}
    BY <1>6, <1>8 DEF HeldBy, Held
  <2>2. \A k, m \in Layers \ {l} : k # m => HeldBy(packages'[k]) \cap HeldBy(packages'[m]) = {}
    BY <1>9 DEF IInv, Apart
  <2>3. \A k \in Layers \ {l} : HeldBy(packages'[k]) \cap HeldBy(packages'[l]) = {}
    BY <1>9, <2>1
  <2> QED
    BY <2>2, <2>3 DEF Apart
<1>12. CachesRight'
  <2>1. ASSUME NEW key, NEW views, ViewsRight(key, views), w1 \notin Held(views)
        PROVE  ViewsRight(key, views)'
    <3> SUFFICES ASSUME NEW k \in Layers, Loaded(k)', At(views, packages'[k])
                 PROVE  /\ Loaded(k) /\ packages'[k] = packages[k]
                        /\ NeedsSwap(packages[k]) /\ Registered(packages[k]) =>
                             <<packages[k].w1, packages[k].s1>> \in registry'
                        /\ NeedsSwap(packages[k]) => Registered(packages[k])
                        /\ Copies(mem', packages[k]) = Copies(mem, packages[k])
      BY <2>1, ViewsKept
    <3>1. k # l
      BY <1>6, <1>8, <2>1 DEF At, Held
    <3>2. Loaded(k) /\ packages'[k] = packages[k]
      BY <1>6, <1>9, <3>1
    <3>3. /\ packages[k].w1 \in Addresses \ {w1, s1, w2}
          /\ packages[k].s1 \in Addresses \ {w1, s1, w2}
          /\ packages[k].w2 \in Addresses \ {w1, s1, w2}
      BY <1>3, <1>9, <3>1, <3>2, PackageFacts
    <3>4. Copies(mem', packages[k]) = Copies(mem, packages[k])
      BY <1>5, <3>3 DEF Copies
    <3>5. NeedsSwap(packages[k]) => Registered(packages[k])
      BY <2>1, <3>2 DEF ViewsRight, At
    <3> QED
      BY <1>1, <3>2, <3>4, <3>5 DEF Registered
  <2>2. \A k \in DOMAIN cache : w1 \notin Held(cache[k])
    BY <1>1, FreeFacts
  <2>3. lastWeights.none \/ w1 \notin Held(lastWeights.views)
    BY <1>1, FreeFacts
  <2>4. CachesRight /\ UNCHANGED <<cache, lastWeights>>
    BY <1>1 DEF IInv
  <2> QED
    BY <2>1, <2>2, <2>3, <2>4, CachesKept
<1>13. ReadsOwnWeights'
  BY <1>1 DEF ReadsOwnWeights
<1> QED
  BY <1>7, <1>10, <1>11, <1>12, <1>13 DEF IInv

LEMMA UnloadStep ==
  ASSUME IInv, NEW l \in Layers, Unload(l)
  PROVE  IInv'
<1>1. /\ packages' = [packages EXCEPT ![l] = Absent] /\ lastRead' = [call |-> "unload"]
      /\ UNCHANGED <<mem, registry, cache, lastWeights, loads, broken>>
  BY DEF Unload
<1>2. /\ packages'[l] = Absent
      /\ \A k \in Layers \ {l} : packages'[k] = packages[k]
      /\ Types'
  BY <1>1 DEF IInv, Types
<1>3. ~Loaded(l)' /\ HeldBy(packages'[l]) = {}
  BY <1>2 DEF Loaded, HeldBy, Absent
<1>4. \A k \in Layers : Loaded(k)' => packages'[k] = packages[k] /\ Loaded(k)
  BY <1>2, <1>3 DEF Loaded
<1>5. \A k \in Layers : Loaded(k)' => OwnBytes(packages[k])'
  <2> SUFFICES ASSUME NEW k \in Layers, Loaded(k)' PROVE OwnBytes(packages[k])'
    OBVIOUS
  <2>1. OwnBytes(packages[k]) /\ packages'[k] = packages[k]
    BY <1>4 DEF IInv
  <2> QED
    BY <1>1, <2>1 DEF OwnBytes, Order, NeedsSwap, Registered
<1>6. Apart'
  <2>1. \A k \in Layers : HeldBy(packages'[k]) \subseteq HeldBy(packages[k])
    BY <1>2, <1>3
  <2> QED
    BY <2>1 DEF IInv, Apart
<1>7. CachesRight'
  <2>1. ASSUME NEW key, NEW views, ViewsRight(key, views)
        PROVE  ViewsRight(key, views)'
    BY <1>1, <1>4, <2>1 DEF ViewsRight, Copies, Registered
  <2> QED
    BY <1>1, <2>1, CachesKept DEF IInv
<1> QED
  BY <1>1, <1>2, <1>5, <1>6, <1>7 DEF IInv, ReadsOwnWeights

LEMMA ClearStep == IInv /\ ClearCaches => IInv'
<1> SUFFICES ASSUME IInv, ClearCaches PROVE IInv'
  OBVIOUS
<1>1. /\ cache' = <<>> /\ lastWeights' = Absent /\ lastRead' = [call |-> "clear"]
      /\ UNCHANGED <<mem, packages, registry, loads, broken>>
  BY DEF ClearCaches
<1>2. CachesRight'
  BY <1>1 DEF CachesRight
<1>3. \A k \in Layers : Loaded(k)' => OwnBytes(packages[k])'
  BY <1>1 DEF IInv, Loaded, OwnBytes, Order, NeedsSwap, Registered
<1> QED
  BY <1>1, <1>2, <1>3 DEF IInv, Types, Apart, ReadsOwnWeights
\* Half a swap leaves bytes of this layer in no order, and no views see them:
\* views of these addresses are made after the swap.
LEMMA SwapFailsStep ==
  ASSUME IInv, NEW l \in Layers, SwapFails(l)
  PROVE  IInv'
<1> DEFINE pkg == packages[l]
<1>1. /\ Loaded(l) /\ NeedsSwap(pkg) /\ ~Registered(pkg)
      /\ broken' = broken \cup {pkg.load} /\ lastRead' = [call |-> "failed"]
      /\ UNCHANGED <<packages, registry, cache, lastWeights, loads>>
      /\ \E cell \in {Swapped(mem[pkg.w1]), [mem[pkg.w1] EXCEPT !.form = "mixed"]} :
            mem' = [mem EXCEPT ![pkg.w1] = cell]
  BY DEF SwapFails
<1>2. Types /\ pkg \in Packages /\ pkg.w1 \in Addresses
  BY <1>1, PackageFacts DEF IInv, Packages
<1>3. PICK cell : /\ cell \in Cells /\ cell.load = mem[pkg.w1].load
                  /\ mem' = [mem EXCEPT ![pkg.w1] = cell]
  <2>1. mem[pkg.w1] \in Cells
    BY <1>2 DEF Types
  <2>2. /\ Swapped(mem[pkg.w1]) \in Cells
        /\ Swapped(mem[pkg.w1]).load = mem[pkg.w1].load
    BY <2>1 DEF Cells, Forms, Swapped
  <2>3. LET mixed == [mem[pkg.w1] EXCEPT !.form = "mixed"]
        IN  mixed \in Cells /\ mixed.load = mem[pkg.w1].load
    BY <2>1 DEF Cells, Forms
  <2> QED
    BY <1>1, <2>2, <2>3
<1>4. /\ mem' \in [Addresses -> Cells]
      /\ \A a \in Addresses : mem'[a].load = mem[a].load
      /\ \A a \in Addresses \ {pkg.w1} : mem'[a] = mem[a]
  BY <1>2, <1>3 DEF Types
<1>5. Types'
  BY <1>1, <1>2, <1>4 DEF Types
<1>6. \A k \in Layers \ {l} : Loaded(k) =>
        /\ packages[k].w1 \in Addresses \ {pkg.w1}
        /\ packages[k].s1 \in Addresses \ {pkg.w1}
        /\ packages[k].w2 \in Addresses \ {pkg.w1}
  <2> TAKE k \in Layers \ {l}
  <2>1. Loaded(k) => /\ HeldBy(packages[k]) = {packages[k].w1, packages[k].s1, packages[k].w2}
                     /\ HeldBy(packages[k]) \subseteq Addresses
    BY <1>2, PackageFacts
  <2>2. pkg.w1 \in HeldBy(pkg) /\ HeldBy(packages[k]) \cap HeldBy(pkg) = {}
    BY <1>1, <1>2, PackageFacts DEF IInv, Apart
  <2> QED
    BY <2>1, <2>2
<1>7. \A k \in Layers : Loaded(k)' => OwnBytes(packages[k])'
  <2> SUFFICES ASSUME NEW k \in Layers, Loaded(k)' PROVE OwnBytes(packages[k])'
    OBVIOUS
  <2>1. /\ OwnBytes(packages[k]) /\ packages'[k] = packages[k] /\ Loaded(k)
        /\ Order(packages[k])' = Order(packages[k])
    BY <1>1 DEF IInv, Loaded, Order, NeedsSwap, Registered
  <2>2. /\ packages[k].w1 \in Addresses /\ packages[k].s1 \in Addresses
        /\ packages[k].w2 \in Addresses
    BY <1>2, <2>1, PackageFacts DEF Packages
  <2>3. CASE k = l
    BY <1>1, <1>4, <2>1, <2>2, <2>3 DEF OwnBytes
  <2>4. CASE k # l
    <3>1. /\ mem'[packages[k].w1] = mem[packages[k].w1]
          /\ mem'[packages[k].s1] = mem[packages[k].s1]
          /\ mem'[packages[k].w2] = mem[packages[k].w2]
      BY <1>4, <1>6, <2>1, <2>4
    <3> QED
      BY <1>1, <2>1, <3>1 DEF OwnBytes
  <2> QED
    BY <2>3, <2>4
<1>8. CachesRight'
  <2>1. ASSUME NEW key, NEW views, ViewsRight(key, views)
        PROVE  ViewsRight(key, views)'
    <3> SUFFICES ASSUME NEW k \in Layers, Loaded(k)', At(views, packages'[k])
                 PROVE  /\ Loaded(k) /\ packages'[k] = packages[k]
                        /\ NeedsSwap(packages[k]) /\ Registered(packages[k]) =>
                             <<packages[k].w1, packages[k].s1>> \in registry'
                        /\ NeedsSwap(packages[k]) => Registered(packages[k])
                        /\ Copies(mem', packages[k]) = Copies(mem, packages[k])
      BY <2>1, ViewsKept
    <3>1. Loaded(k) /\ packages'[k] = packages[k]
      BY <1>1 DEF Loaded
    <3>2. NeedsSwap(packages[k]) => Registered(packages[k])
      BY <2>1, <3>1 DEF ViewsRight, At
    <3>3. k # l
      BY <1>1, <3>2
    <3>4. Copies(mem', packages[k]) = Copies(mem, packages[k])
      BY <1>4, <1>6, <3>1, <3>3 DEF Copies
    <3> QED
      BY <1>1, <3>1, <3>2, <3>4 DEF Registered
  <2> QED
    BY <1>1, <2>1, CachesKept DEF IInv
<1>9. Apart' /\ ReadsOwnWeights'
  BY <1>1 DEF IInv, Apart, ReadsOwnWeights
<1> QED
  BY <1>5, <1>7, <1>8, <1>9 DEF IInv

LEMMA PreparedStep ==
  ASSUME IInv, NEW l \in Layers, NEW quant \in Quants, LaunchPrepared(l, quant)
  PROVE  IInv'
<1> DEFINE pkg == packages[l]
           views == OwnViews(pkg, quant)
           reads == Reads(mem, views, pkg, TRUE)
<1>1. /\ Loaded(l) /\ pkg.plan.prepared /\ lastRead' = Report(pkg, quant, views, reads)
      /\ UNCHANGED <<mem, packages, registry, cache, lastWeights, loads, broken>>
  BY DEF LaunchPrepared
<1>2. OwnBytes(pkg)
  BY <1>1 DEF IInv
<1>3. /\ views.w1 = pkg.w1 /\ views.s1 = pkg.s1 /\ views.w2 = pkg.w2 /\ views.quant = quant
      /\ views.copies \in {Copies(mem, pkg), Absent}
  BY DEF OwnViews, Build
<1>4. reads.w1 = mem[pkg.w1] /\ reads.s1 = mem[pkg.s1] /\ reads.w2 = mem[pkg.w2]
  BY <1>3 DEF Reads, Copies
<1> HIDE DEF views, reads
<1>5. ReadsOwnWeights'
  BY <1>1, <1>2, <1>3, <1>4 DEF Report, ReadsOwnWeights, OwnBytes, Order
<1>6. CachesRight'
  <2>1. ASSUME NEW key, NEW v, ViewsRight(key, v) PROVE ViewsRight(key, v)'
    BY <1>1, <2>1 DEF ViewsRight, Loaded, Registered, Copies
  <2> QED
    BY <1>1, <2>1, CachesKept DEF IInv
<1>7. \A k \in Layers : Loaded(k)' => OwnBytes(packages[k])'
  BY <1>1 DEF IInv, Loaded, OwnBytes, Order, NeedsSwap, Registered
<1> QED
  BY <1>1, <1>5, <1>6, <1>7 DEF IInv, Types, Apart
\* The views a launch finds or builds are at its layer's addresses, for its
\* recipe, and their copies are of the bytes as they are after the swap.
LEMMA ViewsFacts ==
  ASSUME IInv, NEW l \in Layers, Loaded(l), NEW quant, NEW dynamic \in BOOLEAN
  PROVE  LET pkg == packages[l]
             cells == Ordered(pkg).mem
             views == WithTail(Views(cells, pkg, quant), cells, pkg, quant, dynamic) IN
         /\ views = [w1 |-> pkg.w1, s1 |-> pkg.s1, w2 |-> pkg.w2, quant |-> quant,
                     copies |-> views.copies]
         /\ views.copies \in {Absent, Copies(cells, pkg)}
<1> DEFINE pkg == packages[l]
           cells == Ordered(pkg).mem
           key == ViewsKey(pkg, quant)
           found == Views(cells, pkg, quant)
           Good(v) == /\ v = [w1 |-> pkg.w1, s1 |-> pkg.s1, w2 |-> pkg.w2, quant |-> quant,
                              copies |-> v.copies]
                      /\ v.copies \in {Absent, Copies(cells, pkg)}
<1>1. ASSUME NEW v, ViewsRight(key, v) PROVE Good(v)
  <2>1. At(v, pkg) /\ v.quant = quant
    BY <1>1 DEF ViewsRight, ViewsKey, At
  <2>2. v = [w1 |-> pkg.w1, s1 |-> pkg.s1, w2 |-> pkg.w2, quant |-> quant,
             copies |-> v.copies]
    BY <1>1, <2>1 DEF ViewsRight, At
  <2>3. /\ NeedsSwap(pkg) => Registered(pkg)
        /\ v.copies # Absent => v.copies = Copies(mem, pkg)
    BY <1>1, <2>1 DEF ViewsRight, At
  <2>4. cells = mem
    BY <2>3 DEF Ordered
  <2> QED
    BY <2>2, <2>3, <2>4
<1>2. Good(Build(cells, pkg, quant))
  BY DEF Build
<1>3. Good(found)
  <2>1. CASE ~lastWeights.none /\ lastWeights.key = key
    <3>1. found = lastWeights.views
      BY <2>1 DEF Views
    <3>2. ViewsRight(key, lastWeights.views)
      BY <2>1 DEF IInv, CachesRight, Absent
    <3> QED
      BY <1>1, <3>1, <3>2
  <2>2. CASE (lastWeights.none \/ lastWeights.key # key) /\ key \in DOMAIN cache
    <3>1. found = cache[key]
      BY <2>2 DEF Views
    <3>2. ViewsRight(key, cache[key])
      BY <2>2 DEF IInv, CachesRight
    <3> QED
      BY <1>1, <3>1, <3>2
  <2>3. CASE (lastWeights.none \/ lastWeights.key # key) /\ key \notin DOMAIN cache
    <3>1. found = Build(cells, pkg, quant)
      BY <2>3 DEF Views
    <3> QED
      BY <1>2, <3>1
  <2> QED
    BY <2>1, <2>2, <2>3
<1> HIDE DEF found, cells
<1>4. ASSUME NEW v, Good(v) PROVE Good(WithTail(v, cells, pkg, quant, dynamic))
  <2>1. CASE WithTail(v, cells, pkg, quant, dynamic) = v
    BY <1>4, <2>1
  <2>2. CASE WithTail(v, cells, pkg, quant, dynamic) = [v EXCEPT !.copies = Copies(cells, pkg)]
    <3>1. [v EXCEPT !.copies = Copies(cells, pkg)]
            = [w1 |-> pkg.w1, s1 |-> pkg.s1, w2 |-> pkg.w2, quant |-> quant,
               copies |-> Copies(cells, pkg)]
      BY <1>4
    <3> QED
      BY <2>2, <3>1
  <2> QED
    BY <2>1, <2>2 DEF WithTail
<1>5. Good(WithTail(found, cells, pkg, quant, dynamic))
  BY <1>3, <1>4
<1> QED
  BY <1>5 DEF found, cells
LEMMA CachedStep ==
  ASSUME IInv, NEW l \in Layers, NEW quant \in Quants, NEW dynamic \in BOOLEAN,
         LaunchCached(l, quant, dynamic)
  PROVE  IInv'
<1> DEFINE pkg == packages[l]
           cells == Ordered(pkg).mem
           noted == Ordered(pkg).registry
           key == ViewsKey(pkg, quant)
           views == WithTail(Views(cells, pkg, quant), cells, pkg, quant, dynamic)
           reads == Reads(cells, views, pkg, dynamic)
<1>1. /\ Loaded(l) /\ mem' = cells /\ registry' = noted
      /\ cache' = [k \in DOMAIN cache \cup {key} |-> IF k = key THEN views ELSE cache[k]]
      /\ lastWeights' = [none |-> FALSE, key |-> key, views |-> views]
      /\ lastRead' = Report(pkg, quant, views, reads)
      /\ UNCHANGED <<packages, loads, broken>>
  BY DEF LaunchCached
<1>2. /\ views = [w1 |-> pkg.w1, s1 |-> pkg.s1, w2 |-> pkg.w2, quant |-> quant,
                  copies |-> views.copies]
      /\ views.copies \in {Absent, Copies(cells, pkg)}
  BY <1>1, ViewsFacts
<1>3. /\ cells \in [Addresses -> Cells]
      /\ \A a \in Addresses \ {pkg.w1, pkg.s1} : cells[a] = mem[a]
      /\ \A a \in Addresses : cells[a].load = mem[a].load
      /\ pkg.load \notin broken =>
           LET form == IF pkg.plan.prepared THEN "tiles" ELSE "upGate" IN
           cells[pkg.w1].form = form /\ cells[pkg.s1].form = form
      /\ NeedsSwap(pkg) => <<pkg.w1, pkg.s1>> \in noted
      /\ noted \in {registry, registry \cup {<<pkg.w1, pkg.s1>>}}
      /\ (NeedsSwap(pkg) => Registered(pkg)) => cells = mem
  BY <1>1, OrderedFacts
<1>4. /\ Types /\ pkg \in Packages /\ OwnBytes(pkg)
      /\ pkg.w1 \in Addresses /\ pkg.s1 \in Addresses /\ pkg.w2 \in Addresses
  BY <1>1, PackageFacts DEF IInv, Packages
<1>5. \A k \in Layers \ {l} : Loaded(k) =>
        /\ packages[k].w1 \in Addresses \ {pkg.w1, pkg.s1}
        /\ packages[k].s1 \in Addresses \ {pkg.w1, pkg.s1}
        /\ packages[k].w2 \in Addresses \ {pkg.w1, pkg.s1}
  <2> TAKE k \in Layers \ {l}
  <2>1. Loaded(k) => /\ HeldBy(packages[k]) = {packages[k].w1, packages[k].s1, packages[k].w2}
                     /\ HeldBy(packages[k]) \subseteq Addresses
    BY <1>4, PackageFacts
  <2>2. /\ {pkg.w1, pkg.s1} \subseteq HeldBy(pkg)
        /\ HeldBy(packages[k]) \cap HeldBy(pkg) = {}
    BY <1>1, <1>4, PackageFacts DEF IInv, Apart
  <2> QED
    BY <2>1, <2>2
<1> HIDE DEF views, cells, noted, key
<1>6. Types' /\ Apart'
  BY <1>1, <1>3, <1>4 DEF IInv, Types, Apart
<1>7. \A k \in Layers : Loaded(k)' => OwnBytes(packages[k])'
  <2> SUFFICES ASSUME NEW k \in Layers, Loaded(k)' PROVE OwnBytes(packages[k])'
    OBVIOUS
  <2>1. OwnBytes(packages[k]) /\ packages'[k] = packages[k] /\ Loaded(k)
    BY <1>1 DEF IInv, Loaded
  <2>2. CASE k = l
    <3>1. Order(packages[k])' = IF pkg.plan.prepared THEN "tiles" ELSE "upGate"
      BY <1>1, <1>3, <2>1, <2>2 DEF Order, Registered, NeedsSwap
    <3>2. /\ cells[pkg.w1].load = mem[pkg.w1].load /\ cells[pkg.s1].load = mem[pkg.s1].load
          /\ cells[pkg.w2].load = mem[pkg.w2].load
      BY <1>3, <1>4
    <3> QED
      BY <1>1, <1>3, <2>1, <2>2, <3>1, <3>2 DEF OwnBytes
  <2>3. CASE k # l
    <3>1. /\ mem'[packages[k].w1] = mem[packages[k].w1]
          /\ mem'[packages[k].s1] = mem[packages[k].s1]
          /\ mem'[packages[k].w2] = mem[packages[k].w2]
      BY <1>1, <1>3, <1>5, <2>1, <2>3
    <3>2. packages[k].w1 # pkg.w1
      BY <1>5, <2>1, <2>3
    <3>3. Order(packages[k])' = Order(packages[k])
      BY <1>1, <1>3, <2>1, <3>2 DEF Order, Registered, NeedsSwap
    <3> QED
      BY <1>1, <2>1, <3>1, <3>3 DEF OwnBytes
  <2> QED
    BY <2>2, <2>3
<1>8. CachesRight'
  <2>1. ASSUME NEW k, NEW v, ViewsRight(k, v) PROVE ViewsRight(k, v)'
    <3> SUFFICES ASSUME NEW m \in Layers, Loaded(m)', At(v, packages'[m])
                 PROVE  /\ Loaded(m) /\ packages'[m] = packages[m]
                        /\ NeedsSwap(packages[m]) /\ Registered(packages[m]) =>
                             <<packages[m].w1, packages[m].s1>> \in registry'
                        /\ NeedsSwap(packages[m]) => Registered(packages[m])
                        /\ Copies(mem', packages[m]) = Copies(mem, packages[m])
      BY <2>1, ViewsKept
    <3>1. Loaded(m) /\ packages'[m] = packages[m]
      BY <1>1 DEF Loaded
    <3>2. NeedsSwap(packages[m]) => Registered(packages[m])
      BY <2>1, <3>1 DEF ViewsRight, At
    <3>3. CASE m = l
      BY <1>1, <1>3, <3>1, <3>2, <3>3 DEF Registered
    <3>4. CASE m # l
      <4>1. Copies(mem', packages[m]) = Copies(mem, packages[m])
        BY <1>1, <1>3, <1>5, <3>1, <3>4 DEF Copies
      <4> QED
        BY <1>1, <1>3, <3>1, <3>2, <4>1 DEF Registered
    <3> QED
      BY <3>3, <3>4
  <2>2. ASSUME NEW k, NEW v, k = key, v = views PROVE ViewsRight(k, v)'
    <3>1. /\ v.w1 = pkg.w1 /\ v.s1 = pkg.s1 /\ v.w2 = pkg.w2
          /\ v.quant = quant /\ k = <<pkg.w1, pkg.s1, pkg.w2, quant>>
          /\ v = [w1 |-> pkg.w1, s1 |-> pkg.s1, w2 |-> pkg.w2, quant |-> quant,
                  copies |-> v.copies]
      BY <1>2, <2>2 DEF key, ViewsKey
    <3>2. \A m \in Layers : Loaded(m)' /\ v.w1 = packages'[m].w1 => m = l
      BY <1>1, <1>5, <3>1 DEF Loaded
    <3>3. NeedsSwap(pkg) => <<pkg.w1, pkg.s1>> \in registry'
      BY <1>1, <1>3
    <3>4. v.copies # Absent => v.copies = Copies(cells, pkg)
      BY <1>2, <2>2
    <3>5. Copies(mem', pkg) = Copies(cells, pkg) /\ packages' = packages
      BY <1>1
    <3>6. ASSUME NEW m \in Layers, Loaded(m)', v.w1 = packages'[m].w1
          PROVE  /\ NeedsSwap(packages'[m]) => Registered(packages[m])'
                 /\ v.copies # Absent => v.copies = Copies(mem', packages'[m])
      <4>1. m = l
        BY <3>2, <3>6
      <4> QED
        BY <3>3, <3>4, <3>5, <4>1 DEF Registered
    <3> QED
      BY <3>1, <3>6 DEF ViewsRight
  <2>3. \A k \in DOMAIN cache' : ViewsRight(k, cache[k])'
    <3> SUFFICES ASSUME NEW k \in DOMAIN cache' PROVE ViewsRight(k, cache[k])'
      OBVIOUS
    <3>1. CASE k = key
      <4>1. cache'[k] = views
        BY <1>1, <3>1
      <4> QED
        BY <2>2, <3>1, <4>1
    <3>2. CASE k # key
      <4>1. k \in DOMAIN cache /\ cache'[k] = cache[k]
        BY <1>1, <3>2
      <4>2. ViewsRight(k, cache[k])
        BY <4>1 DEF IInv, CachesRight
      <4> QED
        BY <2>1, <4>1, <4>2
    <3> QED
      BY <3>1, <3>2
  <2>4. lastWeights'.none = FALSE /\ ViewsRight(lastWeights.key, lastWeights.views)'
    BY <1>1, <2>2
  <2> QED
    BY <2>3, <2>4 DEF CachesRight
<1>9. reads.w1 = cells[pkg.w1] /\ reads.s1 = cells[pkg.s1] /\ reads.w2 = cells[pkg.w2]
  BY <1>2 DEF Reads, Copies
<1>10. /\ cells[pkg.w1].load = pkg.load /\ cells[pkg.s1].load = pkg.load
       /\ cells[pkg.w2].load = pkg.load
  BY <1>3, <1>4 DEF OwnBytes
<1> HIDE DEF reads
<1>11. ReadsOwnWeights'
  BY <1>1, <1>2, <1>3, <1>9, <1>10 DEF Report, ReadsOwnWeights
<1> QED
  BY <1>6, <1>7, <1>8, <1>11 DEF IInv

-----------------------------------------------------------------------------
(* _impl.py: whatever was loaded, unloaded, launched, cleared or interrupted *)
(* before, and wherever the allocator puts a layer, a launch of a layer      *)
(* whose swap did not fail reads its own bytes, up half first.               *)
THEOREM LaunchesReadOwn == WeightsSpec => []ReadsOwnWeights
<1>1. IInv /\ [WeightsNext]_weightsVars => IInv'
  <2> SUFFICES ASSUME IInv, [WeightsNext]_weightsVars PROVE IInv'
    OBVIOUS
  <2>1. CASE \E l \in Layers, plan \in WeightPlans, w1, s1, w2 \in Addresses :
               LoadAt(l, plan, w1, s1, w2)
    BY <2>1, LoadStep
  <2>2. CASE \E l \in Layers : Unload(l) \/ SwapFails(l)
    BY <2>2, UnloadStep, SwapFailsStep
  <2>3. CASE \E l \in Layers, quant \in Quants : LaunchPrepared(l, quant)
    BY <2>3, PreparedStep
  <2>4. CASE \E l \in Layers, quant \in Quants : \E dynamic \in BOOLEAN :
               LaunchCached(l, quant, dynamic)
    BY <2>4, CachedStep
  <2>5. CASE ClearCaches
    BY <2>5, ClearStep
  <2>6. CASE UNCHANGED weightsVars
    <3>1. \A key, views : ViewsRight(key, views) => ViewsRight(key, views)'
      BY <2>6 DEF weightsVars, ViewsRight, Loaded, Registered, Copies
    <3>2. CachesRight'
      BY <2>6, <3>1, CachesKept DEF weightsVars, IInv
    <3>3. \A l \in Layers : Loaded(l)' => OwnBytes(packages[l])'
      BY <2>6 DEF weightsVars, IInv, Loaded, OwnBytes, Order, NeedsSwap, Registered
    <3> QED
      BY <2>6, <3>2, <3>3 DEF weightsVars, IInv, Types, Apart, ReadsOwnWeights
  <2> QED
    BY <2>1, <2>2, <2>3, <2>4, <2>5, <2>6 DEF WeightsNext
<1>2. IInv => ReadsOwnWeights
  BY DEF IInv
<1> QED
  BY <1>1, <1>2, InvInit, PTL DEF WeightsSpec
-----------------------------------------------------------------------------
(* The conversion to tiles: arithmetic.                                      *)

\* Dividing by a positive number leaves a quotient and a remainder, and they
\* are the only such pair.
LEMMA DivMod ==
  ASSUME NEW a \in Int, NEW b \in Nat \ {0}
  PROVE  /\ a \div b \in Int /\ a % b \in 0 .. b - 1
         /\ a = b * (a \div b) + (a % b)
  OBVIOUS

\* Multiples of a positive number are ordered as their factors.
LEMMA MultiplesOrder ==
  ASSUME NEW b \in Nat \ {0}, NEW x \in Int, NEW y \in Int
  PROVE  /\ b * x \in Int /\ b * y \in Int
         /\ x <= y => b * x <= b * y
         /\ x < y => b * x + b <= b * y
<1>1. \A k \in Nat : b * k \in Nat
  OBVIOUS
<1>2. CASE x <= y
  <2>1. b * (y - x) \in Nat /\ b * (y - x) = b * y - b * x
    BY <1>1, <1>2
  <2>2. b * x <= b * y
    BY <2>1
  <2>3. x < y => b * (y - x - 1) \in Nat /\ b * (y - x - 1) = b * y - b * x - b
    BY <1>1
  <2> QED BY <2>2, <2>3
<1> QED BY <1>2

LEMMA QuotientUnique ==
  ASSUME NEW b \in Nat \ {0}, NEW q \in Int, NEW r \in 0 .. b - 1
  PROVE  (b * q + r) \div b = q /\ (b * q + r) % b = r
<1> DEFINE a == b * q + r
<1>1. a \in Int /\ b * q \in Int
  OBVIOUS
<1>2. PICK p \in Int, t \in 0 .. b - 1 : p = a \div b /\ t = a % b /\ a = b * p + t
  BY <1>1, DivMod
<1>3. p = q
  <2>1. ~(p < q)
    BY <1>1, <1>2, MultiplesOrder
  <2>2. ~(q < p)
    BY <1>1, <1>2, MultiplesOrder
  <2> QED BY <2>1, <2>2
<1> QED BY <1>1, <1>2, <1>3

LEMMA CeilFacts ==
  ASSUME NEW a \in Nat, NEW b \in Nat \ {0}
  PROVE  /\ Ceil(a, b) \in Nat
         /\ a <= b * Ceil(a, b) /\ b * Ceil(a, b) < a + b
         /\ a % b = 0 => b * Ceil(a, b) = a
<1>1. PICK q \in Int, r \in 0 .. b - 1 : q = (a + b - 1) \div b /\ a + b - 1 = b * q + r
  BY DivMod
<1>2. Ceil(a, b) = q
  BY <1>1 DEF Ceil
<1>3. b * q \in Int
  OBVIOUS
<1>4. a <= b * q /\ b * q < a + b
  BY <1>1, <1>3
<1>5. q \in Nat
  <2> SUFFICES ASSUME q < 0 PROVE FALSE
    BY <1>1
  <2>1. b * q + b <= b * 0
    BY MultiplesOrder
  <2> QED BY <1>4, <2>1
<1>6. ASSUME a % b = 0 PROVE b * q = a
  <2>1. PICK p \in Int : a = b * p
    <3>1. a \div b \in Int /\ a = b * (a \div b) + (a % b)
      BY DivMod
    <3>2. b * (a \div b) \in Int
      BY <3>1
    <3> QED BY <1>6, <3>1, <3>2
  <2>2. ~(p < q)
    BY <1>4, <2>1, MultiplesOrder
  <2>3. ~(q < p)
    BY <1>4, <2>1, MultiplesOrder
  <2> QED BY <2>1, <2>2, <2>3
<1> QED BY <1>2, <1>4, <1>5, <1>6

-----------------------------------------------------------------------------
(* Where rows go.                                                            *)

\* The destination rows of a shape.
Dest(s) == IF HasTail(s) THEN Padded(s) ELSE Rows(s)

LEMMA ShapeFacts ==
  ASSUME NEW s \in Shapes
  PROVE  /\ s.rows \in Nat \ {0} /\ s.rotation \in Nat
         /\ s.gated \in BOOLEAN
         /\ ~s.gated => s.rotation = 0
         /\ Half(s) \in Nat
         /\ s.gated => s.rows = 2 * Half(s) /\ Half(s) > 0 /\ s.rotation \in {0, Half(s)}
         /\ HalfTile \in Nat \ {0} /\ Tile = 2 * HalfTile /\ Tile \in Nat \ {0}
<1>1. IsShape(s)
  BY ShapeAssumption
<1>2. HalfTile \in Nat \ {0} /\ Tile = 2 * HalfTile /\ Tile \in Nat \ {0}
  BY TileAssumption DEF HalfTile
<1>3. s.rows \in Nat \ {0} /\ s.rotation \in Nat /\ s.gated \in BOOLEAN
  BY <1>1 DEF IsShape
<1>4. s.gated => s.rows % 2 = 0 /\ s.rotation \in {0, s.rows \div 2}
  BY <1>1 DEF IsShape
<1> QED BY <1>1, <1>2, <1>3, <1>4 DEF IsShape, Half

\* The tiles hold all rows, and no more of a shape without a tail.
LEMMA TilesHold ==
  ASSUME NEW s \in Shapes
  PROVE  /\ Tiles(s) \in Nat /\ Tiles(s) * Tile \in Nat
         /\ s.rows <= Tiles(s) * Tile
         /\ ~HasTail(s) => Tiles(s) * Tile = s.rows
         /\ Dest(s) \subseteq Nat
         /\ \A d \in Nat : d \in Dest(s) <=> d < Tiles(s) * Tile
<1>1. s.rows \in Nat \ {0} /\ Tile \in Nat \ {0}
  BY ShapeFacts
<1>2. /\ Tiles(s) \in Nat /\ s.rows <= Tile * Tiles(s)
      /\ s.rows % Tile = 0 => Tile * Tiles(s) = s.rows
  BY <1>1, CeilFacts DEF Tiles
<1>3. Tiles(s) * Tile = Tile * Tiles(s) /\ Tile * Tiles(s) \in Nat
  BY <1>1, <1>2
<1>4. ~HasTail(s) => s.rows % Tile = 0
  BY DEF HasTail
<1> QED BY <1>1, <1>2, <1>3, <1>4 DEF Dest, Padded, Rows

\* The padded halves of a shape with a tail fit its tiles; without a tail a
\* half is whole half tiles already.
LEMMA HalvesFit ==
  ASSUME NEW s \in Shapes
  PROVE  /\ HalfPad(s) > 0 <=> s.gated /\ HasTail(s)
         /\ HalfPad(s) \in Nat
         /\ HalfPad(s) > 0 => /\ HalfPad(s) = Ceil(Half(s), HalfTile) * HalfTile
                              /\ Half(s) <= HalfPad(s)
                              /\ 2 * HalfPad(s) <= Tiles(s) * Tile
         /\ s.gated /\ ~HasTail(s) => Ceil(Half(s), HalfTile) * HalfTile = Half(s)
<1>1. /\ HalfTile \in Nat \ {0} /\ Tile = 2 * HalfTile /\ Half(s) \in Nat /\ s.gated \in BOOLEAN
      /\ s.gated => s.rows = 2 * Half(s) /\ Half(s) > 0
  BY ShapeFacts
<1>2. PICK c \in Nat : /\ c = Ceil(Half(s), HalfTile)
                       /\ Half(s) <= HalfTile * c /\ HalfTile * c < Half(s) + HalfTile
  BY <1>1, CeilFacts
<1>3. c * HalfTile = HalfTile * c /\ HalfTile * c \in Nat
  BY <1>1
<1>4. HalfPad(s) = IF HasTail(s) /\ s.gated THEN c * HalfTile ELSE 0
  BY <1>2 DEF HalfPad
<1>5. PICK t \in Nat : t = Tiles(s) /\ s.rows <= t * Tile /\ (~HasTail(s) => t * Tile = s.rows)
  BY TilesHold
<1>6. t * Tile = 2 * (HalfTile * t) /\ HalfTile * t \in Nat
  BY <1>1
<1>7. s.gated => c <= t
  <2> SUFFICES ASSUME s.gated, t < c PROVE FALSE
    OBVIOUS
  <2>1. HalfTile * t + HalfTile <= HalfTile * c
    BY <1>1, MultiplesOrder
  <2> QED BY <1>1, <1>2, <1>3, <1>5, <1>6, <2>1
<1>8. s.gated => HalfTile * c <= HalfTile * t
  BY <1>1, <1>7, MultiplesOrder
<1>9. s.gated /\ ~HasTail(s) => HalfTile * c = Half(s)
  BY <1>1, <1>2, <1>3, <1>5, <1>6, <1>8
<1> QED BY <1>1, <1>2, <1>3, <1>4, <1>5, <1>6, <1>8, <1>9

\* Where a logical row goes.
Turned(s, row) == IF row >= s.rotation THEN row - s.rotation ELSE row - s.rotation + s.rows
Home(s, row) ==
  IF HalfPad(s) = 0 \/ Turned(s, row) < Half(s) THEN Turned(s, row)
  ELSE HalfPad(s) + (Turned(s, row) - Half(s))

\* Every destination row gets a row or zeros, and every row has one home.
LEMMA RowsHaveHomes ==
  ASSUME NEW s \in Shapes
  PROVE  /\ \A d \in Dest(s) : /\ WeightRow(s, d) = NoRow \/ WeightRow(s, d) \in Rows(s)
                               /\ ~HasTail(s) => WeightRow(s, d) \in Rows(s)
         /\ \A row \in Rows(s) :
              /\ Home(s, row) \in Dest(s)
              /\ \A d \in Dest(s) : WeightRow(s, d) = row <=> d = Home(s, row)
<1> DEFINE h == Half(s)
           pad == HalfPad(s)
           n == s.rows
           rot == s.rotation
           whole == Tiles(s) * Tile
<1>1. /\ n \in Nat \ {0} /\ rot \in Nat /\ h \in Nat /\ s.gated \in BOOLEAN
      /\ ~s.gated => rot = 0
      /\ s.gated => n = 2 * h /\ h > 0 /\ rot \in {0, h}
  BY ShapeFacts
<1>2. /\ whole \in Nat /\ n <= whole /\ (~HasTail(s) => whole = n)
      /\ Dest(s) \subseteq Nat
      /\ \A d \in Nat : d \in Dest(s) <=> d < whole
  BY TilesHold
<1>3. /\ pad > 0 <=> s.gated /\ HasTail(s)
      /\ pad \in Nat /\ (pad > 0 => h <= pad /\ 2 * pad <= whole)
  BY HalvesFit
<1>4. \A r : r \in Rows(s) <=> r \in Nat /\ r < n
  BY <1>1 DEF Rows
<1>5. rot < n
  BY <1>1
<1>6. CASE pad = 0
  <2>1. \A d \in Dest(s) :
          WeightRow(s, d) = IF d >= n THEN NoRow ELSE IF d + rot >= n THEN d + rot - n ELSE d + rot
    <3> TAKE d \in Dest(s)
    <3>1. d \in Nat
      BY <1>2
    <3>2. WeightRow(s, d) = TurnedRow(s, d)
      BY <1>6 DEF WeightRow
    <3> QED BY <1>1, <3>1, <3>2 DEF TurnedRow
  <2>2. \A row \in Rows(s) : Home(s, row) = IF row >= rot THEN row - rot ELSE row - rot + n
    BY <1>6 DEF Home, Turned
  <2> HIDE DEF h, pad, n, rot, whole
  <2>3. \A d \in Dest(s) : /\ WeightRow(s, d) = NoRow \/ WeightRow(s, d) \in Rows(s)
                           /\ ~HasTail(s) => WeightRow(s, d) \in Rows(s)
    BY <1>1, <1>2, <1>4, <1>5, <2>1
  <2>4. \A row \in Rows(s) : Home(s, row) \in Dest(s)
    BY <1>1, <1>2, <1>4, <1>5, <2>2
  <2>5. \A row \in Rows(s) : \A d \in Dest(s) : WeightRow(s, d) = row <=> d = Home(s, row)
    <3> SUFFICES ASSUME NEW row \in Rows(s), NEW d \in Dest(s)
                 PROVE  WeightRow(s, d) = row <=> d = Home(s, row)
      OBVIOUS
    <3>1. row \in Nat /\ row < n /\ d \in Nat
      BY <1>2, <1>4
    <3>2. /\ WeightRow(s, d) = IF d >= n THEN NoRow ELSE IF d + rot >= n THEN d + rot - n ELSE d + rot
          /\ Home(s, row) = IF row >= rot THEN row - rot ELSE row - rot + n
      BY <2>1, <2>2
    <3>3. NoRow # row
      BY <3>1 DEF NoRow
    <3> QED BY <1>1, <1>5, <3>1, <3>2, <3>3
  <2> QED BY <2>3, <2>4, <2>5
<1>7. CASE pad > 0
  <2>0. s.gated /\ HasTail(s) /\ n = 2 * h /\ h > 0 /\ rot \in {0, h} /\ h <= pad /\ 2 * pad <= whole
    BY <1>1, <1>3, <1>7
  <2>1. \A d \in Dest(s) :
          WeightRow(s, d) =
            IF d < h THEN rot + d
            ELSE IF d >= pad /\ d < pad + h THEN (IF rot = 0 THEN h ELSE 0) + (d - pad)
            ELSE NoRow
    <3> TAKE d \in Dest(s)
    <3>1. d \in Nat /\ WeightRow(s, d) = HalfRow(s, pad, d)
      BY <1>2, <1>7 DEF WeightRow
    <3>2. HalfRow(s, pad, d) =
            LET gate == d >= pad
                within == IF gate THEN d - pad ELSE d
                base == rot + (IF gate THEN h ELSE 0)
                start == IF base >= 2 * h THEN base - 2 * h ELSE base
            IN IF d < 2 * pad /\ within < h THEN start + within ELSE NoRow
      BY DEF HalfRow
    <3> HIDE DEF h, pad, n, rot, whole
    <3>3. CASE d >= pad
      <4>1. HalfRow(s, pad, d) =
              IF d < 2 * pad /\ d - pad < h
              THEN (IF rot + h >= 2 * h THEN rot + h - 2 * h ELSE rot + h) + (d - pad) ELSE NoRow
        BY <1>1, <1>3, <3>1, <3>2, <3>3
      <4>2. ~(d < h)
        BY <1>1, <1>3, <2>0, <3>1, <3>3
      <4>3. (IF rot + h >= 2 * h THEN rot + h - 2 * h ELSE rot + h) = IF rot = 0 THEN h ELSE 0
        BY <1>1, <2>0
      <4>4. (d < 2 * pad /\ d - pad < h) <=> d < pad + h
        BY <1>1, <1>3, <2>0, <3>1, <3>3
      <4>5. HalfRow(s, pad, d) =
              IF d < pad + h THEN (IF rot = 0 THEN h ELSE 0) + (d - pad) ELSE NoRow
        BY <4>1, <4>3, <4>4
      <4> QED BY <3>1, <3>3, <4>2, <4>5
    <3>4. CASE ~(d >= pad)
      <4>1. HalfRow(s, pad, d) =
              LET start == IF rot >= 2 * h THEN rot - 2 * h ELSE rot
              IN IF d < 2 * pad /\ d < h THEN start + d ELSE NoRow
        BY <1>1, <3>2, <3>4
      <4> QED BY <1>1, <1>3, <2>0, <3>1, <3>4, <4>1
    <3> QED BY <3>3, <3>4
  <2>2. \A row \in Rows(s) :
          Home(s, row) = LET i == IF row >= rot THEN row - rot ELSE row - rot + n
                         IN  IF i < h THEN i ELSE pad + (i - h)
    BY <1>7 DEF Home, Turned
  <2> HIDE DEF h, pad, n, rot, whole
  <2>3. \A d \in Dest(s) : WeightRow(s, d) = NoRow \/ WeightRow(s, d) \in Rows(s)
    BY <1>1, <1>2, <1>3, <1>4, <2>0, <2>1
  <2>4. \A row \in Rows(s) : Home(s, row) \in Dest(s)
    BY <1>1, <1>2, <1>3, <1>4, <2>0, <2>2
  <2>5. \A row \in Rows(s) : \A d \in Dest(s) : WeightRow(s, d) = row <=> d = Home(s, row)
    <3> SUFFICES ASSUME NEW row \in Rows(s), NEW d \in Dest(s)
                 PROVE  WeightRow(s, d) = row <=> d = Home(s, row)
      OBVIOUS
    <3>1. row \in Nat /\ row < n /\ d \in Nat
      BY <1>2, <1>4
    <3>2. WeightRow(s, d) =
            IF d < h THEN rot + d
            ELSE IF d >= pad /\ d < pad + h THEN (IF rot = 0 THEN h ELSE 0) + (d - pad)
            ELSE NoRow
      BY <2>1
    <3>3. Home(s, row) = LET i == IF row >= rot THEN row - rot ELSE row - rot + n
                         IN  IF i < h THEN i ELSE pad + (i - h)
      BY <2>2
    <3>4. NoRow # row
      BY <3>1 DEF NoRow
    <3>5. CASE rot = 0
      BY <1>1, <1>3, <2>0, <3>1, <3>2, <3>3, <3>4, <3>5
    <3>6. CASE rot = h
      BY <1>1, <1>3, <2>0, <3>1, <3>2, <3>3, <3>4, <3>6
    <3> QED BY <2>0, <3>5, <3>6
  <2> QED BY <2>0, <2>3, <2>4, <2>5
<1> QED BY <1>3, <1>6, <1>7

\* The programs of a tile fill the rows whose quotient it is.
LEMMA TileOfRow ==
  ASSUME NEW d \in Nat, NEW t \in Nat
  PROVE  d \in RowsOf(t) <=> d \div Tile = t
<1>0. Tile \in Nat \ {0}
  BY TileAssumption
<1>1. PICK q \in Int, r \in 0 .. Tile - 1 : q = d \div Tile /\ d = Tile * q + r
  BY <1>0, DivMod
<1>2. t * Tile = Tile * t /\ Tile * t \in Int /\ Tile * q \in Int
  BY <1>0
<1>3. q < t => Tile * q + Tile <= Tile * t
  BY <1>0, MultiplesOrder
<1>4. t < q => Tile * t + Tile <= Tile * q
  BY <1>0, MultiplesOrder
<1>5. d \in RowsOf(t) <=> Tile * t <= d /\ d <= Tile * t + Tile - 1
  BY <1>0, <1>2 DEF RowsOf
<1> QED BY <1>0, <1>1, <1>2, <1>3, <1>4, <1>5

LEMMA RowsHaveTiles ==
  ASSUME NEW s \in Shapes, NEW d \in Dest(s)
  PROVE  d \in Nat /\ d \div Tile \in 0 .. Tiles(s) - 1
<1>0. Tile \in Nat \ {0}
  BY TileAssumption
<1>1. Tiles(s) \in Nat /\ d \in Nat /\ d < Tiles(s) * Tile
  BY TilesHold
<1>d. d \in Nat
  BY <1>1
<1>q. d \div Tile \in Int /\ d % Tile \in 0 .. Tile - 1 /\ d = Tile * (d \div Tile) + (d % Tile)
  <2>1. d \in Int
    BY <1>d
  <2> QED BY <1>0, <2>1, DivMod
<1>2. PICK q \in Int, r \in 0 .. Tile - 1 : q = d \div Tile /\ d = Tile * q + r
  BY <1>q
<1>3. Tiles(s) * Tile = Tile * Tiles(s) /\ Tile * q \in Int
  BY <1>0, <1>1
<1>4. q < Tiles(s)
  BY <1>0, <1>1, <1>2, <1>3, MultiplesOrder
<1>5. q >= 0
  <2> SUFFICES ASSUME q < 0 PROVE FALSE
    BY <1>2
  <2>1. Tile * q + Tile <= Tile * 0
    BY <1>0, MultiplesOrder
  <2> QED BY <1>0, <1>1, <1>2, <1>3, <2>1
<1> QED BY <1>1, <1>2, <1>4, <1>5

-----------------------------------------------------------------------------
(* The conversion.                                                           *)

\* Tile t of expert e's weights or scales has been written.
Written(p, e, t) ==
  \/ part = "done"
  \/ part = "scale" /\ p = "weight"
  \/ part = p /\ (e < first \/ <<e, t>> \in ran)

\* What is converted so far is where it belongs; the rest is as it was.  What a
\* program reads, it reads as it was.
RepackInv ==
  /\ shape \in Shapes
  /\ part \in {"weight", "scale", "done"}
  /\ first \in 0 .. NumExperts - 1
  /\ ran \subseteq Programs(first, shape)
  /\ source \in [Parts -> [Members -> [Rows(shape) -> Rows(shape)]]]
  /\ fresh \in [Parts -> [Members -> [Padded(shape) -> Int]]]
  /\ HasTail(shape) => \A p \in Parts, e \in Members, r \in Rows(shape) : source[p][e][r] = r
  /\ \/ scratch = <<>> /\ ran = {}
     \/ scratch = [e \in ChunkOf(first) |-> [r \in Rows(shape) |-> r]]
  /\ \A p \in Parts, e \in Members, d \in Dest(shape) :
       Converted(p, e)[d] = IF Written(p, e, d \div Tile) THEN WeightRow(shape, d)
                            ELSE IF HasTail(shape) THEN NoRow ELSE d

LEMMA RepackConstants ==
  /\ Tile \in Nat \ {0} /\ NumExperts \in Nat \ {0} /\ Chunk \in Nat \ {0}
  /\ \A e \in Members : e \in Nat
  /\ \A e0 \in Members : \A e : e \in ChunkOf(e0) <=> e \in Members /\ e0 <= e /\ e < e0 + Chunk
  /\ \A e0 \in Members : e0 \in ChunkOf(e0) /\ e0 \in 0 .. NumExperts - 1
<1>1. Tile \in Nat \ {0} /\ NumExperts \in Nat \ {0} /\ Chunk \in Nat \ {0}
  BY TileAssumption, ChunkAssumption
<1> QED BY <1>1 DEF Members, ChunkOf

LEMMA PlacedAre ==
  ASSUME NEW p, NEW s, NEW d
  PROVE  Placed(p, s, d) = WeightRow(s, d)
BY DEF Placed, WeightRow, ScaleRow

LEMMA NoTailNoPadding ==
  ASSUME NEW s \in Shapes, ~HasTail(s)
  PROVE  Padded(s) = Rows(s) /\ Dest(s) = Rows(s)
<1>1. Tiles(s) * Tile = s.rows
  BY TilesHold
<1> QED BY <1>1 DEF Padded, Rows, Dest

LEMMA RepackInits == RepackInit => RepackInv
<1> SUFFICES ASSUME RepackInit PROVE RepackInv
  OBVIOUS
<1>1. /\ shape \in Shapes /\ part = "weight" /\ first = 0 /\ scratch = <<>> /\ ran = {}
      /\ source = [p \in Parts |-> [e \in Members |-> [r \in Rows(shape) |-> r]]]
      /\ fresh = [p \in Parts |-> [e \in Members |-> [d \in Padded(shape) |-> NoRow]]]
  BY DEF RepackInit
<1>2. first \in 0 .. NumExperts - 1
  BY <1>1, RepackConstants
<1>3. \A p \in Parts, e \in Members : \A t : ~Written(p, e, t)
  BY <1>1, RepackConstants DEF Written, Parts
<1>4. NoRow \in Int
  BY DEF NoRow
<1>5. source \in [Parts -> [Members -> [Rows(shape) -> Rows(shape)]]]
  BY <1>1
<1>6. fresh \in [Parts -> [Members -> [Padded(shape) -> Int]]]
  BY <1>1, <1>4
<1>7. \A p \in Parts, e \in Members, r \in Rows(shape) : source[p][e][r] = r
  BY <1>1
<1>8. \A p \in Parts, e \in Members, d \in Padded(shape) : fresh[p][e][d] = NoRow
  BY <1>1
<1>9. \A p \in Parts, e \in Members, d \in Dest(shape) :
        Converted(p, e)[d] = IF HasTail(shape) THEN NoRow ELSE d
  BY <1>7, <1>8 DEF Converted, Dest
<1> QED BY <1>1, <1>2, <1>3, <1>5, <1>6, <1>7, <1>9 DEF RepackInv

\* The scratch holds the chunk's experts as they were.
LEMMA CopyStep ==
  ASSUME RepackInv, CopyChunk
  PROVE  RepackInv'
<1>1. /\ part # "done" /\ ran = {} /\ scratch' = [e \in ChunkOf(first) |-> source[part][e]]
      /\ UNCHANGED <<shape, source, fresh, part, first, ran>>
  BY DEF CopyChunk
<1>2. /\ shape \in Shapes /\ part \in Parts /\ first \in Members
      /\ source \in [Parts -> [Members -> [Rows(shape) -> Rows(shape)]]]
  BY <1>1 DEF RepackInv, Parts, Members
<1>3. ASSUME NEW e \in ChunkOf(first)
      PROVE  source[part][e] = [r \in Rows(shape) |-> r]
  <2>1. e \in Members /\ ~(e < first)
    BY <1>2, RepackConstants
  <2>2. \A r \in Rows(shape) : source[part][e][r] = r
    <3>1. CASE HasTail(shape)
      BY <1>2, <2>1, <3>1 DEF RepackInv
    <3>2. CASE ~HasTail(shape)
      <4>1. \A t : ~Written(part, e, t)
        BY <1>1, <1>2, <2>1 DEF Written, Parts
      <4>2. \A d \in Rows(shape) : Converted(part, e)[d] = d
        BY <1>2, <2>1, <3>2, <4>1, NoTailNoPadding DEF RepackInv
      <4> QED BY <3>2, <4>2 DEF Converted
    <3> QED BY <3>1, <3>2
  <2>3. source[part][e] \in [Rows(shape) -> Rows(shape)]
    BY <1>2, <2>1
  <2> QED BY <2>2, <2>3
<1>4. scratch' = [e \in ChunkOf(first) |-> [r \in Rows(shape) |-> r]]
  BY <1>1, <1>3
<1> QED
  BY <1>1, <1>4 DEF RepackInv, Converted, Written

\* A chunk is over when all its programs have run.
LEMMA NextChunkStep ==
  ASSUME RepackInv, NextChunk
  PROVE  RepackInv'
<1>1. /\ part # "done" /\ ran = Programs(first, shape) /\ scratch' = <<>> /\ ran' = {}
      /\ UNCHANGED <<shape, source, fresh>>
  BY DEF NextChunk
<1>2. /\ shape \in Shapes /\ part \in Parts /\ first \in Members
  BY <1>1 DEF RepackInv, Parts, Members
<1>3. \/ first + Chunk < NumExperts /\ first' = first + Chunk /\ part' = part
      \/ /\ ~(first + Chunk < NumExperts) /\ first' = 0
         /\ part' = IF part = "weight" THEN "scale" ELSE "done"
  BY DEF NextChunk
<1>4. first' \in 0 .. NumExperts - 1 /\ part' \in {"weight", "scale", "done"}
  BY <1>2, <1>3, RepackConstants DEF Parts
<1>5. ASSUME NEW p \in Parts, NEW e \in Members, NEW t \in 0 .. Tiles(shape) - 1
      PROVE  Written(p, e, t)' <=> Written(p, e, t)
  <2>1. <<e, t>> \in ran <=> first <= e /\ e < first + Chunk
    <3>1. <<e, t>> \in ran <=> e \in ChunkOf(first)
      BY <1>1 DEF Programs
    <3> QED BY <1>2, <3>1, RepackConstants
  <2>2. first \in Nat /\ e \in Nat /\ e < NumExperts /\ Chunk \in Nat
    BY <1>2, RepackConstants DEF Members
  <2>3. <<e, t>> \notin ran'
    BY <1>1
  <2>4. CASE first + Chunk < NumExperts
    BY <1>1, <1>2, <1>3, <2>1, <2>2, <2>3, <2>4 DEF Written
  <2>5. CASE ~(first + Chunk < NumExperts)
    <3>1. e < first \/ <<e, t>> \in ran
      BY <2>1, <2>2, <2>5, RepackConstants
    <3>2. Written(p, e, t) <=> p = "weight" \/ part = "scale"
      BY <1>1, <1>2, <3>1 DEF Written, Parts
    <3>3. ~(e < first')
      BY <1>3, <2>2, <2>5
    <3>4. Written(p, e, t)' <=> p = "weight" \/ part = "scale"
      BY <1>1, <1>2, <1>3, <2>3, <2>5, <3>3 DEF Written, Parts
    <3> QED BY <3>2, <3>4
  <2> QED BY <2>4, <2>5
<1>6. \A d \in Dest(shape) : d \div Tile \in 0 .. Tiles(shape) - 1
  BY <1>2, RowsHaveTiles
<1>7. \A p \in Parts, e \in Members : Converted(p, e)' = Converted(p, e)
  BY <1>1 DEF Converted
<1>8. \A p \in Parts, e \in Members, d \in Dest(shape) :
        Converted(p, e)'[d] = IF Written(p, e, d \div Tile)' THEN WeightRow(shape, d)
                              ELSE IF HasTail(shape) THEN NoRow ELSE d
  BY <1>5, <1>6, <1>7 DEF RepackInv
<1> QED BY <1>1, <1>4, <1>8 DEF RepackInv

\* A program writes its tile of its expert's rows, each where it belongs.
LEMMA ProgramStep ==
  ASSUME RepackInv, NEW e \in Members, NEW tile \in 0 .. Tiles(shape) - 1, Program(e, tile)
  PROVE  RepackInv'
<1> DEFINE value(d) == IF Placed(part, shape, d) = NoRow THEN NoRow
                       ELSE Read(e, Placed(part, shape, d))
<1>1. /\ part # "done" /\ <<e, tile>> \in Programs(first, shape) \ ran
      /\ DOMAIN scratch = ChunkOf(first)
      /\ ran' = ran \cup {<<e, tile>>}
      /\ UNCHANGED <<shape, part, first, scratch>>
      /\ IF HasTail(shape)
         THEN /\ fresh' = [fresh EXCEPT ![part][e] =
                    [d \in Padded(shape) |-> IF d \in RowsOf(tile) THEN value(d) ELSE @[d]]]
              /\ UNCHANGED source
         ELSE /\ source' = [source EXCEPT ![part][e] =
                    [d \in Rows(shape) |-> IF d \in RowsOf(tile) THEN value(d) ELSE @[d]]]
              /\ UNCHANGED fresh
  BY DEF Program
<1>2. /\ shape \in Shapes /\ part \in Parts /\ first \in Members
      /\ source \in [Parts -> [Members -> [Rows(shape) -> Rows(shape)]]]
      /\ fresh \in [Parts -> [Members -> [Padded(shape) -> Int]]]
  BY <1>1 DEF RepackInv, Parts, Members
<1>3. e \in ChunkOf(first) /\ first \in ChunkOf(first)
  BY <1>1, <1>2, RepackConstants DEF Programs
<1>4. scratch = [x \in ChunkOf(first) |-> [r \in Rows(shape) |-> r]]
  <2>1. CASE scratch = <<>>
    <3>1. DOMAIN scratch = {}
      BY <2>1
    <3> QED BY <1>1, <1>3, <3>1
  <2> QED BY <2>1 DEF RepackInv
<1>5. ASSUME NEW row \in Rows(shape)
      PROVE  Read(e, row) = row
  <2>1. CASE ReadsScratch(part, shape)
    BY <1>3, <1>4, <2>1 DEF Read
  <2>2. CASE ~ReadsScratch(part, shape)
    <3>1. HasTail(shape)
      BY <2>2 DEF ReadsScratch
    <3>2. source[part][e][row] = row
      BY <1>2, <3>1 DEF RepackInv
    <3> QED BY <2>2, <3>2 DEF Read
  <2> QED BY <2>1, <2>2
<1>6. \A d \in Dest(shape) : /\ value(d) = WeightRow(shape, d)
                             /\ value(d) = NoRow \/ value(d) \in Rows(shape)
                             /\ ~HasTail(shape) => value(d) \in Rows(shape)
  <2> SUFFICES ASSUME NEW d \in Dest(shape)
               PROVE  /\ value(d) = WeightRow(shape, d)
                      /\ value(d) = NoRow \/ value(d) \in Rows(shape)
                      /\ ~HasTail(shape) => value(d) \in Rows(shape)
    OBVIOUS
  <2>1. WeightRow(shape, d) = NoRow \/ WeightRow(shape, d) \in Rows(shape)
    BY <1>2, RowsHaveHomes
  <2>2. ~HasTail(shape) => WeightRow(shape, d) \in Rows(shape)
    BY <1>2, RowsHaveHomes
  <2>3. Placed(part, shape, d) = WeightRow(shape, d)
    BY PlacedAre
  <2>4. value(d) = WeightRow(shape, d)
    BY <1>5, <2>1, <2>3
  <2> HIDE DEF value
  <2> QED BY <2>1, <2>2, <2>4
<1> HIDE DEF value
<1>7. \A d \in Dest(shape) : d \in RowsOf(tile) <=> d \div Tile = tile
  <2>1. \A d \in Dest(shape) : d \in Nat
    BY <1>2, RowsHaveTiles
  <2>2. tile \in Nat
    BY <1>2, TilesHold
  <2> QED BY <2>1, <2>2, TileOfRow
<1>8. \A p \in Parts, x \in Members : \A t :
        Written(p, x, t)' <=> Written(p, x, t) \/ (p = part /\ x = e /\ t = tile)
  BY <1>1, <1>2 DEF Written, Parts
<1>9. NoRow \in Int /\ Rows(shape) \subseteq Int
  BY <1>2, ShapeFacts DEF NoRow, Rows
<1>10. CASE HasTail(shape)
  <2>1. Dest(shape) = Padded(shape)
    BY <1>10 DEF Dest
  <2> DEFINE new == [d \in Padded(shape) |-> IF d \in RowsOf(tile) THEN value(d) ELSE fresh[part][e][d]]
  <2>2. new \in [Padded(shape) -> Int]
    BY <1>2, <1>6, <1>9, <2>1
  <2>3. \A d \in Padded(shape) : new[d] = IF d \in RowsOf(tile) THEN value(d) ELSE fresh[part][e][d]
    OBVIOUS
  <2>4. fresh' = [fresh EXCEPT ![part][e] = new] /\ source' = source
    BY <1>1, <1>10
  <2> HIDE DEF new
  <2>5. /\ fresh' \in [Parts -> [Members -> [Padded(shape) -> Int]]]
        /\ \A p \in Parts, x \in Members : fresh'[p][x] = IF p = part /\ x = e THEN new ELSE fresh[p][x]
    BY <1>2, <2>2, <2>4
  <2>6. ASSUME NEW p \in Parts, NEW x \in Members, NEW d \in Dest(shape)
        PROVE  Converted(p, x)'[d] = IF Written(p, x, d \div Tile)' THEN WeightRow(shape, d) ELSE NoRow
    <3>1. fresh[p][x][d] = IF Written(p, x, d \div Tile) THEN WeightRow(shape, d) ELSE NoRow
      BY <1>10 DEF RepackInv, Converted
    <3>2. fresh'[p][x][d] = IF p = part /\ x = e /\ d \div Tile = tile THEN WeightRow(shape, d) ELSE fresh[p][x][d]
      BY <1>6, <1>7, <2>1, <2>3, <2>5
    <3>3. Converted(p, x)' = fresh'[p][x]
      BY <1>1, <1>10 DEF Converted
    <3> QED BY <1>8, <3>1, <3>2, <3>3
  <2>7. \A p \in Parts, x \in Members, r \in Rows(shape) : source'[p][x][r] = r
    BY <1>10, <2>4 DEF RepackInv
  <2>8. ran' \subseteq Programs(first, shape)
    BY <1>1 DEF RepackInv
  <2> QED
    BY <1>1, <1>2, <1>4, <1>10, <2>4, <2>5, <2>6, <2>7, <2>8 DEF RepackInv
<1>11. CASE ~HasTail(shape)
  <2>1. Dest(shape) = Rows(shape)
    BY <1>11 DEF Dest
  <2> DEFINE new == [d \in Rows(shape) |-> IF d \in RowsOf(tile) THEN value(d) ELSE source[part][e][d]]
  <2>2. new \in [Rows(shape) -> Rows(shape)]
    BY <1>2, <1>6, <1>11, <2>1
  <2>3. \A d \in Rows(shape) : new[d] = IF d \in RowsOf(tile) THEN value(d) ELSE source[part][e][d]
    OBVIOUS
  <2>4. source' = [source EXCEPT ![part][e] = new] /\ fresh' = fresh
    BY <1>1, <1>11
  <2> HIDE DEF new
  <2>5. /\ source' \in [Parts -> [Members -> [Rows(shape) -> Rows(shape)]]]
        /\ \A p \in Parts, x \in Members : source'[p][x] = IF p = part /\ x = e THEN new ELSE source[p][x]
    BY <1>2, <2>2, <2>4
  <2>6. ASSUME NEW p \in Parts, NEW x \in Members, NEW d \in Dest(shape)
        PROVE  Converted(p, x)'[d] = IF Written(p, x, d \div Tile)' THEN WeightRow(shape, d) ELSE d
    <3>1. source[p][x][d] = IF Written(p, x, d \div Tile) THEN WeightRow(shape, d) ELSE d
      BY <1>11 DEF RepackInv, Converted
    <3>2. source'[p][x][d] = IF p = part /\ x = e /\ d \div Tile = tile THEN WeightRow(shape, d) ELSE source[p][x][d]
      BY <1>6, <1>7, <2>1, <2>3, <2>5
    <3>3. Converted(p, x)' = source'[p][x]
      BY <1>1, <1>11 DEF Converted
    <3> QED BY <1>8, <3>1, <3>2, <3>3
  <2>8. ran' \subseteq Programs(first, shape)
    BY <1>1 DEF RepackInv
  <2> QED
    BY <1>1, <1>2, <1>4, <1>11, <2>4, <2>5, <2>6, <2>8 DEF RepackInv
<1> QED BY <1>10, <1>11

LEMMA RepackInvHolds == RepackSpec => []RepackInv
<1>1. RepackInit => RepackInv
  BY RepackInits
<1>2. RepackInv /\ [RepackNext]_repackVars => RepackInv'
  <2> SUFFICES ASSUME RepackInv, [RepackNext]_repackVars PROVE RepackInv'
    OBVIOUS
  <2>1. CASE CopyChunk
    BY <2>1, CopyStep
  <2>2. CASE NextChunk
    BY <2>2, NextChunkStep
  <2>3. ASSUME NEW e \in Members, NEW tile \in 0 .. Tiles(shape) - 1, Program(e, tile) PROVE RepackInv'
    BY <2>3, ProgramStep
  <2>4. CASE UNCHANGED repackVars
    BY <2>4 DEF repackVars, RepackInv, Converted, Written
  <2> QED BY <2>1, <2>2, <2>3, <2>4 DEF RepackNext
<1> QED BY <1>1, <1>2, PTL DEF RepackSpec

-----------------------------------------------------------------------------
\* Once all is converted a row is in its home and nowhere else.
LEMMA RowsAtHome ==
  ASSUME RepackInv, part = "done", NEW p \in Parts, NEW e \in Members, NEW row \in Rows(shape)
  PROVE  Where(p, e, row) = {Home(shape, row)}
<1>1. shape \in Shapes
  BY DEF RepackInv
<1>2. DOMAIN Converted(p, e) = Dest(shape)
  BY DEF RepackInv, Converted, Dest
<1>3. \A d \in Dest(shape) : Converted(p, e)[d] = WeightRow(shape, d)
  BY DEF RepackInv, Written
<1>4. Home(shape, row) \in Dest(shape)
  BY <1>1, RowsHaveHomes
<1>5. \A d \in Dest(shape) : WeightRow(shape, d) = row <=> d = Home(shape, row)
  BY <1>1, RowsHaveHomes
<1> QED BY <1>2, <1>3, <1>4, <1>5 DEF Where

\* The CPU's form of a conversion without a tail, row by row.
LEMMA CpuAgrees ==
  ASSUME NEW s \in Shapes, ~HasTail(s), NEW row \in Rows(s)
  PROVE  CpuRow(s, Home(s, row)) = row
<1>1. /\ s.rows \in Nat \ {0} /\ s.rotation \in Nat /\ Tile \in Nat \ {0} /\ s.rotation < s.rows
  <2>1. /\ s.rows \in Nat \ {0} /\ s.rotation \in Nat /\ Half(s) \in Nat /\ s.gated \in BOOLEAN
        /\ ~s.gated => s.rotation = 0
        /\ s.gated => s.rows = 2 * Half(s) /\ Half(s) > 0 /\ s.rotation \in {0, Half(s)}
    BY ShapeFacts
  <2> QED BY <2>1, TileAssumption
<1>2. row \in Nat /\ row < s.rows
  BY <1>1 DEF Rows
<1>3. HalfPad(s) = 0
  BY HalvesFit
<1>4. PICK d \in Nat : /\ d = Home(s, row)
                       /\ d = IF row >= s.rotation THEN row - s.rotation ELSE row - s.rotation + s.rows
  BY <1>1, <1>2, <1>3 DEF Home, Turned
<1>5. (d \div Tile) * Tile + (d % Tile) = d
  <2>1. d \in Int
    OBVIOUS
  <2>2. d \div Tile \in Int /\ d = Tile * (d \div Tile) + (d % Tile)
    BY <1>1, <2>1, DivMod
  <2>3. (d \div Tile) * Tile = Tile * (d \div Tile)
    BY <1>1, <2>2
  <2> QED BY <2>2, <2>3
<1>6. (d \div Tile) * Tile + s.rotation + (d % Tile) = d + s.rotation
  <2>1. PICK x \in Int, y \in Int : x = (d \div Tile) * Tile /\ y = d % Tile
    BY <1>1
  <2> QED BY <1>1, <1>5, <2>1
<1>7. CpuRow(s, d) = (d + s.rotation) % s.rows
  BY <1>6 DEF CpuRow
<1>8. \/ d + s.rotation = s.rows * 0 + row
      \/ d + s.rotation = s.rows * 1 + row
  BY <1>1, <1>2, <1>4
<1>9. (d + s.rotation) % s.rows = row
  BY <1>1, <1>2, <1>8, QuotientUnique
<1> QED BY <1>4, <1>7, <1>9

\* The up row and the gate row of a column.
LEMMA PairsApart ==
  ASSUME NEW s \in Shapes, s.gated, NEW i \in 0 .. Half(s) - 1
  PROVE  /\ (s.rotation + i) % s.rows \in Rows(s)
         /\ (s.rotation + Half(s) + i) % s.rows \in Rows(s)
         /\ Home(s, (s.rotation + i) % s.rows) = i
         /\ Home(s, (s.rotation + Half(s) + i) % s.rows) = Ceil(Half(s), HalfTile) * HalfTile + i
<1> DEFINE h == Half(s)
           n == s.rows
           rot == s.rotation
           apart == Ceil(h, HalfTile) * HalfTile
<1>1. n \in Nat \ {0} /\ h \in Nat /\ n = 2 * h /\ h > 0 /\ rot \in {0, h} /\ i \in Nat /\ i < h
  BY ShapeFacts
<1>2. /\ HalfPad(s) \in Nat
      /\ HalfPad(s) = 0 => apart = h
      /\ HalfPad(s) > 0 => HalfPad(s) = apart
  BY HalvesFit
<1>3. (rot + i) % n = rot + i
  <2>1. rot + i = n * 0 + (rot + i) /\ rot + i \in 0 .. n - 1
    BY <1>1
  <2> HIDE DEF n, rot, h
  <2> QED BY <1>1, <2>1, QuotientUnique, SMTT(30)
<1>4. (rot + h + i) % n = IF rot = 0 THEN h + i ELSE i
  <2>1. CASE rot = 0
    <3>1. rot + h + i = n * 0 + (h + i) /\ h + i \in 0 .. n - 1
      BY <1>1, <2>1
    <3> HIDE DEF n, rot, h
    <3> QED BY <1>1, <2>1, <3>1, QuotientUnique, SMTT(30)
  <2>2. CASE rot = h
    <3>1. rot + h + i = n * 1 + i /\ i \in 0 .. n - 1
      BY <1>1, <2>2
    <3> HIDE DEF n, rot, h
    <3> QED BY <1>1, <2>2, <3>1, QuotientUnique
  <2> QED BY <1>1, <2>1, <2>2
<1>5. \A row \in Nat : Home(s, row) =
        LET t == IF row >= rot THEN row - rot ELSE row - rot + n
        IN  IF HalfPad(s) = 0 \/ t < h THEN t ELSE HalfPad(s) + (t - h)
  BY DEF Home, Turned
<1>6. \A r : r \in Rows(s) <=> r \in Nat /\ r < n
  BY <1>1 DEF Rows
<1> HIDE DEF h, n, rot, apart
<1>7. Home(s, rot + i) = i
  BY <1>1, <1>5
<1>8. Home(s, IF rot = 0 THEN h + i ELSE i) = apart + i
  <2>1. CASE rot = 0
    BY <1>1, <1>2, <1>5, <2>1
  <2>2. CASE rot = h
    BY <1>1, <1>2, <1>5, <2>2
  <2> QED BY <1>1, <2>1, <2>2
<1>9. rot + i \in Rows(s) /\ (IF rot = 0 THEN h + i ELSE i) \in Rows(s)
  BY <1>1, <1>6
<1> QED BY <1>3, <1>4, <1>7, <1>8, <1>9 DEF h, n, rot, apart

\* In place or not, chunk by chunk and in whatever order the programs run: when
\* the conversion is over each row of weights and scales is where the kernel
\* reads it, for every shape, number of experts, chunk and (even) tile.
THEOREM RowsEndRight == RepackSpec => []RepackedRight
<1>1. RepackInv => RepackedRight
  <2> SUFFICES ASSUME RepackInv, part = "done" PROVE RowsConverted /\ HalvesPaired
    BY DEF RepackedRight, RowsConverted, HalvesPaired
  <2>0. shape \in Shapes /\ "weight" \in Parts /\ "scale" \in Parts
    BY DEF RepackInv, Parts
  <2>1. ASSUME NEW e \in Members, NEW row \in Rows(shape)
        PROVE  /\ Cardinality(Where("weight", e, row)) = 1
               /\ Where("weight", e, row) = Where("scale", e, row)
               /\ ~HasTail(shape) => \A d \in Where("weight", e, row) : CpuRow(shape, d) = row
    <3>1. Where("weight", e, row) = {Home(shape, row)} /\ Where("scale", e, row) = {Home(shape, row)}
      BY <2>0, RowsAtHome
    <3>2. Cardinality({Home(shape, row)}) = 1
      BY FS_Singleton
    <3>3. ~HasTail(shape) => CpuRow(shape, Home(shape, row)) = row
      BY <2>0, CpuAgrees
    <3> QED BY <3>1, <3>2, <3>3
  <2>2. ASSUME shape.gated, NEW p \in Parts, NEW e \in Members, NEW i \in 0 .. Half(shape) - 1,
               NEW up \in Where(p, e, (shape.rotation + i) % shape.rows),
               NEW gate \in Where(p, e, (shape.rotation + Half(shape) + i) % shape.rows)
        PROVE  up % HalfTile = i % HalfTile /\ gate - up = Ceil(Half(shape), HalfTile) * HalfTile
    <3>1. /\ (shape.rotation + i) % shape.rows \in Rows(shape)
          /\ (shape.rotation + Half(shape) + i) % shape.rows \in Rows(shape)
          /\ Home(shape, (shape.rotation + i) % shape.rows) = i
          /\ Home(shape, (shape.rotation + Half(shape) + i) % shape.rows)
               = Ceil(Half(shape), HalfTile) * HalfTile + i
      BY <2>0, <2>2, PairsApart
    <3>2. up = i /\ gate = Ceil(Half(shape), HalfTile) * HalfTile + i
      BY <3>1, RowsAtHome
    <3>3. PICK c \in Nat : c = Ceil(Half(shape), HalfTile)
      BY <2>0, ShapeFacts, CeilFacts
    <3>4. i \in Int /\ c * HalfTile \in Int
      BY <2>0, ShapeFacts
    <3> QED BY <3>2, <3>3, <3>4
  <2>3. RowsConverted
    BY <2>1 DEF RowsConverted
  <2>4. HalvesPaired
    BY <2>2 DEF HalvesPaired
  <2> QED BY <2>3, <2>4
<1> QED BY <1>1, RepackInvHolds, PTL
===============================================================================
