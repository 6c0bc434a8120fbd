-------------------------- MODULE MaterializerProof --------------------------
(***************************************************************************)
(* Proofs about Materializer for any files, any number of workers, ranges  *)
(* and tries, and any number of kills and failed responses.                *)
(***************************************************************************)
EXTENDS Materializer, SequenceTheorems, TLAPS

Labels == {"idle", "next", "aux", "copy", "fill", "check", "open", "write",
           "stream", "replace", "validate", "done"}

Doc == {None} \cup Seq(Piece)

Process == [at : Labels, file : Files \cup {None}, done : SUBSET Files,
            range : 1 .. Ranges, try : 1 .. attempts]

Types ==
  /\ dest \in [Files -> Doc] /\ temp \in [Files -> Doc]
  /\ proc \in [Procs -> Process]
  /\ kills \in 0 .. MaxKills /\ faults \in 0 .. MaxFaults
  /\ serving \in BOOLEAN

\* What a label says about the file at hand and the files done.
Placed(p) ==
  LET at == proc[p].at
      f  == proc[p].file
  IN  /\ at \in {"aux", "copy", "fill"} => f \in Aux
      /\ at \in {"check", "validate"} => f \in Shards
      /\ at = "stream" => f \in Native
      /\ at \in {"open", "replace"} => f \in Files \ Aux
      /\ at = "write" => f \in Files \ (Aux \cup Native)
      /\ at \notin {"stream", "replace", "validate"} => proc[p].range = 1
      /\ proc[p].done \subseteq Task(p)
      /\ at = "idle" => proc[p].done = {}
      /\ at = "done" => proc[p].done = Task(p)
      /\ Running(p) /\ at # "next" =>
           /\ f \in Task(p) \ proc[p].done
           /\ Before(f) \cap Task(p) \subseteq proc[p].done

\* The operator keeps main and the workers apart.
Alone == Running("main") => \A w \in Workers : ~Running(w)

\* The temporary file while a process writes it: the ranges before the one
\* at hand are right, and what follows them is at most a failed attempt.
TempRight(p) ==
  LET f == proc[p].file
  IN  /\ proc[p].at = "stream" =>
           /\ temp[f] \in Seq(Piece)
           /\ Len(temp[f]) \in {proc[p].range - 1, proc[p].range}
           /\ \A i \in 1 .. proc[p].range - 1 : temp[f][i] = i
      /\ proc[p].at = "replace" => temp[f] = Whole(f)
      /\ proc[p].at = "validate" => dest[f] = Whole(f)

Short == \A f \in Files : temp[f] # None => Len(temp[f]) <= Chunks(f)

DestRight ==
  \A f \in Files : dest[f] \in {None, Whole(f)} \/ (f \in Aux /\ dest[f] = <<>>)

MainDone == \A f \in proc["main"].done : Complete(f)

NobodyCopies ==
  dest["receipt"] # None => \A p \in Procs : proc[p].at \notin {"copy", "fill"}

\* The strengthening of FilesSound that every step preserves.
IInv ==
  /\ Types
  /\ \A p \in Procs : Placed(p)
  /\ Alone
  /\ \A p \in Procs : TempRight(p)
  /\ Short
  /\ DestRight
  /\ MainDone
  /\ ReceiptMeansComplete
  /\ NobodyCopies

-----------------------------------------------------------------------------
\* Facts about files and tasks.

\* A finished file is content, of the length the size check asks for.
LEMMA WholeIsContent ==
  ASSUME NEW f \in Files
  PROVE  /\ Chunks(f) \in 1 .. Ranges
         /\ Whole(f) \in Seq(Piece) /\ Len(Whole(f)) = Chunks(f)
         /\ Whole(f) # None /\ Whole(f) # << >>
<1>1. Chunks(f) \in 1 .. Ranges
  BY Bounds DEF Chunks
<1>2. Whole(f) \in [1 .. Chunks(f) -> Piece]
  BY <1>1, Bounds DEF Whole, Piece
<1>3. Whole(f) \in Seq(Piece) /\ Len(Whole(f)) = Chunks(f)
  BY <1>1, <1>2, IsASeq
<1>4. Whole(f) # None
  BY <1>1, <1>2, Bounds, NoneIsNoContent
<1>. QED  BY <1>1, <1>3, <1>4

LEMMA EmptyIsContent == << >> \in Seq(Piece) /\ << >> # None /\ Len(<< >>) = 0
<1>1. << >> \in [1 .. 0 -> Piece]
  OBVIOUS
<1>2. << >> # None
  <2>1. 0 \in 0 .. Ranges + 1
    BY Bounds
  <2>. QED  BY <1>1, <2>1, NoneIsNoContent, Zenon
<1>3. << >> \in Seq(Piece) /\ Len(<< >>) = 0
  BY EmptySeq
<1>. QED  BY <1>2, <1>3

\* Only main has the receipt among its files.
LEMMA ReceiptIsMains ==
  ASSUME NEW p \in Procs, "receipt" \in Task(p)
  PROVE  p = "main"
BY WorkersDoNotShare, NamesDistinct DEF Procs, Task, Files, Shards, Configs

\* What main has done when it takes up the index and the receipt.
LEMMA IndexComesAfter == Before("index") = Aux \cup Shards \cup Configs
BY NamesDistinct DEF Before, Shards, Configs

LEMMA ReceiptComesLast == Before("receipt") = Files \ {"receipt"}
BY NamesDistinct DEF Before, Shards, Configs

\* Two processes that write temporary files at the same time write different
\* ones.
LEMMA OwnFile ==
  ASSUME IInv, NEW p \in Procs, NEW q \in Procs, p # q,
         proc[p].at \in {"open", "write", "stream", "replace"},
         proc[q].at \in {"open", "write", "stream", "replace"}
  PROVE  proc[p].file # proc[q].file
<1>1. Running(p) /\ Running(q)
  BY DEF Running
<1>2. p \in Workers /\ q \in Workers
  BY <1>1 DEF IInv, Alone, Procs
<1>3. proc[p].file \in Task(p) \ Aux /\ proc[q].file \in Task(q) \ Aux
  BY <1>1, NamesDistinct DEF IInv, Placed, Shards
<1>. QED  BY <1>2, <1>3, WorkersDoNotShare DEF Task

\* A process may be running after a step when it was before, or when the
\* operator may start it.
MayRun(p) ==
  Running(p) \/ IF p = "main" THEN \A w \in Workers : ~Running(w) ELSE ~Running("main")

\* One process moves on: the others keep their place, and main and the workers
\* stay apart.
LEMMA OneMoves ==
  ASSUME IInv, NEW p \in Procs, NEW r \in Process,
         proc' = [proc EXCEPT ![p] = r],
         MayRun(p) \/ r.at \in {"idle", "done"}
  PROVE  /\ proc' \in [Procs -> Process] /\ proc'[p] = r
         /\ \A q \in Procs \ {p} : proc'[q] = proc[q] /\ Placed(q)'
         /\ Alone'
<1>1. proc' \in [Procs -> Process] /\ proc'[p] = r
  BY DEF IInv, Types
<1>2. \A q \in Procs \ {p} : proc'[q] = proc[q]
  BY DEF IInv, Types
<1>3. ASSUME NEW q \in Procs \ {p} PROVE Placed(q)'
  <2>1. Placed(q) /\ proc'[q] = proc[q]
    BY <1>2 DEF IInv
  <2>. QED  BY <2>1 DEF Placed, Running
<1>4. \A q \in Procs \ {p} : Running(q)' = Running(q)
  BY <1>2 DEF Running
<1>5. Running(p)' => MayRun(p)
  BY <1>1 DEF Running
<1>6. Alone'
  BY <1>4, <1>5, WorkersDoNotShare DEF IInv, Alone, MayRun, Procs
<1>. QED  BY <1>1, <1>2, <1>3, <1>6

\* A step that touches no file keeps what is said about files, if the process
\* that moves neither claims a file that is not whole nor starts to copy.
LEMMA FilesKept ==
  ASSUME IInv, NEW p \in Procs, UNCHANGED <<dest, temp>>,
         \A q \in Procs \ {p} : proc'[q] = proc[q],
         TempRight(p)',
         p = "main" => \A f \in proc'[p].done : Complete(f),
         dest["receipt"] # None => proc'[p].at \notin {"copy", "fill"}
  PROVE  /\ \A q \in Procs : TempRight(q)'
         /\ Short' /\ DestRight' /\ MainDone' /\ ReceiptMeansComplete' /\ NobodyCopies'
<1>1. \A q \in Procs : TempRight(q)'
  BY DEF IInv, TempRight
<1>2. Short' /\ DestRight'
  BY DEF IInv, Short, DestRight, Whole, Chunks
<1>3. MainDone'
  BY DEF IInv, MainDone, Complete, Whole, Chunks, Procs
<1>4. ReceiptMeansComplete'
  BY DEF IInv, ReceiptMeansComplete, Complete, Whole, Chunks
<1>5. NobodyCopies'
  BY DEF IInv, NobodyCopies
<1>. QED  BY <1>1, <1>2, <1>3, <1>4, <1>5

-----------------------------------------------------------------------------
LEMMA InitInv == Init => IInv
<1> SUFFICES ASSUME Init PROVE IInv
  OBVIOUS
<1>. USE DEF Init
<1>1. Types
  <2>1. Idle \in Process
    BY Bounds DEF Idle, Process, Labels
  <2>2. None \in Doc
    BY DEF Doc
  <2>3. kills \in 0 .. MaxKills /\ faults \in 0 .. MaxFaults
    BY Bounds
  <2>. QED  BY <2>1, <2>2, <2>3 DEF Types
<1>2. \A p \in Procs : Placed(p) /\ TempRight(p)
  BY DEF Idle, Placed, TempRight, Running
<1>3. Alone /\ MainDone /\ NobodyCopies
  BY DEF Idle, Alone, MainDone, NobodyCopies, Running, Procs
<1>4. Short /\ DestRight
  BY DEF Short, DestRight
<1>5. ReceiptMeansComplete
  BY DEF ReceiptMeansComplete, Files
<1>. QED  BY <1>1, <1>2, <1>3, <1>4, <1>5 DEF IInv

-----------------------------------------------------------------------------
\* Steps that touch no file.

LEMMA IdleIsProcess == Idle \in Process
BY Bounds DEF Idle, Process, Labels

\* A process that ends leaves nothing to say about itself.
LEMMA ComesToRest ==
  ASSUME IInv, NEW p \in Procs, UNCHANGED <<dest, temp, serving>>,
         kills' \in 0 .. MaxKills, faults' \in 0 .. MaxFaults,
         proc' = [proc EXCEPT ![p] = Idle]
  PROVE  IInv'
<1>1. /\ proc' \in [Procs -> Process] /\ proc'[p] = Idle
      /\ \A q \in Procs \ {p} : proc'[q] = proc[q] /\ Placed(q)'
      /\ Alone'
  <2>1. Idle.at \in {"idle", "done"}
    BY DEF Idle
  <2>. QED  BY <2>1, IdleIsProcess, OneMoves
<1>2. Types'
  BY <1>1 DEF IInv, Types
<1>3. Placed(p)' /\ TempRight(p)' /\ proc'[p].done = {} /\ proc'[p].at = "idle"
  BY <1>1 DEF Idle, Placed, TempRight, Running
<1>4. /\ \A q \in Procs : TempRight(q)'
      /\ Short' /\ DestRight' /\ MainDone' /\ ReceiptMeansComplete' /\ NobodyCopies'
  BY <1>1, <1>3, FilesKept
<1>. QED  BY <1>1, <1>2, <1>3, <1>4 DEF IInv

\* The moving process has finished its file and takes up the next.
LEMMA NextUp ==
  ASSUME IInv, NEW p \in Procs, Finished(p), Running(p), proc[p].at # "next"
  PROVE  /\ proc' \in [Procs -> Process]
         /\ proc'[p].at = "next" /\ proc'[p].done = proc[p].done \cup {proc[p].file}
         /\ Placed(p)'
         /\ \A q \in Procs \ {p} : proc'[q] = proc[q] /\ Placed(q)'
         /\ Alone'
<1>. DEFINE r == [Idle EXCEPT !.at = "next", !.done = proc[p].done \cup {proc[p].file}]
<1>1. /\ Placed(p) /\ proc[p] \in Process /\ Task(p) \subseteq Files
  BY WorkersDoNotShare DEF IInv, Types, Task, Files, Shards, Procs
<1>2. /\ r.at = "next" /\ r.done = proc[p].done \cup {proc[p].file} /\ r.range = 1
      /\ r.done \subseteq Task(p)
  BY <1>1 DEF Idle, Placed
<1>3. r \in Process
  BY <1>1, <1>2, IdleIsProcess DEF Process, Labels, Idle
<1>4. proc' = [proc EXCEPT ![p] = r]
  BY DEF Finished
<1>. HIDE DEF r
<1>5. /\ proc' \in [Procs -> Process] /\ proc'[p] = r
      /\ \A q \in Procs \ {p} : proc'[q] = proc[q] /\ Placed(q)'
      /\ Alone'
  BY <1>3, <1>4, OneMoves DEF MayRun
<1>6. Placed(p)'
  BY <1>2, <1>5 DEF Placed
<1>. QED  BY <1>2, <1>5, <1>6

\* A process takes up the next file once the one at hand is whole.
LEMMA FileFinished ==
  ASSUME IInv, NEW p \in Procs, UNCHANGED <<dest, temp, kills, faults, serving>>,
         Running(p), proc[p].at # "next", Complete(proc[p].file), Finished(p)
  PROVE  IInv'
<1>1. /\ proc' \in [Procs -> Process]
      /\ proc'[p].at = "next" /\ proc'[p].done = proc[p].done \cup {proc[p].file}
      /\ Placed(p)'
      /\ \A q \in Procs \ {p} : proc'[q] = proc[q] /\ Placed(q)'
      /\ Alone'
  BY NextUp
<1>2. Types'
  BY <1>1 DEF IInv, Types
<1>3. TempRight(p)'
  BY <1>1 DEF TempRight
<1>4. p = "main" => \A f \in proc'[p].done : Complete(f)
  BY <1>1 DEF IInv, MainDone
<1>5. /\ \A q \in Procs : TempRight(q)'
      /\ Short' /\ DestRight' /\ MainDone' /\ ReceiptMeansComplete' /\ NobodyCopies'
  BY <1>1, <1>3, <1>4, FilesKept
<1>. QED  BY <1>1, <1>2, <1>3, <1>5 DEF IInv

\* A process moves to another label with the file at hand unchanged.
LEMMA LabelMoves ==
  ASSUME IInv, NEW p \in Procs, NEW label \in Labels,
         UNCHANGED <<dest, temp, kills, faults, serving>>,
         Goto(p, label), MayRun(p) \/ label \in {"idle", "done"},
         Placed(p)', TempRight(p)',
         dest["receipt"] # None => label \notin {"copy", "fill"}
  PROVE  IInv'
<1>. DEFINE r == [proc[p] EXCEPT !.at = label]
<1>1. r \in Process /\ r.at = label /\ r.done = proc[p].done
  BY DEF IInv, Types, Process
<1>2. proc' = [proc EXCEPT ![p] = r]
  BY DEF Goto
<1>. HIDE DEF r
<1>3. /\ proc' \in [Procs -> Process] /\ proc'[p] = r
      /\ \A q \in Procs \ {p} : proc'[q] = proc[q] /\ Placed(q)'
      /\ Alone'
  BY <1>1, <1>2, OneMoves
<1>4. Types'
  BY <1>3 DEF IInv, Types
<1>5. /\ \A q \in Procs : TempRight(q)'
      /\ Short' /\ DestRight' /\ MainDone' /\ ReceiptMeansComplete' /\ NobodyCopies'
  BY <1>1, <1>3, FilesKept DEF IInv, MainDone
<1>. QED  BY <1>3, <1>4, <1>5 DEF IInv

LEMMA StartPreserves == ASSUME IInv, NEW p \in Procs, Start(p) PROVE IInv'
<1>. USE DEF Start
<1>1. proc'[p] = [proc[p] EXCEPT !.at = "next"] /\ MayRun(p) /\ "next" \in Labels
  BY DEF Goto, IInv, Types, MayRun, Labels
<1>2. Placed(p)' /\ TempRight(p)'
  BY <1>1 DEF IInv, Types, Process, Placed, TempRight
<1>. QED  BY <1>1, <1>2, LabelMoves

LEMMA NextFilePreserves == ASSUME IInv, NEW p \in Procs, NextFile(p) PROVE IInv'
<1>. DEFINE left == Task(p) \ proc[p].done
<1>1. /\ proc[p].at = "next" /\ UNCHANGED <<dest, temp, kills, faults, serving>>
      /\ Placed(p) /\ proc[p] \in Process /\ Running(p) /\ MayRun(p)
  BY DEF NextFile, IInv, Types, Running, MayRun
<1>2. ASSUME left = {}, Goto(p, "done") PROVE IInv'
  <2>1. proc'[p] = [proc[p] EXCEPT !.at = "done"] /\ "done" \in Labels
    BY <1>2 DEF Goto, IInv, Types, Labels
  <2>2. Placed(p)' /\ TempRight(p)'
    BY <1>1, <1>2, <2>1 DEF Process, Placed, TempRight, Running
  <2>. QED  BY <1>1, <1>2, <2>1, <2>2, LabelMoves
<1>3. ASSUME NEW f \in left, Before(f) \cap Task(p) \subseteq proc[p].done,
             proc' = [proc EXCEPT ![p].file = f,
                        ![p].at = IF f \in Aux THEN "aux"
                                  ELSE IF f \in Shards THEN "check" ELSE "open"]
      PROVE  IInv'
  <2>. DEFINE label == IF f \in Aux THEN "aux" ELSE IF f \in Shards THEN "check" ELSE "open"
              r == [proc[p] EXCEPT !.file = f, !.at = label]
  <2>1. f \in Files
    BY WorkersDoNotShare DEF Task, Files, Shards, Procs
  <2>2. /\ r \in Process /\ r.at = label /\ r.file = f
        /\ r.done = proc[p].done /\ r.range = proc[p].range
    BY <1>1, <2>1 DEF Process, Labels
  <2>3. proc' = [proc EXCEPT ![p] = r]
    BY <1>3
  <2>. HIDE DEF r
  <2>4. /\ proc' \in [Procs -> Process] /\ proc'[p] = r
        /\ \A q \in Procs \ {p} : proc'[q] = proc[q] /\ Placed(q)'
        /\ Alone'
    BY <1>1, <2>2, <2>3, OneMoves
  <2>5. Types'
    BY <1>1, <2>4 DEF IInv, Types
  <2>6. Placed(p)'
    BY <1>1, <1>3, <2>1, <2>2, <2>4 DEF Placed
  <2>7. TempRight(p)'
    BY <2>2, <2>4 DEF TempRight
  <2>8. /\ \A q \in Procs : TempRight(q)'
        /\ Short' /\ DestRight' /\ MainDone' /\ ReceiptMeansComplete' /\ NobodyCopies'
    BY <1>1, <2>2, <2>4, <2>7, FilesKept DEF IInv, MainDone
  <2>. QED  BY <2>4, <2>5, <2>6, <2>8 DEF IInv
<1>. QED  BY <1>2, <1>3 DEF NextFile

LEMMA CheckAuxPreserves == ASSUME IInv, NEW p \in Procs, CheckAux(p) PROVE IInv'
<1>. DEFINE f == proc[p].file
<1>1. /\ proc[p].at = "aux" /\ UNCHANGED <<dest, temp, kills, faults, serving>>
      /\ Placed(p) /\ proc[p] \in Process /\ Running(p) /\ MayRun(p)
  BY DEF CheckAux, IInv, Types, Running, MayRun
<1>2. ASSUME dest[f] = None, Goto(p, "copy") PROVE IInv'
  <2>1. proc'[p] = [proc[p] EXCEPT !.at = "copy"] /\ "copy" \in Labels
    BY <1>2 DEF Goto, IInv, Types, Labels
  <2>2. Placed(p)' /\ TempRight(p)'
    BY <1>1, <2>1 DEF Process, Placed, TempRight, Running
  <2>3. dest["receipt"] = None
    <3>1. f \in Files
      BY <1>1 DEF Placed, Files
    <3>. QED  BY <1>2, <3>1, WholeIsContent DEF IInv, ReceiptMeansComplete, Complete
  <2>. QED  BY <1>1, <1>2, <2>1, <2>2, <2>3, LabelMoves
<1>3. ASSUME dest[f] = Whole(f), Finished(p) PROVE IInv'
  BY <1>1, <1>3, FileFinished DEF Complete
<1>4. ASSUME Raise(p) PROVE IInv'
  BY <1>1, <1>4, ComesToRest DEF Raise, IInv, Types
<1>. QED  BY <1>2, <1>3, <1>4 DEF CheckAux

LEMMA CheckShardPreserves == ASSUME IInv, NEW p \in Procs, CheckShard(p) PROVE IInv'
<1>. DEFINE f == proc[p].file
<1>1. /\ proc[p].at = "check" /\ UNCHANGED <<dest, temp, kills, faults, serving>>
      /\ Placed(p) /\ proc[p] \in Process /\ Running(p) /\ MayRun(p)
  BY DEF CheckShard, IInv, Types, Running, MayRun
<1>2. ASSUME Goto(p, "open") PROVE IInv'
  <2>1. proc'[p] = [proc[p] EXCEPT !.at = "open"] /\ "open" \in Labels
    BY <1>2 DEF Goto, IInv, Types, Labels
  <2>2. Placed(p)' /\ TempRight(p)'
    BY <1>1, <2>1, NamesDistinct DEF Process, Placed, TempRight, Running, Files
  <2>. QED  BY <1>1, <1>2, <2>1, <2>2, LabelMoves
<1>3. ASSUME dest[f] # None, Finished(p) PROVE IInv'
  <2>1. f \in Files \ Aux
    BY <1>1, NamesDistinct DEF Placed, Files
  <2>. QED  BY <1>1, <1>3, <2>1, FileFinished DEF Complete, IInv, DestRight
<1>4. ASSUME Raise(p) PROVE IInv'
  BY <1>1, <1>4, ComesToRest DEF Raise, IInv, Types
<1>. QED  BY <1>2, <1>3, <1>4 DEF CheckShard

LEMMA ValidateShardPreserves == ASSUME IInv, NEW p \in Procs, ValidateShard(p) PROVE IInv'
<1>1. /\ proc[p].at = "validate" /\ UNCHANGED <<dest, temp, kills, faults, serving>>
      /\ Running(p) /\ Complete(proc[p].file)
  BY DEF ValidateShard, IInv, Running, TempRight, Complete
<1>2. ASSUME Finished(p) PROVE IInv'
  BY <1>1, <1>2, FileFinished
<1>3. ASSUME Raise(p) PROVE IInv'
  BY <1>1, <1>3, ComesToRest DEF Raise, IInv, Types
<1>. QED  BY <1>2, <1>3 DEF ValidateShard

LEMMA KillPreserves == ASSUME IInv, NEW p \in Procs, Kill(p) PROVE IInv'
<1>1. kills' \in 0 .. MaxKills /\ faults' \in 0 .. MaxFaults
  BY Bounds DEF Kill, IInv, Types
<1>. QED  BY <1>1, ComesToRest DEF Kill, Raise

LEMMA RunAgainPreserves == ASSUME IInv, NEW p \in Procs, RunAgain(p) PROVE IInv'
BY ComesToRest DEF RunAgain, IInv, Types

LEMMA LaunchPreserves == ASSUME IInv, Launch PROVE IInv'
<1>1. Types' /\ Alone'
  BY DEF Launch, IInv, Types, Alone, Running
<1>2. \A p \in Procs : Placed(p)' /\ TempRight(p)'
  BY DEF Launch, IInv, Placed, TempRight, Running
<1>3. Short' /\ DestRight' /\ MainDone'
  BY DEF Launch, IInv, Short, DestRight, MainDone, Complete
<1>4. ReceiptMeansComplete' /\ NobodyCopies'
  BY DEF Launch, IInv, ReceiptMeansComplete, Complete, NobodyCopies
<1>. QED  BY <1>1, <1>2, <1>3, <1>4 DEF IInv

-----------------------------------------------------------------------------
\* Steps that write a file under its final name.

\* The moving process keeps its file while its label changes.
LEMMA NewLabel ==
  ASSUME IInv, NEW p \in Procs, NEW label \in Labels, Goto(p, label), Running(p)
  PROVE  /\ proc' \in [Procs -> Process]
         /\ proc'[p].at = label /\ proc'[p].file = proc[p].file
         /\ proc'[p].done = proc[p].done /\ proc'[p].range = proc[p].range
         /\ \A q \in Procs \ {p} : proc'[q] = proc[q] /\ Placed(q)'
         /\ Alone'
<1>. DEFINE r == [proc[p] EXCEPT !.at = label]
<1>1. /\ r \in Process /\ r.at = label /\ r.file = proc[p].file
      /\ r.done = proc[p].done /\ r.range = proc[p].range
  BY DEF IInv, Types, Process
<1>2. proc' = [proc EXCEPT ![p] = r]
  BY DEF Goto
<1>. HIDE DEF r
<1>. QED  BY <1>1, <1>2, OneMoves DEF MayRun

LEMMA OpenAuxPreserves == ASSUME IInv, NEW p \in Procs, OpenAux(p) PROVE IInv'
<1>. DEFINE f == proc[p].file
<1>. USE DEF OpenAux
<1>1. /\ proc[p].at = "copy" /\ Placed(p) /\ Running(p) /\ "fill" \in Labels
      /\ f \in Aux /\ f \in Files /\ f \notin Shards /\ f # "receipt" /\ f \in Task(p) \ proc[p].done
  BY NamesDistinct DEF IInv, Placed, Running, Labels, Files
<1>2. /\ proc' \in [Procs -> Process]
      /\ proc'[p].at = "fill" /\ proc'[p].file = f
      /\ proc'[p].done = proc[p].done /\ proc'[p].range = proc[p].range
      /\ \A q \in Procs \ {p} : proc'[q] = proc[q] /\ Placed(q)'
      /\ Alone'
  BY <1>1, NewLabel
<1>3. dest["receipt"] = None /\ dest'["receipt"] = None
  BY <1>1 DEF IInv, Types, NobodyCopies
<1>4. Types'
  BY <1>1, <1>2, EmptyIsContent DEF IInv, Types, Doc
<1>5. Placed(p)'
  BY <1>1, <1>2 DEF Placed, Running
<1>6. ASSUME NEW q \in Procs PROVE TempRight(q)'
  <2>1. CASE q = p
    BY <1>2, <2>1 DEF TempRight
  <2>2. CASE q # p
    <3>1. proc'[q] = proc[q] /\ TempRight(q) /\ Placed(q)
      BY <1>2, <2>2 DEF IInv
    <3>2. proc[q].at = "validate" => proc[q].file # f
      BY <1>1, <3>1 DEF Placed
    <3>3. proc[q].at = "validate" => dest'[proc[q].file] = dest[proc[q].file]
      BY <3>1, <3>2 DEF IInv, Types, Placed, Files
    <3>. QED  BY <3>1, <3>3 DEF TempRight, Whole, Chunks
  <2>. QED  BY <2>1, <2>2
<1>7. Short'
  BY DEF IInv, Short, Chunks
<1>8. DestRight'
  BY <1>1 DEF IInv, Types, DestRight, Whole, Chunks
<1>9. MainDone'
  <2>1. CASE p = "main"
    <3>1. \A g \in proc["main"].done : g \in Files /\ g # f
      BY <1>1, <2>1 DEF Placed, Task
    <3>. QED  BY <1>2, <2>1, <3>1 DEF IInv, Types, MainDone, Complete, Whole, Chunks
  <2>2. CASE p # "main"
    <3>1. "main" \in Procs /\ ~Running("main") /\ Placed("main")
      BY <1>1, <2>2 DEF IInv, Alone, Procs
    <3>2. proc["main"].at # "done"
      <4>1. proc["main"].at = "done" => Complete("receipt")
        BY <3>1 DEF IInv, MainDone, Placed, Task, Files
      <4>. QED  BY <4>1, <1>3, WholeIsContent DEF Complete, Files
    <3>. QED  BY <1>2, <2>2, <3>1, <3>2 DEF Running, Placed, MainDone
  <2>. QED  BY <2>1, <2>2
<1>10. ReceiptMeansComplete' /\ NobodyCopies'
  BY <1>3 DEF ReceiptMeansComplete, NobodyCopies
<1>. QED  BY <1>2, <1>4, <1>5, <1>6, <1>7, <1>8, <1>9, <1>10 DEF IInv

LEMMA FillAuxPreserves == ASSUME IInv, NEW p \in Procs, FillAux(p) PROVE IInv'
<1>. DEFINE f == proc[p].file
<1>. USE DEF FillAux
<1>1. /\ proc[p].at = "fill" /\ Placed(p) /\ Running(p)
      /\ f \in Aux /\ f \in Files /\ f # "receipt"
  BY NamesDistinct DEF IInv, Placed, Running, Files
<1>2. /\ proc' \in [Procs -> Process]
      /\ proc'[p].at = "next" /\ proc'[p].done = proc[p].done \cup {f} /\ Placed(p)'
      /\ \A q \in Procs \ {p} : proc'[q] = proc[q] /\ Placed(q)'
      /\ Alone'
  BY <1>1, NextUp
<1>3. dest["receipt"] = None /\ dest'["receipt"] = None
  BY <1>1 DEF IInv, Types, NobodyCopies
<1>4. Types' /\ \A g \in Files : dest'[g] = IF g = f THEN Whole(f) ELSE dest[g]
  BY <1>1, <1>2, WholeIsContent DEF IInv, Types, Doc
<1>5. ASSUME NEW q \in Procs PROVE TempRight(q)'
  <2>1. CASE q = p
    BY <1>2, <2>1 DEF TempRight
  <2>2. CASE q # p
    <3>1. proc'[q] = proc[q] /\ TempRight(q) /\ Placed(q)
      BY <1>2, <2>2 DEF IInv
    <3>2. proc[q].at = "validate" => proc[q].file \in Files
      BY <3>1 DEF Placed, Files
    <3>. QED  BY <1>4, <3>1, <3>2, ZenonT(40) DEF TempRight, Whole, Chunks
  <2>. QED  BY <2>1, <2>2
<1>6. Short'
  BY DEF IInv, Short, Chunks
<1>7. DestRight'
  BY <1>4 DEF IInv, DestRight, Whole, Chunks
<1>8. MainDone'
  <2>1. proc["main"].done \subseteq Files
    BY DEF IInv, Types, Process, Procs
  <2>2. proc'["main"].done \subseteq proc["main"].done \cup {f}
    BY <1>2 DEF Procs
  <2>. QED  BY <1>1, <1>4, <2>1, <2>2, ZenonT(40) DEF IInv, MainDone, Complete, Whole, Chunks
<1>9. ReceiptMeansComplete' /\ NobodyCopies'
  BY <1>3 DEF ReceiptMeansComplete, NobodyCopies
<1>. QED  BY <1>2, <1>4, <1>5, <1>6, <1>7, <1>8, <1>9 DEF IInv

-----------------------------------------------------------------------------
\* Steps that write a temporary file.

\* What a process writes under its temporary name disturbs no other process.
LEMMA TempWritten ==
  ASSUME IInv, NEW p \in Procs, NEW c \in Seq(Piece),
         proc[p].at \in {"open", "write", "stream"},
         temp' = [temp EXCEPT ![proc[p].file] = c], Len(c) <= Chunks(proc[p].file),
         UNCHANGED dest,
         \A q \in Procs \ {p} : proc'[q] = proc[q],
         TempRight(p)', proc'[p].at \notin {"copy", "fill"},
         proc'[p].done \subseteq proc[p].done
  PROVE  /\ temp' \in [Files -> Doc]
         /\ \A q \in Procs : TempRight(q)'
         /\ Short' /\ DestRight' /\ MainDone' /\ ReceiptMeansComplete' /\ NobodyCopies'
<1>. DEFINE f == proc[p].file
<1>1. f \in Files
  BY DEF IInv, Placed, Files, Shards
<1>2. temp' \in [Files -> Doc] /\ \A g \in Files : temp'[g] = IF g = f THEN c ELSE temp[g]
  BY <1>1 DEF IInv, Types, Doc
<1>3. ASSUME NEW q \in Procs, q # p PROVE TempRight(q)'
  <2>1. proc'[q] = proc[q] /\ TempRight(q) /\ Placed(q)
    BY <1>3 DEF IInv
  <2>2. proc[q].at \in {"stream", "replace"} =>
          proc[q].file \in Files /\ proc[q].file # f
    BY <1>3, <2>1, OwnFile DEF Placed, Files, Shards
  <2>3. proc[q].at \in {"stream", "replace"} => temp'[proc[q].file] = temp[proc[q].file]
    BY <1>2, <2>2
  <2>. QED  BY <2>1, <2>3 DEF TempRight, Whole, Chunks
<1>4. Short'
  BY <1>2 DEF IInv, Short, Chunks
<1>5. DestRight' /\ ReceiptMeansComplete'
  BY DEF IInv, DestRight, ReceiptMeansComplete, Complete, Whole, Chunks
<1>6. MainDone' /\ NobodyCopies'
  BY DEF IInv, MainDone, NobodyCopies, Complete, Whole, Chunks, Procs
<1>. QED  BY <1>2, <1>3, <1>4, <1>5, <1>6

LEMMA OpenTempPreserves == ASSUME IInv, NEW p \in Procs, OpenTemp(p) PROVE IInv'
<1>. DEFINE f     == proc[p].file
            label == IF f \in Native THEN "stream" ELSE "write"
<1>. USE DEF OpenTemp
<1>1. /\ proc[p].at = "open" /\ Placed(p) /\ Running(p) /\ label \in Labels
      /\ f \in Files \ Aux /\ proc[p].range = 1
  BY DEF IInv, Placed, Running, Labels
<1>2. /\ proc' \in [Procs -> Process]
      /\ proc'[p].at = label /\ proc'[p].file = f
      /\ proc'[p].done = proc[p].done /\ proc'[p].range = proc[p].range
      /\ \A q \in Procs \ {p} : proc'[q] = proc[q] /\ Placed(q)'
      /\ Alone'
  BY <1>1, NewLabel
<1>3. Placed(p)'
  BY <1>1, <1>2 DEF Placed, Running
<1>4. TempRight(p)'
  BY <1>1, <1>2, EmptyIsContent DEF IInv, Types, TempRight
<1>5. Len(<< >>) <= Chunks(f)
  BY <1>1, EmptyIsContent, WholeIsContent
<1>6. /\ temp' \in [Files -> Doc]
      /\ \A q \in Procs : TempRight(q)'
      /\ Short' /\ DestRight' /\ MainDone' /\ ReceiptMeansComplete' /\ NobodyCopies'
  BY <1>1, <1>2, <1>4, <1>5, EmptyIsContent, TempWritten
<1>7. Types'
  BY <1>2, <1>6 DEF IInv, Types
<1>. QED  BY <1>2, <1>3, <1>6, <1>7 DEF IInv

LEMMA WriteTempPreserves == ASSUME IInv, NEW p \in Procs, WriteTemp(p) PROVE IInv'
<1>. DEFINE f == proc[p].file
<1>. USE DEF WriteTemp
<1>1. /\ proc[p].at = "write" /\ Placed(p) /\ Running(p) /\ "replace" \in Labels
      /\ f \in Files \ Aux
  BY DEF IInv, Placed, Running, Labels
<1>2. /\ proc' \in [Procs -> Process]
      /\ proc'[p].at = "replace" /\ proc'[p].file = f
      /\ proc'[p].done = proc[p].done /\ proc'[p].range = proc[p].range
      /\ \A q \in Procs \ {p} : proc'[q] = proc[q] /\ Placed(q)'
      /\ Alone'
  BY <1>1, NewLabel
<1>3. Placed(p)'
  BY <1>1, <1>2 DEF Placed, Running
<1>4. TempRight(p)'
  BY <1>1, <1>2 DEF IInv, Types, TempRight, Whole, Chunks
<1>5. Whole(f) \in Seq(Piece) /\ Len(Whole(f)) <= Chunks(f)
  BY <1>1, WholeIsContent
<1>6. /\ temp' \in [Files -> Doc]
      /\ \A q \in Procs : TempRight(q)'
      /\ Short' /\ DestRight' /\ MainDone' /\ ReceiptMeansComplete' /\ NobodyCopies'
  BY <1>1, <1>2, <1>4, <1>5, TempWritten
<1>7. Types'
  BY <1>2, <1>6 DEF IInv, Types
<1>. QED  BY <1>2, <1>3, <1>6, <1>7 DEF IInv

\* What an attempt at a range starts from: the ranges before it, all right.
LEMMA RewoundIsRight ==
  ASSUME IInv, NEW p \in Procs, proc[p].at = "stream"
  PROVE  /\ proc[p].range \in 1 .. Ranges /\ Chunks(proc[p].file) = Ranges
         /\ Rewound(p) \in Seq(Piece) /\ Len(Rewound(p)) = proc[p].range - 1
         /\ \A i \in 1 .. proc[p].range - 1 : Rewound(p)[i] = i
<1>. DEFINE f == proc[p].file
            n == proc[p].range - 1
<1>1. /\ proc[p].range \in 1 .. Ranges /\ f \in Native
      /\ temp[f] \in Seq(Piece) /\ \A i \in 1 .. n : temp[f][i] = i
  BY DEF IInv, Types, Process, Placed, TempRight
<1>2. n \in Int /\ \A i \in 1 .. n : temp[f][i] \in Piece
  BY <1>1, Bounds DEF Piece
<1>3. /\ Rewound(p) \in Seq(Piece)
      /\ Len(Rewound(p)) = IF 1 <= n THEN n - 1 + 1 ELSE 0
      /\ \A i \in 1 .. n - 1 + 1 : Rewound(p)[i] = temp[f][1 + i - 1]
  BY <1>2, SubSeqProperties DEF Rewound
<1>4. Len(Rewound(p)) = n /\ \A i \in 1 .. n : Rewound(p)[i] = i
  <2>1. n \in Nat /\ n - 1 + 1 = n
    BY <1>1, Bounds
  <2>2. \A i \in 1 .. n : 1 + i - 1 = i
    OBVIOUS
  <2>. HIDE DEF n
  <2>. QED  BY <1>1, <1>3, <2>1, <2>2
<1>. QED  BY <1>1, <1>3, <1>4 DEF Chunks

\* The n-th piece goes after n - 1 others.
LEMMA AppendAt ==
  ASSUME NEW S, NEW s \in Seq(S), NEW x \in S, NEW n \in Nat, Len(s) = n - 1
  PROVE  /\ Append(s, x) \in Seq(S) /\ Len(Append(s, x)) = n
         /\ Append(s, x)[n] = x
         /\ \A i \in 1 .. n - 1 : Append(s, x)[i] = s[i]
<1>1. Len(s) + 1 = n
  OBVIOUS
<1>. QED  BY <1>1, AppendProperties

\* An attempt appends one piece to that.
LEMMA AppendedIsRight ==
  ASSUME IInv, NEW p \in Procs, proc[p].at = "stream", NEW x \in Piece
  PROVE  LET c == Append(Rewound(p), x)
         IN  /\ c \in Seq(Piece) /\ Len(c) = proc[p].range
             /\ \A i \in 1 .. proc[p].range - 1 : c[i] = i
             /\ c[proc[p].range] = x
<1>. DEFINE c == Append(Rewound(p), x)
            n == proc[p].range
<1>1. /\ n \in 1 .. Ranges /\ Rewound(p) \in Seq(Piece) /\ Len(Rewound(p)) = n - 1
      /\ \A i \in 1 .. n - 1 : Rewound(p)[i] = i
  BY RewoundIsRight
<1>2. n \in Nat
  BY <1>1, Bounds
<1>3. c \in Seq(Piece) /\ Len(c) = n /\ c[n] = x
      /\ \A i \in 1 .. n - 1 : c[i] = Rewound(p)[i]
  BY <1>1, <1>2, AppendAt
<1>. QED  BY <1>1, <1>3

LEMMA ReceiveRangePreserves == ASSUME IInv, NEW p \in Procs, ReceiveRange(p) PROVE IInv'
<1>. DEFINE f     == proc[p].file
            n     == proc[p].range
            c     == Append(Rewound(p), n)
            last  == n = Ranges
            to    == IF last THEN n ELSE n + 1
            label == IF last THEN "replace" ELSE "stream"
            r     == [proc[p] EXCEPT !.try = 1, !.range = to, !.at = label]
<1>1. /\ proc[p].at = "stream" /\ Placed(p) /\ Running(p) /\ proc[p] \in Process
      /\ temp' = [temp EXCEPT ![f] = c] /\ proc' = [proc EXCEPT ![p] = r]
      /\ UNCHANGED <<dest, kills, faults, serving>>
  BY DEF ReceiveRange, IInv, Types, Running
<1>2. n \in 1 .. Ranges /\ Chunks(f) = Ranges /\ n \in Piece
  BY <1>1, RewoundIsRight DEF Piece
<1>3. /\ c \in Seq(Piece) /\ Len(c) = n
      /\ \A i \in 1 .. n : c[i] = i
  BY <1>1, <1>2, Bounds, AppendedIsRight
<1>4. /\ r \in Process /\ r.file = f /\ r.done = proc[p].done
      /\ r.range = to /\ r.at = label
  <2>1. to \in 1 .. Ranges
    BY <1>2, Bounds
  <2>2. label \in Labels
    BY DEF Labels
  <2>3. 1 \in 1 .. attempts
    BY Bounds
  <2>. HIDE DEF to, label
  <2>. QED  BY <1>1, <2>1, <2>2, <2>3 DEF Process
<1>5. f \in Native /\ f \in Files \ Aux
  BY <1>1, NamesDistinct DEF Placed, Files, Shards
<1>6. temp'[f] = c
  BY <1>1, <1>5 DEF IInv, Types
<1>7. last => c = Whole(f)
  <2>. SUFFICES ASSUME last PROVE c = Whole(f)
    OBVIOUS
  <2>1. Whole(f) \in Seq(Piece) /\ Len(Whole(f)) = Ranges
    BY <1>2, <1>5, WholeIsContent
  <2>2. \A i \in 1 .. Ranges : Whole(f)[i] = i
    BY <1>2 DEF Whole
  <2>. QED  BY <1>3, <2>1, <2>2, SeqEqual
<1>. HIDE DEF r, c
<1>8. /\ proc' \in [Procs -> Process] /\ proc'[p] = r
      /\ \A q \in Procs \ {p} : proc'[q] = proc[q] /\ Placed(q)'
      /\ Alone'
  BY <1>1, <1>4, OneMoves DEF MayRun
<1>9. Placed(p)'
  BY <1>1, <1>4, <1>5, <1>8 DEF Placed, Running
<1>10. TempRight(p)'
  <2>1. r.at = "stream" => r.range = n + 1
    BY <1>4
  <2>2. r.at = "replace" => temp'[f] = Whole(f)
    BY <1>4, <1>6, <1>7
  <2>3. r.at = "stream" => /\ Len(c) \in {r.range - 1, r.range}
                           /\ \A i \in 1 .. r.range - 1 : c[i] = i
    BY <1>2, <1>3, <2>1, Bounds
  <2>. QED  BY <1>3, <1>4, <1>6, <1>8, <2>2, <2>3 DEF TempRight, Whole, Chunks
<1>11. /\ temp' \in [Files -> Doc]
       /\ \A q \in Procs : TempRight(q)'
       /\ Short' /\ DestRight' /\ MainDone' /\ ReceiptMeansComplete' /\ NobodyCopies'
  <2>1. Len(c) <= Chunks(f)
    BY <1>2, <1>3
  <2>2. r.at \notin {"copy", "fill"}
    BY <1>4
  <2>. QED  BY <1>1, <1>3, <1>4, <1>8, <1>10, <2>1, <2>2, TempWritten
<1>12. Types'
  BY <1>1, <1>8, <1>11 DEF IInv, Types
<1>. QED  BY <1>8, <1>9, <1>11, <1>12 DEF IInv

LEMMA FailRangePreserves == ASSUME IInv, NEW p \in Procs, FailRange(p) PROVE IInv'
<1>. DEFINE f == proc[p].file
            n == proc[p].range
            r == IF proc[p].try = attempts THEN Idle ELSE [proc[p] EXCEPT !.try = @ + 1]
<1>1. PICK c \in {Rewound(p), Append(Rewound(p), Bad)} : temp' = [temp EXCEPT ![f] = c]
  BY DEF FailRange
<1>2. /\ proc[p].at = "stream" /\ Placed(p) /\ Running(p) /\ proc[p] \in Process
      /\ proc' = [proc EXCEPT ![p] = r]
      /\ UNCHANGED <<dest, kills, serving>> /\ faults' \in 0 .. MaxFaults
  BY Bounds DEF FailRange, Raise, IInv, Types, Running
<1>3. /\ n \in 1 .. Ranges /\ Chunks(f) = Ranges
      /\ Rewound(p) \in Seq(Piece) /\ Len(Rewound(p)) = n - 1
      /\ \A i \in 1 .. n - 1 : Rewound(p)[i] = i
  BY <1>2, RewoundIsRight
<1>4. /\ c \in Seq(Piece) /\ Len(c) \in {n - 1, n}
      /\ \A i \in 1 .. n - 1 : c[i] = i
  <2>1. CASE c = Rewound(p)
    BY <1>3, <2>1
  <2>2. CASE c = Append(Rewound(p), Bad)
    <3>1. Bad \in Piece
      BY DEF Piece
    <3>. QED  BY <1>2, <2>2, <3>1, AppendedIsRight
  <2>. QED  BY <1>1, <2>1, <2>2
<1>5. f \in Native /\ f \in Files
  BY <1>2 DEF Placed, Files, Shards
<1>6. temp'[f] = c
  BY <1>1, <1>5 DEF IInv, Types
<1>7. /\ r \in Process /\ r.done \subseteq proc[p].done /\ r.at \in {"idle", "stream"}
      /\ r.at = "stream" => r.file = f /\ r.range = n /\ r.done = proc[p].done
      /\ r.at = "idle" => r.done = {} /\ r.range = 1
  BY <1>2, IdleIsProcess, Bounds DEF Process, Labels, Idle
<1>. HIDE DEF r
<1>8. /\ proc' \in [Procs -> Process] /\ proc'[p] = r
      /\ \A q \in Procs \ {p} : proc'[q] = proc[q] /\ Placed(q)'
      /\ Alone'
  BY <1>2, <1>7, OneMoves DEF MayRun
<1>9. Placed(p)'
  BY <1>2, <1>5, <1>7, <1>8 DEF Placed, Running
<1>10. TempRight(p)'
  BY <1>4, <1>6, <1>7, <1>8 DEF TempRight
<1>11. /\ temp' \in [Files -> Doc]
       /\ \A q \in Procs : TempRight(q)'
       /\ Short' /\ DestRight' /\ MainDone' /\ ReceiptMeansComplete' /\ NobodyCopies'
  <2>1. Len(c) <= Chunks(f)
    BY <1>3, <1>4, Bounds
  <2>. QED  BY <1>1, <1>2, <1>4, <1>7, <1>8, <1>10, <2>1, TempWritten
<1>12. Types'
  BY <1>2, <1>8, <1>11 DEF IInv, Types
<1>. QED  BY <1>8, <1>9, <1>11, <1>12 DEF IInv

-----------------------------------------------------------------------------
\* The step that publishes a file.
LEMMA ReplacePreserves == ASSUME IInv, NEW p \in Procs, Replace(p) PROVE IInv'
<1>. DEFINE f == proc[p].file
<1>1. /\ proc[p].at = "replace" /\ Placed(p) /\ Running(p) /\ temp[f] = Whole(f)
      /\ f \in Files \ Aux /\ f \in Task(p) /\ "validate" \in Labels
      /\ UNCHANGED <<kills, faults, serving>>
  BY DEF Replace, IInv, Placed, TempRight, Running, Labels
<1>2. /\ proc' \in [Procs -> Process]
      /\ \A q \in Procs \ {p} : proc'[q] = proc[q] /\ Placed(q)'
      /\ Alone'
      /\ proc'[p].at \in {"validate", "next"}
      /\ proc'[p].at = "validate" => f \in Shards /\ proc'[p].file = f
      /\ proc'[p].done \subseteq proc[p].done \cup {f}
      /\ Placed(p)'
  <2>1. CASE f \in Shards /\ Goto(p, "validate")
    <3>1. /\ proc' \in [Procs -> Process]
          /\ proc'[p].at = "validate" /\ proc'[p].file = f
          /\ proc'[p].done = proc[p].done /\ proc'[p].range = proc[p].range
          /\ \A q \in Procs \ {p} : proc'[q] = proc[q] /\ Placed(q)'
          /\ Alone'
      BY <1>1, <2>1, NewLabel
    <3>2. Placed(p)'
      BY <1>1, <2>1, <3>1 DEF Placed, Running
    <3>. QED  BY <2>1, <3>1, <3>2
  <2>2. CASE Finished(p)
    BY <1>1, <2>2, NextUp
  <2>. QED  BY <2>1, <2>2 DEF Replace
<1>3. /\ dest' \in [Files -> Doc] /\ temp' \in [Files -> Doc]
      /\ \A g \in Files : dest'[g] = IF g = f THEN Whole(f) ELSE dest[g]
      /\ \A g \in Files : temp'[g] = IF g = f THEN None ELSE temp[g]
  BY <1>1, WholeIsContent DEF Replace, IInv, Types, Doc
<1>4. Types'
  BY <1>1, <1>2, <1>3 DEF IInv, Types
<1>5. ASSUME NEW q \in Procs PROVE TempRight(q)'
  <2>1. CASE q = p
    BY <1>1, <1>2, <1>3, <2>1 DEF TempRight, Whole, Chunks
  <2>2. CASE q # p
    <3>1. proc'[q] = proc[q] /\ TempRight(q) /\ Placed(q)
      BY <1>2, <2>2 DEF IInv
    <3>2. proc[q].at \in {"stream", "replace"} =>
            proc[q].file \in Files /\ temp'[proc[q].file] = temp[proc[q].file]
      BY <1>1, <1>3, <2>2, <3>1, OwnFile DEF Placed, Files, Shards
    <3>3. proc[q].at = "validate" => dest'[proc[q].file] = Whole(proc[q].file)
      BY <1>3, <3>1 DEF TempRight, Placed, Files
    <3>. QED  BY <3>1, <3>2, <3>3 DEF TempRight, Whole, Chunks
  <2>. QED  BY <2>1, <2>2
<1>6. Short'
  BY <1>3 DEF IInv, Short, Chunks
<1>7. DestRight'
  BY <1>3 DEF IInv, DestRight, Whole, Chunks
<1>8. \A g \in Files : Complete(g) => Complete(g)'
  BY <1>3 DEF Complete, Whole, Chunks
<1>9. \A g \in Files : g = f => Complete(g)'
  BY <1>3 DEF Complete, Whole, Chunks
<1>10. MainDone'
  <2>1. proc["main"].done \subseteq Files /\ proc'["main"].done \subseteq proc["main"].done \cup {f}
    BY <1>2 DEF IInv, Types, Process, Procs
  <2>2. \A g \in proc["main"].done : Complete(g)
    BY DEF IInv, MainDone
  <2>3. \A g \in proc'["main"].done : Complete(g)'
    BY <1>1, <1>8, <1>9, <2>1, <2>2
  <2>. QED  BY <2>3 DEF MainDone
<1>11. ReceiptMeansComplete' /\ NobodyCopies'
  <2>1. CASE f = "receipt"
    <3>1. p = "main" /\ Files \ {"receipt"} \subseteq proc["main"].done
      BY <1>1, <2>1, ReceiptIsMains, ReceiptComesLast DEF Placed, Task
    <3>2. \A g \in Files : Complete(g)'
      BY <1>8, <1>9, <2>1, <3>1 DEF IInv, MainDone
    <3>3. \A q \in Procs \ {p} : ~Running(q)
      BY <1>1, <3>1 DEF IInv, Alone, Procs
    <3>4. \A q \in Procs : proc'[q].at \notin {"copy", "fill"}
      BY <1>2, <3>3 DEF Running
    <3>. QED  BY <3>2, <3>4 DEF ReceiptMeansComplete, NobodyCopies
  <2>2. CASE f # "receipt"
    <3>1. dest'["receipt"] = dest["receipt"]
      BY <1>3, <2>2 DEF Files
    <3>2. ReceiptMeansComplete'
      BY <1>8, <3>1 DEF IInv, ReceiptMeansComplete
    <3>3. NobodyCopies'
      BY <1>2, <3>1 DEF IInv, NobodyCopies
    <3>. QED  BY <3>2, <3>3
  <2>. QED  BY <2>1, <2>2
<1>. QED  BY <1>2, <1>4, <1>5, <1>6, <1>7, <1>10, <1>11 DEF IInv

-----------------------------------------------------------------------------
LEMMA NextInv == IInv /\ [Next]_vars => IInv'
<1> SUFFICES ASSUME IInv, [Next]_vars PROVE IInv'
  OBVIOUS
<1>1. CASE UNCHANGED vars
  <2>1. Types' /\ Alone' /\ Short' /\ DestRight' /\ MainDone'
    BY <1>1 DEF vars, IInv, Types, Alone, Short, DestRight, MainDone, Complete, Running,
                Whole, Chunks
  <2>2. \A p \in Procs : Placed(p)' /\ TempRight(p)'
    BY <1>1 DEF vars, IInv, Placed, TempRight, Running, Whole, Chunks
  <2>3. ReceiptMeansComplete' /\ NobodyCopies'
    BY <1>1 DEF vars, IInv, ReceiptMeansComplete, NobodyCopies, Complete, Whole, Chunks
  <2>. QED  BY <2>1, <2>2, <2>3 DEF IInv
<1>2. CASE Launch
  BY <1>2, LaunchPreserves
<1>3. ASSUME NEW p \in Procs, Step(p) PROVE IInv'
  BY <1>3, NextFilePreserves, CheckAuxPreserves, OpenAuxPreserves, FillAuxPreserves,
     CheckShardPreserves, OpenTempPreserves, WriteTempPreserves, ReceiveRangePreserves,
     ReplacePreserves, ValidateShardPreserves DEF Step
<1>4. ASSUME NEW p \in Procs, Start(p) \/ FailRange(p) \/ Kill(p) \/ RunAgain(p) PROVE IInv'
  BY <1>4, StartPreserves, FailRangePreserves, KillPreserves, RunAgainPreserves
<1>. QED  BY <1>1, <1>2, <1>3, <1>4 DEF Next

THEOREM Inductive == Spec => []IInv
<1>. QED  BY InitInv, NextInv, PTL DEF Spec

\* Whatever is killed, refused or retried, and however many workers stream at
\* once, a final name never stands over a partial file, nor the receipt over
\* a partial directory.
THEOREM PublishedFilesAreWhole == Spec => []FilesSound
<1>1. IInv => TypeOK
  <2>. SUFFICES ASSUME IInv PROVE TypeOK
    OBVIOUS
  <2>1. ASSUME NEW f \in Files PROVE dest[f] \in Content(f) /\ temp[f] \in Content(f)
    <3>1. \A c \in Seq(Piece) : Len(c) <= Chunks(f) => c \in Content(f)
      <4>. SUFFICES ASSUME NEW c \in Seq(Piece), Len(c) <= Chunks(f) PROVE c \in Content(f)
        OBVIOUS
      <4>1. c \in [1 .. Len(c) -> Piece] /\ Len(c) \in 0 .. Chunks(f) + 1
        BY WholeIsContent, Bounds, LenProperties
      <4>. QED  BY <4>1 DEF Content
    <3>2. dest[f] \in Doc /\ temp[f] \in Doc /\ None \in Content(f)
      BY DEF IInv, Types, Content
    <3>3. temp[f] \in Content(f)
      BY <3>1, <3>2 DEF IInv, Short, Doc
    <3>4. dest[f] \in Content(f)
      <4>1. Whole(f) \in Content(f)
        BY <3>1, WholeIsContent, Bounds
      <4>2. << >> \in Content(f)
        <5>1. 0 \in 0 .. Chunks(f) + 1
          BY WholeIsContent, Bounds
        <5>2. << >> \in [1 .. 0 -> Piece]
          OBVIOUS
        <5>. QED  BY <5>1, <5>2, Zenon DEF Content
      <4>. QED  BY <3>2, <4>1, <4>2 DEF IInv, DestRight
    <3>. QED  BY <3>3, <3>4
  <2>2. ASSUME NEW p \in Procs
        PROVE  /\ proc[p].at \in Labels /\ proc[p].done \subseteq Task(p)
               /\ proc[p].range \in 1 .. Ranges /\ proc[p].try \in 1 .. attempts
    BY DEF IInv, Types, Process, Placed
  <2>3. kills \in 0 .. MaxKills /\ faults \in 0 .. MaxFaults /\ serving \in BOOLEAN
    BY DEF IInv, Types
  <2>. QED  BY <2>1, <2>2, <2>3 DEF TypeOK, Labels
<1>2. IInv => FinalFilesWhole
  BY DEF IInv, DestRight, FinalFilesWhole, Complete
<1>3. IInv => ReceiptMeansComplete
  BY DEF IInv
<1>. QED  BY <1>1, <1>2, <1>3, Inductive, PTL DEF FilesSound

-----------------------------------------------------------------------------
\* A server only ever runs over a receipt.
ServesReceipt == serving => dest["receipt"] # None

\* A file that is in place keeps its content once the receipt stands.
LEMMA ReceiptFreezes ==
  ASSUME IInv, [Next]_vars, dest["receipt"] # None
  PROVE  dest' = dest
<1>1. \A g \in Files : Complete(g)
  BY DEF IInv, ReceiptMeansComplete
<1>2. ASSUME NEW p \in Procs, Replace(p) PROVE dest' = dest
  <2>. DEFINE f == proc[p].file
  <2>1. f \in Files /\ temp[f] = Whole(f) /\ dest' = [dest EXCEPT ![f] = temp[f]]
    BY <1>2 DEF Replace, IInv, Placed, TempRight
  <2>. QED  BY <1>1, <2>1 DEF Complete, IInv, Types
<1>3. ASSUME NEW p \in Procs, OpenAux(p) \/ FillAux(p) PROVE dest' = dest
  BY <1>3 DEF OpenAux, FillAux, IInv, NobodyCopies
<1>4. ASSUME NEW p \in Procs, Step(p) PROVE dest' = dest
  BY <1>2, <1>3, <1>4 DEF Step, NextFile, CheckAux, CheckShard, OpenTemp, WriteTemp,
                          ReceiveRange, ValidateShard
<1>5. ASSUME NEW p \in Procs, Start(p) \/ FailRange(p) \/ Kill(p) \/ RunAgain(p)
      PROVE  dest' = dest
  BY <1>5 DEF Start, FailRange, Kill, RunAgain
<1>. QED  BY <1>4, <1>5 DEF Next, Launch, vars

\* No job changes a file while a server runs on the directory.
THEOREM ServedFilesAreFrozen == Spec => ServedFilesStay
<1>1. Init => ServesReceipt
  BY DEF Init, ServesReceipt
<1>2. IInv /\ ServesReceipt /\ [Next]_vars => ServesReceipt' /\ (serving => dest' = dest)
  <2>. SUFFICES ASSUME IInv, ServesReceipt, [Next]_vars
                PROVE  ServesReceipt' /\ (serving => dest' = dest)
    OBVIOUS
  <2>1. serving => dest' = dest
    BY ReceiptFreezes DEF ServesReceipt
  <2>2. ~serving /\ serving' => Launch
    BY DEF Next, Step, NextFile, CheckAux, OpenAux, FillAux, CheckShard, OpenTemp, WriteTemp,
           ReceiveRange, Replace, ValidateShard, Start, FailRange, Kill, RunAgain, vars
  <2>3. Launch => dest' = dest /\ dest["receipt"] # None
    BY DEF Launch
  <2>. QED  BY <2>1, <2>2, <2>3 DEF ServesReceipt
<1>. QED  BY <1>1, <1>2, Inductive, PTL DEF Spec, ServedFilesStay

-----------------------------------------------------------------------------
\* What the abstract publication sees of a step.
Seen == <<WholeFiles, dest["index"] # None, dest["receipt"] # None>>

LEMMA UnseenWhenKept == dest' = dest => UNCHANGED Seen
BY DEF Seen, WholeFiles, Complete, Whole, Chunks

LEMMA OpenAuxPublishes ==
  ASSUME IInv, NEW p \in Procs, OpenAux(p)
  PROVE  [Abstract!Next]_Seen
<1>1. PICK f \in Aux : /\ f \in Files /\ f \notin {"index", "receipt"}
                       /\ dest' = [dest EXCEPT ![f] = << >>]
  BY NamesDistinct DEF OpenAux, IInv, Placed, Files
<1>2. ~(dest["receipt"] # None)
  BY DEF OpenAux, IInv, NobodyCopies
<1>3. /\ \A g \in Files \ {f} : dest'[g] = dest[g]
      /\ dest'[f] = << >>
  BY <1>1 DEF IInv, Types
<1>4. /\ (dest["index"] # None)' = (dest["index"] # None)
      /\ (dest["receipt"] # None)' = (dest["receipt"] # None)
  BY <1>1, <1>3 DEF Files
<1>5. WholeFiles' = WholeFiles \ {f}
  <2>1. << >> # Whole(f)
    BY <1>1, WholeIsContent
  <2>. QED  BY <1>1, <1>3, <2>1 DEF WholeFiles, Complete, Whole, Chunks, Files
<1>6. CASE f \in WholeFiles
  BY <1>1, <1>2, <1>4, <1>5, <1>6 DEF Abstract!Next, Abstract!Rewrite
<1>7. CASE f \notin WholeFiles
  BY <1>4, <1>5, <1>7 DEF Seen
<1>. QED  BY <1>6, <1>7

LEMMA FillAuxPublishes ==
  ASSUME IInv, NEW p \in Procs, FillAux(p)
  PROVE  [Abstract!Next]_Seen
<1>1. PICK f \in Aux : /\ f \in Files /\ f \notin {"index", "receipt"}
                       /\ dest' = [dest EXCEPT ![f] = Whole(f)]
  BY NamesDistinct DEF FillAux, IInv, Placed, Files
<1>2. /\ \A g \in Files \ {f} : dest'[g] = dest[g]
      /\ dest'[f] = Whole(f)
  BY <1>1 DEF IInv, Types
<1>3. /\ (dest["index"] # None)' = (dest["index"] # None)
      /\ (dest["receipt"] # None)' = (dest["receipt"] # None)
  BY <1>1, <1>2 DEF Files
<1>4. WholeFiles' = WholeFiles \cup {f}
  BY <1>1, <1>2 DEF WholeFiles, Complete, Whole, Chunks, Files
<1>5. CASE f \notin WholeFiles
  BY <1>1, <1>3, <1>4, <1>5 DEF Abstract!Next, Abstract!Appear
<1>6. CASE f \in WholeFiles
  BY <1>3, <1>4, <1>6 DEF Seen
<1>. QED  BY <1>5, <1>6

LEMMA ReplacePublishes ==
  ASSUME IInv, NEW p \in Procs, Replace(p)
  PROVE  [Abstract!Next]_Seen
<1>1. PICK f \in Files \ Aux :
        /\ f = proc[p].file /\ dest' = [dest EXCEPT ![f] = Whole(f)]
        /\ f \in Task(p) /\ Before(f) \cap Task(p) \subseteq proc[p].done
  BY DEF Replace, IInv, Placed, TempRight, Running
<1>2. /\ \A g \in Files \ {f} : dest'[g] = dest[g]
      /\ dest'[f] = Whole(f) /\ Whole(f) # None
  BY <1>1, WholeIsContent DEF IInv, Types
<1>3. /\ (dest["index"] # None)' = (f = "index" \/ dest["index"] # None)
      /\ (dest["receipt"] # None)' = (f = "receipt" \/ dest["receipt"] # None)
  BY <1>1, <1>2 DEF Files
<1>4. WholeFiles' = IF f \in {"index", "receipt"} THEN WholeFiles ELSE WholeFiles \cup {f}
  <2>1. \A g \in Files : Complete(g)' = (g = f \/ Complete(g))
    BY <1>2 DEF Complete, Whole, Chunks
  <2>2. /\ WholeFiles \subseteq Files /\ WholeFiles' \subseteq Files
        /\ "index" \notin WholeFiles \cup WholeFiles'
        /\ "receipt" \notin WholeFiles \cup WholeFiles'
    BY NamesDistinct DEF WholeFiles, Files, Configs
  <2>3. \A g \in Files \ {"index", "receipt"} :
          /\ g \in WholeFiles <=> Complete(g)
          /\ g \in WholeFiles' <=> Complete(g)'
    BY DEF WholeFiles, Files
  <2>4. \A g : g \in WholeFiles' <=> g \in WholeFiles \/ (g = f /\ f \notin {"index", "receipt"})
    <3>. TAKE g
    <3>1. CASE g \in Files \ {"index", "receipt"}
      BY <2>1, <2>3, <3>1
    <3>2. CASE g \notin Files \ {"index", "receipt"}
      BY <1>1, <2>2, <3>2
    <3>. QED  BY <3>1, <3>2
  <2>. QED  BY <2>4
<1>5. CASE f \notin {"index", "receipt"}
  <2>1. f \in Shards \cup Configs
    BY <1>1, <1>5 DEF Files
  <2>2. CASE f \notin WholeFiles
    BY <1>3, <1>4, <1>5, <2>1, <2>2 DEF Abstract!Next, Abstract!Appear
  <2>3. CASE f \in WholeFiles
    BY <1>3, <1>4, <1>5, <2>3 DEF Seen
  <2>. QED  BY <2>2, <2>3
<1>6. ASSUME f \in {"index", "receipt"}
      PROVE  p = "main" /\ \A g \in Before(f) \cap Files : Complete(g)
  <2>1. p = "main"
    BY <1>1, <1>6, NamesDistinct, WorkersDoNotShare DEF Procs, Task, Shards
  <2>. QED  BY <1>1, <2>1 DEF Task, IInv, MainDone
<1>7. CASE f = "index"
  <2>1. Shards \cup Configs \subseteq WholeFiles
    BY <1>6, <1>7, IndexComesAfter DEF WholeFiles, Files
  <2>. QED  BY <1>3, <1>4, <1>7, <2>1 DEF Abstract!Next, Abstract!Index
<1>8. CASE f = "receipt"
  <2>1. \A g \in Files \ {"receipt"} : Complete(g)
    BY <1>6, <1>8, ReceiptComesLast
  <2>2. WholeFiles = Aux \cup Shards \cup Configs
    BY <2>1, NamesDistinct DEF WholeFiles, Files, Configs
  <2>3. dest["index"] # None
    BY <2>1, WholeIsContent DEF Files, Complete
  <2>. QED  BY <1>3, <1>4, <1>8, <2>2, <2>3 DEF Abstract!Next, Abstract!Receipt
<1>. QED  BY <1>5, <1>7, <1>8

\* Every run of the jobs is a run of the abstract publication: weights and
\* configuration appear whole, then the index, then the receipt.
THEOREM PublicationRefinement == Spec => ImplementsPublication
<1>1. Init => Abstract!Init
  <2>. SUFFICES ASSUME Init PROVE Abstract!Init
    OBVIOUS
  <2>1. \A f \in Files : dest[f] = None /\ Whole(f) # None
    BY WholeIsContent DEF Init
  <2>. QED  BY <2>1 DEF Abstract!Init, WholeFiles, Complete, Files
<1>2. IInv /\ [Next]_vars => [Abstract!Next]_Seen
  <2>. SUFFICES ASSUME IInv, [Next]_vars PROVE [Abstract!Next]_Seen
    OBVIOUS
  <2>1. CASE dest' = dest
    BY <2>1, UnseenWhenKept
  <2>2. ASSUME NEW p \in Procs, OpenAux(p) \/ FillAux(p) \/ Replace(p)
        PROVE  [Abstract!Next]_Seen
    BY <2>2, OpenAuxPublishes, FillAuxPublishes, ReplacePublishes
  <2>3. ASSUME NEW p \in Procs, Step(p), ~(OpenAux(p) \/ FillAux(p) \/ Replace(p))
        PROVE  dest' = dest
    BY <2>3 DEF Step, NextFile, CheckAux, CheckShard, OpenTemp, WriteTemp, ReceiveRange,
                ValidateShard
  <2>4. ASSUME NEW p \in Procs, Start(p) \/ FailRange(p) \/ Kill(p) \/ RunAgain(p)
        PROVE  dest' = dest
    BY <2>4 DEF Start, FailRange, Kill, RunAgain
  <2>. QED  BY <2>1, <2>2, <2>3, <2>4 DEF Next, Launch, vars
<1>. QED  BY <1>1, <1>2, Inductive, PTL
          DEF Spec, ImplementsPublication, Abstract!Spec, Seen

=============================================================================
