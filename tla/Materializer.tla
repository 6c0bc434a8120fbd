---------------------------- MODULE Materializer -----------------------------
(***************************************************************************)
(* Building the runtime checkpoint (tools/materialize_checkpoint.py) and   *)
(* the launcher's gate on it (runtime/serve-glm53-exl3-k3-dcp4).           *)
(*                                                                         *)
(* One process, "main", writes everything: it copies the auxiliary files,  *)
(* rekeys the archive's shards, streams the native ones, and writes the    *)
(* configuration, the index and the receipt.  Workers started with         *)
(* --native-only-shard each stream one native shard, at the same time as   *)
(* each other and before main.  A process may be killed at any step and    *)
(* started again; what it wrote stays.                                     *)
(*                                                                         *)
(* A file is the sequence of chunks written to it; chunk i of the finished *)
(* file is the number i, and Bad is what an interrupted or corrupt         *)
(* response leaves.  A chunk of a native shard is one source range.        *)
(***************************************************************************)
EXTENDS Naturals, Sequences, FiniteSets

CONSTANTS
  Aux,            \* auxiliary files, copied in place
  Rekeyed,        \* shards rekeyed from the archive
  Native,         \* native shards
  Workers,        \* processes that stream one native shard
  ShardOf,        \* the shard of each worker
  Ranges,         \* source ranges in a native shard
  attempts,       \* tries at a range before stream_range gives up (4)
  MaxKills,       \* bound: how often a process is killed
  MaxFaults,      \* bound: how many responses fail
  None, Bad

Shards  == Rekeyed \cup Native
Configs == {"quantization_config", "config"}
Files   == Aux \cup Shards \cup Configs \cup {"index", "receipt"}
Procs   == Workers \cup {"main"}

\* What a file may consist of.
Piece == (1 .. Ranges) \cup {Bad}

ASSUME WorkersDoNotShare ==
  /\ ShardOf \in [Workers -> Native]
  /\ \A v, w \in Workers : v # w => ShardOf[v] # ShardOf[w]
  /\ "main" \notin Workers

ASSUME NamesDistinct ==
  /\ Aux \cap Shards = {} /\ Rekeyed \cap Native = {}
  /\ (Aux \cup Shards) \cap (Configs \cup {"index", "receipt"}) = {}

ASSUME Bounds ==
  /\ Ranges \in Nat \ {0} /\ attempts \in Nat \ {0}
  /\ MaxKills \in Nat /\ MaxFaults \in Nat

ASSUME NoneIsNoContent ==
  None \notin UNION {[1 .. n -> Piece] : n \in 0 .. Ranges + 1}

VARIABLES
  dest,     \* content under each file's final name, or None
  temp,     \* content under its .partial name, or None
  proc,     \* each process: its label, the file at hand, files done, range, try
  kills, faults,
  serving   \* a server is running on the directory

vars == <<dest, temp, proc, kills, faults, serving>>

Chunks(f) == IF f \in Native THEN Ranges ELSE 1
Whole(f)  == [i \in 1 .. Chunks(f) |-> i]

\* A mutant: the receipt is written before the index.
Before_ReceiptEarly(f) ==
  CASE f \in Aux               -> {}
    [] f \in Rekeyed           -> Aux
    [] f \in Native            -> Aux \cup Rekeyed
    [] f = "quantization_config" -> Aux \cup Shards
    [] f = "config"            -> Aux \cup Shards \cup {"quantization_config"}
    [] f = "receipt"           -> Aux \cup Shards \cup Configs
    [] f = "index"             -> Files \ {"index"}

\* The order of the files in a run: a worker stops after its shard.
Before(f) ==
  CASE f \in Aux               -> {}
    [] f \in Rekeyed           -> Aux
    [] f \in Native            -> Aux \cup Rekeyed
    [] f = "quantization_config" -> Aux \cup Shards
    [] f = "config"            -> Aux \cup Shards \cup {"quantization_config"}
    [] f = "index"             -> Aux \cup Shards \cup Configs
    [] f = "receipt"           -> Files \ {"receipt"}

Task(p) == IF p = "main" THEN Files ELSE Aux \cup {ShardOf[p]}

Idle == [at |-> "idle", file |-> None, done |-> {}, range |-> 1, try |-> 1]

Init ==
  /\ dest = [f \in Files |-> None]
  /\ temp = [f \in Files |-> None]
  /\ proc = [p \in Procs |-> Idle]
  /\ kills = 0 /\ faults = 0
  /\ serving = FALSE

Running(p) == proc[p].at \notin {"idle", "done"}

-----------------------------------------------------------------------------
Goto(p, label) == proc' = [proc EXCEPT ![p].at = label]

\* The file at hand is finished.
Finished(p) ==
  proc' = [proc EXCEPT ![p] = [Idle EXCEPT !.at = "next", !.done = proc[p].done \cup {proc[p].file}]]

\* An exception ends the process.
Raise(p) == proc' = [proc EXCEPT ![p] = Idle]

\* The operator starts main when no worker is running, and workers while
\* main is not.
Start(p) ==
  /\ proc[p].at = "idle"
  /\ IF p = "main" THEN \A w \in Workers : ~Running(w) ELSE ~Running("main")
  /\ Goto(p, "next")
  /\ UNCHANGED <<dest, temp, kills, faults, serving>>

\* Take the next file in order.
NextFile(p) ==
  LET left == Task(p) \ proc[p].done
  IN  /\ proc[p].at = "next"
      /\ \/ /\ left = {}
            /\ Goto(p, "done")
         \/ \E f \in left :
              /\ Before(f) \cap Task(p) \subseteq proc[p].done
              /\ proc' = [proc EXCEPT ![p].file = f,
                            ![p].at = IF f \in Aux THEN "aux"
                                      ELSE IF f \in Shards THEN "check" ELSE "open"]
      /\ UNCHANGED <<dest, temp, kills, faults, serving>>

\* A mutant: an existing file is copied again.
CheckAux_Always(p) ==
  /\ proc[p].at = "aux"
  /\ Goto(p, "copy")
  /\ UNCHANGED <<dest, temp, kills, faults, serving>>

\* copy_auxiliary: an existing file must have the source's hash.
CheckAux(p) ==
  LET f == proc[p].file
  IN  /\ proc[p].at = "aux"
      /\ \/ dest[f] = None /\ Goto(p, "copy")
         \/ dest[f] = Whole(f) /\ Finished(p)
         \/ dest[f] \notin {None, Whole(f)} /\ Raise(p)
      /\ UNCHANGED <<dest, temp, kills, faults, serving>>

\* shutil.copy2 opens (and truncates) the destination itself, then fills it.
OpenAux(p) ==
  /\ proc[p].at = "copy"
  /\ dest' = [dest EXCEPT ![proc[p].file] = <<>>]
  /\ Goto(p, "fill")
  /\ UNCHANGED <<temp, kills, faults, serving>>

FillAux(p) ==
  /\ proc[p].at = "fill"
  /\ dest' = [dest EXCEPT ![proc[p].file] = Whole(proc[p].file)]
  /\ Finished(p)
  /\ UNCHANGED <<temp, kills, faults, serving>>

\* validate_existing_*: names and payload size, not content.
Validates(f) == Len(dest[f]) = Chunks(f)

CheckShard(p) ==
  LET f == proc[p].file
  IN  /\ proc[p].at = "check"
      /\ \/ dest[f] = None /\ Goto(p, "open")
         \/ dest[f] # None /\ Validates(f) /\ Finished(p)
         \/ dest[f] # None /\ ~Validates(f) /\ Raise(p)
      /\ UNCHANGED <<dest, temp, kills, faults, serving>>

\* A mutant: the shard is written under its final name.
OpenTemp_InPlace(p) ==
  LET f == proc[p].file
  IN  /\ proc[p].at = "open"
      /\ temp' = [temp EXCEPT ![f] = <<>>]
      /\ dest' = [dest EXCEPT ![f] = IF f \in Shards THEN <<>> ELSE @]
      /\ Goto(p, IF f \in Native THEN "stream" ELSE "write")
      /\ UNCHANGED <<kills, faults, serving>>

\* open("wb") on the .partial name: what an earlier run left is dropped.
OpenTemp(p) ==
  /\ proc[p].at = "open"
  /\ temp' = [temp EXCEPT ![proc[p].file] = <<>>]
  /\ Goto(p, IF proc[p].file \in Native THEN "stream" ELSE "write")
  /\ UNCHANGED <<dest, kills, faults, serving>>

\* A rekeyed payload or a JSON value.
WriteTemp(p) ==
  /\ proc[p].at = "write"
  /\ temp' = [temp EXCEPT ![proc[p].file] = Whole(proc[p].file)]
  /\ Goto(p, "replace")
  /\ UNCHANGED <<dest, kills, faults, serving>>

\* A mutant: an attempt goes on where the one before it stopped.
Rewound_NoTruncate(p) == temp[proc[p].file]

\* Every attempt seeks back to where the range starts and truncates.
Rewound(p) == SubSeq(temp[proc[p].file], 1, proc[p].range - 1)

\* stream_range: the bytes and their hash are those of the range.
ReceiveRange(p) ==
  LET last == proc[p].range = Ranges
  IN  /\ proc[p].at = "stream"
      /\ temp' = [temp EXCEPT ![proc[p].file] = Append(Rewound(p), proc[p].range)]
      /\ proc' = [proc EXCEPT ![p].try = 1,
                    ![p].range = IF last THEN @ ELSE @ + 1,
                    ![p].at = IF last THEN "replace" ELSE "stream"]
      /\ UNCHANGED <<dest, kills, faults, serving>>

\* The response fails before or after some bytes were written.
FailRange(p) ==
  /\ proc[p].at = "stream" /\ faults < MaxFaults
  /\ faults' = faults + 1
  /\ \E written \in {Rewound(p), Append(Rewound(p), Bad)} :
       temp' = [temp EXCEPT ![proc[p].file] = written]
  /\ IF proc[p].try = attempts THEN Raise(p)
     ELSE proc' = [proc EXCEPT ![p].try = @ + 1]
  /\ UNCHANGED <<dest, kills, serving>>

\* flush, fsync, os.replace.
Replace(p) ==
  LET f == proc[p].file
  IN  /\ proc[p].at = "replace"
      /\ dest' = [dest EXCEPT ![f] = temp[f]]
      /\ temp' = [temp EXCEPT ![f] = None]
      /\ IF f \in Shards THEN Goto(p, "validate") ELSE Finished(p)
      /\ UNCHANGED <<kills, faults, serving>>

ValidateShard(p) ==
  /\ proc[p].at = "validate"
  /\ IF Validates(proc[p].file) THEN Finished(p) ELSE Raise(p)
  /\ UNCHANGED <<dest, temp, kills, faults, serving>>

\* The process is killed; both files keep what had been written.
Kill(p) ==
  /\ Running(p) /\ kills < MaxKills
  /\ kills' = kills + 1
  /\ Raise(p)
  /\ UNCHANGED <<dest, temp, faults, serving>>

\* An operator may run any job again over a finished checkpoint.
RunAgain(p) ==
  /\ proc[p].at = "done"
  /\ dest["receipt"] # None
  /\ proc' = [proc EXCEPT ![p] = Idle]
  /\ UNCHANGED <<dest, temp, kills, faults, serving>>

\* The launcher starts the server when the receipt is there and says what
\* main always writes into it; it reads no other file.
Launch ==
  /\ dest["receipt"] # None
  /\ serving' = TRUE
  /\ UNCHANGED <<dest, temp, proc, kills, faults>>

Step(p) ==
  \/ NextFile(p)
  \/ CheckAux(p)
  \/ OpenAux(p)
  \/ FillAux(p)
  \/ CheckShard(p)
  \/ OpenTemp(p)
  \/ WriteTemp(p)
  \/ ReceiveRange(p)
  \/ Replace(p)
  \/ ValidateShard(p)

Next ==
  \/ \E p \in Procs : Step(p) \/ Start(p) \/ FailRange(p) \/ Kill(p) \/ RunAgain(p)
  \/ Launch

\* A process that runs goes on; an operator who has no checkpoint yet runs
\* main again, as soon as nothing else is running.
Fairness ==
  /\ \A p \in Procs : WF_vars(Step(p))
  /\ SF_vars(Start("main"))

Spec == Init /\ [][Next]_vars /\ Fairness

-----------------------------------------------------------------------------
Content(f) == {None} \cup UNION {[1 .. n -> Piece] : n \in 0 .. Chunks(f) + 1}

TypeOK ==
  /\ \A f \in Files : dest[f] \in Content(f) /\ temp[f] \in Content(f)
  /\ \A p \in Procs :
       /\ proc[p].at \in {"idle", "next", "aux", "copy", "fill", "check", "open", "write",
                          "stream", "replace", "validate", "done"}
       /\ proc[p].done \subseteq Task(p)
       /\ proc[p].range \in 1 .. Ranges /\ proc[p].try \in 1 .. attempts
  /\ kills \in 0 .. MaxKills /\ faults \in 0 .. MaxFaults
  /\ serving \in BOOLEAN

Complete(f) == dest[f] = Whole(f)

\* A weight shard or a JSON file under its final name is whole at every
\* moment, whatever was killed, refused or retried while it was written:
\* the size check that later runs trust never meets a file it would wrongly
\* accept.
FinalFilesWhole == \A f \in Files \ Aux : dest[f] # None => Complete(f)

\* The receipt stands only over a directory in which every file it speaks
\* for, and every auxiliary file, is whole, also while jobs are run again.
ReceiptMeansComplete == dest["receipt"] # None => \A f \in Files : Complete(f)

\* A final name never stands over a partial file, nor the receipt over a partial
\* directory.
FilesSound == TypeOK /\ FinalFilesWhole /\ ReceiptMeansComplete

\* While a server runs on the directory no job that is started, killed or
\* started again changes the content of any file under it.
ServedFilesStay == [][serving => dest' = dest]_vars

WholeFiles == {f \in Aux \cup Shards \cup Configs : Complete(f)}

Abstract == INSTANCE Publication WITH
  Small <- Aux, Weights <- Shards, whole <- WholeFiles,
  indexed <- dest["index"] # None, receipted <- dest["receipt"] # None

\* The order of publication: weights and configuration, index, receipt.
ImplementsPublication == Abstract!Spec

\* Kills and failed responses only delay the receipt, with one exception:
\* an auxiliary file is copied in place, and one that a kill left cut short
\* stops every later run until somebody removes it.
Converges ==
  <>(dest["receipt"] # None \/ \E f \in Aux : dest[f] = <<>> /\ kills > 0)

=============================================================================
